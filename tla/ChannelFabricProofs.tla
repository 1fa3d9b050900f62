------------------------- MODULE ChannelFabricProofs -------------------------
(* Proofs about ChannelFabric, for every number of endpoints, every limit  *)
(* and any mixture of requests: the handles stay paired, so the lookups    *)
(* that the code does not check never fail, no sender gets ahead of its    *)
(* credit, an id is used for one thing at a time, clients are told of      *)
(* every channel that begins or ends, in order, every watch is answered    *)
(* with what its name is, and no payload is lost or repeated.              *)
EXTENDS ChannelFabric, WellFoundedInduction, SequenceTheorems, FiniteSetTheorems,
        TLAPS

(* What the steps need: the counters of a handle are numbers, the sender   *)
(* is within its credit, and the handles and names match up.               *)
HandleInv ==
  \A k \in DOMAIN handles :
    /\ handles[k].sent \in Nat /\ handles[k].acked \in Nat
    /\ handles[k].acked =< handles[k].sent
    /\ handles[k].sent =< handles[k].acked + Window

FabricInv == HandlesArePaired /\ HandleInv

(* Removing a set of handles that contains the partner of each of its      *)
(* members (close_pair, close_endpoint) keeps the rest paired.             *)
LEMMA RemovalKeepsInv ==
  ASSUME FabricInv, NEW S,
         \A k \in S \cap DOMAIN handles : handles[k].peer \in S,
         NEW L, listeners' = Without(listeners, L),
         handles' = Without(handles, S)
  PROVE  FabricInv'
<1>1. /\ DOMAIN handles' = DOMAIN handles \ S
      /\ \A x \in DOMAIN handles' : handles'[x] = handles[x]
      /\ DOMAIN listeners' = DOMAIN listeners \ L
      /\ \A x \in DOMAIN listeners' : listeners'[x] = listeners[x]
  BY DEF Without
<1>2. HandleInv'
  BY <1>1 DEF FabricInv, HandleInv
<1>3. \A k, l \in DOMAIN listeners' : listeners'[k].name = listeners'[l].name => k = l
  BY <1>1 DEF FabricInv, HandlesArePaired
<1>4. ASSUME NEW k \in DOMAIN handles'
      PROVE  /\ handles'[k].peer \in DOMAIN handles' \ {k}
             /\ handles'[handles'[k].peer].peer = k
             /\ handles'[handles'[k].peer].pair = handles'[k].pair
  <2> DEFINE p == handles[k].peer
  <2>1. p \in DOMAIN handles \ {k} /\ handles[p].peer = k /\ handles[p].pair = handles[k].pair
    BY <1>1, <1>4 DEF FabricInv, HandlesArePaired
  <2>2. p \notin S
    BY <2>1, <1>1, <1>4
  <2>. QED BY <2>1, <2>2, <1>1, <1>4
<1>. QED BY <1>2, <1>3, <1>4 DEF FabricInv, HandlesArePaired

(* A step that leaves listeners and handles alone keeps the invariant.     *)
LEMMA IdleKeepsInv ==
  ASSUME FabricInv, UNCHANGED <<listeners, handles>>
  PROVE  FabricInv'
BY DEF FabricInv, HandlesArePaired, HandleInv

(* Closing whatever a key names (close, protocol_violation).               *)
LEMMA TerminateKeepsInv ==
  ASSUME FabricInv, NEW k,
         listeners' = Terminate(k).ls, handles' = Terminate(k).hs
  PROVE  FabricInv'
<1>1. CASE k \in DOMAIN listeners
  <2>1. listeners' = Without(listeners, {k}) /\ handles' = handles
    BY <1>1 DEF Terminate
  <2>2. /\ DOMAIN listeners' = DOMAIN listeners \ {k}
        /\ \A x \in DOMAIN listeners' : listeners'[x] = listeners[x]
    BY <2>1 DEF Without
  <2>. QED BY <2>1, <2>2 DEF FabricInv, HandlesArePaired, HandleInv
<1>2. CASE k \notin DOMAIN listeners /\ k \in DOMAIN handles
  <2>1. listeners' = listeners /\ handles' = Without(handles, {k, Partner(k)})
    BY <1>2 DEF Terminate
  <2>2. \A x \in {k, Partner(k)} \cap DOMAIN handles : handles[x].peer \in {k, Partner(k)}
    BY <1>2 DEF FabricInv, HandlesArePaired, Partner
  <2>3. DOMAIN handles' = DOMAIN handles \ {k, Partner(k)}
        /\ \A x \in DOMAIN handles' : handles'[x] = handles[x]
    BY <2>1 DEF Without
  <2>4. HandleInv'
    BY <2>3 DEF FabricInv, HandleInv
  <2>5. ASSUME NEW x \in DOMAIN handles'
        PROVE  /\ handles'[x].peer \in DOMAIN handles' \ {x}
               /\ handles'[handles'[x].peer].peer = x
               /\ handles'[handles'[x].peer].pair = handles'[x].pair
    BY <2>2, <2>3, <2>5 DEF FabricInv, HandlesArePaired
  <2>. QED BY <2>1, <2>4, <2>5 DEF FabricInv, HandlesArePaired
<1>3. CASE k \notin DOMAIN listeners /\ k \notin DOMAIN handles
  BY <1>3, IdleKeepsInv DEF Terminate
<1>. QED BY <1>1, <1>2, <1>3

(* A new listener: its name was free.                                      *)
LEMMA ListenKeepsInv ==
  ASSUME FabricInv, NEW k, NEW name, Listen(k, name)
  PROVE  FabricInv'
<1>1. CASE UNCHANGED listeners
  BY <1>1, IdleKeepsInv DEF Listen
<1>2. CASE ~CannotListen(k, name) /\ listeners' = With(listeners, k, [name |-> name, gen |-> generation])
  <2>1. /\ DOMAIN listeners' = DOMAIN listeners \cup {k}
        /\ listeners'[k] = [name |-> name, gen |-> generation]
        /\ \A x \in DOMAIN listeners \ {k} : listeners'[x] = listeners[x]
    BY <1>2 DEF With
  <2>2. \A l \in DOMAIN listeners : listeners[l].name # name
    BY <1>2 DEF CannotListen
  <2>3. handles' = handles
    BY DEF Listen
  <2>. QED BY <2>1, <2>2, <2>3 DEF FabricInv, HandlesArePaired, HandleInv
<1>. QED BY <1>1, <1>2 DEF Listen

(* A new pair: both keys were free and differ, for a client's id is even   *)
(* and the server's is odd.                                                *)
LEMMA CommitKeepsInv ==
  ASSUME FabricInv, ChannelAssumption, UNCHANGED listeners,
         NEW k \in Endpoints \X ClientIds, NEW e, NEW i \in FreeServerIds(e), NEW o,
         ~Live(k), Commit(k, <<e, i>>, o)
  PROVE  FabricInv'
<1> DEFINE a == <<e, i>>
           p == Len(pairs) + 1
<1>1. k \notin DOMAIN handles /\ a \notin DOMAIN handles
  BY DEF FreeServerIds, Live
<1>2. k # a
  <2>1. k[2] % 2 = 0 BY DEF ChannelAssumption
  <2>2. i % 2 = 1 BY DEF FreeServerIds
  <2>. QED BY <2>1, <2>2
<1>3. handles' = With(With(handles, k, NewHandle(a, p)), a, NewHandle(k, p))
  BY DEF Commit
<1> HIDE DEF a, p
<1>4. /\ DOMAIN handles' = DOMAIN handles \cup {k, a}
      /\ handles'[k] = NewHandle(a, p) /\ handles'[a] = NewHandle(k, p)
      /\ \A x \in DOMAIN handles : handles'[x] = handles[x]
  <2>1. DOMAIN With(handles, k, NewHandle(a, p)) = DOMAIN handles \cup {k}
        /\ \A x \in DOMAIN handles \cup {k} :
              With(handles, k, NewHandle(a, p))[x] = IF x = k THEN NewHandle(a, p) ELSE handles[x]
    BY DEF With
  <2>2. DOMAIN handles' = DOMAIN With(handles, k, NewHandle(a, p)) \cup {a}
        /\ \A x \in DOMAIN With(handles, k, NewHandle(a, p)) \cup {a} :
              handles'[x] = IF x = a THEN NewHandle(k, p) ELSE With(handles, k, NewHandle(a, p))[x]
    BY <1>3 DEF With
  <2>. QED BY <1>1, <1>2, <2>1, <2>2
<1>5. /\ handles'[k].peer = a /\ handles'[a].peer = k
      /\ handles'[k].pair = p /\ handles'[a].pair = p
      /\ handles'[k].sent = 0 /\ handles'[a].sent = 0
      /\ handles'[k].acked = 0 /\ handles'[a].acked = 0
  BY <1>4 DEF NewHandle
<1>6. HandleInv'
  <2>1. Window \in Nat
    BY DEF ChannelAssumption
  <2>. SUFFICES ASSUME NEW x \in DOMAIN handles'
                PROVE  /\ handles'[x].sent \in Nat /\ handles'[x].acked \in Nat
                       /\ handles'[x].acked =< handles'[x].sent
                       /\ handles'[x].sent =< handles'[x].acked + Window
    BY DEF HandleInv
  <2>2. CASE x \in DOMAIN handles
    <3>1. handles'[x] = handles[x]
      BY <1>4, <2>2
    <3>. QED BY <2>2, <3>1 DEF FabricInv, HandleInv
  <2>3. CASE x = k
    BY <2>1, <2>3, <1>5
  <2>4. CASE x = a
    BY <2>1, <2>4, <1>5
  <2>. QED BY <2>2, <2>3, <2>4, <1>4
<1>7. ASSUME NEW x \in DOMAIN handles'
      PROVE  /\ handles'[x].peer \in DOMAIN handles' \ {x}
             /\ handles'[handles'[x].peer].peer = x
             /\ handles'[handles'[x].peer].pair = handles'[x].pair
  <2>1. CASE x \in DOMAIN handles
    <3>1. /\ handles[x].peer \in DOMAIN handles \ {x}
          /\ handles[handles[x].peer].peer = x
          /\ handles[handles[x].peer].pair = handles[x].pair
      BY <2>1 DEF FabricInv, HandlesArePaired
    <3>. QED BY <2>1, <3>1, <1>4
  <2>2. CASE x = k
    BY <2>2, <1>2, <1>4, <1>5
  <2>3. CASE x = a
    BY <2>3, <1>2, <1>4, <1>5
  <2>. QED BY <2>1, <2>2, <2>3, <1>4
<1>. QED BY <1>6, <1>7 DEF FabricInv, HandlesArePaired

(* An update of one handle that keeps its peer and pair.                   *)
LEMMA UpdateKeepsInv ==
  ASSUME FabricInv, UNCHANGED listeners,
         NEW k \in DOMAIN handles, NEW h, handles' = [handles EXCEPT ![k] = h],
         h.peer = handles[k].peer, h.pair = handles[k].pair,
         h.sent \in Nat, h.acked \in Nat, h.acked =< h.sent, h.sent =< h.acked + Window
  PROVE  FabricInv'
<1>1. DOMAIN handles' = DOMAIN handles /\ handles'[k] = h
      /\ \A x \in DOMAIN handles \ {k} : handles'[x] = handles[x]
  OBVIOUS
<1>2. HandleInv'
  BY <1>1 DEF FabricInv, HandleInv
<1>3. \A x \in DOMAIN handles : handles'[x].peer = handles[x].peer
                               /\ handles'[x].pair = handles[x].pair
  BY <1>1
<1>. QED BY <1>1, <1>2, <1>3 DEF FabricInv, HandlesArePaired

(* Data is charged against the credit of its sender.                       *)
LEMMA DataKeepsInv ==
  ASSUME FabricInv, ChannelAssumption, NEW k, NEW n \in Sizes, Data(k, n)
  PROVE  FabricInv'
<1>1. CASE k \in DOMAIN handles /\ InCredit(handles[k], n)
  <2>1. handles' = [handles EXCEPT ![k] = Sent(handles[k], n)] /\ UNCHANGED listeners
    BY <1>1 DEF Data
  <2> DEFINE h == Sent(handles[k], n)
  <2>2. n \in Nat /\ Window \in Nat
    BY DEF ChannelAssumption
  <2>3. handles[k].sent \in Nat /\ handles[k].acked \in Nat /\ handles[k].acked =< handles[k].sent
    BY <1>1 DEF FabricInv, HandleInv
  <2>4. /\ h.peer = handles[k].peer /\ h.pair = handles[k].pair
        /\ h.sent = handles[k].sent + n /\ h.acked = handles[k].acked
    BY DEF Sent
  <2>5. handles[k].sent + n =< handles[k].acked + Window
    BY <1>1 DEF InCredit
  <2> HIDE DEF h
  <2>6. h.sent \in Nat /\ h.acked \in Nat /\ h.acked =< h.sent /\ h.sent =< h.acked + Window
    BY <2>2, <2>3, <2>4, <2>5
  <2>. QED BY <1>1, <2>1, <2>4, <2>6, UpdateKeepsInv DEF h
<1>2. CASE ~(k \in DOMAIN handles /\ InCredit(handles[k], n))
  BY <1>2, TerminateKeepsInv DEF Data, Terminated
<1>. QED BY <1>1, <1>2

(* An ack gives back no more than was charged.                             *)
LEMMA AckKeepsInv ==
  ASSUME FabricInv, ChannelAssumption, NEW k, NEW bytes \in 0..MaxSent, Ack(k, bytes)
  PROVE  FabricInv'
<1>1. CASE k \in DOMAIN handles /\ AckIsValid(handles[Partner(k)], bytes)
  <2> DEFINE p == Partner(k)
             h == Acked(handles[p], bytes)
  <2>1. handles' = [handles EXCEPT ![p] = h] /\ UNCHANGED listeners
    BY <1>1 DEF Ack
  <2>2. p \in DOMAIN handles
    BY <1>1 DEF FabricInv, HandlesArePaired, Partner
  <2>3. /\ handles[p].sent \in Nat /\ handles[p].acked \in Nat
        /\ handles[p].acked =< handles[p].sent /\ handles[p].sent =< handles[p].acked + Window
    BY <2>2 DEF FabricInv, HandleInv
  <2>4. bytes \in Nat /\ handles[p].acked =< bytes /\ bytes =< handles[p].sent
    BY <1>1, <2>3 DEF AckIsValid, ChannelAssumption
  <2>5. /\ h.peer = handles[p].peer /\ h.pair = handles[p].pair
        /\ h.sent = handles[p].sent /\ h.acked = bytes
    BY DEF Acked
  <2>7. Window \in Nat
    BY DEF ChannelAssumption
  <2> HIDE DEF h, p
  <2>6. h.sent \in Nat /\ h.acked \in Nat /\ h.acked =< h.sent /\ h.sent =< h.acked + Window
    BY <2>3, <2>4, <2>5, <2>7
  <2>. QED BY <2>1, <2>2, <2>5, <2>6, UpdateKeepsInv
<1>2. CASE ~(k \in DOMAIN handles /\ AckIsValid(handles[Partner(k)], bytes))
  BY <1>2, TerminateKeepsInv DEF Ack, Terminated
<1>. QED BY <1>1, <1>2

(* A connect pairs two fresh slots, or none.                               *)
LEMMA ConnectKeepsInv ==
  ASSUME FabricInv, ChannelAssumption, NEW k \in Endpoints \X ClientIds,
         NEW name, NEW token, Connect(k, name, token)
  PROVE  FabricInv'
<1>0. UNCHANGED listeners
  BY DEF Connect
<1>1. CASE UNCHANGED handles
  BY <1>0, <1>1, IdleKeepsInv
<1>2. CASE ~NoServiceFor(k, name, token)
             /\ \E l \in DOMAIN listeners : \E i \in FreeServerIds(l[1]) :
                   Commit(k, <<l[1], i>>, ReservePair(k[1], l[1]).o)
  <2>1. ~Live(k)
    BY <1>2 DEF NoServiceFor
  <2>. QED BY <1>0, <1>2, <2>1, CommitKeepsInv
<1>3. \/ UNCHANGED handles
      \/ /\ ~NoServiceFor(k, name, token)
         /\ \E l \in DOMAIN listeners : \E i \in FreeServerIds(l[1]) :
               Commit(k, <<l[1], i>>, ReservePair(k[1], l[1]).o)
  BY Zenon DEF Connect
<1>. QED BY <1>1, <1>2, <1>3

(* A departing endpoint takes its slots and closes their peers.            *)
LEMMA DepartKeepsInv ==
  ASSUME FabricInv, NEW e, Depart(e)
  PROVE  FabricInv'
<1> DEFINE own == Of(e, handles)
           survivors == {Partner(k) : k \in own} \ own
           S == own \cup survivors
<1>1. handles' = Without(handles, S) /\ listeners' = Without(listeners, Of(e, listeners))
  BY DEF Depart
<1>2. \A k \in S \cap DOMAIN handles : handles[k].peer \in S
  <2>1. ASSUME NEW k \in own PROVE handles[k].peer \in S
    BY DEF Partner
  <2>2. ASSUME NEW k \in survivors PROVE handles[k].peer \in S
    <3>1. PICK x \in own : k = handles[x].peer
      BY DEF Partner
    <3>2. handles[k].peer = x
      BY <3>1 DEF Of, FabricInv, HandlesArePaired
    <3>. QED BY <3>2
  <2>. QED BY <2>1, <2>2
<1>. QED BY <1>1, <1>2, RemovalKeepsInv

(* A malformed message changes no slot.                                    *)
LEMMA MalformedKeepsInv ==
  ASSUME FabricInv, NEW k, NEW isOpen \in BOOLEAN, Malformed(k, isOpen)
  PROVE  FabricInv'
<1>1. CASE isOpen
  BY <1>1, IdleKeepsInv DEF Malformed
<1>2. CASE ~isOpen
  BY <1>2, TerminateKeepsInv DEF Malformed
<1>. QED BY <1>1, <1>2

(* Every step keeps the inductive invariant.                               *)
LEMMA FabricStep ==
  ASSUME FabricInv, ChannelAssumption, [Next]_vars
  PROVE  FabricInv'
<1>1. CASE UNCHANGED vars
  BY <1>1, IdleKeepsInv DEF vars, registry
<1>2. ASSUME NEW k \in Endpoints \X ClientIds, NEW name \in Names, Listen(k, name)
      PROVE  FabricInv'
  BY <1>2, ListenKeepsInv
<1>3. ASSUME NEW k \in Endpoints \X ClientIds, NEW name \in Names,
             NEW token \in 0..generation - 1, Connect(k, name, token)
      PROVE  FabricInv'
  BY <1>3, ConnectKeepsInv
<1>4. ASSUME NEW k, NEW S, Watch(k, S)
      PROVE  FabricInv'
  BY <1>4, IdleKeepsInv DEF Watch
<1>5. ASSUME NEW k, Unwatch(k) \/ Refuse(k)
      PROVE  FabricInv'
  BY <1>5, IdleKeepsInv DEF Unwatch, Refuse, registry
<1>6. ASSUME NEW k, NEW n \in Sizes, Data(k, n)
      PROVE  FabricInv'
  BY <1>6, DataKeepsInv
<1>7. ASSUME NEW k, NEW bytes \in 0..MaxSent, Ack(k, bytes)
      PROVE  FabricInv'
  BY <1>7, AckKeepsInv
<1>8. ASSUME NEW k, Close(k)
      PROVE  FabricInv'
  BY <1>8, TerminateKeepsInv DEF Close, Terminated
<1>9. ASSUME NEW k, NEW isOpen \in BOOLEAN, Malformed(k, isOpen)
      PROVE  FabricInv'
  BY <1>9, MalformedKeepsInv
<1>10. CASE BeginShutdown
  BY <1>10, IdleKeepsInv DEF BeginShutdown, registry
<1>11. ASSUME NEW e, Depart(e)
       PROVE  FabricInv'
  BY <1>11, DepartKeepsInv
<1>12. ASSUME NEW e, Write(e) \/ Release(e) \/ WriterEnds(e)
       PROVE  FabricInv'
  BY <1>12, IdleKeepsInv DEF Write, Release, WriterEnds, registry
<1>. QED BY <1>1, <1>2, <1>3, <1>4, <1>5, <1>6, <1>7, <1>8, <1>9, <1>10, <1>11, <1>12
         DEF Next, Request

(* A fabric without channels satisfies the invariant.                      *)
LEMMA FabricInit == Init => FabricInv
BY DEF Init, FabricInv, HandlesArePaired, HandleInv

(* The inductive invariant holds throughout.                               *)
LEMMA FabricInvariant == Spec => []FabricInv
<1>1. FabricInv /\ [Next]_vars => FabricInv'
  BY ChannelAssumption, FabricStep
<1>. QED BY FabricInit, <1>1, PTL DEF Spec

(* Every handle has its partner and every name one listener, whatever      *)
(* clients send and in whatever order connections fail: the lookups of     *)
(* connect, data and ack that would panic always succeed.                  *)
THEOREM PairingHolds == Spec => []HandlesArePaired
<1>1. FabricInv => HandlesArePaired
  BY DEF FabricInv
<1>. QED BY FabricInvariant, <1>1, PTL

(* No sender is ahead of its window or behind its acknowledgements.        *)
THEOREM CreditHolds == Spec => []WithinCredit
<1>1. FabricInv => WithinCredit
  BY DEF FabricInv, HandleInv, WithinCredit
<1>. QED BY FabricInvariant, <1>1, PTL

-----------------------------------------------------------------------------
(* Folds.                                                                  *)

(* What holds of 0 and passes from each number to the next, up to n.       *)
LEMMA UpTo ==
  ASSUME NEW n \in Nat, NEW S, 0 \in S, \A i \in 1 .. n : i - 1 \in S => i \in S
  PROVE  0 .. n \subseteq S
<1> DEFINE T == (0 .. n) \ S
<1> SUFFICES ASSUME T # {} PROVE FALSE
  OBVIOUS
<1>1. T \subseteq Nat
  OBVIOUS
<1>2. PICK t \in T : \A u \in T : ~ (<<u, t>> \in OpToRel(<, Nat))
  BY <1>1, NatLessThanWellFounded, WFMin
<1>3. t \in 0 .. n /\ t \notin S /\ t # 0
  BY <1>2
<1>4. t - 1 \notin T
  <2>1. t - 1 < t /\ t - 1 \in Nat /\ t \in Nat
    BY <1>3
  <2> QED BY <1>2, <2>1 DEF OpToRel
<1> QED BY <1>3, <1>4

(* The largest number of an initial segment, and what is left without it.  *)
LEMMA MaxOfSegment ==
  ASSUME NEW i \in Nat \ {0}
  PROVE  Max(1 .. i) = i /\ (1 .. i) \ {i} = 1 .. i - 1
BY DEF Max

(* Adding a number larger than all of a set.                               *)
LEMMA MaxOfLarger ==
  ASSUME NEW m \in Nat, NEW s \in SUBSET (1 .. m + 1), m + 1 \in s
  PROVE  Max(s) = m + 1 /\ s \ {m + 1} \in SUBSET (1 .. m)
<1>1. \A y \in s : m + 1 >= y /\ y \in Int
  OBVIOUS
<1>2. \E x \in s : \A y \in s : x >= y
  BY <1>1
<1>3. Max(s) \in s /\ \A y \in s : Max(s) >= y
  BY <1>2 DEF Max
<1>4. PICK x : x = Max(s)
  OBVIOUS
<1>5. x \in s /\ x >= m + 1
  BY <1>3, <1>4
<1>6. x = m + 1
  BY <1>1, <1>5
<1> QED BY <1>1, <1>4, <1>6

(* The outboxes after n deliveries, sent one after the other.              *)
Sending(o, ds) == FoldLeft(Send, o, ds)

SendPath(o, ds, n, path) ==
  /\ DOMAIN path = 0 .. n /\ path[0] = o
  /\ \A i \in 1 .. n : path[i] = Send(path[i - 1], ds[i])
  /\ Sending(o, ds) = path[n]

(* The fold that sends them takes one delivery per step, in their order.   *)
LEMMA SendFold ==
  ASSUME NEW n \in Nat, NEW ds, DOMAIN ds = 1 .. n, NEW o
  PROVE  \E path : SendPath(o, ds, n, path)
<1> DEFINE Iter(g, m) == g = [s \in SUBSET (1 .. m) |->
             IF s = {} THEN o ELSE Send(g[s \ {Max(s)}], ds[Max(s)])]
<1>1. \E g : Iter(g, n)
  <2> DEFINE S == {m \in 0 .. n : \E g : Iter(g, m)}
  <2>1. 0 \in S
    <3> DEFINE z == [s \in SUBSET (1 .. 0) |-> o]
    <3>1. \A s \in SUBSET (1 .. 0) : s = {}
      OBVIOUS
    <3>2. \A s \in SUBSET (1 .. 0) :
            z[s] = IF s = {} THEN o ELSE Send(z[s \ {Max(s)}], ds[Max(s)])
      BY <3>1
    <3>3. Iter(z, 0)
      BY <3>2
    <3> HIDE DEF Iter, z
    <3> QED BY <3>3
  <2>2. ASSUME NEW j \in 1 .. n, j - 1 \in S PROVE j \in S
    <3>1. PICK m \in Nat : j = m + 1
      BY <2>2
    <3>2. PICK g : Iter(g, m)
      <4> HIDE DEF Iter
      <4> QED BY <2>2, <3>1
    <3> DEFINE h == [s \in SUBSET (1 .. m + 1) |->
                 IF m + 1 \in s THEN Send(g[s \ {m + 1}], ds[m + 1]) ELSE g[s]]
    <3>3. ASSUME NEW s \in SUBSET (1 .. m + 1)
          PROVE  h[s] = IF s = {} THEN o ELSE Send(h[s \ {Max(s)}], ds[Max(s)])
      <4>1. CASE m + 1 \in s
        <5>1. Max(s) = m + 1 /\ s \ {m + 1} \in SUBSET (1 .. m)
          BY <3>1, <4>1, MaxOfLarger
        <5>2. s \ {m + 1} \in SUBSET (1 .. m + 1) /\ m + 1 \notin s \ {m + 1}
          OBVIOUS
        <5>3. h[s \ {m + 1}] = g[s \ {m + 1}]
          BY <5>2
        <5>4. h[s] = Send(g[s \ {m + 1}], ds[m + 1])
          BY <4>1
        <5> HIDE DEF h
        <5> QED BY <4>1, <5>1, <5>3, <5>4
      <4>2. CASE m + 1 \notin s
        <5>1. s \in SUBSET (1 .. m)
          BY <3>1, <4>2
        <5>2. g[s] = IF s = {} THEN o ELSE Send(g[s \ {Max(s)}], ds[Max(s)])
          BY <3>2, <5>1
        <5>3. h[s] = g[s] /\ h[s \ {Max(s)}] = g[s \ {Max(s)}]
          BY <4>2
        <5> QED BY <5>2, <5>3
      <4> QED BY <4>1, <4>2
    <3>4. Iter(h, m + 1)
      BY <3>3
    <3> HIDE DEF h, Iter
    <3> QED BY <3>1, <3>4
  <2> HIDE DEF Iter
  <2>3. 0 .. n \subseteq S
    <3> HIDE DEF S
    <3> QED BY <2>1, <2>2, UpTo
  <2> QED BY <2>3
<1>2. PICK it : it = CHOOSE g : Iter(g, n)
  OBVIOUS
<1>3. Iter(it, n)
  <2> HIDE DEF Iter
  <2> QED BY <1>1, <1>2
<1>4. Sending(o, ds) = it[1 .. n]
  BY <1>2 DEF Sending, FoldLeft, MapThenFoldSet
<1> DEFINE path == [i \in 0 .. n |-> it[1 .. i]]
<1>5. it[{}] = o /\ path[0] = o
  BY <1>3
<1>6. ASSUME NEW i \in 1 .. n PROVE path[i] = Send(path[i - 1], ds[i])
  <2>1. Max(1 .. i) = i /\ (1 .. i) \ {i} = 1 .. i - 1
    BY MaxOfSegment
  <2>2. 1 .. i \in SUBSET (1 .. n) /\ 1 .. i # {} /\ i - 1 \in 0 .. n /\ i \in 0 .. n
    OBVIOUS
  <2>3. it[1 .. i] = Send(it[(1 .. i) \ {Max(1 .. i)}], ds[Max(1 .. i)])
    BY <1>3, <2>2
  <2> QED BY <2>1, <2>2, <2>3
<1>7. n \in 0 .. n /\ path[n] = it[1 .. n]
  OBVIOUS
<1> HIDE DEF path
<1>8. DOMAIN path = 0 .. n
  BY DEF path
<1>9. SendPath(o, ds, n, path)
  BY <1>4, <1>5, <1>6, <1>7, <1>8 DEF SendPath
<1> QED BY <1>9

-----------------------------------------------------------------------------
(* What a request sends.                                                   *)

Kinds     == {"opened", "accepted", "failed", "closed", "data", "ack", "names"}
FrameType == [kind : Kinds, id : Ids, of : Int, n : Nat, names : SUBSET Names,
              guard : BOOLEAN, slot : BOOLEAN, drain : BOOLEAN]
Delivery  == [ep : Endpoints, frame : FrameType, reserved : BOOLEAN]
QueueType == [Endpoints -> Seq(FrameType)]
Outbox    == [used : [Endpoints -> Nat], open : SUBSET Endpoints, queue : QueueType]

(* A slot of an outbox is charged, or the outbox is closed: what is queued *)
(* stays.                                                                  *)
LEMMA ChargeKeeps ==
  ASSUME NEW o \in Outbox, NEW e \in Endpoints
  PROVE  /\ Charge(o, e) \in Outbox /\ Charge(o, e).queue = o.queue
         /\ IF Room(o, e) THEN Charge(o, e).open = o.open ELSE Charge(o, e).open = o.open \ {e}
<1>1. CASE Room(o, e)
  <2>1. Charge(o, e) = [o EXCEPT !.used = [o.used EXCEPT ![e] = o.used[e] + 1]]
    BY <1>1 DEF Charge
  <2>2. [o.used EXCEPT ![e] = o.used[e] + 1] \in [Endpoints -> Nat]
    BY DEF Outbox
  <2> QED BY <1>1, <2>1, <2>2 DEF Outbox
<1>2. CASE ~Room(o, e)
  <2>1. Charge(o, e) = [o EXCEPT !.open = o.open \ {e}]
    BY <1>2 DEF Charge
  <2> QED BY <1>2, <2>1 DEF Outbox
<1> QED BY <1>1, <1>2

(* A delivery is appended to the queue of its endpoint, or is dropped and  *)
(* closes that outbox. A reserved one finds its slot also when the outbox  *)
(* has been closed since.                                                  *)
Appended(o, u, d) ==
  /\ d.ep \in alive /\ (d.reserved \/ d.ep \in o.open)
  /\ u.open = o.open
  /\ u.queue = [o.queue EXCEPT ![d.ep] = Append(o.queue[d.ep], d.frame)]

(* So one delivery does one of the two.                                    *)
LEMMA SendOne ==
  ASSUME NEW o \in Outbox, NEW d \in Delivery
  PROVE  /\ Send(o, d) \in Outbox
         /\ \/ Appended(o, Send(o, d), d)
            \/ Send(o, d).open = o.open \ {d.ep} /\ Send(o, d).queue = o.queue
<1>1. d.ep \in Endpoints /\ d.frame \in FrameType
  BY DEF Delivery
<1>2. CASE d.ep \notin alive \/ ~(d.reserved \/ Room(o, d.ep))
  <2>1. Send(o, d) = [o EXCEPT !.open = o.open \ {d.ep}]
    BY <1>2 DEF Send
  <2> QED BY <2>1 DEF Outbox
<1>3. CASE ~(d.ep \notin alive \/ ~(d.reserved \/ Room(o, d.ep)))
  <2>1. PICK c : c = IF d.reserved THEN o ELSE Charge(o, d.ep)
    OBVIOUS
  <2>2. c \in Outbox /\ c.queue = o.queue /\ c.open = o.open
    BY <1>1, <1>3, <2>1, ChargeKeeps
  <2>3. PICK q : q = [o.queue EXCEPT ![d.ep] = Append(o.queue[d.ep], d.frame)]
    OBVIOUS
  <2>4. q \in QueueType
    BY <1>1, <2>3 DEF Outbox, QueueType
  <2>5. Send(o, d) = [c EXCEPT !.queue = q]
    BY <1>3, <2>1, <2>2, <2>3 DEF Send
  <2>6. Send(o, d) \in Outbox /\ Send(o, d).open = c.open /\ Send(o, d).queue = q
    BY <2>2, <2>4, <2>5 DEF Outbox
  <2>7. d.ep \in alive /\ (d.reserved \/ d.ep \in o.open)
    BY <1>3 DEF Room
  <2> QED BY <2>2, <2>3, <2>6, <2>7 DEF Appended
<1> QED BY <1>2, <1>3

(* What of n deliveries reached the queue of e: those at the places pos, in*)
(* order, behind what was queued.                                          *)
Taken(q, r, ds, n, e, pos) ==
  /\ pos \in Seq(1 .. n)
  /\ \A i, j \in 1 .. Len(pos) : i < j => pos[i] < pos[j]
  /\ Len(r) = Len(q) + Len(pos)
  /\ \A i \in 1 .. Len(q) : r[i] = q[i]
  /\ \A j \in 1 .. Len(pos) : ds[pos[j]].ep = e /\ r[Len(q) + j] = ds[pos[j]].frame

(* All of the first n deliveries to e did.                                 *)
Whole(ds, n, e, pos) ==
  \A i \in 1 .. n : ds[i].ep = e => \E j \in 1 .. Len(pos) : pos[j] = i

(* They were admitted: their endpoint is registered, and unless a delivery *)
(* was reserved its outbox was open.                                       *)
Admitted(o, ds, e, pos) ==
  \A j \in 1 .. Len(pos) : e \in alive /\ (ds[pos[j]].reserved \/ e \in o.open)

Took(o, u, ds, n) ==
  /\ u \in Outbox /\ u.open \subseteq o.open
  /\ \A e \in Endpoints : \E pos :
       /\ Taken(o.queue[e], u.queue[e], ds, n, e, pos)
       /\ Admitted(o, ds, e, pos)
       /\ e \in u.open => Whole(ds, n, e, pos)

(* One more delivery.                                                      *)
LEMMA TookOneMore ==
  ASSUME NEW o \in Outbox, NEW u, NEW n \in Nat, NEW ds, ds[n + 1] \in Delivery,
         Took(o, u, ds, n)
  PROVE  Took(o, Send(u, ds[n + 1]), ds, n + 1)
<1>1. PICK d : d = ds[n + 1]
  OBVIOUS
<1>2. PICK v : v = Send(u, d)
  OBVIOUS
<1>3. u \in Outbox /\ u.open \subseteq o.open /\ d \in Delivery
  BY <1>1 DEF Took
<1>4. v \in Outbox /\ (Appended(u, v, d) \/ (v.open = u.open \ {d.ep} /\ v.queue = u.queue))
  BY <1>2, <1>3, SendOne
<1>5. v.open \subseteq u.open
  BY <1>4 DEF Appended
<1>6. ASSUME NEW e \in Endpoints
      PROVE  \E pos : /\ Taken(o.queue[e], v.queue[e], ds, n + 1, e, pos)
                      /\ Admitted(o, ds, e, pos)
                      /\ e \in v.open => Whole(ds, n + 1, e, pos)
  <2>0. PICK q0 : q0 = o.queue[e]
    OBVIOUS
  <2> SUFFICES \E pos : /\ Taken(q0, v.queue[e], ds, n + 1, e, pos)
                        /\ Admitted(o, ds, e, pos)
                        /\ e \in v.open => Whole(ds, n + 1, e, pos)
    BY <2>0
  <2>1. PICK pos : /\ Taken(q0, u.queue[e], ds, n, e, pos)
                   /\ Admitted(o, ds, e, pos)
                   /\ e \in u.open => Whole(ds, n, e, pos)
    BY <2>0 DEF Took
  <2>2. pos \in Seq(1 .. n) /\ pos \in Seq(1 .. n + 1) /\ Len(pos) \in Nat
        /\ \A j \in 1 .. Len(pos) : pos[j] \in 1 .. n
    BY <2>1 DEF Taken
  <2>3. q0 \in Seq(FrameType) /\ u.queue[e] \in Seq(FrameType) /\ u.queue \in QueueType
        /\ Len(q0) \in Nat /\ Len(u.queue[e]) = Len(q0) + Len(pos)
    BY <1>3, <2>0, <2>1 DEF Outbox, QueueType, Taken
  <2>4. CASE d.ep # e \/ ~Appended(u, v, d)
    <3>1. v.queue[e] = u.queue[e]
      BY <1>4, <2>3, <2>4 DEF Appended, QueueType
    <3>2. Taken(q0, v.queue[e], ds, n + 1, e, pos)
      BY <2>1, <2>2, <3>1 DEF Taken
    <3>3. e \in v.open => d.ep # e /\ e \in u.open
      BY <1>4, <1>5, <2>4
    <3>4. e \in v.open => Whole(ds, n + 1, e, pos)
      BY <1>1, <2>1, <3>3 DEF Whole
    <3> QED BY <2>1, <3>2, <3>4
  <2>5. CASE d.ep = e /\ Appended(u, v, d)
    <3>1. PICK p : p = Append(pos, n + 1)
      OBVIOUS
    <3>2. /\ p \in Seq(1 .. n + 1) /\ Len(p) = Len(pos) + 1 /\ p[Len(pos) + 1] = n + 1
          /\ \A j \in 1 .. Len(pos) : p[j] = pos[j]
      BY <2>2, <3>1
    <3>3. v.queue[e] = Append(u.queue[e], d.frame)
      BY <2>3, <2>5 DEF Appended, QueueType
    <3>4. PICK r : r = v.queue[e]
      OBVIOUS
    <3>5. PICK q : q = u.queue[e]
      OBVIOUS
    <3>6. /\ Len(r) = Len(q) + 1 /\ r[Len(q) + 1] = d.frame /\ \A i \in 1 .. Len(q) : r[i] = q[i]
          /\ Len(q) = Len(q0) + Len(pos)
      BY <2>3, <3>3, <3>4, <3>5
    <3>7. /\ \A i \in 1 .. Len(q0) : q[i] = q0[i]
          /\ \A j \in 1 .. Len(pos) : ds[pos[j]].ep = e /\ q[Len(q0) + j] = ds[pos[j]].frame
          /\ \A i, j \in 1 .. Len(pos) : i < j => pos[i] < pos[j]
      BY <2>1, <3>5 DEF Taken
    <3>11. Len(q) \in Nat /\ Len(r) \in Nat /\ Len(p) \in Nat /\ Len(pos) \in Nat
           /\ Len(q0) \in Nat
      BY <2>2, <2>3, <3>2, <3>5, <3>6
    <3>8. Taken(q0, v.queue[e], ds, n + 1, e, p)
      <4>1. ASSUME NEW i \in 1 .. Len(p), NEW j \in 1 .. Len(p), i < j
            PROVE  p[i] < p[j]
        <5>1. PICK m \in Nat : m = Len(pos)
          BY <2>2
        <5>5. Len(p) = m + 1
          BY <3>2, <5>1
        <5>6. i \in 1 .. m /\ (j \in 1 .. m \/ j = m + 1)
          BY <4>1, <5>1, <5>5
        <5>2. i \in 1 .. m /\ (j \in 1 .. m \/ j = m + 1) /\ pos[i] \in 1 .. n
          BY <2>2, <5>1, <5>6
        <5>3. CASE j \in 1 .. m
          BY <3>2, <3>7, <4>1, <5>1, <5>2, <5>3
        <5>4. CASE j = m + 1
          <6>1. p[i] = pos[i] /\ p[j] = n + 1
            BY <3>2, <5>1, <5>2, <5>4
          <6> QED BY <5>2, <6>1
        <5> QED BY <5>2, <5>3, <5>4
      <4>2. \A i \in 1 .. Len(q0) : r[i] = q0[i]
        BY <2>2, <2>3, <3>6, <3>7
      <4>3. ASSUME NEW j \in 1 .. Len(p)
            PROVE  ds[p[j]].ep = e /\ r[Len(q0) + j] = ds[p[j]].frame
        <5>1. CASE j \in 1 .. Len(pos)
          <6>1. Len(q0) + j \in 1 .. Len(q)
            BY <2>2, <2>3, <3>6, <5>1
          <6> QED BY <3>2, <3>6, <3>7, <5>1, <6>1
        <5>2. CASE j = Len(pos) + 1
          <6>1. Len(q0) + j = Len(q) + 1
            BY <3>6, <3>11, <5>2
          <6> QED BY <1>1, <2>5, <3>2, <3>6, <5>2, <6>1
        <5> QED BY <2>2, <3>2, <5>1, <5>2
      <4>4. Len(r) = Len(q0) + Len(p)
        BY <3>2, <3>6, <3>11
      <4> QED BY <3>2, <3>4, <4>1, <4>2, <4>3, <4>4 DEF Taken
    <3>9. e \in u.open => Whole(ds, n + 1, e, p)
      <4> SUFFICES ASSUME e \in u.open, NEW i \in 1 .. n + 1, ds[i].ep = e
                   PROVE  \E j \in 1 .. Len(p) : p[j] = i
        BY DEF Whole
      <4>1. CASE i \in 1 .. n
        <5>1. PICK j \in 1 .. Len(pos) : pos[j] = i
          BY <2>1, <4>1 DEF Whole
        <5> QED BY <2>2, <3>2, <5>1
      <4>2. CASE i = n + 1
        <5>1. Len(pos) + 1 \in 1 .. Len(p)
          BY <2>2, <3>2
        <5> QED BY <3>2, <4>2, <5>1
      <4> QED BY <4>1, <4>2
    <3>10. Admitted(o, ds, e, p)
      <4> SUFFICES ASSUME NEW j \in 1 .. Len(p)
                   PROVE  e \in alive /\ (ds[p[j]].reserved \/ e \in o.open)
        BY DEF Admitted
      <4>1. CASE j \in 1 .. Len(pos)
        BY <2>1, <3>2, <4>1 DEF Admitted
      <4>2. CASE j = Len(pos) + 1
        BY <1>1, <1>3, <2>5, <3>2, <4>2 DEF Appended
      <4> QED BY <2>2, <3>2, <4>1, <4>2
    <3> QED BY <1>5, <3>8, <3>9, <3>10
  <2> QED BY <2>4, <2>5
<1> HIDE DEF Outbox
<1> QED BY <1>1, <1>2, <1>3, <1>4, <1>5, <1>6 DEF Took

(* All deliveries of a request, in their order.                            *)
LEMMA SendAllTook ==
  ASSUME NEW o \in Outbox, NEW ds \in Seq(Delivery), SendAll(ds, o)
  PROVE  \E u : Took(o, u, ds, Len(ds)) /\ queue' = u.queue /\ open' = u.open
<1>1. PICK n : n = Len(ds)
  OBVIOUS
<1>2. n \in Nat /\ DOMAIN ds = 1 .. n /\ \A i \in 1 .. n : ds[i] \in Delivery
  BY <1>1
<1>3. PICK path : SendPath(o, ds, n, path)
  BY <1>2, SendFold
<1>8. /\ DOMAIN path = 0 .. n /\ path[0] = o
      /\ \A i \in 1 .. n : path[i] = Send(path[i - 1], ds[i])
      /\ Sending(o, ds) = path[n]
  BY <1>3 DEF SendPath
<1> DEFINE S == {i \in 0 .. n : Took(o, path[i], ds, i)}
<1>4. 0 \in S
  <2>1. \A e \in Endpoints : /\ Taken(o.queue[e], o.queue[e], ds, 0, e, <<>>)
                             /\ Admitted(o, ds, e, <<>>) /\ Whole(ds, 0, e, <<>>)
    <3>1. <<>> \in Seq(1 .. 0) /\ Len(<<>>) = 0
      BY EmptySeq
    <3> SUFFICES ASSUME NEW e \in Endpoints
                 PROVE  /\ Taken(o.queue[e], o.queue[e], ds, 0, e, <<>>)
                        /\ Admitted(o, ds, e, <<>>) /\ Whole(ds, 0, e, <<>>)
      OBVIOUS
    <3>2. Len(o.queue[e]) \in Nat
      BY DEF Outbox, QueueType
    <3> QED BY <3>1, <3>2 DEF Taken, Admitted, Whole
  <2>2. Took(o, o, ds, 0)
    BY <2>1 DEF Took
  <2> QED BY <1>2, <1>8, <2>2
<1>5. ASSUME NEW i \in 1 .. n, i - 1 \in S PROVE i \in S
  <2>1. PICK m \in Nat : i = m + 1
    BY <1>2
  <2>2. m \in S /\ path[m + 1] = Send(path[m], ds[m + 1]) /\ ds[m + 1] \in Delivery
    BY <1>2, <1>8, <1>5, <2>1
  <2>3. Took(o, path[m + 1], ds, m + 1)
    BY <2>2, TookOneMore
  <2> QED BY <2>1, <2>3
<1>6. n \in S
  <2> HIDE DEF S
  <2>1. 0 .. n \subseteq S
    BY <1>2, <1>4, <1>5, UpTo
  <2> QED BY <1>2, <2>1
<1>7. queue' = path[n].queue /\ open' = path[n].open
  BY <1>8 DEF SendAll, Sending
<1> QED BY <1>1, <1>6, <1>7

(* The watches answered one after the other, for the names in ls.          *)
Answering(ls, o, order) == FoldLeft(LAMBDA acc, k : Answer(ls, acc, k), o, order)

AnswerPath(ls, o, order, n, path) ==
  /\ DOMAIN path = 0 .. n /\ path[0] = o
  /\ \A i \in 1 .. n : path[i] = Answer(ls, path[i - 1], order[i])
  /\ Answering(ls, o, order) = path[n]

(* The fold over an order answers one key per step.                        *)
LEMMA AnswerFold ==
  ASSUME NEW n \in Nat, NEW order, DOMAIN order = 1 .. n, NEW o, NEW ls
  PROVE  \E path : AnswerPath(ls, o, order, n, path)
<1> DEFINE Iter(g, m) == g = [s \in SUBSET (1 .. m) |->
             IF s = {} THEN o ELSE Answer(ls, g[s \ {Max(s)}], order[Max(s)])]
<1>1. \E g : Iter(g, n)
  <2> DEFINE S == {m \in 0 .. n : \E g : Iter(g, m)}
  <2>1. 0 \in S
    <3> DEFINE z == [s \in SUBSET (1 .. 0) |-> o]
    <3>1. \A s \in SUBSET (1 .. 0) : s = {}
      OBVIOUS
    <3>2. \A s \in SUBSET (1 .. 0) :
            z[s] = IF s = {} THEN o ELSE Answer(ls, z[s \ {Max(s)}], order[Max(s)])
      BY <3>1
    <3>3. Iter(z, 0)
      BY <3>2
    <3> HIDE DEF Iter, z
    <3> QED BY <3>3
  <2>2. ASSUME NEW j \in 1 .. n, j - 1 \in S PROVE j \in S
    <3>1. PICK m \in Nat : j = m + 1
      BY <2>2
    <3>2. PICK g : Iter(g, m)
      <4> HIDE DEF Iter
      <4> QED BY <2>2, <3>1
    <3> DEFINE h == [s \in SUBSET (1 .. m + 1) |->
                 IF m + 1 \in s THEN Answer(ls, g[s \ {m + 1}], order[m + 1]) ELSE g[s]]
    <3>3. ASSUME NEW s \in SUBSET (1 .. m + 1)
          PROVE  h[s] = IF s = {} THEN o ELSE Answer(ls, h[s \ {Max(s)}], order[Max(s)])
      <4>1. CASE m + 1 \in s
        <5>1. Max(s) = m + 1 /\ s \ {m + 1} \in SUBSET (1 .. m)
          BY <3>1, <4>1, MaxOfLarger
        <5>2. s \ {m + 1} \in SUBSET (1 .. m + 1) /\ m + 1 \notin s \ {m + 1}
          OBVIOUS
        <5>3. h[s \ {m + 1}] = g[s \ {m + 1}]
          BY <5>2
        <5>4. h[s] = Answer(ls, g[s \ {m + 1}], order[m + 1])
          BY <4>1
        <5> HIDE DEF h
        <5> QED BY <4>1, <5>1, <5>3, <5>4
      <4>2. CASE m + 1 \notin s
        <5>1. s \in SUBSET (1 .. m)
          BY <3>1, <4>2
        <5>2. g[s] = IF s = {} THEN o ELSE Answer(ls, g[s \ {Max(s)}], order[Max(s)])
          BY <3>2, <5>1
        <5>3. h[s] = g[s] /\ h[s \ {Max(s)}] = g[s \ {Max(s)}]
          BY <4>2
        <5> QED BY <5>2, <5>3
      <4> QED BY <4>1, <4>2
    <3>4. Iter(h, m + 1)
      BY <3>3
    <3> HIDE DEF h, Iter
    <3> QED BY <3>1, <3>4
  <2> HIDE DEF Iter
  <2>3. 0 .. n \subseteq S
    <3> HIDE DEF S
    <3> QED BY <2>1, <2>2, UpTo
  <2> QED BY <2>3
<1>2. PICK it : it = CHOOSE g : Iter(g, n)
  OBVIOUS
<1>3. Iter(it, n)
  <2> HIDE DEF Iter
  <2> QED BY <1>1, <1>2
<1>4. Answering(ls, o, order) = it[1 .. n]
  BY <1>2 DEF Answering, FoldLeft, MapThenFoldSet
<1> DEFINE path == [i \in 0 .. n |-> it[1 .. i]]
<1>5. it[{}] = o /\ path[0] = o
  BY <1>3
<1>6. ASSUME NEW i \in 1 .. n PROVE path[i] = Answer(ls, path[i - 1], order[i])
  <2>1. Max(1 .. i) = i /\ (1 .. i) \ {i} = 1 .. i - 1
    BY MaxOfSegment
  <2>2. 1 .. i \in SUBSET (1 .. n) /\ 1 .. i # {} /\ i - 1 \in 0 .. n /\ i \in 0 .. n
    OBVIOUS
  <2>3. it[1 .. i] = Answer(ls, it[(1 .. i) \ {Max(1 .. i)}], order[Max(1 .. i)])
    BY <1>3, <2>2
  <2> QED BY <2>1, <2>2, <2>3
<1>7. n \in 0 .. n /\ path[n] = it[1 .. n]
  OBVIOUS
<1> HIDE DEF path
<1>8. DOMAIN path = 0 .. n
  BY DEF path
<1>9. AnswerPath(ls, o, order, n, path)
  BY <1>4, <1>5, <1>6, <1>7, <1>8 DEF AnswerPath
<1> QED BY <1>9

WatchType == [names : SUBSET Names, published : SUBSET Names]
WatchesType(ws) == \A k \in DOMAIN ws : k \in Keys /\ ws[k] \in WatchType

(* There are finitely many keys, so the orders that publish_names ranges   *)
(* over are sequences.                                                     *)
LEMMA KeysFinite == IsFiniteSet(Keys)
<1>1. MaxId \in Nat /\ IsFiniteSet(Endpoints)
  BY ChannelAssumption DEF ChannelAssumption
<1>2. Ids \subseteq 1 .. MaxId
  BY ChannelAssumption DEF ChannelAssumption, Ids
<1>3. IsFiniteSet(1 .. MaxId)
  BY <1>1, FS_Interval
<1>4. IsFiniteSet(Ids)
  BY <1>2, <1>3, FS_Subset
<1> QED BY <1>1, <1>4, FS_Product DEF Keys

(* An order of a set of keys has each of them once.                        *)
LEMMA OrderIsSequence ==
  ASSUME NEW S, S \subseteq Keys, NEW order \in SetToSeqs(S)
  PROVE  /\ order \in Seq(S) /\ \A i, j \in 1 .. Len(order) : order[i] = order[j] => i = j
         /\ \A x \in S : \E i \in 1 .. Len(order) : order[i] = x
<1>1. IsFiniteSet(S)
  BY KeysFinite, FS_Subset
<1>2. PICK n \in Nat : n = Cardinality(S)
  BY <1>1, FS_CardinalityType
<1>3. order \in [1 .. n -> S] /\ \A i, j \in 1 .. n : i # j => order[i] # order[j]
  BY <1>2 DEF SetToSeqs
<1>4. order \in Seq(S) /\ Len(order) = n
  BY <1>3
<1>5. \A x \in S : \E i \in 1 .. n : order[i] = x
  <2>1. order \in Injection(1 .. n, S)
    BY <1>3 DEF Injection, IsInjective
  <2>2. Cardinality(1 .. n) = Cardinality(S)
    BY <1>2, FS_Interval
  <2>3. order \in Surjection(1 .. n, S)
    BY <1>1, <2>1, <2>2, FS_Injection
  <2> QED BY <2>3 DEF Surjection
<1> QED BY <1>3, <1>4, <1>5

(* What an answer of the key k says.                                       *)
NamesNow(ls, ws, k) == Reserved(k, NamesFrame(k, Present(ls, ws[k].names)))

(* The watches of the first i keys of an order have been answered: the     *)
(* queues are as they were, and each watch has its one answer, or none for *)
(* want of room.                                                           *)
Answered(ls, ws, o, order, i, acc) ==
  /\ acc.o \in Outbox /\ acc.o.queue = o.queue /\ acc.o.open \subseteq o.open
  /\ acc.ds \in Seq(Delivery)
  /\ DOMAIN acc.ws = DOMAIN ws
  /\ \A k \in DOMAIN ws : acc.ws[k] \in WatchType /\ acc.ws[k].names = ws[k].names
  /\ \A j \in 1 .. Len(acc.ds) : \E l \in 1 .. i :
       acc.ds[j] = NamesNow(ls, ws, order[l]) /\ acc.ws[order[l]].published = Present(ls, ws[order[l]].names)
  /\ \A j, l \in 1 .. Len(acc.ds) : acc.ds[j] = acc.ds[l] => j = l
  /\ \A k \in DOMAIN ws :
       \/ acc.ws[k].published = ws[k].published
          /\ \A l \in 1 .. i : order[l] = k => k[1] \notin acc.o.open
       \/ \E j \in 1 .. Len(acc.ds) : acc.ds[j] = NamesNow(ls, ws, k)

(* An answer is a delivery, and says whose it is.                          *)
LEMMA NamesNowIs ==
  ASSUME NEW ls, NEW ws, WatchesType(ws), NEW k \in DOMAIN ws
  PROVE  /\ NamesNow(ls, ws, k) \in Delivery
         /\ NamesNow(ls, ws, k).ep = k[1] /\ NamesNow(ls, ws, k).reserved
         /\ NamesNow(ls, ws, k).frame.id = k[2] /\ NamesNow(ls, ws, k).frame.kind = "names"
         /\ ~NamesNow(ls, ws, k).frame.drain
         /\ NamesNow(ls, ws, k).frame.names = Present(ls, ws[k].names)
         /\ NamesNow(ls, ws, k).frame.of = 0 /\ NamesNow(ls, ws, k).frame.n = 0
         /\ k = <<k[1], k[2]>> /\ Present(ls, ws[k].names) \in SUBSET Names
<1>1. k \in Keys /\ ws[k] \in WatchType
  BY DEF WatchesType
<1>2. k[1] \in Endpoints /\ k[2] \in Ids /\ k = <<k[1], k[2]>>
  BY <1>1 DEF Keys
<1>3. Present(ls, ws[k].names) \in SUBSET Names
  BY <1>1 DEF Present, WatchType
<1>7. PICK S \in SUBSET Names : S = Present(ls, ws[k].names)
  BY <1>3
<1>4. PICK f : f = NamesFrame(k, S)
  OBVIOUS
<1>5. /\ f \in FrameType /\ f.id = k[2] /\ f.kind = "names" /\ ~f.drain /\ f.of = 0 /\ f.n = 0
      /\ f.names = S
  <2>1. PICK id : id = k[2]
    OBVIOUS
  <2>2. PICK g : g = Frame("names", id)
    OBVIOUS
  <2>3. g = [kind |-> "names", id |-> id, of |-> 0, n |-> 0, names |-> {},
             guard |-> FALSE, slot |-> FALSE, drain |-> FALSE]
    BY <2>2 DEF Frame
  <2>4. f = [g EXCEPT !.names = S]
    BY <1>4, <2>1, <2>2 DEF NamesFrame
  <2>5. f = [kind |-> "names", id |-> id, of |-> 0, n |-> 0, names |-> S,
             guard |-> FALSE, slot |-> FALSE, drain |-> FALSE]
    BY <2>3, <2>4
  <2>6. id \in Ids
    BY <1>2, <2>1
  <2>7. f \in FrameType
    BY <1>7, <2>5, <2>6 DEF FrameType, Kinds
  <2> QED BY <2>1, <2>5, <2>7
<1>6. NamesNow(ls, ws, k) = [ep |-> k[1], frame |-> f, reserved |-> TRUE]
  BY <1>4, <1>7 DEF NamesNow, Reserved
<1> QED BY <1>2, <1>3, <1>5, <1>6, <1>7 DEF Delivery

(* An answer says whose it is.                                             *)
LEMMA AnswerKey ==
  ASSUME NEW ls, NEW ws, NEW k
  PROVE  NamesNow(ls, ws, k).ep = k[1] /\ NamesNow(ls, ws, k).frame.id = k[2]
BY DEF NamesNow, Reserved, NamesFrame, Frame

(* And nothing else.                                                       *)
LEMMA AnswerSays ==
  ASSUME NEW ls, NEW ws, NEW k
  PROVE  /\ NamesNow(ls, ws, k).frame.kind = "names" /\ ~NamesNow(ls, ws, k).frame.drain
         /\ NamesNow(ls, ws, k).frame.names = Present(ls, ws[k].names)
         /\ NamesNow(ls, ws, k).reserved
<1>1. PICK S : S = Present(ls, ws[k].names)
  OBVIOUS
<1>2. PICK f : f = NamesFrame(k, S)
  OBVIOUS
<1>3. f.kind = "names" /\ ~f.drain /\ f.names = S
  BY <1>2 DEF NamesFrame, Frame
<1>4. NamesNow(ls, ws, k) = [ep |-> k[1], frame |-> f, reserved |-> TRUE]
  BY <1>1, <1>2 DEF NamesNow, Reserved
<1> QED BY <1>1, <1>3, <1>4

(* Two watches have different answers.                                     *)
LEMMA AnswersDiffer ==
  ASSUME NEW ls, NEW ws, WatchesType(ws), NEW h \in DOMAIN ws, NEW k \in DOMAIN ws,
         NamesNow(ls, ws, h) = NamesNow(ls, ws, k)
  PROVE  h = k
<1>1. h \in Keys /\ k \in Keys
  BY DEF WatchesType
<1>2. h = <<h[1], h[2]>> /\ k = <<k[1], k[2]>>
  BY <1>1 DEF Keys
<1>3. h[1] = k[1] /\ h[2] = k[2]
  <2>1. NamesNow(ls, ws, h).ep = h[1] /\ NamesNow(ls, ws, h).frame.id = h[2]
    BY AnswerKey
  <2>2. NamesNow(ls, ws, k).ep = k[1] /\ NamesNow(ls, ws, k).frame.id = k[2]
    BY AnswerKey
  <2> QED BY <2>1, <2>2
<1> QED BY <1>2, <1>3

(* One more watch is answered: charged and told, or its outbox closes.     *)
LEMMA AnsweredOneMore ==
  ASSUME NEW ls, NEW ws, WatchesType(ws), NEW o \in Outbox, NEW order, NEW i \in Nat,
         \A l \in 1 .. i + 1 : order[l] \in DOMAIN ws,
         \A l \in 1 .. i : order[l] # order[i + 1],
         NEW acc, acc = [o |-> acc.o, ws |-> acc.ws, ds |-> acc.ds],
         Answered(ls, ws, o, order, i, acc)
  PROVE  LET a == Answer(ls, acc, order[i + 1]) IN
         Answered(ls, ws, o, order, i + 1, a) /\ a = [o |-> a.o, ws |-> a.ws, ds |-> a.ds]
<1>1. PICK k : k = order[i + 1]
  OBVIOUS
<1>2. PICK b : b = Answer(ls, acc, k)
  OBVIOUS
<1>3. PICK ao, aw, ad : ao = acc.o /\ aw = acc.ws /\ ad = acc.ds
  OBVIOUS
<1>4. PICK S : S = Present(ls, ws[k].names)
  OBVIOUS
<1>5. /\ k \in DOMAIN ws /\ k[1] \in Endpoints /\ S \in SUBSET Names
      /\ \A l \in 1 .. i : order[l] # k
  <2>1. i + 1 \in 1 .. i + 1
    OBVIOUS
  <2>2. k \in DOMAIN ws
    BY <1>1, <2>1
  <2>3. k \in Keys
    BY <2>2 DEF WatchesType
  <2> QED BY <1>1, <1>4, <2>2, <2>3, NamesNowIs DEF Keys
<1>6. /\ ao \in Outbox /\ ao.queue = o.queue /\ ao.open \subseteq o.open /\ ad \in Seq(Delivery)
      /\ DOMAIN aw = DOMAIN ws
      /\ \A h \in DOMAIN ws : aw[h] \in WatchType /\ aw[h].names = ws[h].names
  BY <1>3 DEF Answered
<1>7. /\ \A j \in 1 .. Len(ad) : \E l \in 1 .. i :
           ad[j] = NamesNow(ls, ws, order[l])
           /\ aw[order[l]].published = Present(ls, ws[order[l]].names)
      /\ \A j, l \in 1 .. Len(ad) : ad[j] = ad[l] => j = l
      /\ \A h \in DOMAIN ws :
           \/ aw[h].published = ws[h].published
              /\ \A l \in 1 .. i : order[l] = h => h[1] \notin ao.open
           \/ \E j \in 1 .. Len(ad) : ad[j] = NamesNow(ls, ws, h)
  BY <1>3 DEF Answered
<1>8. PICK c : c = Charge(ao, k[1])
  OBVIOUS
<1>9. /\ c \in Outbox /\ c.queue = ao.queue
      /\ IF Room(ao, k[1]) THEN c.open = ao.open ELSE c.open = ao.open \ {k[1]}
  BY <1>5, <1>6, <1>8, ChargeKeeps
<1>10. c.open \subseteq ao.open /\ c.open \subseteq o.open /\ c.queue = o.queue
  BY <1>6, <1>9
<1>11. CASE Room(ao, k[1])
  <2>1. PICK w : w = [aw EXCEPT ![k] = [aw[k] EXCEPT !.published = S]]
    OBVIOUS
  <2>2. PICK d : d = NamesNow(ls, ws, k)
    OBVIOUS
  <2>3. b = [o |-> c, ws |-> w, ds |-> Append(ad, d)]
    <3>1. acc.ws[k].names = ws[k].names
      BY <1>3, <1>5, <1>6
    <3> QED BY <1>2, <1>3, <1>4, <1>8, <1>11, <2>1, <2>2, <3>1 DEF Answer, NamesNow
  <2>4. PICK n \in Nat : n = Len(ad)
    BY <1>6
  <2>5. PICK e : e = Append(ad, d)
    OBVIOUS
  <2>6. d \in Delivery
    BY <1>5, <2>2, NamesNowIs
  <2>7. /\ e \in Seq(Delivery) /\ Len(e) = n + 1 /\ e[n + 1] = d
        /\ \A j \in 1 .. n : e[j] = ad[j]
    BY <1>6, <2>4, <2>5, <2>6
  <2>8. /\ DOMAIN w = DOMAIN ws
        /\ w[k].published = S /\ w[k].names = ws[k].names /\ w[k] \in WatchType
        /\ \A h \in DOMAIN ws : h # k => w[h] = aw[h]
    <3>1. aw[k] \in WatchType /\ aw[k].names = ws[k].names
      BY <1>5, <1>6
    <3>2. PICK r : r = [aw[k] EXCEPT !.published = S]
      OBVIOUS
    <3>3. r \in WatchType /\ r.published = S /\ r.names = ws[k].names
      BY <1>5, <3>1, <3>2 DEF WatchType
    <3> QED BY <1>5, <1>6, <2>1, <3>2, <3>3
  <2>9. ASSUME NEW j \in 1 .. n + 1
        PROVE  \E l \in 1 .. i + 1 : /\ e[j] = NamesNow(ls, ws, order[l])
                                     /\ w[order[l]].published = Present(ls, ws[order[l]].names)
    <3>1. CASE j \in 1 .. n
      <4>1. PICK l \in 1 .. i : /\ ad[j] = NamesNow(ls, ws, order[l])
                                /\ aw[order[l]].published = Present(ls, ws[order[l]].names)
        BY <1>7, <2>4, <3>1
      <4>2. order[l] \in DOMAIN ws /\ order[l] # k /\ l \in 1 .. i + 1
        BY <1>5
      <4> QED BY <2>7, <2>8, <3>1, <4>1, <4>2
    <3>2. CASE j = n + 1
      BY <1>1, <1>4, <2>2, <2>7, <2>8, <3>2
    <3> QED BY <3>1, <3>2
  <2>10. \A j \in 1 .. n : e[j] # d
    <3> SUFFICES ASSUME NEW j \in 1 .. n PROVE e[j] # d
      OBVIOUS
    <3>1. PICK l \in 1 .. i : ad[j] = NamesNow(ls, ws, order[l])
      BY <1>7, <2>4
    <3>5. PICK h : h = order[l]
      OBVIOUS
    <3>2. h \in DOMAIN ws /\ h # k
      BY <1>5, <3>5
    <3>3. NamesNow(ls, ws, h) # NamesNow(ls, ws, k)
      BY <1>5, <3>2, AnswersDiffer
    <3> QED BY <2>2, <2>7, <3>1, <3>3, <3>5
  <2>11. \A j, l \in 1 .. n + 1 : e[j] = e[l] => j = l
    <3>1. \A j, l \in 1 .. n : e[j] = e[l] => j = l
      BY <1>7, <2>4, <2>7
    <3> QED BY <2>7, <2>10, <3>1
  <2>12. ASSUME NEW h \in DOMAIN ws
         PROVE  \/ w[h].published = ws[h].published
                   /\ \A l \in 1 .. i + 1 : order[l] = h => h[1] \notin c.open
                \/ \E j \in 1 .. n + 1 : e[j] = NamesNow(ls, ws, h)
    <3>1. CASE h = k
      BY <2>2, <2>7, <3>1
    <3>2. CASE h # k
      <4>1. CASE \E j \in 1 .. Len(ad) : ad[j] = NamesNow(ls, ws, h)
        BY <2>4, <2>7, <4>1
      <4>2. CASE /\ aw[h].published = ws[h].published
                 /\ \A l \in 1 .. i : order[l] = h => h[1] \notin ao.open
        <5>1. \A l \in 1 .. i + 1 : order[l] = h => l \in 1 .. i
          BY <1>1, <3>2
        <5> QED BY <1>10, <2>8, <3>2, <4>2, <5>1
      <4> QED BY <1>7, <4>1, <4>2
    <3> QED BY <3>1, <3>2
  <2>13. \A h \in DOMAIN ws : w[h] \in WatchType /\ w[h].names = ws[h].names
    BY <1>6, <2>8
  <2>14. b.o = c /\ b.ws = w /\ b.ds = e /\ b = [o |-> b.o, ws |-> b.ws, ds |-> b.ds]
    BY <2>3, <2>5
  <2>15. Answered(ls, ws, o, order, i + 1, b)
    BY <1>9, <1>10, <2>7, <2>8, <2>9, <2>11, <2>12, <2>13, <2>14 DEF Answered
  <2> QED BY <1>1, <1>2, <2>14, <2>15
<1>12. CASE ~Room(ao, k[1])
  <2>1. b = [acc EXCEPT !.o = c]
    BY <1>2, <1>3, <1>8, <1>12 DEF Answer
  <2>2. b = [o |-> c, ws |-> aw, ds |-> ad]
    BY <1>3, <2>1
  <2>3. b.o = c /\ b.ws = aw /\ b.ds = ad /\ b = [o |-> b.o, ws |-> b.ws, ds |-> b.ds]
    BY <2>2
  <2>4. \A j \in 1 .. Len(ad) : \E l \in 1 .. i + 1 :
          ad[j] = NamesNow(ls, ws, order[l])
          /\ aw[order[l]].published = Present(ls, ws[order[l]].names)
    BY <1>7
  <2>5. ASSUME NEW h \in DOMAIN ws
        PROVE  \/ aw[h].published = ws[h].published
                  /\ \A l \in 1 .. i + 1 : order[l] = h => h[1] \notin c.open
               \/ \E j \in 1 .. Len(ad) : ad[j] = NamesNow(ls, ws, h)
    <3>1. CASE \E j \in 1 .. Len(ad) : ad[j] = NamesNow(ls, ws, h)
      BY <3>1
    <3>2. CASE /\ aw[h].published = ws[h].published
               /\ \A l \in 1 .. i : order[l] = h => h[1] \notin ao.open
      <4>1. ASSUME NEW l \in 1 .. i + 1, order[l] = h PROVE h[1] \notin c.open
        <5>1. CASE l \in 1 .. i
          BY <1>10, <3>2, <4>1, <5>1
        <5>2. CASE l = i + 1
          BY <1>1, <1>9, <1>12, <4>1, <5>2
        <5> QED BY <5>1, <5>2
      <4> QED BY <3>2, <4>1
    <3> QED BY <1>7, <3>1, <3>2
  <2>6. Answered(ls, ws, o, order, i + 1, b)
    BY <1>6, <1>7, <1>9, <1>10, <2>3, <2>4, <2>5 DEF Answered
  <2> QED BY <1>1, <1>2, <2>3, <2>6
<1> QED BY <1>11, <1>12

(* What publish_names leaves: the deliveries ns answer those watches that  *)
(* were behind, unless the outbox of their endpoint is closed.             *)
Told(ls, ws, behind, o, o1, w, ns) ==
  /\ o1 \in Outbox /\ o1.queue = o.queue /\ o1.open \subseteq o.open
  /\ ns \in Seq(Delivery)
  /\ DOMAIN w = DOMAIN ws
  /\ \A k \in DOMAIN ws : w[k] \in WatchType /\ w[k].names = ws[k].names
  /\ \A j \in 1 .. Len(ns) : \E k \in behind :
       ns[j] = NamesNow(ls, ws, k) /\ w[k].published = Present(ls, ws[k].names)
  /\ \A j, l \in 1 .. Len(ns) : ns[j] = ns[l] => j = l
  /\ \A k \in DOMAIN ws :
       \/ w[k].published = ws[k].published /\ (k \in behind => k[1] \notin o1.open)
       \/ \E j \in 1 .. Len(ns) : ns[j] = NamesNow(ls, ws, k)

Behind(ls, ws, changed) ==
  IF changed THEN {k \in DOMAIN ws : ws[k].published # Present(ls, ws[k].names)} ELSE {}

(* The fold over the watches that are behind leaves that.                  *)
LEMMA AnsweringTells ==
  ASSUME NEW ls, NEW ws, WatchesType(ws), NEW behind, behind \subseteq DOMAIN ws,
         NEW o \in Outbox, NEW order \in SetToSeqs(behind),
         NEW p, p = Answering(ls, [o |-> o, ws |-> ws, ds |-> <<>>], order)
  PROVE  Told(ls, ws, behind, o, p.o, p.ws, p.ds)
<1>1. behind \subseteq Keys
  BY DEF WatchesType
<1>2. /\ order \in Seq(behind) /\ \A i, j \in 1 .. Len(order) : order[i] = order[j] => i = j
      /\ \A x \in behind : \E i \in 1 .. Len(order) : order[i] = x
  BY <1>1, OrderIsSequence
<1>3. PICK n \in Nat : n = Len(order)
  BY <1>2
<1>4. DOMAIN order = 1 .. n /\ \A l \in 1 .. n : order[l] \in behind
  BY <1>2, <1>3
<1>5. PICK z : z = [o |-> o, ws |-> ws, ds |-> <<>>]
  OBVIOUS
<1>6. PICK path : AnswerPath(ls, z, order, n, path)
  BY <1>4, AnswerFold
<1>7. /\ DOMAIN path = 0 .. n /\ path[0] = z /\ p = path[n]
      /\ \A i \in 1 .. n : path[i] = Answer(ls, path[i - 1], order[i])
  BY <1>5, <1>6 DEF AnswerPath
<1> DEFINE Good(i, a) == Answered(ls, ws, o, order, i, a) /\ a = [o |-> a.o, ws |-> a.ws, ds |-> a.ds]
           S == {i \in 0 .. n : Good(i, path[i])}
<1>8. 0 \in S
  <2>1. z.o = o /\ z.ws = ws /\ z.ds = <<>> /\ Len(z.ds) = 0 /\ z.ds \in Seq(Delivery)
    BY <1>5
  <2>2. Answered(ls, ws, o, order, 0, z)
    BY <2>1 DEF Answered, WatchesType
  <2>3. z = [o |-> z.o, ws |-> z.ws, ds |-> z.ds]
    BY <1>5
  <2> HIDE DEF Good
  <2>4. Good(0, z)
    BY <2>2, <2>3 DEF Good
  <2> QED BY <1>7, <2>4
<1>9. ASSUME NEW j \in 1 .. n, j - 1 \in S PROVE j \in S
  <2>1. PICK i \in Nat : j = i + 1
    BY <1>9
  <2>2. PICK a : a = path[i]
    OBVIOUS
  <2>3. Good(i, a)
    <3> HIDE DEF Good
    <3> QED BY <1>9, <2>1, <2>2
  <2>4. /\ \A l \in 1 .. i + 1 : order[l] \in DOMAIN ws
        /\ \A l \in 1 .. i : order[l] # order[i + 1]
    BY <1>2, <1>3, <1>4, <1>9, <2>1
  <2>5. PICK b : b = Answer(ls, a, order[i + 1])
    OBVIOUS
  <2>6. Good(i + 1, b)
    BY <2>3, <2>4, <2>5, AnsweredOneMore
  <2>7. path[j] = b
    BY <1>7, <1>9, <2>1, <2>2, <2>5
  <2> HIDE DEF Good
  <2> QED BY <1>9, <2>1, <2>6, <2>7
<1>10. n \in S
  <2> HIDE DEF S
  <2>1. 0 .. n \subseteq S
    BY <1>8, <1>9, UpTo
  <2> QED BY <2>1
<1>11. Answered(ls, ws, o, order, n, p)
  BY <1>7, <1>10
<1>12. PICK po, pw, pd : po = p.o /\ pw = p.ws /\ pd = p.ds
  OBVIOUS
<1>13. /\ po \in Outbox /\ po.queue = o.queue /\ po.open \subseteq o.open
       /\ pd \in Seq(Delivery)
       /\ DOMAIN pw = DOMAIN ws
       /\ \A k \in DOMAIN ws : pw[k] \in WatchType /\ pw[k].names = ws[k].names
       /\ \A j, l \in 1 .. Len(pd) : pd[j] = pd[l] => j = l
  BY <1>11, <1>12 DEF Answered
<1>14. ASSUME NEW j \in 1 .. Len(pd)
       PROVE  \E k \in behind : pd[j] = NamesNow(ls, ws, k)
                                /\ pw[k].published = Present(ls, ws[k].names)
  <2>1. PICK l \in 1 .. n : pd[j] = NamesNow(ls, ws, order[l])
                            /\ pw[order[l]].published = Present(ls, ws[order[l]].names)
    BY <1>11, <1>12 DEF Answered
  <2> QED BY <1>4, <2>1
<1>15. ASSUME NEW k \in DOMAIN ws
       PROVE  \/ pw[k].published = ws[k].published /\ (k \in behind => k[1] \notin po.open)
              \/ \E j \in 1 .. Len(pd) : pd[j] = NamesNow(ls, ws, k)
  <2>0. PICK b : b = NamesNow(ls, ws, k)
    OBVIOUS
  <2> SUFFICES \/ pw[k].published = ws[k].published /\ (k \in behind => k[1] \notin po.open)
               \/ \E j \in 1 .. Len(pd) : pd[j] = b
    BY <2>0
  <2>1. \/ pw[k].published = ws[k].published
           /\ \A l \in 1 .. n : order[l] = k => k[1] \notin po.open
        \/ \E j \in 1 .. Len(pd) : pd[j] = b
    BY <1>11, <1>12, <2>0 DEF Answered
  <2>2. k \in behind => \E l \in 1 .. n : order[l] = k
    BY <1>2, <1>3
  <2>3. CASE \E j \in 1 .. Len(pd) : pd[j] = b
    BY <2>3
  <2>4. CASE /\ pw[k].published = ws[k].published
             /\ \A l \in 1 .. n : order[l] = k => k[1] \notin po.open
    <3>1. k \in behind => k[1] \notin po.open
      BY <2>2, <2>4
    <3> QED BY <2>4, <3>1
  <2> QED BY <2>1, <2>3, <2>4
<1> QED BY <1>12, <1>13, <1>14, <1>15 DEF Told

(* Every request that reaches publish_names.                               *)
LEMMA PublishTells ==
  ASSUME NEW ls, NEW ws, WatchesType(ws), NEW changed, NEW ds, NEW o \in Outbox,
         Publish(ls, ws, changed, ds, o)
  PROVE  /\ dirty' = FALSE
         /\ \E o1, ns : /\ Told(ls, ws, Behind(ls, ws, changed), o, o1, watches', ns)
                        /\ SendAll(ds \o ns, o1)
<1>1. PICK behind : behind = Behind(ls, ws, changed)
  OBVIOUS
<1>2. behind \subseteq DOMAIN ws
  BY <1>1 DEF Behind
<1>3. PICK z : z = [o |-> o, ws |-> ws, ds |-> <<>>]
  OBVIOUS
<1>4. PICK order \in SetToSeqs(behind) :
         LET p == Answering(ls, z, order)
         IN  watches' = p.ws /\ dirty' = FALSE /\ SendAll(ds \o p.ds, p.o)
  BY <1>1, <1>3 DEF Publish, Behind, Answering
<1>5. PICK p : p = Answering(ls, z, order)
  OBVIOUS
<1>6. watches' = p.ws /\ dirty' = FALSE /\ SendAll(ds \o p.ds, p.o)
  BY <1>4, <1>5
<1>7. Told(ls, ws, behind, o, p.o, p.ws, p.ds)
  BY <1>2, <1>3, <1>4, <1>5, AnsweringTells
<1>8. PICK o1, ns : o1 = p.o /\ ns = p.ds
  OBVIOUS
<1> QED BY <1>1, <1>6, <1>7, <1>8

-----------------------------------------------------------------------------
(* What a request adds to the queues.                                      *)

(* No two of the deliveries of a request concern the same key.             *)
Distinct(ds) ==
  \A i, j \in 1 .. Len(ds) :
    ds[i].ep = ds[j].ep /\ ds[i].frame.id = ds[j].frame.id => i = j

(* Behind what was queued stand answers of watches and some of the         *)
(* deliveries ds, each once; all of them for an outbox that is still open. *)
Grown(ds, e, q, r) ==
  /\ Len(q) =< Len(r) /\ \A i \in 1 .. Len(q) : r[i] = q[i]
  /\ \A i \in Len(q) + 1 .. Len(r) :
       \/ r[i].kind = "names" /\ ~r[i].drain
       \/ \E j \in 1 .. Len(ds) : /\ ds[j].ep = e /\ ds[j].frame = r[i]
                                  /\ e \in alive /\ (ds[j].reserved \/ e \in open)
  /\ \A i, j \in Len(q) + 1 .. Len(r) :
       r[i].kind # "names" /\ r[j].kind # "names" /\ r[i].id = r[j].id => i = j
  /\ e \in open' => \A j \in 1 .. Len(ds) : ds[j].ep = e =>
       \E i \in Len(q) + 1 .. Len(r) : r[i] = ds[j].frame

AllNames(ns) == \A j \in 1 .. Len(ns) : ns[j].frame.kind = "names" /\ ~ns[j].frame.drain

(* That is what sending the deliveries and the answers of watches does.    *)
LEMMA RequestGrows ==
  ASSUME NEW ds \in Seq(Delivery), NEW ns \in Seq(Delivery), AllNames(ns), Distinct(ds),
         NEW o \in Outbox, o.queue = queue, o.open \subseteq open,
         SendAll(ds \o ns, o)
  PROVE  /\ queue' \in QueueType /\ open' \subseteq open
         /\ \A e \in Endpoints : Grown(ds, e, queue[e], queue'[e])
<1>1. PICK all, m, n : all = ds \o ns /\ m = Len(ds) /\ n = Len(ns)
  OBVIOUS
<1>2. /\ all \in Seq(Delivery) /\ m \in Nat /\ n \in Nat /\ Len(all) = m + n
      /\ \A i \in 1 .. m : all[i] = ds[i]
      /\ \A i \in m + 1 .. m + n : all[i] = ns[i - m]
  BY <1>1
<1>3. PICK u : Took(o, u, all, m + n) /\ queue' = u.queue /\ open' = u.open
  <2>1. SendAll(all, o) /\ Len(all) = m + n
    BY <1>1, <1>2
  <2> QED BY <1>2, <2>1, SendAllTook
<1>4. u \in Outbox /\ u.open \subseteq o.open
  BY <1>3 DEF Took
<1>5. queue' \in QueueType /\ open' \subseteq open
  BY <1>3, <1>4 DEF Outbox
<1>6. \A i \in m + 1 .. m + n : all[i].frame.kind = "names" /\ ~all[i].frame.drain
  <2> SUFFICES ASSUME NEW i \in m + 1 .. m + n
               PROVE  all[i].frame.kind = "names" /\ ~all[i].frame.drain
    OBVIOUS
  <2>1. PICK j : j = i - m
    OBVIOUS
  <2>2. j \in 1 .. n /\ all[i] = ns[j]
    BY <1>2, <2>1
  <2> QED BY <1>1, <2>2 DEF AllNames
<1>7. ASSUME NEW e \in Endpoints PROVE Grown(ds, e, queue[e], queue'[e])
  <2>1. PICK q, r : q = queue[e] /\ r = queue'[e]
    OBVIOUS
  <2>2. PICK pos : /\ Taken(q, r, all, m + n, e, pos) /\ Admitted(o, all, e, pos)
                   /\ e \in open' => Whole(all, m + n, e, pos)
    BY <1>3, <2>1 DEF Took
  <2>3. PICK lq, lp : lq = Len(q) /\ lp = Len(pos)
    OBVIOUS
  <2>4. q \in Seq(FrameType) /\ r \in Seq(FrameType)
    <3>1. queue \in QueueType
      BY DEF Outbox
    <3> QED BY <1>5, <2>1, <3>1 DEF QueueType
  <2>5. /\ pos \in Seq(1 .. m + n) /\ lq \in Nat /\ lp \in Nat /\ Len(r) = lq + lp
        /\ \A j \in 1 .. lp : pos[j] \in 1 .. m + n
    <3>1. pos \in Seq(1 .. m + n) /\ Len(r) = Len(q) + Len(pos)
      BY <2>2 DEF Taken
    <3>2. Len(q) \in Nat
      BY <2>4
    <3>3. Len(pos) \in Nat /\ \A j \in 1 .. Len(pos) : pos[j] \in 1 .. m + n
      <4>1. PICK R : R = 1 .. m + n
        OBVIOUS
      <4>2. pos \in Seq(R)
        BY <3>1, <4>1
      <4>3. Len(pos) \in Nat /\ \A j \in 1 .. Len(pos) : pos[j] \in R
        BY <4>2
      <4> QED BY <4>1, <4>3
    <3> QED BY <2>3, <3>1, <3>2, <3>3
  <2>6. /\ \A i, j \in 1 .. lp : i < j => pos[i] < pos[j]
        /\ \A i \in 1 .. lq : r[i] = q[i]
        /\ \A j \in 1 .. lp : all[pos[j]].ep = e /\ r[lq + j] = all[pos[j]].frame
    BY <2>2, <2>3 DEF Taken
  <2>7. ASSUME NEW i \in lq + 1 .. lq + lp
        PROVE  \E j \in 1 .. lp : i = lq + j /\ all[pos[j]].ep = e /\ r[i] = all[pos[j]].frame
    <3>1. PICK j : j = i - lq
      OBVIOUS
    <3>2. j \in 1 .. lp /\ i = lq + j
      BY <2>5, <3>1
    <3> QED BY <2>6, <3>2
  <2>8. ASSUME NEW j \in 1 .. lp, r[lq + j].kind # "names" \/ r[lq + j].drain
        PROVE  pos[j] \in 1 .. m
    <3>1. PICK p : p = pos[j]
      OBVIOUS
    <3>2. p \in 1 .. m + n /\ r[lq + j] = all[p].frame
      BY <2>5, <2>6, <3>1
    <3>3. p \notin m + 1 .. m + n
      BY <1>6, <2>8, <3>2
    <3> QED BY <1>2, <3>1, <3>2, <3>3
  <2>9. ASSUME NEW i \in lq + 1 .. lq + lp, r[i].kind # "names" \/ r[i].drain
        PROVE  \E j \in 1 .. m : /\ ds[j].ep = e /\ ds[j].frame = r[i]
                                 /\ e \in alive /\ (ds[j].reserved \/ e \in open)
    <3>1. PICK j \in 1 .. lp : i = lq + j /\ all[pos[j]].ep = e /\ r[i] = all[pos[j]].frame
      BY <2>7
    <3>2. PICK p : p = pos[j]
      OBVIOUS
    <3>3. p \in 1 .. m
      BY <2>8, <2>9, <3>1, <3>2
    <3>4. e \in alive /\ (all[p].reserved \/ e \in o.open)
      BY <2>2, <2>3, <3>2 DEF Admitted
    <3> QED BY <1>2, <3>1, <3>2, <3>3, <3>4
  <2>10. ASSUME NEW i \in lq + 1 .. lq + lp, NEW j \in lq + 1 .. lq + lp,
                r[i].kind # "names", r[j].kind # "names", r[i].id = r[j].id
         PROVE  i = j
    <3>1. PICK a \in 1 .. lp : i = lq + a /\ all[pos[a]].ep = e /\ r[i] = all[pos[a]].frame
      BY <2>7
    <3>2. PICK b \in 1 .. lp : j = lq + b /\ all[pos[b]].ep = e /\ r[j] = all[pos[b]].frame
      BY <2>7
    <3>3. PICK pa, pb : pa = pos[a] /\ pb = pos[b]
      OBVIOUS
    <3>4. pa \in 1 .. m /\ pb \in 1 .. m
      BY <2>8, <2>10, <3>1, <3>2, <3>3
    <3>5. ds[pa].ep = ds[pb].ep /\ ds[pa].frame.id = ds[pb].frame.id
      BY <1>2, <2>10, <3>1, <3>2, <3>3, <3>4
    <3>6. pa = pb
      BY <1>1, <3>4, <3>5 DEF Distinct
    <3>7. ~(a < b) /\ ~(b < a)
      <4>1. a < b => pa < pb
        BY <2>6, <3>3
      <4>2. b < a => pb < pa
        BY <2>6, <3>3
      <4>3. pa \in Nat /\ pb \in Nat
        BY <1>2, <3>4
      <4> QED BY <3>6, <4>1, <4>2, <4>3
    <3>8. a = b
      BY <2>5, <3>7
    <3> QED BY <3>1, <3>2, <3>8
  <2>11. ASSUME e \in open', NEW j \in 1 .. m, ds[j].ep = e
         PROVE  \E i \in lq + 1 .. lq + lp : r[i] = ds[j].frame
    <3>1. j \in 1 .. m + n /\ all[j] = ds[j]
      BY <1>2
    <3>2. PICK i \in 1 .. lp : pos[i] = j
      BY <2>2, <2>3, <2>11, <3>1 DEF Whole
    <3>3. lq + i \in lq + 1 .. lq + lp /\ r[lq + i] = all[j].frame
      BY <2>5, <2>6, <3>2
    <3> QED BY <3>1, <3>3
  <2>12. lq =< Len(r)
    BY <2>5
  <2>13. Grown(ds, e, q, r)
    BY <1>1, <2>3, <2>5, <2>6, <2>9, <2>10, <2>11, <2>12 DEF Grown
  <2> QED BY <2>1, <2>13
<1> QED BY <1>5, <1>7

-----------------------------------------------------------------------------
(* The state between requests.                                             *)

ViewType == [of : Int, got : Nat, names : SUBSET Names]

TrafficTypes ==
  /\ alive \subseteq Endpoints /\ open \subseteq Endpoints
  /\ queue \in QueueType /\ written \in [Endpoints -> BOOLEAN]
  /\ \A e \in Endpoints : written[e] => queue[e] # <<>>
  /\ view \in [Keys -> ViewType]

RegistryTypes ==
  /\ generation \in Nat /\ nextId \in [Endpoints -> Nat \ {0}]
  /\ DOMAIN listeners \subseteq Keys
  /\ \A k \in DOMAIN listeners : listeners[k].gen \in Nat
  /\ DOMAIN handles \subseteq Keys
  /\ \A k \in DOMAIN handles : handles[k].pair \in Nat
  /\ pairs \in Seq(Keys \X Keys)

FabricTypes == TrafficTypes /\ RegistryTypes /\ WatchesType(watches)

Owned(k) == k \in DOMAIN listeners \cup DOMAIN handles \cup DOMAIN watches

Drained(k) == \E i \in 1 .. Len(queue[k[1]]) : queue[k[1]][i].drain /\ queue[k[1]][i].id = k[2]

(* An id is a listener, a handle or a watch, and drains for one frame; it  *)
(* does not drain while it is one of the three.                            *)
OneOwner ==
  /\ DOMAIN listeners \cap DOMAIN handles = {} /\ DOMAIN listeners \cap DOMAIN watches = {}
  /\ DOMAIN handles \cap DOMAIN watches = {}

OneDrain ==
  \A e \in Endpoints : \A i, j \in 1 .. Len(queue[e]) :
    queue[e][i].drain /\ queue[e][j].drain /\ queue[e][i].id = queue[e][j].id => i = j

DrainsAreFree == \A k \in Keys : Drained(k) => ~Owned(k)

(* A key is live if it is one of the three or drains.                      *)
LEMMA LiveIs ==
  ASSUME FabricTypes, NEW k \in Keys
  PROVE  Live(k) <=> Owned(k) \/ Drained(k)
<1>1. k[1] \in Endpoints /\ k = <<k[1], k[2]>>
  BY DEF Keys
<1>2. PICK q : q = queue[k[1]]
  OBVIOUS
<1>3. q \in Seq(FrameType) /\ DOMAIN q = 1 .. Len(q)
  BY <1>1, <1>2 DEF FabricTypes, TrafficTypes, QueueType
<1>4. \A e \in Endpoints : Frames(e) = {queue[e][x] : x \in DOMAIN queue[e]}
  BY DEF Frames, Range
<1>5. ASSUME k \in Drains PROVE Drained(k)
  <2>1. PICK e \in Endpoints : \E f \in Frames(e) : f.drain /\ k = <<e, f.id>>
    BY <1>5 DEF Drains
  <2>2. PICK x \in DOMAIN queue[e] : queue[e][x].drain /\ k = <<e, queue[e][x].id>>
    BY <1>4, <2>1
  <2>3. e = k[1] /\ queue[e][x].id = k[2]
    BY <2>2
  <2> QED BY <1>2, <1>3, <2>2, <2>3 DEF Drained
<1>6. ASSUME Drained(k) PROVE k \in Drains
  <2>1. PICK i \in 1 .. Len(q) : q[i].drain /\ q[i].id = k[2]
    BY <1>2, <1>6 DEF Drained
  <2>2. PICK f : f = q[i]
    OBVIOUS
  <2>3. f \in Frames(k[1])
    BY <1>1, <1>2, <1>3, <1>4, <2>1, <2>2
  <2> QED BY <1>1, <2>1, <2>2, <2>3 DEF Drains
<1> QED BY <1>5, <1>6 DEF Live, Owned

(* The deliveries of a request.                                            *)
LEMMA FrameIs ==
  ASSUME NEW kind, NEW id
  PROVE  Frame(kind, id) = [kind |-> kind, id |-> id, of |-> 0, n |-> 0, names |-> {},
                            guard |-> FALSE, slot |-> FALSE, drain |-> FALSE]
BY DEF Frame

(* A frame of a pair carries both guards of the pair.                      *)
LEMMA PairFrameIs ==
  ASSUME NEW kind \in Kinds, NEW id \in Ids, NEW p \in Int, NEW n \in Nat
  PROVE  LET f == PairFrame(kind, id, p, n) IN
         f \in FrameType /\ f.kind = kind /\ f.id = id /\ f.of = p /\ f.n = n /\ ~f.drain
<1>1. PICK f : f = PairFrame(kind, id, p, n)
  OBVIOUS
<1>2. f = [kind |-> kind, id |-> id, of |-> p, n |-> n, names |-> {},
           guard |-> TRUE, slot |-> TRUE, drain |-> FALSE]
  BY <1>1, FrameIs DEF PairFrame
<1>3. f \in FrameType
  BY <1>2 DEF FrameType
<1> QED BY <1>1, <1>2, <1>3

(* The answer to a request to open an id that failed: it drains only an id *)
(* that is not in use.                                                     *)
LEMMA FailedIs ==
  ASSUME NEW k \in Keys
  PROVE  LET d == FailedOpen(k) IN
         /\ d \in Delivery /\ d.ep = k[1] /\ d.frame.id = k[2] /\ ~d.reserved
         /\ d.frame.kind = "failed" /\ (d.frame.drain => ~Live(k))
<1>1. k[1] \in Endpoints /\ k[2] \in Ids
  BY DEF Keys
<1>2. PICK b \in BOOLEAN : b = ~Live(k)
  OBVIOUS
<1>3. PICK f : f = [Frame("failed", k[2]) EXCEPT !.drain = b]
  OBVIOUS
<1>4. f = [kind |-> "failed", id |-> k[2], of |-> 0, n |-> 0, names |-> {},
           guard |-> FALSE, slot |-> FALSE, drain |-> b]
  BY <1>3, FrameIs
<1>5. f \in FrameType
  BY <1>1, <1>2, <1>4 DEF FrameType, Kinds
<1>6. FailedOpen(k) = [ep |-> k[1], frame |-> f, reserved |-> FALSE]
  <2>1. f = [Frame("failed", k[2]) EXCEPT !.drain = ~Live(k)]
    BY <1>2, <1>3
  <2>2. FailedOpen(k) = To(k, f)
    BY <2>1 DEF FailedOpen
  <2> QED BY <2>2 DEF To
<1>7. PICK d : d = FailedOpen(k)
  OBVIOUS
<1>8. d \in Delivery /\ d.ep = k[1] /\ d.frame = f /\ ~d.reserved
  BY <1>1, <1>5, <1>6, <1>7 DEF Delivery
<1>9. f.id = k[2] /\ f.kind = "failed" /\ (f.drain => ~Live(k))
  BY <1>2, <1>4
<1> QED BY <1>7, <1>8, <1>9

(* The end of a listener drains its id.                                    *)
LEMMA ClosedIs ==
  ASSUME NEW k \in Keys, NEW p \in Int
  PROVE  LET d == Closed(k, p) IN
         /\ d \in Delivery /\ d.ep = k[1] /\ d.frame.id = k[2] /\ ~d.reserved
         /\ d.frame.kind = "closed" /\ d.frame.drain /\ d.frame.of = p
<1>1. k[1] \in Endpoints /\ k[2] \in Ids
  BY DEF Keys
<1>3. PICK f : f = [Frame("closed", k[2]) EXCEPT !.of = p, !.drain = TRUE]
  OBVIOUS
<1>4. f = [kind |-> "closed", id |-> k[2], of |-> p, n |-> 0, names |-> {},
           guard |-> FALSE, slot |-> FALSE, drain |-> TRUE]
  BY <1>3, FrameIs
<1>5. f \in FrameType
  BY <1>1, <1>4 DEF FrameType, Kinds
<1>6. Closed(k, p) = [ep |-> k[1], frame |-> f, reserved |-> FALSE]
  BY <1>3 DEF Closed, To
<1> QED BY <1>1, <1>4, <1>5, <1>6 DEF Delivery

(* The end of a pair drains the id of a side, with the guards of the pair. *)
LEMMA ClosedPairIs ==
  ASSUME NEW k \in Keys, NEW p \in Int
  PROVE  LET d == ClosedPair(k, p) IN
         /\ d \in Delivery /\ d.ep = k[1] /\ d.frame.id = k[2] /\ ~d.reserved
         /\ d.frame.kind = "closed" /\ d.frame.drain /\ d.frame.of = p
<1>1. k[1] \in Endpoints /\ k[2] \in Ids
  BY DEF Keys
<1>3. PICK f : f = [PairFrame("closed", k[2], p, 0) EXCEPT !.drain = TRUE]
  OBVIOUS
<1>4. f = [kind |-> "closed", id |-> k[2], of |-> p, n |-> 0, names |-> {},
           guard |-> TRUE, slot |-> TRUE, drain |-> TRUE]
  BY <1>3, FrameIs DEF PairFrame
<1>5. f \in FrameType
  BY <1>1, <1>4 DEF FrameType, Kinds
<1>6. ClosedPair(k, p) = [ep |-> k[1], frame |-> f, reserved |-> FALSE]
  BY <1>3 DEF ClosedPair, To
<1> QED BY <1>1, <1>4, <1>5, <1>6 DEF Delivery

(* A listener is told that it has its name.                                *)
LEMMA ListeningIs ==
  ASSUME NEW k \in Keys, NEW p \in Int
  PROVE  LET d == Reserved(k, [Frame("opened", k[2]) EXCEPT !.of = p]) IN
         /\ d \in Delivery /\ d.ep = k[1] /\ d.frame.id = k[2] /\ d.reserved
         /\ d.frame.kind = "opened" /\ ~d.frame.drain /\ d.frame.of = p
<1>1. k[1] \in Endpoints /\ k[2] \in Ids
  BY DEF Keys
<1>3. PICK f : f = [Frame("opened", k[2]) EXCEPT !.of = p]
  OBVIOUS
<1>4. f = [kind |-> "opened", id |-> k[2], of |-> p, n |-> 0, names |-> {},
           guard |-> FALSE, slot |-> FALSE, drain |-> FALSE]
  BY <1>3, FrameIs
<1>5. f \in FrameType
  BY <1>1, <1>4 DEF FrameType, Kinds
<1>6. PICK d : d = Reserved(k, f)
  OBVIOUS
<1>7. d = [ep |-> k[1], frame |-> f, reserved |-> TRUE]
  BY <1>6 DEF Reserved
<1>8. /\ d \in Delivery /\ d.ep = k[1] /\ d.reserved /\ d.frame = f
  <2>1. d.ep = k[1] /\ d.reserved /\ d.frame = f
    BY <1>7
  <2>2. PICK e, r : e = k[1] /\ r = TRUE
    OBVIOUS
  <2>3. e \in Endpoints /\ r \in BOOLEAN /\ d = [ep |-> e, frame |-> f, reserved |-> r]
    BY <1>1, <1>7, <2>2
  <2>4. d \in Delivery
    BY <1>5, <2>3 DEF Delivery
  <2> QED BY <2>1, <2>4
<1>9. d = Reserved(k, [Frame("opened", k[2]) EXCEPT !.of = p])
  BY <1>3, <1>6
<1>10. d.frame.id = k[2] /\ d.frame.kind = "opened" /\ ~d.frame.drain /\ d.frame.of = p
  BY <1>4, <1>8
<1> QED BY <1>8, <1>9, <1>10

(* A new watch is told the names as they are.                              *)
LEMMA WatchingIs ==
  ASSUME NEW k \in Keys, NEW S \in SUBSET Names
  PROVE  LET d == Reserved(k, NamesFrame(k, S)) IN
         /\ d \in Delivery /\ d.ep = k[1] /\ d.frame.id = k[2] /\ d.reserved
         /\ d.frame.kind = "names" /\ ~d.frame.drain /\ d.frame.names = S
<1>1. k[1] \in Endpoints /\ k[2] \in Ids
  BY DEF Keys
<1>3. PICK f : f = NamesFrame(k, S)
  OBVIOUS
<1>4. f = [kind |-> "names", id |-> k[2], of |-> 0, n |-> 0, names |-> S,
           guard |-> FALSE, slot |-> FALSE, drain |-> FALSE]
  BY <1>3, FrameIs DEF NamesFrame
<1>5. f \in FrameType
  BY <1>1, <1>4 DEF FrameType, Kinds
<1>6. PICK d : d = Reserved(k, f)
  OBVIOUS
<1>7. d = [ep |-> k[1], frame |-> f, reserved |-> TRUE]
  BY <1>6 DEF Reserved
<1>8. /\ d \in Delivery /\ d.ep = k[1] /\ d.reserved /\ d.frame = f
  <2>1. d.ep = k[1] /\ d.reserved /\ d.frame = f
    BY <1>7
  <2>2. PICK e, r : e = k[1] /\ r = TRUE
    OBVIOUS
  <2>3. e \in Endpoints /\ r \in BOOLEAN /\ d = [ep |-> e, frame |-> f, reserved |-> r]
    BY <1>1, <1>7, <2>2
  <2>4. d \in Delivery
    BY <1>5, <2>3 DEF Delivery
  <2> QED BY <2>1, <2>4
<1> QED BY <1>3, <1>4, <1>6, <1>8

(* The outboxes before a request.                                          *)
LEMMA OutboxesIs ==
  ASSUME FabricTypes
  PROVE  Outboxes \in Outbox /\ Outboxes.queue = queue /\ Outboxes.open = open
<1>1. \A e \in Endpoints : Len(queue[e]) \in Nat
  BY DEF FabricTypes, TrafficTypes, QueueType
<1>2. PICK x : x = [e \in Endpoints |-> Len(queue[e])]
  OBVIOUS
<1>3. x \in [Endpoints -> Nat]
  BY <1>1, <1>2
<1>4. Outboxes = [used |-> x, open |-> open, queue |-> queue]
  BY <1>2 DEF Outboxes
<1> QED BY <1>3, <1>4 DEF Outbox, FabricTypes, TrafficTypes

(* Few deliveries.                                                         *)
LEMMA NoDelivery == <<>> \in Seq(Delivery) /\ Len(<<>>) = 0 /\ Distinct(<<>>)
BY DEF Distinct

(* One delivery.                                                           *)
LEMMA OneDelivery ==
  ASSUME NEW d \in Delivery
  PROVE  <<d>> \in Seq(Delivery) /\ Len(<<d>>) = 1 /\ <<d>>[1] = d /\ Distinct(<<d>>)
BY DEF Distinct

(* Two deliveries, to different keys.                                      *)
LEMMA TwoDeliveries ==
  ASSUME NEW c \in Delivery, NEW d \in Delivery, c.ep # d.ep \/ c.frame.id # d.frame.id
  PROVE  <<c, d>> \in Seq(Delivery) /\ Len(<<c, d>>) = 2 /\ <<c, d>>[1] = c /\ <<c, d>>[2] = d
         /\ Distinct(<<c, d>>)
BY DEF Distinct

-----------------------------------------------------------------------------
(* What a request does to the keys.                                        *)

Key(d) == <<d.ep, d.frame.id>>

(* What the fabric has at a key: a pair, a listener, or no channel.        *)
Truth(k) == IF k \in DOMAIN handles THEN handles[k].pair
            ELSE IF k \in DOMAIN listeners THEN -listeners[k].gen ELSE 0

(* A delivery says what happens to its key: a channel starts, ends or goes *)
(* on; a draining one is the last of its key.                              *)
Fits(d) ==
  /\ d.reserved => d.ep \in open
  /\ d.frame.drain => d.frame.kind # "names" /\ ~Drained(Key(d)) /\ ~Owned(Key(d))'
  /\ d.frame.kind \in {"opened", "accepted"} => Truth(Key(d)) = 0 /\ Truth(Key(d))' = d.frame.of
  /\ d.frame.kind = "closed" => Truth(Key(d)) = d.frame.of /\ Truth(Key(d))' = 0
  /\ d.frame.kind \in {"data", "ack"} =>
       Truth(Key(d)) = d.frame.of /\ Truth(Key(d))' = d.frame.of
  /\ d.frame.kind \in {"failed", "names"} => Truth(Key(d))' = Truth(Key(d))

Queued(ds) ==
  /\ ds \in Seq(Delivery) /\ Distinct(ds)
  /\ queue' \in QueueType /\ open' \subseteq open
  /\ \A e \in Endpoints : Grown(ds, e, queue[e], queue'[e])

(* A request: its deliveries fit, an id that drains is not taken, and      *)
(* nothing happens to a key without a delivery.                            *)
Effect(ds) ==
  /\ Queued(ds) /\ alive' \subseteq alive /\ UNCHANGED <<written, view>>
  /\ \A i \in 1 .. Len(ds) : Fits(ds[i])
  /\ \A k \in Keys : Owned(k)' => Owned(k) \/ ~Drained(k)
  /\ \A k \in Keys : /\ k[1] \in alive' \cap open'
                     /\ \A i \in 1 .. Len(ds) : Key(ds[i]) # k
                     => Truth(k)' = Truth(k)

(* No watch is answered.                                                   *)
LEMMA NothingTold == AllNames(<<>>) /\ <<>> \in Seq(Delivery)
BY DEF AllNames

(* A request that answers the watches.                                     *)
LEMMA Requested ==
  ASSUME FabricTypes, NEW ls, NEW ws, WatchesType(ws), NEW changed,
         NEW ds \in Seq(Delivery), Distinct(ds),
         NEW o \in Outbox, o.queue = queue, o.open \subseteq open,
         Publish(ls, ws, changed, ds, o)
  PROVE  /\ Queued(ds) /\ WatchesType(watches') /\ DOMAIN watches' = DOMAIN ws
<1>1. PICK o1, ns : /\ Told(ls, ws, Behind(ls, ws, changed), o, o1, watches', ns)
                    /\ SendAll(ds \o ns, o1)
  BY PublishTells
<1>2. /\ o1 \in Outbox /\ o1.queue = queue /\ o1.open \subseteq open /\ ns \in Seq(Delivery)
      /\ DOMAIN watches' = DOMAIN ws /\ \A k \in DOMAIN ws : watches'[k] \in WatchType
  BY <1>1 DEF Told
<1>3. WatchesType(watches')
  BY <1>2 DEF WatchesType
<1>4. ASSUME NEW j \in 1 .. Len(ns)
      PROVE  ns[j].frame.kind = "names" /\ ~ns[j].frame.drain
  <2>1. PICK k \in Behind(ls, ws, changed) : ns[j] = NamesNow(ls, ws, k)
    BY <1>1 DEF Told
  <2>2. k \in DOMAIN ws
    BY <2>1 DEF Behind
  <2>3. /\ NamesNow(ls, ws, k).frame.kind = "names" /\ ~NamesNow(ls, ws, k).frame.drain
    BY AnswerSays
  <2> QED BY <2>1, <2>3
<1>5. AllNames(ns)
  BY <1>4 DEF AllNames
<1>6. /\ queue' \in QueueType /\ open' \subseteq open
      /\ \A e \in Endpoints : Grown(ds, e, queue[e], queue'[e])
  BY <1>1, <1>2, <1>5, RequestGrows
<1> QED BY <1>2, <1>3, <1>6 DEF Queued

(* A request that does not.                                                *)
LEMMA RequestedOnly ==
  ASSUME FabricTypes, NEW ds \in Seq(Delivery), Distinct(ds), SendAll(ds, Outboxes)
  PROVE  Queued(ds)
<1>1. PICK o : o = Outboxes
  OBVIOUS
<1>2. o \in Outbox /\ o.queue = queue /\ o.open = open
  BY <1>1, OutboxesIs
<1>3. ds \o <<>> = ds
  OBVIOUS
<1>4. SendAll(ds \o <<>>, o)
  BY <1>1, <1>3
<1>5. /\ queue' \in QueueType /\ open' \subseteq open
      /\ \A e \in Endpoints : Grown(ds, e, queue[e], queue'[e])
  BY <1>2, <1>4, NothingTold, RequestGrows
<1> QED BY <1>5 DEF Queued

(* The outboxes after a charge.                                            *)
LEMMA ChargedIs ==
  ASSUME FabricTypes, NEW e \in Endpoints
  PROVE  LET o == Charge(Outboxes, e) IN
         /\ o \in Outbox /\ o.queue = queue /\ o.open \subseteq open
         /\ Room(Outboxes, e) => e \in open
<1>1. PICK o : o = Outboxes
  OBVIOUS
<1>2. o \in Outbox /\ o.queue = queue /\ o.open = open
  BY <1>1, OutboxesIs
<1>3. PICK c : c = Charge(o, e)
  OBVIOUS
<1>4. c \in Outbox /\ c.queue = queue /\ c.open \subseteq open
  BY <1>2, <1>3, ChargeKeeps
<1>5. Room(o, e) => e \in open
  BY <1>2 DEF Room
<1> QED BY <1>1, <1>3, <1>4, <1>5

(* The traffic has its types after a request.                              *)
LEMMA TypesAfter ==
  ASSUME FabricTypes, NEW ds, Queued(ds), alive' \subseteq alive, UNCHANGED <<written, view>>
  PROVE  TrafficTypes'
<1>1. ASSUME NEW e \in Endpoints, written'[e] PROVE queue'[e] # <<>>
  <2>1. PICK q, r : q = queue[e] /\ r = queue'[e]
    OBVIOUS
  <2>2. q # <<>> /\ q \in Seq(FrameType) /\ r \in Seq(FrameType)
    BY <1>1, <2>1 DEF Queued, FabricTypes, TrafficTypes, QueueType
  <2>3. Len(q) =< Len(r)
    BY <2>1 DEF Queued, Grown
  <2> QED BY <2>1, <2>2, <2>3
<1> QED BY <1>1 DEF FabricTypes, TrafficTypes, Queued

(* A request that only answers or refuses: it changes neither listeners    *)
(* nor handles and takes no new watch.                                     *)
LEMMA RefusalFits ==
  ASSUME FabricTypes, NEW ds, Queued(ds), UNCHANGED <<alive, written, view, listeners, handles>>,
         DOMAIN watches' \subseteq DOMAIN watches,
         NEW c \in Keys,
         \A i \in 1 .. Len(ds) : /\ ds[i].frame.kind = "failed" /\ Key(ds[i]) = c
                                 /\ ds[i].reserved => ds[i].ep \in open
                                 /\ ds[i].frame.drain => ~Live(c)
  PROVE  Effect(ds)
<1>1. \A k : Truth(k)' = Truth(k)
  BY DEF Truth
<1>2. \A k : Owned(k)' => Owned(k)
  BY DEF Owned
<1>3. ASSUME NEW i \in 1 .. Len(ds) PROVE Fits(ds[i])
  <2>1. PICK d : d = ds[i]
    OBVIOUS
  <2>2. PICK k : k = Key(d)
    OBVIOUS
  <2>3. /\ d.frame.kind = "failed" /\ k \in Keys
        /\ d.reserved => d.ep \in open
        /\ d.frame.drain => ~Live(k)
    <3>1. Key(d) = c /\ d.frame.kind = "failed" /\ (d.reserved => d.ep \in open)
      BY <1>3, <2>1
    <3>2. d.frame.drain => ~Live(c)
      BY <1>3, <2>1
    <3>3. k = c
      BY <2>2, <3>1
    <3> QED BY <3>1, <3>2, <3>3
  <2>4. d.frame.drain => ~Drained(k) /\ ~Owned(k)'
    BY <1>2, <2>3, LiveIs
  <2>5. Truth(k)' = Truth(k)
    BY <1>1
  <2> QED BY <2>1, <2>2, <2>3, <2>4, <2>5 DEF Fits
<1> QED BY <1>1, <1>2, <1>3 DEF Effect

-----------------------------------------------------------------------------
(* The requests, one by one.                                               *)

(* The refusal of a request to open an id.                                 *)
LEMMA RefusedIs ==
  ASSUME FabricTypes, NEW k \in Keys, UNCHANGED <<alive, written, view, listeners, handles>>,
         DOMAIN watches' \subseteq DOMAIN watches, Queued(<<FailedOpen(k)>>)
  PROVE  Effect(<<FailedOpen(k)>>)
<1>1. PICK d : d = FailedOpen(k)
  OBVIOUS
<1>2. /\ d \in Delivery /\ d.ep = k[1] /\ d.frame.id = k[2] /\ ~d.reserved
      /\ d.frame.kind = "failed" /\ (d.frame.drain => ~Live(k))
  BY <1>1, FailedIs
<1>3. Key(d) = k
  BY <1>2 DEF Key, Keys
<1>4. PICK ds : ds = <<d>>
  OBVIOUS
<1>5. Len(ds) = 1 /\ ds[1] = d
  BY <1>2, <1>4, OneDelivery
<1>6. \A i \in 1 .. Len(ds) : /\ ds[i].frame.kind = "failed" /\ Key(ds[i]) = k
                              /\ ds[i].reserved => ds[i].ep \in open
                              /\ ds[i].frame.drain => ~Live(k)
  BY <1>2, <1>3, <1>5
<1>7. Queued(ds)
  BY <1>1, <1>4
<1>8. Effect(ds)
  BY <1>6, <1>7, RefusalFits
<1> QED BY <1>1, <1>4, <1>8

(* Nothing is delivered: the registry is as it was.                        *)
LEMMA SilentIs ==
  ASSUME FabricTypes, NEW c \in Keys, UNCHANGED <<alive, written, view, listeners, handles>>,
         DOMAIN watches' \subseteq DOMAIN watches, Queued(<<>>)
  PROVE  Effect(<<>>)
<1>1. PICK ds : ds = <<>>
  OBVIOUS
<1>2. Len(ds) = 0
  BY <1>1
<1>3. Effect(ds)
  BY <1>1, <1>2, RefusalFits
<1> QED BY <1>1, <1>3

(* A request is refused, and the watches are answered.                     *)
LEMMA ReplyFailed ==
  ASSUME FabricTypes, NEW k \in Keys, UNCHANGED <<alive, written, view, listeners, handles>>,
         Reply(<<FailedOpen(k)>>, Outboxes)
  PROVE  /\ Effect(<<FailedOpen(k)>>) /\ WatchesType(watches')
         /\ DOMAIN watches' = DOMAIN watches
<1>1. PICK d, o : d = FailedOpen(k) /\ o = Outboxes
  OBVIOUS
<1>2. PICK ds : ds = <<d>>
  OBVIOUS
<1>3. o \in Outbox /\ o.queue = queue /\ o.open \subseteq open
  BY <1>1, OutboxesIs
<1>4. d \in Delivery
  BY <1>1, FailedIs
<1>5. ds \in Seq(Delivery) /\ Distinct(ds)
  BY <1>2, <1>4, OneDelivery
<1>6. Publish(listeners, watches, dirty, ds, o) /\ WatchesType(watches)
  BY <1>1, <1>2 DEF Reply, FabricTypes
<1>7. Queued(ds) /\ WatchesType(watches') /\ DOMAIN watches' = DOMAIN watches
  BY <1>3, <1>5, <1>6, Requested
<1> QED BY <1>1, <1>2, <1>7, RefusedIs

(* An answer could not be reserved: only the watches are answered.         *)
LEMMA ReplyNothing ==
  ASSUME FabricTypes, NEW c \in Keys, UNCHANGED <<alive, written, view, listeners, handles>>,
         NEW o \in Outbox, o.queue = queue, o.open \subseteq open, Reply(<<>>, o)
  PROVE  Effect(<<>>) /\ WatchesType(watches') /\ DOMAIN watches' = DOMAIN watches
<1>1. Publish(listeners, watches, dirty, <<>>, o) /\ WatchesType(watches)
  BY DEF Reply, FabricTypes
<1>2. Queued(<<>>) /\ WatchesType(watches') /\ DOMAIN watches' = DOMAIN watches
  BY <1>1, NoDelivery, Requested
<1> QED BY <1>2, SilentIs

ChannelInv == FabricTypes /\ FabricInv /\ OneOwner /\ OneDrain /\ DrainsAreFree

(* What is left to show of a request.                                      *)
Kept == RegistryTypes' /\ WatchesType(watches') /\ OneOwner'

(* A request that changes no listener, no handle and takes no watch leaves *)
(* nothing to show of the registry.                                        *)
LEMMA RegistryKept ==
  ASSUME ChannelInv, UNCHANGED <<listeners, handles, generation, nextId, pairs>>,
         DOMAIN watches' \subseteq DOMAIN watches, WatchesType(watches')
  PROVE  Kept
<1>1. RegistryTypes'
  BY DEF ChannelInv, FabricTypes, RegistryTypes
<1>2. OneOwner'
  BY DEF ChannelInv, OneOwner
<1> QED BY <1>1, <1>2 DEF Kept

(* The keys that clients open are keys.                                    *)
LEMMA ClientKey ==
  ASSUME NEW k \in Endpoints \X ClientIds
  PROVE  k \in Keys /\ k[1] \in Endpoints
BY DEF Keys, Ids

(* LISTEN: refused, not answered for want of room, or a new listener.      *)
LEMMA ListenEffect ==
  ASSUME ChannelInv, NEW k \in Endpoints \X ClientIds, NEW name, Listen(k, name)
  PROVE  Kept /\ \E ds : Effect(ds)
<1>0. FabricTypes /\ k \in Keys /\ k[1] \in Endpoints
  BY ClientKey DEF ChannelInv
<1>u. UNCHANGED <<alive, written, view, handles, nextId, pairs>>
  BY DEF Listen
<1>1. CASE CannotListen(k, name)
  <2>1. Reply(<<FailedOpen(k)>>, Outboxes) /\ UNCHANGED <<listeners, generation>>
    BY <1>1 DEF Listen
  <2>2. Effect(<<FailedOpen(k)>>) /\ WatchesType(watches') /\ DOMAIN watches' = DOMAIN watches
    BY <1>0, <1>u, <2>1, ReplyFailed
  <2> QED BY <1>u, <2>1, <2>2, RegistryKept
<1>2. CASE ~CannotListen(k, name) /\ ~Room(Outboxes, k[1])
  <2>1. Reply(<<>>, Charge(Outboxes, k[1])) /\ UNCHANGED <<listeners, generation>>
    BY <1>2 DEF Listen
  <2>2. PICK o : o = Charge(Outboxes, k[1])
    OBVIOUS
  <2>3. o \in Outbox /\ o.queue = queue /\ o.open \subseteq open
    BY <1>0, <2>2, ChargedIs
  <2>4. Effect(<<>>) /\ WatchesType(watches') /\ DOMAIN watches' = DOMAIN watches
    BY <1>0, <1>u, <2>1, <2>2, <2>3, ReplyNothing
  <2> QED BY <1>u, <2>1, <2>4, RegistryKept
<1>3. CASE ~CannotListen(k, name) /\ Room(Outboxes, k[1])
  <2>1. PICK ls : ls = With(listeners, k, [name |-> name, gen |-> generation])
    OBVIOUS
  <2>2. PICK o : o = Charge(Outboxes, k[1])
    OBVIOUS
  <2>3. o \in Outbox /\ o.queue = queue /\ o.open \subseteq open /\ k[1] \in open
    BY <1>0, <1>3, <2>2, ChargedIs
  <2>4. PICK g : g = generation
    OBVIOUS
  <2>5. g \in Nat /\ -g \in Int
    BY <1>0, <2>4 DEF FabricTypes, RegistryTypes
  <2>6. PICK d : d = Reserved(k, [Frame("opened", k[2]) EXCEPT !.of = -g])
    OBVIOUS
  <2>7. /\ d \in Delivery /\ d.ep = k[1] /\ d.frame.id = k[2] /\ d.reserved
        /\ d.frame.kind = "opened" /\ ~d.frame.drain /\ d.frame.of = -g
    BY <1>0, <2>5, <2>6, ListeningIs
  <2>8. PICK ds : ds = <<d>>
    OBVIOUS
  <2>9. ds \in Seq(Delivery) /\ Len(ds) = 1 /\ ds[1] = d /\ Distinct(ds)
    BY <2>7, <2>8, OneDelivery
  <2>10. /\ listeners' = ls /\ generation' = g + 1
         /\ Publish(ls, watches, TRUE, ds, o)
    BY <1>3, <2>1, <2>2, <2>4, <2>6, <2>8 DEF Listen
  <2>11. Queued(ds) /\ WatchesType(watches') /\ DOMAIN watches' = DOMAIN watches
    BY <1>0, <2>3, <2>9, <2>10, Requested DEF FabricTypes
  <2>12. ~Owned(k) /\ ~Drained(k)
    BY <1>0, <1>3, LiveIs DEF CannotListen
  <2>13. /\ DOMAIN listeners' = DOMAIN listeners \cup {k} /\ listeners'[k].gen = g
         /\ \A x \in DOMAIN listeners : listeners'[x] = listeners[x]
    BY <2>1, <2>10, <2>12, <2>4 DEF With, Owned
  <2>14. RegistryTypes'
    BY <1>0, <1>u, <2>5, <2>10, <2>13 DEF FabricTypes, RegistryTypes
  <2>15. OneOwner'
    BY <1>u, <2>11, <2>12, <2>13 DEF ChannelInv, OneOwner, Owned
  <2>16. \A x : Owned(x)' <=> Owned(x) \/ x = k
    BY <1>u, <2>11, <2>13 DEF Owned
  <2>17. \A x : x # k => Truth(x)' = Truth(x)
    BY <1>u, <2>13 DEF Truth
  <2>18. Truth(k) = 0 /\ Truth(k)' = -g
    BY <1>u, <2>12, <2>13 DEF Truth, Owned
  <2>19. Key(d) = k
    BY <1>0, <2>7 DEF Key, Keys
  <2>20. Fits(d)
    BY <2>3, <2>7, <2>18, <2>19 DEF Fits
  <2>21. Effect(ds)
    BY <1>u, <2>9, <2>11, <2>12, <2>16, <2>17, <2>19, <2>20 DEF Effect
  <2> QED BY <2>11, <2>14, <2>15, <2>21 DEF Kept
<1> QED BY <1>1, <1>2, <1>3

(* WATCH: refused, not answered for want of room, or a new watch.          *)
LEMMA WatchEffect ==
  ASSUME ChannelInv, NEW k \in Endpoints \X ClientIds, NEW S \in NameSets, Watch(k, S)
  PROVE  Kept /\ \E ds : Effect(ds)
<1>0. FabricTypes /\ k \in Keys /\ k[1] \in Endpoints
  BY ClientKey DEF ChannelInv
<1>u. UNCHANGED <<alive, written, view, listeners, handles, generation, nextId, pairs>>
  BY DEF Watch
<1>1. CASE CannotWatch(k) /\ Reply(<<FailedOpen(k)>>, Outboxes)
  <2>2. Effect(<<FailedOpen(k)>>) /\ WatchesType(watches') /\ DOMAIN watches' = DOMAIN watches
    BY <1>0, <1>u, <1>1, ReplyFailed
  <2> QED BY <1>u, <2>2, RegistryKept
<1>2. CASE ~CannotWatch(k) /\ ~Room(Outboxes, k[1]) /\ Reply(<<>>, Charge(Outboxes, k[1]))
  <2>2. PICK o : o = Charge(Outboxes, k[1])
    OBVIOUS
  <2>3. o \in Outbox /\ o.queue = queue /\ o.open \subseteq open
    BY <1>0, <2>2, ChargedIs
  <2>4. Effect(<<>>) /\ WatchesType(watches') /\ DOMAIN watches' = DOMAIN watches
    BY <1>0, <1>u, <1>2, <2>2, <2>3, ReplyNothing
  <2> QED BY <1>u, <2>4, RegistryKept
<1> DEFINE P == Present(listeners, S)
<1>3. CASE /\ ~CannotWatch(k) /\ Room(Outboxes, k[1])
           /\ Publish(listeners, With(watches, k, [names |-> S, published |-> P]), dirty,
                      <<Reserved(k, NamesFrame(k, P))>>, Charge(Outboxes, k[1]))
  <2>1. PICK Q : Q = P
    OBVIOUS
  <2>2. Q \in SUBSET Names /\ S \in SUBSET Names
    BY ChannelAssumption, <2>1 DEF Present, ChannelAssumption
  <2>3. PICK ws : ws = With(watches, k, [names |-> S, published |-> Q])
    OBVIOUS
  <2>4. PICK o : o = Charge(Outboxes, k[1])
    OBVIOUS
  <2>5. o \in Outbox /\ o.queue = queue /\ o.open \subseteq open /\ k[1] \in open
    BY <1>0, <1>3, <2>4, ChargedIs
  <2>6. PICK d : d = Reserved(k, NamesFrame(k, Q))
    OBVIOUS
  <2>7. /\ d \in Delivery /\ d.ep = k[1] /\ d.frame.id = k[2] /\ d.reserved
        /\ d.frame.kind = "names" /\ ~d.frame.drain
    BY <1>0, <2>2, <2>6, WatchingIs
  <2>8. PICK ds : ds = <<d>>
    OBVIOUS
  <2>9. ds \in Seq(Delivery) /\ Len(ds) = 1 /\ ds[1] = d /\ Distinct(ds)
    BY <2>7, <2>8, OneDelivery
  <2>10. Publish(listeners, ws, dirty, ds, o)
    BY <1>3, <2>1, <2>3, <2>4, <2>6, <2>8
  <2>11. /\ DOMAIN ws = DOMAIN watches \cup {k} /\ ws[k] = [names |-> S, published |-> Q]
         /\ \A x \in DOMAIN watches : x # k => ws[x] = watches[x]
    BY <2>3 DEF With
  <2>12. WatchesType(ws)
    <3>1. ws[k] \in WatchType
      BY <2>2, <2>11 DEF WatchType
    <3>2. WatchesType(watches)
      BY <1>0 DEF FabricTypes
    <3> QED BY <1>0, <2>11, <3>1, <3>2 DEF WatchesType
  <2>13. Queued(ds) /\ WatchesType(watches') /\ DOMAIN watches' = DOMAIN ws
    BY <1>0, <2>5, <2>9, <2>10, <2>12, Requested
  <2>14. ~Owned(k) /\ ~Drained(k)
    BY <1>0, <1>3, LiveIs DEF CannotWatch
  <2>15. RegistryTypes'
    BY <1>0, <1>u DEF FabricTypes, RegistryTypes
  <2>16. OneOwner'
    BY <1>u, <2>11, <2>13, <2>14 DEF ChannelInv, OneOwner, Owned
  <2>17. \A x : Owned(x)' <=> Owned(x) \/ x = k
    BY <1>u, <2>11, <2>13 DEF Owned
  <2>18. \A x : Truth(x)' = Truth(x)
    BY <1>u DEF Truth
  <2>19. Fits(d)
    <3>1. PICK x : x = Key(d)
      OBVIOUS
    <3>2. Truth(x)' = Truth(x)
      BY <2>18
    <3> QED BY <2>5, <2>7, <3>1, <3>2 DEF Fits
  <2>20. Effect(ds)
    BY <1>u, <2>9, <2>13, <2>14, <2>17, <2>18, <2>19 DEF Effect
  <2> QED BY <2>13, <2>15, <2>16, <2>20 DEF Kept
<1> QED BY <1>1, <1>2, <1>3 DEF Watch

(* UNWATCH: nobody but the remaining watches is told.                      *)
LEMMA UnwatchEffect ==
  ASSUME ChannelInv, NEW k \in Endpoints \X ClientIds, Unwatch(k)
  PROVE  Kept /\ \E ds : Effect(ds)
<1>0. FabricTypes
  BY DEF ChannelInv
<1>1. PICK ws, o : ws = Without(watches, {k}) /\ o = Outboxes
  OBVIOUS
<1>2. /\ DOMAIN ws \subseteq DOMAIN watches /\ \A x \in DOMAIN ws : ws[x] = watches[x]
  BY <1>1 DEF Without
<1>3. WatchesType(ws)
  BY <1>0, <1>2 DEF FabricTypes, WatchesType
<1>4. o \in Outbox /\ o.queue = queue /\ o.open \subseteq open
  BY <1>0, <1>1, OutboxesIs
<1>5. Publish(listeners, ws, dirty, <<>>, o)
  BY <1>1 DEF Unwatch
<1>6. Queued(<<>>) /\ WatchesType(watches') /\ DOMAIN watches' = DOMAIN ws
  BY <1>0, <1>3, <1>4, <1>5, NoDelivery, Requested
<1>7. UNCHANGED <<alive, written, view, listeners, handles, generation, nextId, pairs>>
  BY DEF Unwatch
<1>8. Effect(<<>>)
  BY <1>0, <1>2, <1>6, <1>7, ClientKey, SilentIs
<1>9. Kept
  BY <1>2, <1>6, <1>7, RegistryKept
<1> QED BY <1>8, <1>9

(* A request to open something during shutdown.                            *)
LEMMA RefuseEffect ==
  ASSUME ChannelInv, NEW k \in Endpoints \X ClientIds, Refuse(k)
  PROVE  Kept /\ \E ds : Effect(ds)
<1>0. FabricTypes /\ k \in Keys
  BY ClientKey DEF ChannelInv
<1>1. UNCHANGED <<alive, written, view, listeners, handles, watches, generation, nextId, pairs>>
  BY DEF Refuse, registry
<1>2. FailedOpen(k) \in Delivery
  BY <1>0, FailedIs
<1>3. <<FailedOpen(k)>> \in Seq(Delivery) /\ Distinct(<<FailedOpen(k)>>)
  BY <1>2, OneDelivery
<1>4. Queued(<<FailedOpen(k)>>)
  BY <1>0, <1>3, RequestedOnly DEF Refuse
<1>5. Effect(<<FailedOpen(k)>>)
  BY <1>0, <1>1, <1>4, RefusedIs
<1>6. Kept
  BY <1>0, <1>1, RegistryKept DEF FabricTypes
<1> QED BY <1>5, <1>6

(* The notifications of a new pair are reserved, or its connector's outbox *)
(* is told to carry a failure.                                             *)
LEMMA ReservePairIs ==
  ASSUME FabricTypes, NEW c \in Endpoints, NEW l \in Endpoints
  PROVE  LET r == ReservePair(c, l) IN
         /\ r.o \in Outbox /\ r.o.queue = queue /\ r.o.open \subseteq open
         /\ r.ok => c \in open /\ l \in open
         /\ r.cancel => c \in open
<1>1. PICK f, s : f = (IF c =< l THEN c ELSE l) /\ s = (IF c =< l THEN l ELSE c)
  OBVIOUS
<1>2. f \in Endpoints /\ s \in Endpoints /\ {f, s} = {c, l} /\ (s = l => f = c)
  BY <1>1
<1>3. PICK o : o = Outboxes
  OBVIOUS
<1>4. o \in Outbox /\ o.queue = queue /\ o.open = open
  BY <1>3, OutboxesIs
<1>5. PICK o1 : o1 = Charge(o, f)
  OBVIOUS
<1>6. o1 \in Outbox /\ o1.queue = queue /\ o1.open \subseteq open
  BY <1>2, <1>4, <1>5, ChargeKeeps
<1>7. PICK o2 : o2 = Charge(o1, s)
  OBVIOUS
<1>8. o2 \in Outbox /\ o2.queue = queue /\ o2.open \subseteq open
  <2>1. o1 \in Outbox /\ s \in Endpoints
    BY <1>2, <1>6
  <2>2. /\ Charge(o1, s) \in Outbox /\ Charge(o1, s).queue = o1.queue
        /\ IF Room(o1, s) THEN Charge(o1, s).open = o1.open
           ELSE Charge(o1, s).open = o1.open \ {s}
    BY <2>1, ChargeKeeps
  <2>3. o2.open \subseteq o1.open
    BY <1>7, <2>2
  <2>4. o2 \in Outbox /\ o2.queue = o1.queue
    BY <1>7, <2>2
  <2> QED BY <1>6, <2>3, <2>4
<1>9. PICK r : r = ReservePair(c, l)
  OBVIOUS
<1>10. /\ Room(o, f) => f \in open
       /\ Room(o1, s) => s \in open
       /\ Room(o1, c) => c \in open
  BY <1>4, <1>6 DEF Room
<1>11. r = (CASE ~Room(o, f) /\ f = c -> [ok |-> FALSE, cancel |-> FALSE, o |-> o1]
              [] ~Room(o, f) /\ f # c -> [ok |-> FALSE, cancel |-> Room(o1, c), o |-> o2]
              [] Room(o, f) /\ ~Room(o1, s) -> [ok |-> FALSE, cancel |-> s = l, o |-> o2]
              [] OTHER -> [ok |-> TRUE, cancel |-> FALSE, o |-> o2])
  BY <1>1, <1>3, <1>5, <1>7, <1>9 DEF ReservePair
<1>12. CASE ~Room(o, f) /\ f = c
  <2>1. r = [ok |-> FALSE, cancel |-> FALSE, o |-> o1]
    BY <1>11, <1>12
  <2> QED BY <1>6, <1>9, <2>1
<1>13. CASE ~Room(o, f) /\ f # c
  <2>1. r = [ok |-> FALSE, cancel |-> Room(o1, c), o |-> o2]
    BY <1>11, <1>13
  <2>2. r.o = o2 /\ ~r.ok /\ (r.cancel => c \in open)
    BY <1>10, <2>1
  <2> QED BY <1>8, <1>9, <2>2
<1>14. CASE Room(o, f) /\ ~Room(o1, s)
  <2>1. r = [ok |-> FALSE, cancel |-> s = l, o |-> o2]
    BY <1>11, <1>14
  <2>2. r.o = o2 /\ ~r.ok /\ (r.cancel => c \in open)
    BY <1>2, <1>10, <1>14, <2>1
  <2> QED BY <1>8, <1>9, <2>2
<1>15. CASE Room(o, f) /\ Room(o1, s)
  <2>1. r = [ok |-> TRUE, cancel |-> FALSE, o |-> o2]
    BY <1>11, <1>15
  <2>2. r.o = o2 /\ ~r.cancel
    BY <2>1
  <2>3. c \in open /\ l \in open
    BY <1>2, <1>10, <1>15
  <2> QED BY <1>8, <1>9, <2>2, <2>3
<1> QED BY <1>12, <1>13, <1>14, <1>15

(* A new pair: each side is told of it.                                    *)
LEMMA CommitEffect ==
  ASSUME ChannelInv, NEW k \in Endpoints \X ClientIds, NEW l \in Endpoints,
         NEW i \in FreeServerIds(l), NEW o \in Outbox, o.queue = queue, o.open \subseteq open,
         k[1] \in open, l \in open, ~Live(k), Commit(k, <<l, i>>, o),
         UNCHANGED <<alive, listeners, generation, written, view>>
  PROVE  Kept /\ \E ds : Effect(ds)
<1>0. FabricTypes /\ k \in Keys /\ k[1] \in Endpoints /\ k = <<k[1], k[2]>>
  BY ClientKey DEF ChannelInv, Keys
<1>1. PICK a : a = <<l, i>>
  OBVIOUS
<1>2. i \in Nat /\ i % 2 = 1 /\ ~Live(a) /\ i \in 1 .. MaxId
  <2>1. MaxId \in Nat /\ nextId[l] \in Nat \ {0}
    BY <1>0, ChannelAssumption DEF FabricTypes, RegistryTypes, ChannelAssumption
  <2>2. i \in nextId[l] .. MaxId /\ i % 2 = 1 /\ ~Live(a)
    BY <1>1 DEF FreeServerIds
  <2> QED BY <2>1, <2>2
<1>3. a \in Keys /\ a[1] = l /\ a[2] = i /\ a[2] \in Ids
  BY <1>1, <1>2 DEF Keys, Ids
<1>4. k[2] # i
  <2>1. k[2] % 2 = 0
    BY ChannelAssumption DEF ChannelAssumption
  <2> QED BY <1>2, <2>1
<1>5. k # a
  BY <1>3, <1>4
<1>6. PICK p : p = Len(pairs) + 1
  OBVIOUS
<1>7. p \in Nat
  <2>1. Len(pairs) \in Nat
    BY <1>0 DEF FabricTypes, RegistryTypes
  <2> QED BY <1>6, <2>1
<1>8. /\ nextId' = [nextId EXCEPT ![l] = i + 2]
      /\ handles' = With(With(handles, k, NewHandle(a, p)), a, NewHandle(k, p))
      /\ pairs' = Append(pairs, <<k, a>>)
      /\ Reply(<<Reserved(k, PairFrame("opened", k[2], p, 0)),
                 Reserved(a, PairFrame("accepted", i, p, 0))>>, o)
  BY <1>1, <1>3, <1>6 DEF Commit
<1>9. /\ DOMAIN handles' = DOMAIN handles \cup {k, a}
      /\ handles'[k].pair = p /\ handles'[a].pair = p
      /\ \A x \in DOMAIN handles : x # k /\ x # a => handles'[x] = handles[x]
  <2>1. PICK h : h = With(handles, k, NewHandle(a, p))
    OBVIOUS
  <2>2. DOMAIN h = DOMAIN handles \cup {k} /\ h[k] = NewHandle(a, p)
        /\ \A x \in DOMAIN handles : x # k => h[x] = handles[x]
    BY <2>1 DEF With
  <2>3. handles' = With(h, a, NewHandle(k, p))
    BY <1>8, <2>1
  <2>4. DOMAIN handles' = DOMAIN h \cup {a} /\ handles'[a] = NewHandle(k, p)
        /\ \A x \in DOMAIN h : x # a => handles'[x] = h[x]
    BY <2>3 DEF With
  <2>5. NewHandle(k, p).pair = p /\ NewHandle(a, p).pair = p
    BY DEF NewHandle
  <2> QED BY <1>5, <2>2, <2>4, <2>5
<1>10. PICK fk, fa : fk = PairFrame("opened", k[2], p, 0) /\ fa = PairFrame("accepted", i, p, 0)
  OBVIOUS
<1>11. /\ fk \in FrameType /\ fk.id = k[2] /\ fk.kind = "opened" /\ ~fk.drain /\ fk.of = p
       /\ fa \in FrameType /\ fa.id = i /\ fa.kind = "accepted" /\ ~fa.drain /\ fa.of = p
  <2>1. k[2] \in Ids /\ i \in Ids /\ p \in Int /\ 0 \in Nat
    BY <1>0, <1>3, <1>7 DEF Keys
  <2>2. "opened" \in Kinds /\ "accepted" \in Kinds
    BY DEF Kinds
  <2> QED BY <1>10, <2>1, <2>2, PairFrameIs
<1>12. PICK dk, da : dk = Reserved(k, fk) /\ da = Reserved(a, fa)
  OBVIOUS
<1>13. /\ dk = [ep |-> k[1], frame |-> fk, reserved |-> TRUE]
       /\ da = [ep |-> l, frame |-> fa, reserved |-> TRUE]
  BY <1>3, <1>12 DEF Reserved
<1>14. /\ dk \in Delivery /\ dk.ep = k[1] /\ dk.frame = fk
       /\ da \in Delivery /\ da.ep = l /\ da.frame = fa
  BY <1>0, <1>11, <1>13 DEF Delivery
<1>15. PICK ds : ds = <<dk, da>>
  OBVIOUS
<1>16. ds \in Seq(Delivery) /\ Len(ds) = 2 /\ ds[1] = dk /\ ds[2] = da /\ Distinct(ds)
  BY <1>4, <1>11, <1>14, <1>15, TwoDeliveries
<1>17. Publish(listeners, watches, dirty, ds, o) /\ WatchesType(watches)
  BY <1>0, <1>8, <1>10, <1>12, <1>15 DEF Reply, FabricTypes
<1>18. Queued(ds) /\ WatchesType(watches') /\ DOMAIN watches' = DOMAIN watches
  BY <1>0, <1>16, <1>17, Requested
<1>19. ~Owned(k) /\ ~Drained(k) /\ ~Owned(a) /\ ~Drained(a)
  BY <1>0, <1>2, <1>3, LiveIs
<1>20. RegistryTypes'
  <2>1. nextId' \in [Endpoints -> Nat \ {0}]
    <3>1. i + 2 \in Nat \ {0}
      BY <1>2
    <3>2. nextId \in [Endpoints -> Nat \ {0}]
      BY <1>0 DEF FabricTypes, RegistryTypes
    <3> QED BY <1>8, <3>1, <3>2
  <2>2. pairs' \in Seq(Keys \X Keys)
    <3>1. <<k, a>> \in Keys \X Keys /\ pairs \in Seq(Keys \X Keys)
      BY <1>0, <1>3 DEF FabricTypes, RegistryTypes
    <3> QED BY <1>8, <3>1
  <2>3. DOMAIN handles' \subseteq Keys
    BY <1>0, <1>3, <1>9 DEF FabricTypes, RegistryTypes
  <2>4. \A x \in DOMAIN handles' : handles'[x].pair \in Nat
    BY <1>0, <1>7, <1>9 DEF FabricTypes, RegistryTypes
  <2> QED BY <1>0, <2>1, <2>2, <2>3, <2>4 DEF FabricTypes, RegistryTypes
<1>21. OneOwner'
  BY <1>9, <1>18, <1>19 DEF ChannelInv, OneOwner, Owned
<1>22. \A x : Owned(x)' <=> Owned(x) \/ x \in {k, a}
  BY <1>9, <1>18 DEF Owned
<1>23. \A x : x \notin {k, a} => Truth(x)' = Truth(x)
  BY <1>9 DEF Truth
<1>24. Truth(k) = 0 /\ Truth(k)' = p /\ Truth(a) = 0 /\ Truth(a)' = p
  BY <1>9, <1>19 DEF Truth, Owned
<1>25. Key(dk) = k /\ Key(da) = a
  BY <1>0, <1>1, <1>11, <1>14 DEF Key
<1>26. Fits(dk)
  BY <1>11, <1>14, <1>24, <1>25 DEF Fits
<1>27. Fits(da)
  BY <1>11, <1>14, <1>24, <1>25 DEF Fits
<1>28. \A j \in 1 .. Len(ds) : ds[j] = dk \/ ds[j] = da
  BY <1>16
<1>29. \A x \in Keys : (\A j \in 1 .. Len(ds) : Key(ds[j]) # x) => Truth(x)' = Truth(x)
  <2>1. ASSUME NEW x \in Keys, \A j \in 1 .. Len(ds) : Key(ds[j]) # x
        PROVE  Truth(x)' = Truth(x)
    <3>1. 1 \in 1 .. Len(ds) /\ 2 \in 1 .. Len(ds)
      BY <1>16
    <3>2. Key(ds[1]) # x /\ Key(ds[2]) # x
      BY <2>1, <3>1
    <3>3. x # k /\ x # a
      BY <1>16, <1>25, <3>2
    <3> QED BY <1>23, <3>3
  <2> QED BY <2>1
<1>30. \A x \in Keys : Owned(x)' => Owned(x) \/ ~Drained(x)
  BY <1>19, <1>22
<1>31. \A j \in 1 .. Len(ds) : Fits(ds[j])
  BY <1>26, <1>27, <1>28
<1>32. Effect(ds)
  BY <1>18, <1>29, <1>30, <1>31 DEF Effect
<1> QED BY <1>18, <1>20, <1>21, <1>32 DEF Kept

(* A cancelled connect: the failure is reserved.                           *)
LEMMA CancelEffect ==
  ASSUME FabricTypes, NEW k \in Keys, UNCHANGED <<alive, written, view, listeners, handles>>,
         NEW o \in Outbox, o.queue = queue, o.open \subseteq open, k[1] \in open,
         Reply(<<[FailedOpen(k) EXCEPT !.reserved = TRUE]>>, o)
  PROVE  /\ WatchesType(watches') /\ DOMAIN watches' = DOMAIN watches
         /\ \E ds : Effect(ds)
<1>1. PICK d : d = FailedOpen(k)
  OBVIOUS
<1>2. /\ d \in Delivery /\ d.ep = k[1] /\ d.frame.id = k[2]
      /\ d.frame.kind = "failed" /\ (d.frame.drain => ~Live(k))
  BY <1>1, FailedIs
<1>3. PICK c : c = [d EXCEPT !.reserved = TRUE]
  OBVIOUS
<1>4. c \in Delivery /\ c.ep = k[1] /\ c.frame = d.frame
  BY <1>2, <1>3 DEF Delivery
<1>5. PICK ds : ds = <<c>>
  OBVIOUS
<1>6. ds \in Seq(Delivery) /\ Len(ds) = 1 /\ ds[1] = c /\ Distinct(ds)
  BY <1>4, <1>5, OneDelivery
<1>7. Publish(listeners, watches, dirty, ds, o) /\ WatchesType(watches)
  BY <1>1, <1>3, <1>5 DEF Reply, FabricTypes
<1>8. Queued(ds) /\ WatchesType(watches') /\ DOMAIN watches' = DOMAIN watches
  BY <1>6, <1>7, Requested
<1>9. Key(c) = k
  BY <1>2, <1>4 DEF Key, Keys
<1>10. \A i \in 1 .. Len(ds) : /\ ds[i].frame.kind = "failed" /\ Key(ds[i]) = k
                               /\ ds[i].reserved => ds[i].ep \in open
                               /\ ds[i].frame.drain => ~Live(k)
  BY <1>2, <1>4, <1>6, <1>9
<1>11. Effect(ds)
  BY <1>8, <1>10, RefusalFits
<1> QED BY <1>8, <1>11

(* CONNECT: refused, cancelled, or a new pair.                             *)
LEMMA ConnectEffect ==
  ASSUME ChannelInv, NEW k \in Endpoints \X ClientIds, NEW name, NEW token,
         Connect(k, name, token)
  PROVE  Kept /\ \E ds : Effect(ds)
<1>0. FabricTypes /\ k \in Keys /\ k[1] \in Endpoints
  BY ClientKey DEF ChannelInv
<1>u. UNCHANGED <<alive, written, view, listeners, generation>>
  BY DEF Connect
<1>1. CASE Reply(<<FailedOpen(k)>>, Outboxes) /\ UNCHANGED <<handles, nextId, pairs>>
  <2>1. Effect(<<FailedOpen(k)>>) /\ WatchesType(watches') /\ DOMAIN watches' = DOMAIN watches
    BY <1>0, <1>u, <1>1, ReplyFailed
  <2> QED BY <1>u, <1>1, <2>1, RegistryKept
<1>2. ASSUME NEW l \in Endpoints, ~NoServiceFor(k, name, token), ReservePair(k[1], l).ok,
             NEW i \in FreeServerIds(l), Commit(k, <<l, i>>, ReservePair(k[1], l).o)
      PROVE  Kept /\ \E ds : Effect(ds)
  <2>1. PICK r : r = ReservePair(k[1], l)
    OBVIOUS
  <2>2. PICK o : o = r.o
    OBVIOUS
  <2>3. o \in Outbox /\ o.queue = queue /\ o.open \subseteq open /\ k[1] \in open /\ l \in open
    BY <1>0, <1>2, <2>1, <2>2, ReservePairIs
  <2>4. ~Live(k)
    BY <1>2 DEF NoServiceFor
  <2>5. Commit(k, <<l, i>>, o)
    BY <1>2, <2>1, <2>2
  <2> QED BY <1>u, <2>3, <2>4, <2>5, CommitEffect
<1>3. ASSUME NEW l \in Endpoints, UNCHANGED <<handles, nextId, pairs>>,
             Reply(IF ReservePair(k[1], l).cancel THEN <<[FailedOpen(k) EXCEPT !.reserved = TRUE]>>
                   ELSE <<>>, ReservePair(k[1], l).o)
      PROVE  Kept /\ \E ds : Effect(ds)
  <2>1. PICK r : r = ReservePair(k[1], l)
    OBVIOUS
  <2>2. PICK o : o = r.o
    OBVIOUS
  <2>3. o \in Outbox /\ o.queue = queue /\ o.open \subseteq open /\ (r.cancel => k[1] \in open)
    BY <1>0, <1>3, <2>1, <2>2, ReservePairIs
  <2>4. CASE r.cancel
    <3>1. Reply(<<[FailedOpen(k) EXCEPT !.reserved = TRUE]>>, o)
      BY <1>3, <2>1, <2>2, <2>4
    <3>2. /\ WatchesType(watches') /\ DOMAIN watches' = DOMAIN watches /\ \E ds : Effect(ds)
      BY <1>0, <1>u, <1>3, <2>3, <2>4, <3>1, CancelEffect
    <3> QED BY <1>u, <1>3, <3>2, RegistryKept
  <2>5. CASE ~r.cancel
    <3>1. Reply(<<>>, o)
      BY <1>3, <2>1, <2>2, <2>5
    <3>2. Effect(<<>>) /\ WatchesType(watches') /\ DOMAIN watches' = DOMAIN watches
      BY <1>0, <1>u, <1>3, <2>3, <3>1, ReplyNothing
    <3> QED BY <1>u, <1>3, <3>2, RegistryKept
  <2> QED BY <2>4, <2>5
<1>4. \A l \in DOMAIN listeners : l[1] \in Endpoints
  BY <1>0 DEF FabricTypes, RegistryTypes, Keys
<1>5. \/ Reply(<<FailedOpen(k)>>, Outboxes) /\ UNCHANGED <<handles, nextId, pairs>>
      \/ /\ ~NoServiceFor(k, name, token)
         /\ \E l \in DOMAIN listeners :
              \/ /\ ReservePair(k[1], l[1]).ok
                 /\ \E i \in FreeServerIds(l[1]) : Commit(k, <<l[1], i>>, ReservePair(k[1], l[1]).o)
              \/ /\ UNCHANGED <<handles, nextId, pairs>>
                 /\ Reply(IF ReservePair(k[1], l[1]).cancel
                          THEN <<[FailedOpen(k) EXCEPT !.reserved = TRUE]>>
                          ELSE <<>>, ReservePair(k[1], l[1]).o)
  BY Zenon DEF Connect
<1> QED BY <1>1, <1>2, <1>3, <1>4, <1>5

(* Closing whatever a key names: the handle and its partner, or the        *)
(* listener, are closed and drain from then on.                            *)
LEMMA TerminateDeliveries ==
  ASSUME ChannelInv, NEW k \in Keys
  PROVE  Terminate(k).ds \in Seq(Delivery) /\ Distinct(Terminate(k).ds)
<1>1. CASE k \in DOMAIN listeners
  <2>1. PICK p : p = -listeners[k].gen
    OBVIOUS
  <2>2. p \in Int
    <3>1. listeners[k].gen \in Nat
      BY <1>1 DEF ChannelInv, FabricTypes, RegistryTypes
    <3> QED BY <2>1, <3>1
  <2>3. Terminate(k).ds = <<Closed(k, p)>>
    BY <1>1, <2>1 DEF Terminate
  <2>4. Closed(k, p) \in Delivery
    BY <2>2, ClosedIs
  <2> QED BY <2>3, <2>4, OneDelivery
<1>2. CASE k \notin DOMAIN listeners /\ k \in DOMAIN handles
  <2>1. PICK p, h : p = handles[k].pair /\ h = handles[k].peer
    OBVIOUS
  <2>2. p \in Nat /\ h \in Keys /\ h # k
    BY <1>2, <2>1 DEF ChannelInv, FabricTypes, RegistryTypes, FabricInv, HandlesArePaired
  <2>3. Terminate(k).ds = <<ClosedPair(k, p), ClosedPair(h, p)>>
    BY <1>2, <2>1 DEF Terminate, Partner
  <2>4. PICK c, d : c = ClosedPair(k, p) /\ d = ClosedPair(h, p)
    OBVIOUS
  <2>5. /\ c \in Delivery /\ c.ep = k[1] /\ c.frame.id = k[2]
        /\ d \in Delivery /\ d.ep = h[1] /\ d.frame.id = h[2]
    BY <2>2, <2>4, ClosedPairIs
  <2>6. c.ep # d.ep \/ c.frame.id # d.frame.id
    BY <2>2, <2>5 DEF Keys
  <2> QED BY <2>3, <2>4, <2>5, <2>6, TwoDeliveries
<1>3. CASE k \notin DOMAIN listeners /\ k \notin DOMAIN handles
  BY <1>3, NoDelivery DEF Terminate
<1> QED BY <1>1, <1>2, <1>3

(* The registry without them, with the deliveries in the queues.           *)
LEMMA TerminateEffect ==
  ASSUME ChannelInv, NEW k \in Keys, listeners' = Terminate(k).ls, handles' = Terminate(k).hs,
         UNCHANGED <<alive, generation, nextId, written, view, pairs>>,
         DOMAIN watches' = DOMAIN watches, WatchesType(watches'), Queued(Terminate(k).ds)
  PROVE  Kept /\ \E ds : Effect(ds)
<1>0. FabricTypes /\ k = <<k[1], k[2]>>
  BY DEF ChannelInv, Keys
<1>1. CASE k \in DOMAIN listeners
  <2>1. PICK p : p = -listeners[k].gen
    OBVIOUS
  <2>2. p \in Int
    <3>1. listeners[k].gen \in Nat
      BY <1>0, <1>1 DEF FabricTypes, RegistryTypes
    <3> QED BY <2>1, <3>1
  <2>3. PICK d : d = Closed(k, p)
    OBVIOUS
  <2>4. /\ d \in Delivery /\ d.ep = k[1] /\ d.frame.id = k[2] /\ ~d.reserved
        /\ d.frame.kind = "closed" /\ d.frame.drain /\ d.frame.of = p
    BY <2>2, <2>3, ClosedIs
  <2>5. PICK ds : ds = <<d>>
    OBVIOUS
  <2>6. Len(ds) = 1 /\ ds[1] = d
    BY <2>4, <2>5, OneDelivery
  <2>7. Queued(ds) /\ listeners' = Without(listeners, {k}) /\ handles' = handles
    BY <1>1, <2>1, <2>3, <2>5 DEF Terminate
  <2>8. /\ DOMAIN listeners' = DOMAIN listeners \ {k}
        /\ \A x \in DOMAIN listeners' : listeners'[x] = listeners[x]
    BY <2>7 DEF Without
  <2>9. k \notin DOMAIN handles /\ k \notin DOMAIN watches
    BY <1>1 DEF ChannelInv, OneOwner
  <2>10. \A x : Owned(x)' <=> Owned(x) /\ x # k
    BY <2>7, <2>8, <2>9 DEF Owned
  <2>11. \A x : x # k => Truth(x)' = Truth(x)
    BY <2>7, <2>8 DEF Truth
  <2>12. Truth(k) = p /\ Truth(k)' = 0
    BY <1>1, <2>1, <2>7, <2>8, <2>9 DEF Truth
  <2>13. ~Drained(k)
    BY <1>1 DEF ChannelInv, DrainsAreFree, Owned
  <2>14. Key(d) = k
    BY <1>0, <2>4 DEF Key
  <2>15. Fits(d)
    BY <2>4, <2>10, <2>12, <2>13, <2>14 DEF Fits
  <2>16. \A x \in Keys : (\A i \in 1 .. Len(ds) : Key(ds[i]) # x) => Truth(x)' = Truth(x)
    BY <2>6, <2>11, <2>14
  <2>17. Effect(ds)
    BY <2>6, <2>7, <2>10, <2>15, <2>16 DEF Effect
  <2>18. RegistryTypes'
    BY <1>0, <2>7, <2>8 DEF FabricTypes, RegistryTypes
  <2>19. OneOwner'
    BY <2>7, <2>8 DEF ChannelInv, OneOwner
  <2> QED BY <2>17, <2>18, <2>19 DEF Kept
<1>2. CASE k \notin DOMAIN listeners /\ k \in DOMAIN handles
  <2>1. PICK p, h : p = handles[k].pair /\ h = handles[k].peer
    OBVIOUS
  <2>2. p \in Nat /\ h \in Keys /\ h # k /\ h \in DOMAIN handles /\ handles[h].pair = p
    BY <1>2, <2>1 DEF ChannelInv, FabricTypes, RegistryTypes, FabricInv, HandlesArePaired
  <2>3. PICK c, d : c = ClosedPair(k, p) /\ d = ClosedPair(h, p)
    OBVIOUS
  <2>4. /\ c \in Delivery /\ c.ep = k[1] /\ c.frame.id = k[2] /\ ~c.reserved
        /\ c.frame.kind = "closed" /\ c.frame.drain /\ c.frame.of = p
        /\ d \in Delivery /\ d.ep = h[1] /\ d.frame.id = h[2] /\ ~d.reserved
        /\ d.frame.kind = "closed" /\ d.frame.drain /\ d.frame.of = p
    BY <2>2, <2>3, ClosedPairIs
  <2>5. PICK ds : ds = <<c, d>>
    OBVIOUS
  <2>6. Len(ds) = 2 /\ ds[1] = c /\ ds[2] = d
    BY <2>5
  <2>7. Queued(ds) /\ listeners' = listeners /\ handles' = Without(handles, {k, h})
    BY <1>2, <2>1, <2>3, <2>5 DEF Terminate, Partner
  <2>8. /\ DOMAIN handles' = DOMAIN handles \ {k, h}
        /\ \A x \in DOMAIN handles' : handles'[x] = handles[x]
    BY <2>7 DEF Without
  <2>9. /\ k \notin DOMAIN watches /\ h \notin DOMAIN watches /\ h \notin DOMAIN listeners
    BY <1>2, <2>2 DEF ChannelInv, OneOwner
  <2>10. \A x : Owned(x)' <=> Owned(x) /\ x \notin {k, h}
    BY <1>2, <2>7, <2>8, <2>9 DEF Owned
  <2>11. \A x : x \notin {k, h} => Truth(x)' = Truth(x)
    BY <2>7, <2>8 DEF Truth
  <2>12. Truth(k) = p /\ Truth(k)' = 0 /\ Truth(h) = p /\ Truth(h)' = 0
    BY <1>2, <2>1, <2>2, <2>7, <2>8, <2>9 DEF Truth
  <2>13. ~Drained(k) /\ ~Drained(h)
    BY <1>2, <2>2 DEF ChannelInv, DrainsAreFree, Owned
  <2>14. Key(c) = k /\ Key(d) = h
    BY <1>0, <2>2, <2>4 DEF Key, Keys
  <2>15. Fits(c)
    BY <2>4, <2>10, <2>12, <2>13, <2>14 DEF Fits
  <2>16. Fits(d)
    BY <2>4, <2>10, <2>12, <2>13, <2>14 DEF Fits
  <2>17. \A x \in Keys : (\A i \in 1 .. Len(ds) : Key(ds[i]) # x) => Truth(x)' = Truth(x)
    <3>1. ASSUME NEW x \in Keys, \A i \in 1 .. Len(ds) : Key(ds[i]) # x
          PROVE  Truth(x)' = Truth(x)
      <4>1. 1 \in 1 .. Len(ds) /\ 2 \in 1 .. Len(ds)
        BY <2>6
      <4>2. Key(ds[1]) # x /\ Key(ds[2]) # x
        BY <3>1, <4>1
      <4>3. x # k /\ x # h
        BY <2>6, <2>14, <4>2
      <4> QED BY <2>11, <4>3
    <3> QED BY <3>1
  <2>18. \A i \in 1 .. Len(ds) : Fits(ds[i])
    <3>1. \A i \in 1 .. Len(ds) : ds[i] = c \/ ds[i] = d
      BY <2>6
    <3> QED BY <2>15, <2>16, <3>1
  <2>19. Effect(ds)
    BY <2>7, <2>10, <2>17, <2>18 DEF Effect
  <2>20. RegistryTypes'
    BY <1>0, <2>7, <2>8 DEF FabricTypes, RegistryTypes
  <2>21. OneOwner'
    BY <2>7, <2>8 DEF ChannelInv, OneOwner
  <2> QED BY <2>19, <2>20, <2>21 DEF Kept
<1>3. CASE k \notin DOMAIN listeners /\ k \notin DOMAIN handles
  <2>1. listeners' = listeners /\ handles' = handles /\ Queued(<<>>)
    BY <1>3 DEF Terminate
  <2>2. Effect(<<>>)
    BY <1>0, <2>1, SilentIs
  <2> QED BY <2>1, <2>2, RegistryKept
<1> QED BY <1>1, <1>2, <1>3

(* The same, with the watches answered (close, protocol_violation).        *)
LEMMA TerminatedEffect ==
  ASSUME ChannelInv, NEW k \in Keys, Terminated(k),
         UNCHANGED <<alive, generation, nextId, written, view, pairs>>
  PROVE  Kept /\ \E ds : Effect(ds)
<1>0. FabricTypes
  BY DEF ChannelInv
<1>1. PICK ls, c, ds, o : /\ ls = Terminate(k).ls /\ c = Terminate(k).changed
                          /\ ds = Terminate(k).ds /\ o = Outboxes
  OBVIOUS
<1>2. o \in Outbox /\ o.queue = queue /\ o.open \subseteq open
  BY <1>0, <1>1, OutboxesIs
<1>3. ds \in Seq(Delivery) /\ Distinct(ds)
  BY <1>1, TerminateDeliveries
<1>4. /\ listeners' = Terminate(k).ls /\ handles' = Terminate(k).hs
      /\ Publish(ls, watches, c, ds, o)
  BY <1>1 DEF Terminated
<1>5. Queued(ds) /\ WatchesType(watches') /\ DOMAIN watches' = DOMAIN watches
  BY <1>0, <1>2, <1>3, <1>4, Requested DEF FabricTypes
<1> QED BY <1>1, <1>4, <1>5, TerminateEffect

(* CLOSE of whatever the id names.                                         *)
LEMMA CloseEffect ==
  ASSUME ChannelInv, NEW k \in Keys, Close(k)
  PROVE  Kept /\ \E ds : Effect(ds)
BY TerminatedEffect DEF Close

(* A malformed packet: an open is refused, anything else is a violation.   *)
LEMMA MalformedEffect ==
  ASSUME ChannelInv, NEW k \in Keys, NEW isOpen \in BOOLEAN, Malformed(k, isOpen)
  PROVE  Kept /\ \E ds : Effect(ds)
<1>0. FabricTypes /\ WatchesType(watches)
  BY DEF ChannelInv, FabricTypes
<1>u. UNCHANGED <<alive, generation, nextId, written, view, pairs, watches>>
  BY DEF Malformed
<1>1. CASE isOpen
  <2>1. UNCHANGED <<listeners, handles>> /\ SendAll(<<FailedOpen(k)>>, Outboxes)
    BY <1>1 DEF Malformed
  <2>2. FailedOpen(k) \in Delivery
    BY FailedIs
  <2>3. <<FailedOpen(k)>> \in Seq(Delivery) /\ Distinct(<<FailedOpen(k)>>)
    BY <2>2, OneDelivery
  <2>4. Queued(<<FailedOpen(k)>>)
    BY <1>0, <2>1, <2>3, RequestedOnly
  <2>5. Effect(<<FailedOpen(k)>>)
    BY <1>0, <1>u, <2>1, <2>4, RefusedIs
  <2> QED BY <1>0, <1>u, <2>1, <2>5, RegistryKept
<1>2. CASE ~isOpen
  <2>1. /\ listeners' = Terminate(k).ls /\ handles' = Terminate(k).hs
        /\ SendAll(Terminate(k).ds, Outboxes)
    BY <1>2 DEF Malformed
  <2>2. PICK ds : ds = Terminate(k).ds
    OBVIOUS
  <2>3. ds \in Seq(Delivery) /\ Distinct(ds) /\ SendAll(ds, Outboxes)
    BY <2>1, <2>2, TerminateDeliveries
  <2>4. Queued(ds)
    BY <1>0, <2>3, RequestedOnly
  <2> QED BY <1>0, <1>u, <2>1, <2>2, <2>4, TerminateEffect
<1> QED BY <1>1, <1>2

(* A frame on an open channel: it names the channel of its key.            *)
LEMMA TrafficEffect ==
  ASSUME ChannelInv, NEW h \in DOMAIN handles, NEW kind \in {"data", "ack"}, NEW n \in Nat,
         DOMAIN handles' = DOMAIN handles,
         \A x \in DOMAIN handles : handles'[x].pair = handles[x].pair,
         UNCHANGED <<alive, listeners, generation, nextId, written, view, pairs>>,
         Reply(<<To(h, PairFrame(kind, h[2], handles[h].pair, n))>>, Outboxes)
  PROVE  Kept /\ \E ds : Effect(ds)
<1>0. FabricTypes /\ h \in Keys /\ WatchesType(watches)
  BY DEF ChannelInv, FabricTypes, RegistryTypes
<1>1. PICK p : p = handles[h].pair
  OBVIOUS
<1>2. p \in Nat /\ p \in Int
  BY <1>0, <1>1 DEF FabricTypes, RegistryTypes
<1>3. PICK f : f = PairFrame(kind, h[2], p, n)
  OBVIOUS
<1>4. h = <<h[1], h[2]>> /\ h[1] \in Endpoints /\ h[2] \in Ids
  BY <1>0 DEF Keys
<1>5. f \in FrameType /\ f.kind = kind /\ f.id = h[2] /\ f.of = p /\ ~f.drain
  <2>1. kind \in Kinds
    BY DEF Kinds
  <2> QED BY <1>2, <1>3, <1>4, <2>1, PairFrameIs
<1>6. PICK d : d = To(h, f)
  OBVIOUS
<1>7. d = [ep |-> h[1], frame |-> f, reserved |-> FALSE]
  BY <1>6 DEF To
<1>8. d \in Delivery /\ d.ep = h[1] /\ d.frame = f /\ ~d.reserved
  BY <1>4, <1>5, <1>7 DEF Delivery
<1>9. PICK ds, o : ds = <<d>> /\ o = Outboxes
  OBVIOUS
<1>10. ds \in Seq(Delivery) /\ Len(ds) = 1 /\ ds[1] = d /\ Distinct(ds)
  BY <1>8, <1>9, OneDelivery
<1>11. o \in Outbox /\ o.queue = queue /\ o.open \subseteq open
  BY <1>0, <1>9, OutboxesIs
<1>12. Publish(listeners, watches, dirty, ds, o)
  BY <1>1, <1>3, <1>6, <1>9 DEF Reply
<1>13. Queued(ds) /\ WatchesType(watches') /\ DOMAIN watches' = DOMAIN watches
  BY <1>0, <1>10, <1>11, <1>12, Requested
<1>14. \A x : Owned(x)' <=> Owned(x)
  BY <1>13 DEF Owned
<1>15. \A x : Truth(x)' = Truth(x)
  BY DEF Truth
<1>16. Truth(h) = p /\ Truth(h)' = p
  BY <1>1, <1>15 DEF Truth
<1>17. Key(d) = h
  BY <1>4, <1>5, <1>8 DEF Key
<1>18. Fits(d)
  BY <1>5, <1>8, <1>16, <1>17 DEF Fits
<1>19. Effect(ds)
  BY <1>10, <1>13, <1>14, <1>15, <1>18 DEF Effect
<1>20. RegistryTypes'
  BY <1>0 DEF FabricTypes, RegistryTypes
<1>21. OneOwner'
  BY <1>13 DEF ChannelInv, OneOwner
<1> QED BY <1>13, <1>19, <1>20, <1>21 DEF Kept

(* DATA within the credit goes to the partner; beyond it the pair ends.    *)
LEMMA DataEffect ==
  ASSUME ChannelInv, ChannelAssumption, NEW k \in Keys, NEW n \in Sizes, Data(k, n)
  PROVE  Kept /\ \E ds : Effect(ds)
<1>u. UNCHANGED <<alive, generation, nextId, written, view, pairs>>
  BY DEF Data
<1>1. CASE k \in DOMAIN handles /\ InCredit(handles[k], n)
  <2>1. PICK h : h = Partner(k)
    OBVIOUS
  <2>2. h \in DOMAIN handles /\ handles[h].pair = handles[k].pair
    BY <1>1, <2>1 DEF ChannelInv, FabricInv, HandlesArePaired, Partner
  <2>3. n \in Nat
    BY DEF ChannelAssumption
  <2>4. /\ handles' = [handles EXCEPT ![k] = Sent(handles[k], n)] /\ UNCHANGED listeners
        /\ Reply(<<To(h, PairFrame("data", h[2], handles[k].pair, n))>>, Outboxes)
    BY <1>1, <2>1 DEF Data
  <2>5. Reply(<<To(h, PairFrame("data", h[2], handles[h].pair, n))>>, Outboxes)
    BY <2>2, <2>4
  <2>6. /\ DOMAIN handles' = DOMAIN handles
        /\ \A x \in DOMAIN handles : handles'[x].pair = handles[x].pair
    BY <2>4 DEF Sent
  <2> QED BY <1>u, <2>2, <2>3, <2>4, <2>5, <2>6, TrafficEffect
<1>2. CASE ~(k \in DOMAIN handles /\ InCredit(handles[k], n))
  BY <1>u, <1>2, TerminatedEffect DEF Data
<1> QED BY <1>1, <1>2

(* An ACK of what was sent goes to the partner; any other ends the pair.   *)
LEMMA AckEffect ==
  ASSUME ChannelInv, ChannelAssumption, NEW k \in Keys, NEW bytes \in 0 .. MaxSent, Ack(k, bytes)
  PROVE  Kept /\ \E ds : Effect(ds)
<1>u. UNCHANGED <<alive, generation, nextId, written, view, pairs>>
  BY DEF Ack
<1>1. CASE k \in DOMAIN handles /\ AckIsValid(handles[Partner(k)], bytes)
  <2>1. PICK h : h = Partner(k)
    OBVIOUS
  <2>2. h \in DOMAIN handles /\ handles[h].pair = handles[k].pair
    BY <1>1, <2>1 DEF ChannelInv, FabricInv, HandlesArePaired, Partner
  <2>3. bytes \in Nat
    BY DEF ChannelAssumption
  <2>4. /\ handles' = [handles EXCEPT ![h] = Acked(handles[h], bytes)] /\ UNCHANGED listeners
        /\ Reply(<<To(h, PairFrame("ack", h[2], handles[k].pair, bytes))>>, Outboxes)
    BY <1>1, <2>1 DEF Ack
  <2>5. Reply(<<To(h, PairFrame("ack", h[2], handles[h].pair, bytes))>>, Outboxes)
    BY <2>2, <2>4
  <2>6. /\ DOMAIN handles' = DOMAIN handles
        /\ \A x \in DOMAIN handles : handles'[x].pair = handles[x].pair
    BY <2>4 DEF Acked
  <2> QED BY <1>u, <2>2, <2>3, <2>4, <2>5, <2>6, TrafficEffect
<1>2. CASE ~(k \in DOMAIN handles /\ AckIsValid(handles[Partner(k)], bytes))
  BY <1>u, <1>2, TerminatedEffect DEF Ack
<1> QED BY <1>1, <1>2

(* A departing endpoint: every survivor of its pairs is told.              *)
LEMMA DepartEffect ==
  ASSUME ChannelInv, NEW e, Depart(e)
  PROVE  Kept /\ \E ds : Effect(ds)
<1>0. FabricTypes /\ WatchesType(watches)
  BY DEF ChannelInv, FabricTypes
<1>1. PICK own, sv, ls, ws, o :
        /\ own = Of(e, handles) /\ sv = {Partner(k) : k \in own} \ own
        /\ ls = Without(listeners, Of(e, listeners)) /\ ws = Without(watches, Of(e, watches))
        /\ o = Outboxes
  OBVIOUS
<1>2. /\ listeners' = ls /\ handles' = Without(handles, own \cup sv) /\ alive' = alive \ {e}
      /\ UNCHANGED <<generation, nextId, written, view, pairs>>
  BY <1>1 DEF Depart
<1>3. PICK order \in SetToSeqs(sv) :
        Publish(ls, ws, dirty \/ Of(e, listeners) # {},
                [i \in DOMAIN order |-> ClosedPair(order[i], handles[order[i]].pair)], o)
  BY <1>1 DEF Depart
<1>4. PICK ds : ds = [i \in DOMAIN order |-> ClosedPair(order[i], handles[order[i]].pair)]
  OBVIOUS
<1>5. \A h \in sv : h \in DOMAIN handles /\ h \in Keys /\ handles[h].pair \in Nat
  <2>1. \A k \in own : handles[k].peer \in DOMAIN handles
    BY <1>1 DEF ChannelInv, FabricInv, HandlesArePaired, Of
  <2>2. \A h \in sv : h \in DOMAIN handles
    BY <1>1, <2>1 DEF Partner
  <2> QED BY <1>0, <2>2 DEF FabricTypes, RegistryTypes
<1>6. /\ order \in Seq(sv) /\ \A i, j \in 1 .. Len(order) : order[i] = order[j] => i = j
      /\ \A x \in sv : \E i \in 1 .. Len(order) : order[i] = x
  <2>1. sv \subseteq Keys
    BY <1>5
  <2> QED BY <2>1, OrderIsSequence
<1>7. PICK n \in Nat : n = Len(order)
  BY <1>6
<1>8. DOMAIN order = 1 .. n /\ \A i \in 1 .. n : order[i] \in sv
  BY <1>6, <1>7
<1>9. ASSUME NEW i \in 1 .. n
      PROVE  /\ ds[i] \in Delivery /\ Key(ds[i]) = order[i] /\ ~ds[i].reserved
             /\ ds[i].ep = order[i][1] /\ ds[i].frame.id = order[i][2]
             /\ ds[i].frame.kind = "closed" /\ ds[i].frame.drain
             /\ ds[i].frame.of = handles[order[i]].pair
  <2>1. PICK h, p : h = order[i] /\ p = handles[h].pair
    OBVIOUS
  <2>2. h \in Keys /\ p \in Nat /\ h = <<h[1], h[2]>>
    BY <1>5, <1>8, <2>1 DEF Keys
  <2>3. PICK d : d = ClosedPair(h, p)
    OBVIOUS
  <2>4. /\ d \in Delivery /\ d.ep = h[1] /\ d.frame.id = h[2] /\ ~d.reserved
        /\ d.frame.kind = "closed" /\ d.frame.drain /\ d.frame.of = p
    BY <2>2, <2>3, ClosedPairIs
  <2>5. ds[i] = d
    BY <1>4, <1>8, <2>1, <2>3
  <2>6. Key(d) = h
    BY <2>2, <2>4 DEF Key
  <2> QED BY <2>1, <2>4, <2>5, <2>6
<1>10. ds \in Seq(Delivery) /\ Len(ds) = n
  <2>1. DOMAIN ds = 1 .. n /\ \A i \in 1 .. n : ds[i] \in Delivery
    BY <1>4, <1>8, <1>9
  <2>2. ds = [i \in 1 .. n |-> ds[i]]
    BY <1>4, <2>1
  <2> QED BY <2>1, <2>2
<1>11. Distinct(ds)
  <2> SUFFICES ASSUME NEW i \in 1 .. n, NEW j \in 1 .. n, ds[i].ep = ds[j].ep,
                      ds[i].frame.id = ds[j].frame.id
               PROVE  i = j
    BY <1>10 DEF Distinct
  <2>1. Key(ds[i]) = Key(ds[j])
    BY DEF Key
  <2>2. order[i] = order[j]
    BY <1>9, <2>1
  <2> QED BY <1>6, <1>7, <2>2
<1>12. o \in Outbox /\ o.queue = queue /\ o.open \subseteq open
  BY <1>0, <1>1, OutboxesIs
<1>13. /\ DOMAIN ls \subseteq DOMAIN listeners /\ \A x \in DOMAIN ls : ls[x] = listeners[x]
       /\ DOMAIN ws \subseteq DOMAIN watches /\ \A x \in DOMAIN ws : ws[x] = watches[x]
       /\ \A x \in DOMAIN listeners : x[1] # e => x \in DOMAIN ls
  BY <1>1 DEF Without, Of
<1>14. WatchesType(ws)
  BY <1>0, <1>13 DEF WatchesType
<1>15. PICK c : c = (dirty \/ Of(e, listeners) # {})
  OBVIOUS
<1>16. Publish(ls, ws, c, ds, o)
  BY <1>3, <1>4, <1>15
<1>17. Queued(ds) /\ WatchesType(watches') /\ DOMAIN watches' = DOMAIN ws
  BY <1>0, <1>10, <1>11, <1>12, <1>14, <1>16, Requested
<1>18. /\ DOMAIN handles' = DOMAIN handles \ (own \cup sv)
       /\ \A x \in DOMAIN handles' : handles'[x] = handles[x]
  BY <1>2 DEF Without
<1>19. \A x : Owned(x)' => Owned(x) /\ x \notin sv
  <2>1. \A x \in sv : x \notin DOMAIN listeners /\ x \notin DOMAIN watches
    BY <1>5 DEF ChannelInv, OneOwner
  <2> QED BY <1>2, <1>13, <1>17, <1>18, <2>1 DEF Owned
<1>20. \A x : x[1] # e /\ x \notin sv => Truth(x)' = Truth(x)
  <2>1. \A x : x[1] # e => x \notin own
    BY <1>1 DEF Of
  <2>2. \A x : x[1] # e /\ x \notin sv => (x \in DOMAIN handles <=> x \in DOMAIN handles')
    BY <1>18, <2>1
  <2>3. \A x : x[1] # e => (x \in DOMAIN listeners <=> x \in DOMAIN listeners')
    BY <1>2, <1>13
  <2> QED BY <1>2, <1>13, <1>18, <2>2, <2>3 DEF Truth
<1>21. ASSUME NEW i \in 1 .. n PROVE Fits(ds[i])
  <2>1. PICK d, h : d = ds[i] /\ h = order[i]
    OBVIOUS
  <2>2. h \in sv /\ h \in DOMAIN handles /\ h \in Keys
    BY <1>5, <1>8, <2>1
  <2>3. /\ Key(d) = h /\ ~d.reserved /\ d.frame.kind = "closed" /\ d.frame.drain
        /\ d.frame.of = handles[h].pair
    BY <1>9, <2>1
  <2>4. ~Drained(h) /\ ~Owned(h)'
    BY <1>19, <2>2 DEF ChannelInv, DrainsAreFree, Owned
  <2>5. Truth(h) = handles[h].pair
    BY <2>2 DEF Truth
  <2>6. Truth(h)' = 0
    BY <2>4 DEF Truth, Owned
  <2>7. Fits(d)
    BY <2>3, <2>4, <2>5, <2>6 DEF Fits
  <2> QED BY <2>1, <2>7
<1>22. \A x \in Keys : /\ x[1] \in alive' \cap open'
                       /\ \A i \in 1 .. Len(ds) : Key(ds[i]) # x
                       => Truth(x)' = Truth(x)
  <2> SUFFICES ASSUME NEW x \in Keys, x[1] \in alive', \A i \in 1 .. Len(ds) : Key(ds[i]) # x
               PROVE  Truth(x)' = Truth(x)
    OBVIOUS
  <2>1. x[1] # e
    BY <1>2
  <2>2. x \notin sv
    <3> SUFFICES ASSUME x \in sv PROVE FALSE
      OBVIOUS
    <3>1. PICK i \in 1 .. n : order[i] = x
      BY <1>6, <1>7
    <3> QED BY <1>9, <1>10, <3>1
  <2> QED BY <1>20, <2>1, <2>2
<1>23. Effect(ds)
  <2>1. alive' \subseteq alive /\ UNCHANGED <<written, view>>
    BY <1>2
  <2>2. \A i \in 1 .. Len(ds) : Fits(ds[i])
    BY <1>10, <1>21
  <2>3. \A x \in Keys : Owned(x)' => Owned(x) \/ ~Drained(x)
    BY <1>19
  <2> QED BY <1>17, <1>22, <2>1, <2>2, <2>3 DEF Effect
<1>24. RegistryTypes'
  <2>1. /\ DOMAIN listeners' \subseteq DOMAIN listeners
        /\ \A x \in DOMAIN listeners' : listeners'[x] = listeners[x]
    BY <1>2, <1>13
  <2> QED BY <1>0, <1>2, <1>18, <2>1 DEF FabricTypes, RegistryTypes
<1>25. OneOwner'
  BY <1>2, <1>13, <1>17, <1>18 DEF ChannelInv, OneOwner
<1> QED BY <1>17, <1>23, <1>24, <1>25 DEF Kept

-----------------------------------------------------------------------------
(* Every step.                                                             *)

(* A request, by any of its names.                                         *)
Asked ==
  \/ \E k \in Endpoints \X ClientIds :
       \/ \E name \in Names : Listen(k, name)
       \/ \E name \in Names, token \in 0..generation - 1 : Connect(k, name, token)
       \/ \E S \in NameSets : Watch(k, S)
       \/ Unwatch(k)
       \/ Refuse(k)
  \/ \E k \in Keys :
       \/ \E n \in Sizes : Data(k, n)
       \/ \E bytes \in 0..MaxSent : Ack(k, bytes)
       \/ Close(k)
       \/ \E isOpen \in BOOLEAN : Malformed(k, isOpen)
  \/ \E e \in Endpoints : Depart(e)

(* Every request has an effect of that kind.                               *)
LEMMA AskedEffect ==
  ASSUME ChannelInv, Asked
  PROVE  Kept /\ \E ds : Effect(ds)
<1>1. ASSUME NEW k \in Endpoints \X ClientIds, NEW name \in Names, Listen(k, name)
      PROVE  Kept /\ \E ds : Effect(ds)
  BY <1>1, ListenEffect
<1>2. ASSUME NEW k \in Endpoints \X ClientIds, NEW name \in Names,
             NEW token \in 0..generation - 1, Connect(k, name, token)
      PROVE  Kept /\ \E ds : Effect(ds)
  BY <1>2, ConnectEffect
<1>3. ASSUME NEW k \in Endpoints \X ClientIds, NEW S \in NameSets, Watch(k, S)
      PROVE  Kept /\ \E ds : Effect(ds)
  BY <1>3, WatchEffect
<1>4. ASSUME NEW k \in Endpoints \X ClientIds, Unwatch(k)
      PROVE  Kept /\ \E ds : Effect(ds)
  BY <1>4, UnwatchEffect
<1>5. ASSUME NEW k \in Endpoints \X ClientIds, Refuse(k)
      PROVE  Kept /\ \E ds : Effect(ds)
  BY <1>5, RefuseEffect
<1>6. ASSUME NEW k \in Keys, NEW n \in Sizes, Data(k, n)
      PROVE  Kept /\ \E ds : Effect(ds)
  BY <1>6, ChannelAssumption, DataEffect
<1>7. ASSUME NEW k \in Keys, NEW bytes \in 0..MaxSent, Ack(k, bytes)
      PROVE  Kept /\ \E ds : Effect(ds)
  BY <1>7, ChannelAssumption, AckEffect
<1>8. ASSUME NEW k \in Keys, Close(k)
      PROVE  Kept /\ \E ds : Effect(ds)
  BY <1>8, CloseEffect
<1>9. ASSUME NEW k \in Keys, NEW isOpen \in BOOLEAN, Malformed(k, isOpen)
      PROVE  Kept /\ \E ds : Effect(ds)
  BY <1>9, MalformedEffect
<1>10. ASSUME NEW e, Depart(e)
       PROVE  Kept /\ \E ds : Effect(ds)
  BY <1>10, DepartEffect
<1> QED BY <1>1, <1>2, <1>3, <1>4, <1>5, <1>6, <1>7, <1>8, <1>9, <1>10 DEF Asked

(* The writer drops the frame it has written.                              *)
Dropped(e) ==
  /\ e \in Endpoints /\ UNCHANGED <<alive, listeners, handles, watches, view>>
  /\ open' = open /\ written[e] /\ written' = [written EXCEPT ![e] = FALSE]
  /\ queue' = [queue EXCEPT ![e] = Tail(queue[e])]

(* The writer ends.                                                        *)
Ended(e) ==
  /\ e \in Endpoints /\ UNCHANGED <<alive, listeners, handles, watches, view>>
  /\ open' = open \ {e} /\ written' = [written EXCEPT ![e] = FALSE]
  /\ queue' = [queue EXCEPT ![e] = <<>>]

(* A frame reaches its client.                                             *)
Received(e) ==
  /\ e \in Endpoints /\ UNCHANGED <<alive, open, listeners, handles, watches, queue>>
  /\ queue[e] # <<>> /\ ~written[e] /\ written' = [written EXCEPT ![e] = TRUE]
  /\ view' = [view EXCEPT ![<<e, Head(queue[e]).id>>]
                = Seen(view[<<e, Head(queue[e]).id>>], Head(queue[e]))]

(* A step is a request, a step of a writer, or changes nothing of these.   *)
LEMMA NextIs ==
  ASSUME [Next]_vars
  PROVE  \/ UNCHANGED <<alive, open, listeners, handles, watches, queue, written, view,
                        generation, nextId, pairs, dirty>>
         \/ Asked
         \/ \E e : Dropped(e) /\ UNCHANGED <<generation, nextId, pairs, dirty>>
         \/ \E e : Ended(e) /\ UNCHANGED <<generation, nextId, pairs, dirty>>
         \/ \E e : Received(e) /\ UNCHANGED <<generation, nextId, pairs, dirty>>
<1>1. CASE UNCHANGED vars
  BY <1>1 DEF vars, registry
<1>2. CASE Request
  BY <1>2 DEF Request, Asked
<1>3. CASE BeginShutdown
  BY <1>3 DEF BeginShutdown, registry
<1>4. CASE \E e \in Endpoints : Depart(e)
  BY <1>4 DEF Asked
<1>5. ASSUME NEW e \in Endpoints, Write(e)
      PROVE  Received(e) /\ UNCHANGED <<generation, nextId, pairs, dirty>>
  BY <1>5 DEF Write, Received, registry
<1>6. ASSUME NEW e \in Endpoints, Release(e)
      PROVE  Dropped(e) /\ UNCHANGED <<generation, nextId, pairs, dirty>>
  BY <1>6 DEF Release, Dropped, registry
<1>7. ASSUME NEW e \in Endpoints, WriterEnds(e)
      PROVE  Ended(e) /\ UNCHANGED <<generation, nextId, pairs, dirty>>
  BY <1>7 DEF WriterEnds, Ended, registry
<1> QED BY <1>1, <1>2, <1>3, <1>4, <1>5, <1>6, <1>7 DEF Next

-----------------------------------------------------------------------------
(* One owner.                                                              *)

(* A draining frame that a request adds: its key was not draining, and is  *)
(* not in use afterwards.                                                  *)
LEMMA NewDrain ==
  ASSUME FabricTypes, NEW ds, Effect(ds), NEW e \in Endpoints,
         NEW i \in Len(queue[e]) + 1 .. Len(queue'[e]), queue'[e][i].drain,
         NEW k, k = <<e, queue'[e][i].id>>
  PROVE  queue'[e][i].kind # "names" /\ ~Drained(k) /\ ~Owned(k)'
<1>1. PICK q, r : q = queue[e] /\ r = queue'[e]
  OBVIOUS
<1>2. Grown(ds, e, q, r)
  BY <1>1 DEF Effect, Queued
<1>3. i \in Len(q) + 1 .. Len(r) /\ r[i].drain
  BY <1>1
<1>4. PICK j \in 1 .. Len(ds) : ds[j].ep = e /\ ds[j].frame = r[i]
  BY <1>2, <1>3 DEF Grown
<1>5. PICK d : d = ds[j]
  OBVIOUS
<1>6. Fits(d) /\ d.frame.drain /\ Key(d) = k /\ d.frame = r[i]
  BY <1>1, <1>3, <1>4, <1>5 DEF Effect, Key
<1>7. r[i].kind # "names" /\ ~Drained(k) /\ ~Owned(k)'
  BY <1>6 DEF Fits
<1> QED BY <1>1, <1>7

(* So a request keeps ids with one owner.                                  *)
LEMMA OwnerKept ==
  ASSUME ChannelInv, NEW ds, Effect(ds)
  PROVE  OneDrain' /\ DrainsAreFree'
<1>0. FabricTypes
  BY DEF ChannelInv
<1>1. ASSUME NEW e \in Endpoints
      PROVE  /\ Len(queue[e]) \in Nat /\ Len(queue'[e]) \in Nat /\ Len(queue[e]) =< Len(queue'[e])
             /\ \A i \in 1 .. Len(queue[e]) : queue'[e][i] = queue[e][i]
  <2>1. PICK q, r : q = queue[e] /\ r = queue'[e]
    OBVIOUS
  <2>2. q \in Seq(FrameType) /\ r \in Seq(FrameType)
    BY <1>0, <2>1 DEF FabricTypes, TrafficTypes, QueueType, Effect, Queued
  <2>3. Grown(ds, e, q, r)
    BY <2>1 DEF Effect, Queued
  <2>4. Len(q) \in Nat /\ Len(r) \in Nat
    BY <2>2
  <2> QED BY <2>1, <2>3, <2>4 DEF Grown
<1>2. ASSUME NEW e \in Endpoints, NEW i \in 1 .. Len(queue'[e]), NEW j \in 1 .. Len(queue'[e]),
             queue'[e][i].drain, queue'[e][j].drain, queue'[e][i].id = queue'[e][j].id
      PROVE  i = j
  <2>1. PICK q, r : q = queue[e] /\ r = queue'[e]
    OBVIOUS
  <2>2. PICK n : n = Len(q)
    OBVIOUS
  <2>3. PICK m : m = Len(r)
    OBVIOUS
  <2>4. /\ n \in Nat /\ m \in Nat /\ n =< m /\ i \in 1 .. m /\ j \in 1 .. m
        /\ \A x \in 1 .. n : r[x] = q[x]
    BY <1>1, <2>1, <2>2, <2>3
  <2>5. (i \in 1 .. n \/ i \in n + 1 .. m) /\ (j \in 1 .. n \/ j \in n + 1 .. m)
    BY <2>4
  <2>6. CASE i \in 1 .. n /\ j \in 1 .. n
    BY <1>2, <2>1, <2>2, <2>4, <2>6 DEF ChannelInv, OneDrain
  <2>7. CASE i \in n + 1 .. m /\ j \in n + 1 .. m
    <3>1. r[i].kind # "names" /\ r[j].kind # "names"
      BY <1>0, <1>2, <2>1, <2>2, <2>3, <2>7, NewDrain
    <3>2. Grown(ds, e, q, r)
      BY <2>1 DEF Effect, Queued
    <3> QED BY <1>2, <2>1, <2>2, <2>3, <2>7, <3>1, <3>2 DEF Grown
  <2>8. ASSUME NEW x \in 1 .. n, NEW y \in n + 1 .. m, r[x].drain, r[y].drain, r[x].id = r[y].id
        PROVE  FALSE
    <3>1. PICK k : k = <<e, r[y].id>>
      OBVIOUS
    <3>2. ~Drained(k)
      BY <1>0, <2>1, <2>2, <2>3, <2>8, <3>1, NewDrain
    <3>3. k[1] = e /\ k[2] = q[x].id /\ q[x].drain
      BY <2>4, <2>8, <3>1
    <3>4. Drained(k)
      BY <2>1, <2>2, <3>3 DEF Drained
    <3> QED BY <3>2, <3>4
  <2>9. CASE i \in 1 .. n /\ j \in n + 1 .. m
    BY <1>2, <2>1, <2>8, <2>9
  <2>10. CASE i \in n + 1 .. m /\ j \in 1 .. n
    BY <1>2, <2>1, <2>8, <2>10
  <2> QED BY <2>5, <2>6, <2>7, <2>9, <2>10
<1>3. OneDrain'
  BY <1>2 DEF OneDrain
<1>4. ASSUME NEW k \in Keys, Drained(k)' PROVE ~Owned(k)'
  <2>1. PICK e, r : e = k[1] /\ r = queue'[e]
    OBVIOUS
  <2>2. e \in Endpoints /\ k = <<e, k[2]>>
    BY <2>1 DEF Keys
  <2>3. PICK i \in 1 .. Len(r) : r[i].drain /\ r[i].id = k[2]
    BY <1>4, <2>1 DEF Drained
  <2>4. PICK n : n = Len(queue[e])
    OBVIOUS
  <2>5. PICK m : m = Len(r)
    OBVIOUS
  <2>6. n \in Nat /\ m \in Nat /\ i \in 1 .. m /\ (i \in 1 .. n => r[i] = queue[e][i])
    BY <1>1, <2>1, <2>2, <2>3, <2>4, <2>5
  <2>7. CASE i \in 1 .. n
    <3>1. Drained(k)
      BY <2>1, <2>3, <2>4, <2>6, <2>7 DEF Drained
    <3>2. ~Owned(k)
      BY <3>1 DEF ChannelInv, DrainsAreFree
    <3>3. Owned(k)' => Owned(k) \/ ~Drained(k)
      BY DEF Effect
    <3> QED BY <3>1, <3>2, <3>3
  <2>8. CASE i \in n + 1 .. m
    <3>1. k = <<e, queue'[e][i].id>> /\ queue'[e][i].drain
      BY <2>1, <2>2, <2>3
    <3> QED BY <1>0, <2>1, <2>2, <2>3, <2>4, <2>5, <2>8, <3>1, NewDrain
  <2> QED BY <2>6, <2>7, <2>8
<1>5. DrainsAreFree'
  BY <1>4 DEF DrainsAreFree
<1> QED BY <1>3, <1>5

(* A step that only shortens the queues.                                   *)
LEMMA OwnerShrinks ==
  ASSUME ChannelInv, UNCHANGED <<listeners, handles, watches>>,
         NEW c, c \in [Endpoints -> Nat],
         \A e \in Endpoints : Len(queue'[e]) \in Nat,
         \A e \in Endpoints : \A i \in 1 .. Len(queue'[e]) :
           i + c[e] \in 1 .. Len(queue[e]) /\ queue'[e][i] = queue[e][i + c[e]]
  PROVE  OneDrain' /\ DrainsAreFree' /\ OneOwner'
<1>1. OneOwner'
  BY DEF ChannelInv, OneOwner
<1>2. ASSUME NEW e \in Endpoints, NEW i \in 1 .. Len(queue'[e]), NEW j \in 1 .. Len(queue'[e]),
             queue'[e][i].drain, queue'[e][j].drain, queue'[e][i].id = queue'[e][j].id
      PROVE  i = j
  <2>1. PICK x, y, n : x = i + c[e] /\ y = j + c[e] /\ n = c[e]
    OBVIOUS
  <2>2. /\ x \in 1 .. Len(queue[e]) /\ y \in 1 .. Len(queue[e])
        /\ queue'[e][i] = queue[e][x] /\ queue'[e][j] = queue[e][y]
    BY <2>1
  <2>3. x = y
    BY <1>2, <2>2 DEF ChannelInv, OneDrain
  <2>4. n \in Nat /\ i \in Int /\ j \in Int
    BY <2>1
  <2> QED BY <2>1, <2>3, <2>4
<1>3. OneDrain'
  BY <1>2 DEF OneDrain
<1>4. ASSUME NEW k \in Keys, Drained(k)' PROVE ~Owned(k)'
  <2>1. k[1] \in Endpoints
    BY DEF Keys
  <2>2. PICK i \in 1 .. Len(queue'[k[1]]) : queue'[k[1]][i].drain /\ queue'[k[1]][i].id = k[2]
    BY <1>4 DEF Drained
  <2>5. PICK j : j = i + c[k[1]]
    OBVIOUS
  <2>6. j \in 1 .. Len(queue[k[1]]) /\ queue'[k[1]][i] = queue[k[1]][j]
    BY <2>1, <2>5
  <2>3. Drained(k)
    BY <2>2, <2>6 DEF Drained
  <2>4. ~Owned(k)
    BY <2>3 DEF ChannelInv, DrainsAreFree
  <2> QED BY <2>4 DEF Owned
<1> QED BY <1>1, <1>3, <1>4 DEF DrainsAreFree

(* What a client knows of an id stays of its type.                         *)
LEMMA SeenType ==
  ASSUME NEW v \in ViewType, NEW f \in FrameType
  PROVE  Seen(v, f) \in ViewType
<1>1. f.of \in Int /\ f.n \in Nat /\ f.names \in SUBSET Names
  BY DEF FrameType
<1>2. CASE f.kind \in {"opened", "accepted"}
  <2>1. Seen(v, f) = [v EXCEPT !.of = f.of, !.got = 0]
    BY <1>2 DEF Seen
  <2>2. Seen(v, f) = [of |-> f.of, got |-> 0, names |-> v.names]
    BY <2>1 DEF ViewType
  <2>3. v.names \in SUBSET Names
    BY DEF ViewType
  <2> QED BY <1>1, <2>2, <2>3 DEF ViewType
<1>3. CASE f.kind = "data"
  <2>1. Seen(v, f) = [v EXCEPT !.got = v.got + f.n]
    BY <1>3 DEF Seen
  <2>2. v.got + f.n \in Nat
    BY <1>1 DEF ViewType
  <2> QED BY <2>1, <2>2 DEF ViewType
<1>4. CASE f.kind = "closed"
  <2>1. Seen(v, f) = [v EXCEPT !.of = 0, !.got = 0]
    BY <1>4 DEF Seen
  <2>2. Seen(v, f) = [of |-> 0, got |-> 0, names |-> v.names]
    BY <2>1 DEF ViewType
  <2>3. v.names \in SUBSET Names
    BY DEF ViewType
  <2> QED BY <2>2, <2>3 DEF ViewType
<1>5. CASE f.kind = "names"
  <2>1. Seen(v, f) = [v EXCEPT !.names = f.names]
    BY <1>5 DEF Seen
  <2> QED BY <1>1, <2>1 DEF ViewType
<1>6. CASE f.kind \notin {"opened", "accepted", "data", "closed", "names"}
  <2>1. Seen(v, f) = v
    BY <1>6 DEF Seen
  <2> QED BY <2>1
<1> QED BY <1>2, <1>3, <1>4, <1>5, <1>6

(* The first frame of a queue, and the rest.                               *)
LEMMA FirstFrame ==
  ASSUME NEW q \in Seq(FrameType), q # <<>>
  PROVE  /\ Len(q) \in Nat \ {0} /\ Head(q) = q[1] /\ Head(q) \in FrameType
         /\ Tail(q) \in Seq(FrameType) /\ Len(Tail(q)) = Len(q) - 1
         /\ \A i \in 1 .. Len(q) - 1 : Tail(q)[i] = q[i + 1]
OBVIOUS

(* The types after a step of a writer.                                     *)
LEMMA TypesKept ==
  ASSUME FabricTypes, UNCHANGED <<generation, nextId, pairs>>,
         NEW e, Dropped(e) \/ Ended(e) \/ Received(e)
  PROVE  FabricTypes'
<1>0. /\ TrafficTypes /\ e \in Endpoints
      /\ UNCHANGED <<alive, listeners, handles, watches>>
  BY DEF FabricTypes, Dropped, Ended, Received
<1>1. RegistryTypes'
  BY <1>0 DEF FabricTypes, RegistryTypes
<1>2. WatchesType(watches)'
  BY <1>0 DEF FabricTypes, WatchesType
<1>3. PICK q : q = queue[e]
  OBVIOUS
<1>4. q \in Seq(FrameType) /\ (written[e] => q # <<>>)
  BY <1>0, <1>3 DEF TrafficTypes, QueueType
<1>5. CASE Dropped(e)
  <2>1. q # <<>>
    BY <1>4, <1>5 DEF Dropped
  <2>2. Tail(q) \in Seq(FrameType)
    BY <1>4, <2>1, FirstFrame
  <2>3. queue' = [queue EXCEPT ![e] = Tail(q)] /\ written' = [written EXCEPT ![e] = FALSE]
        /\ view' = view /\ open' = open
    BY <1>3, <1>5 DEF Dropped
  <2>4. TrafficTypes'
    BY <1>0, <2>2, <2>3 DEF TrafficTypes, QueueType
  <2> QED BY <1>1, <1>2, <2>4 DEF FabricTypes
<1>6. CASE Ended(e)
  <2>1. queue' = [queue EXCEPT ![e] = <<>>] /\ written' = [written EXCEPT ![e] = FALSE]
        /\ view' = view /\ open' \subseteq open
    BY <1>6 DEF Ended
  <2>2. TrafficTypes'
    BY <1>0, <2>1 DEF TrafficTypes, QueueType
  <2> QED BY <1>1, <1>2, <2>2 DEF FabricTypes
<1>7. CASE Received(e)
  <2>1. q # <<>>
    BY <1>3, <1>7 DEF Received
  <2>2. PICK f : f = Head(q)
    OBVIOUS
  <2>3. f \in FrameType
    BY <1>4, <2>1, <2>2, FirstFrame
  <2>4. PICK k : k = <<e, f.id>>
    OBVIOUS
  <2>5. k \in Keys /\ view[k] \in ViewType
    BY <1>0, <2>3, <2>4 DEF Keys, FrameType, TrafficTypes
  <2>6. PICK v : v = Seen(view[k], f)
    OBVIOUS
  <2>7. v \in ViewType
    BY <2>3, <2>5, <2>6, SeenType
  <2>8. view' = [view EXCEPT ![k] = v] /\ written' = [written EXCEPT ![e] = TRUE]
        /\ queue' = queue /\ open' = open
    BY <1>3, <1>7, <2>2, <2>4, <2>6 DEF Received
  <2>9. view' \in [Keys -> ViewType]
    BY <1>0, <2>5, <2>7, <2>8 DEF TrafficTypes
  <2>10. TrafficTypes'
    BY <1>0, <1>3, <2>1, <2>8, <2>9 DEF TrafficTypes
  <2> QED BY <1>1, <1>2, <2>10 DEF FabricTypes
<1> QED BY <1>5, <1>6, <1>7

(* Every step keeps the invariant.                                         *)
LEMMA ChannelStep ==
  ASSUME ChannelInv, [Next]_vars
  PROVE  ChannelInv'
<1>0. FabricTypes /\ FabricInv'
  BY ChannelAssumption, FabricStep DEF ChannelInv
<1>1. CASE UNCHANGED <<alive, open, listeners, handles, watches, queue, written, view,
                       generation, nextId, pairs, dirty>>
  <2>1. FabricTypes'
    BY <1>0, <1>1 DEF FabricTypes, TrafficTypes, RegistryTypes, WatchesType
  <2>2. OneOwner' /\ OneDrain'
    BY <1>1 DEF ChannelInv, OneOwner, OneDrain
  <2>3. DrainsAreFree'
    BY <1>1 DEF ChannelInv, DrainsAreFree, Drained, Owned
  <2> QED BY <1>0, <2>1, <2>2, <2>3 DEF ChannelInv
<1>2. CASE Asked
  <2>1. Kept
    BY <1>2, AskedEffect
  <2>2. PICK ds : Effect(ds)
    BY <1>2, AskedEffect
  <2>3. OneDrain' /\ DrainsAreFree'
    BY <2>2, OwnerKept
  <2>4. TrafficTypes'
    BY <1>0, <2>2, TypesAfter DEF Effect
  <2>5. FabricTypes' /\ OneOwner'
    BY <2>1, <2>4 DEF Kept, FabricTypes, WatchesType
  <2> QED BY <1>0, <2>3, <2>5 DEF ChannelInv
<1>3. ASSUME NEW e, Dropped(e), UNCHANGED <<generation, nextId, pairs>>
      PROVE  ChannelInv'
  <2>1. FabricTypes'
    BY <1>0, <1>3, TypesKept
  <2>2. PICK c : c = [x \in Endpoints |-> IF x = e THEN 1 ELSE 0]
    OBVIOUS
  <2>3. c \in [Endpoints -> Nat] /\ UNCHANGED <<listeners, handles, watches>>
    BY <1>3, <2>2 DEF Dropped
  <2>4. ASSUME NEW x \in Endpoints
        PROVE  /\ Len(queue'[x]) \in Nat
               /\ \A i \in 1 .. Len(queue'[x]) :
                    i + c[x] \in 1 .. Len(queue[x]) /\ queue'[x][i] = queue[x][i + c[x]]
    <3>1. PICK q, r : q = queue[x] /\ r = queue'[x]
      OBVIOUS
    <3>2. q \in Seq(FrameType) /\ queue \in QueueType
      BY <1>0, <3>1 DEF FabricTypes, TrafficTypes, QueueType
    <3>3. CASE x = e
      <4>1. q # <<>>
        BY <1>0, <1>3, <3>1, <3>3 DEF Dropped, FabricTypes, TrafficTypes
      <4>2. r = Tail(q)
        BY <1>3, <3>1, <3>2, <3>3 DEF Dropped, QueueType
      <4>3. /\ Len(q) \in Nat \ {0} /\ Len(r) = Len(q) - 1
            /\ \A i \in 1 .. Len(q) - 1 : r[i] = q[i + 1]
        BY <3>2, <4>1, <4>2, FirstFrame
      <4>4. c[x] = 1
        BY <2>2, <3>3
      <4> QED BY <3>1, <4>3, <4>4
    <3>4. CASE x # e
      <4>1. r = q /\ c[x] = 0 /\ Len(q) \in Nat
        BY <1>3, <2>2, <3>1, <3>2, <3>4 DEF Dropped, QueueType
      <4> QED BY <3>1, <4>1
    <3> QED BY <3>3, <3>4
  <2>5. OneDrain' /\ DrainsAreFree' /\ OneOwner'
    BY <2>3, <2>4, OwnerShrinks
  <2> QED BY <1>0, <2>1, <2>5 DEF ChannelInv
<1>4. ASSUME NEW e, Ended(e), UNCHANGED <<generation, nextId, pairs>>
      PROVE  ChannelInv'
  <2>1. FabricTypes'
    BY <1>0, <1>4, TypesKept
  <2>2. PICK c : c = [x \in Endpoints |-> 0]
    OBVIOUS
  <2>3. c \in [Endpoints -> Nat] /\ UNCHANGED <<listeners, handles, watches>>
    BY <1>4, <2>2 DEF Ended
  <2>4. ASSUME NEW x \in Endpoints
        PROVE  /\ Len(queue'[x]) \in Nat
               /\ \A i \in 1 .. Len(queue'[x]) :
                    i + c[x] \in 1 .. Len(queue[x]) /\ queue'[x][i] = queue[x][i + c[x]]
    <3>1. PICK q, r : q = queue[x] /\ r = queue'[x]
      OBVIOUS
    <3>2. q \in Seq(FrameType) /\ queue \in QueueType
      BY <1>0, <3>1 DEF FabricTypes, TrafficTypes, QueueType
    <3>3. r = <<>> \/ r = q
      BY <1>4, <3>1, <3>2 DEF Ended, QueueType
    <3>4. c[x] = 0 /\ Len(q) \in Nat
      BY <2>2, <3>2
    <3> QED BY <3>1, <3>3, <3>4
  <2>5. OneDrain' /\ DrainsAreFree' /\ OneOwner'
    BY <2>3, <2>4, OwnerShrinks
  <2> QED BY <1>0, <2>1, <2>5 DEF ChannelInv
<1>5. ASSUME NEW e, Received(e), UNCHANGED <<generation, nextId, pairs>>
      PROVE  ChannelInv'
  <2>1. FabricTypes'
    BY <1>0, <1>5, TypesKept
  <2>2. UNCHANGED <<listeners, handles, watches, queue>>
    BY <1>5 DEF Received
  <2>3. OneOwner' /\ OneDrain'
    BY <2>2 DEF ChannelInv, OneOwner, OneDrain
  <2>4. DrainsAreFree'
    BY <2>2 DEF ChannelInv, DrainsAreFree, Drained, Owned
  <2> QED BY <1>0, <2>1, <2>3, <2>4 DEF ChannelInv
<1> QED BY <1>1, <1>2, <1>3, <1>4, <1>5, NextIs

(* A fabric without channels satisfies it.                                 *)
LEMMA ChannelInit == Init => ChannelInv
<1> SUFFICES ASSUME Init PROVE ChannelInv
  OBVIOUS
<1>1. FabricInv
  BY FabricInit
<1>2. TrafficTypes
  <2>1. queue \in QueueType
    BY DEF Init, QueueType
  <2>2. view \in [Keys -> ViewType]
    <3>1. Nothing \in ViewType
      BY DEF Nothing, ViewType
    <3> QED BY <3>1 DEF Init
  <2> QED BY <2>1, <2>2 DEF Init, TrafficTypes
<1>3. RegistryTypes
  BY DEF Init, RegistryTypes
<1>4. WatchesType(watches) /\ OneOwner
  BY DEF Init, WatchesType, OneOwner
<1>5. OneDrain
  BY DEF Init, OneDrain
<1>6. DrainsAreFree
  <2>1. \A k \in Keys : ~Drained(k)
    <3> SUFFICES ASSUME NEW k \in Keys PROVE ~Drained(k)
      OBVIOUS
    <3>1. k[1] \in Endpoints
      BY DEF Keys
    <3>2. Len(queue[k[1]]) = 0
      BY <3>1 DEF Init
    <3> QED BY <3>2 DEF Drained
  <2> QED BY <2>1 DEF DrainsAreFree
<1> QED BY <1>1, <1>2, <1>3, <1>4, <1>5, <1>6 DEF ChannelInv, FabricTypes

(* It holds throughout.                                                    *)
LEMMA ChannelInvariant == Spec => []ChannelInv
<1>1. ChannelInv /\ [Next]_vars => ChannelInv'
  BY ChannelStep
<1> QED BY ChannelInit, <1>1, PTL DEF Spec

(* The sets that the property counts have at most one member between them. *)
LEMMA OwnersCounted ==
  ASSUME ChannelInv
  PROVE  IdsHaveOneOwner
<1> SUFFICES ASSUME NEW k \in Keys
             PROVE  LET terminal == {i \in DOMAIN queue[k[1]] :
                                       queue[k[1]][i].drain /\ queue[k[1]][i].id = k[2]}
                    IN  Cardinality({s \in {"l", "h", "w"} : \/ s = "l" /\ k \in DOMAIN listeners
                                                             \/ s = "h" /\ k \in DOMAIN handles
                                                             \/ s = "w" /\ k \in DOMAIN watches})
                          + Cardinality(terminal) =< 1
  BY DEF IdsHaveOneOwner
<1>1. PICK q : q = queue[k[1]]
  OBVIOUS
<1>2. q \in Seq(FrameType) /\ DOMAIN q = 1 .. Len(q) /\ k[1] \in Endpoints
  BY <1>1 DEF ChannelInv, FabricTypes, TrafficTypes, QueueType, Keys
<1>3. PICK T : T = {i \in DOMAIN q : q[i].drain /\ q[i].id = k[2]}
  OBVIOUS
<1>4. PICK O : O = {s \in {"l", "h", "w"} : \/ s = "l" /\ k \in DOMAIN listeners
                                            \/ s = "h" /\ k \in DOMAIN handles
                                            \/ s = "w" /\ k \in DOMAIN watches}
  OBVIOUS
<1>5. Drained(k) <=> T # {}
  BY <1>1, <1>2, <1>3 DEF Drained
<1>6. Owned(k) <=> O # {}
  BY <1>4 DEF Owned
<1>7. T = {} \/ O = {}
  BY <1>5, <1>6 DEF ChannelInv, DrainsAreFree
<1>8. T = {} \/ \E i : T = {i}
  <2>1. \A i, j \in T : i = j
    BY <1>1, <1>2, <1>3 DEF ChannelInv, OneDrain
  <2> QED BY <2>1
<1>9. O = {} \/ \E s : O = {s}
  <2>1. \A s, t \in O : s = t
    BY <1>4 DEF ChannelInv, OneOwner
  <2> QED BY <2>1
<1>10. Cardinality({}) = 0
  BY FS_EmptySet
<1>11. Cardinality(O) + Cardinality(T) =< 1
  <2>1. CASE T = {} /\ O = {}
    BY <1>10, <2>1
  <2>2. ASSUME NEW i, T = {i}, O = {} PROVE Cardinality(O) + Cardinality(T) =< 1
    <3>1. Cardinality(T) = 1
      BY <2>2, FS_Singleton
    <3>2. Cardinality(O) = 0
      BY <2>2, FS_EmptySet
    <3> QED BY <3>1, <3>2
  <2>3. ASSUME NEW s, O = {s}, T = {} PROVE Cardinality(O) + Cardinality(T) =< 1
    <3>1. Cardinality(O) = 1
      BY <2>3, FS_Singleton
    <3>2. Cardinality(T) = 0
      BY <2>3, FS_EmptySet
    <3> QED BY <3>1, <3>2
  <2> QED BY <1>7, <1>8, <1>9, <2>1, <2>2, <2>3
<1> QED BY <1>1, <1>3, <1>4, <1>11

(* An id is one thing at a time: whatever clients send, fail or leave      *)
(* undelivered, begin_drain never meets an id that is in use or draining.  *)
THEOREM OneOwnerHolds == Spec => []IdsHaveOneOwner
<1>1. ChannelInv => IdsHaveOneOwner
  BY OwnersCounted
<1>. QED BY ChannelInvariant, <1>1, PTL
-----------------------------------------------------------------------------
(* What a client will know of an id.                                       *)

Opens == {"opened", "accepted"}

(* What a frame tells: it begins a channel, ends it, or leaves it.         *)
LEMMA SeenOf ==
  ASSUME NEW v \in ViewType, NEW f \in FrameType
  PROVE  Seen(v, f).of = IF f.kind \in Opens THEN f.of
                         ELSE IF f.kind = "closed" THEN 0 ELSE v.of
<1>1. CASE f.kind \in Opens
  <2>1. Seen(v, f) = [v EXCEPT !.of = f.of, !.got = 0]
    BY <1>1 DEF Seen, Opens
  <2> QED BY <1>1, <2>1 DEF ViewType
<1>2. CASE f.kind = "data"
  <2>1. Seen(v, f) = [v EXCEPT !.got = v.got + f.n]
    BY <1>2 DEF Seen
  <2> QED BY <1>2, <2>1 DEF ViewType, Opens
<1>3. CASE f.kind = "closed"
  <2>1. Seen(v, f) = [v EXCEPT !.of = 0, !.got = 0]
    BY <1>3 DEF Seen
  <2> QED BY <1>3, <2>1 DEF ViewType, Opens
<1>4. CASE f.kind = "names"
  <2>1. Seen(v, f) = [v EXCEPT !.names = f.names]
    BY <1>4 DEF Seen
  <2> QED BY <1>4, <2>1 DEF ViewType, Opens
<1>5. CASE f.kind \notin {"opened", "accepted", "data", "closed", "names"}
  <2>1. Seen(v, f) = v
    BY <1>5 DEF Seen
  <2> QED BY <1>5, <2>1 DEF Opens
<1> QED BY <1>1, <1>2, <1>3, <1>4, <1>5 DEF Opens

(* One step of what a client knows.                                        *)
NextKnown(w, v, q, id, read, i) ==
  IF i =< read THEN v
  ELSE IF q[i].id = id THEN Seen(w[i - 1], q[i]) ELSE w[i - 1]

(* The recursion has a solution, so it takes one frame per step.           *)
LEMMA KnowingIs ==
  ASSUME NEW q \in Seq(FrameType), NEW v, NEW id, NEW read \in Nat,
         NEW w, w = Knowing(v, q, id, read)
  PROVE  w = [i \in 0 .. Len(q) |-> NextKnown(w, v, q, id, read, i)]
<1> DEFINE Iter(g, m) == g = [i \in 0 .. m |-> NextKnown(g, v, q, id, read, i)]
<1>0. PICK n : n = Len(q)
  OBVIOUS
<1>1. n \in Nat
  BY <1>0
<1>2. \E g : Iter(g, n)
  <2> DEFINE S == {m \in 0 .. n : \E g : Iter(g, m)}
  <2>1. 0 \in S
    <3> DEFINE z == [i \in 0 .. 0 |-> v]
    <3>1. \A i \in 0 .. 0 : z[i] = NextKnown(z, v, q, id, read, i)
      BY DEF NextKnown
    <3>2. Iter(z, 0)
      BY <3>1
    <3>3. 0 \in 0 .. n
      BY <1>1
    <3> HIDE DEF Iter, z
    <3> QED BY <3>2, <3>3
  <2>2. ASSUME NEW j \in 1 .. n, j - 1 \in S PROVE j \in S
    <3>1. PICK m \in Nat : j = m + 1
      BY <1>1, <2>2
    <3>2. PICK g : Iter(g, m)
      <4> HIDE DEF Iter
      <4> QED BY <2>2, <3>1
    <3> DEFINE h == [i \in 0 .. m + 1 |->
                       IF i = m + 1 THEN NextKnown(g, v, q, id, read, m + 1) ELSE g[i]]
    <3>3. ASSUME NEW i \in 0 .. m + 1 PROVE h[i] = NextKnown(h, v, q, id, read, i)
      <4>1. CASE i = m + 1
        <5>1. h[i] = NextKnown(g, v, q, id, read, i)
          BY <4>1
        <5>2. h[i - 1] = g[i - 1]
          BY <3>1, <4>1
        <5> HIDE DEF h
        <5> QED BY <5>1, <5>2 DEF NextKnown
      <4>2. CASE i \in 0 .. m
        <5>1. g[i] = NextKnown(g, v, q, id, read, i)
          BY <3>2, <4>2
        <5>2. h[i] = g[i]
          BY <3>1, <4>2
        <5>3. ~(i =< read) => h[i - 1] = g[i - 1]
          BY <3>1, <4>2
        <5> HIDE DEF h
        <5> QED BY <5>1, <5>2, <5>3 DEF NextKnown
      <4> QED BY <3>1, <4>1, <4>2
    <3>4. Iter(h, m + 1)
      BY <3>3
    <3> HIDE DEF h, Iter
    <3> QED BY <2>2, <3>1, <3>4
  <2> HIDE DEF Iter
  <2>3. 0 .. n \subseteq S
    <3> HIDE DEF S
    <3> QED BY <1>1, <2>1, <2>2, UpTo
  <2>4. n \in 0 .. n
    BY <1>1
  <2> QED BY <2>3, <2>4
<1>3. w = CHOOSE g : Iter(g, n)
  BY <1>0 DEF Knowing, NextKnown
<1>4. Iter(w, n)
  <2> HIDE DEF Iter
  <2> QED BY <1>2, <1>3
<1> QED BY <1>0, <1>4

(* What a client knows has its type after every frame.                     *)
LEMMA KnowingTypes ==
  ASSUME NEW q \in Seq(FrameType), NEW v \in ViewType, NEW id, NEW read \in Nat,
         NEW w, w = Knowing(v, q, id, read)
  PROVE  \A i \in 0 .. Len(q) : w[i] \in ViewType /\ w[i] = NextKnown(w, v, q, id, read, i)
<1>1. PICK n : n = Len(q)
  OBVIOUS
<1>2. n \in Nat /\ \A i \in 1 .. n : q[i] \in FrameType
  BY <1>1
<1>3. \A i \in 0 .. n : w[i] = NextKnown(w, v, q, id, read, i)
  BY <1>1, KnowingIs
<1> DEFINE S == {i \in 0 .. n : w[i] \in ViewType}
<1>4. 0 \in S
  <2>1. w[0] = v
    BY <1>2, <1>3 DEF NextKnown
  <2> QED BY <1>2, <2>1
<1>5. ASSUME NEW i \in 1 .. n, i - 1 \in S PROVE i \in S
  <2>1. w[i] = NextKnown(w, v, q, id, read, i) /\ w[i - 1] \in ViewType
    BY <1>3, <1>5
  <2>2. Seen(w[i - 1], q[i]) \in ViewType
    BY <1>2, <2>1, SeenType
  <2>3. w[i] \in ViewType
    BY <2>1, <2>2 DEF NextKnown
  <2> QED BY <2>3
<1>6. 0 .. n \subseteq S
  <2> HIDE DEF S
  <2> QED BY <1>2, <1>4, <1>5, UpTo
<1> QED BY <1>1, <1>3, <1>6

Begins(q, r) == Len(q) =< Len(r) /\ \A i \in 1 .. Len(q) : r[i] = q[i]

(* What is appended to a queue changes nothing of what comes before.       *)
LEMMA SameBefore ==
  ASSUME NEW q \in Seq(FrameType), NEW r \in Seq(FrameType), NEW v \in ViewType,
         NEW id, NEW read \in Nat, Begins(q, r),
         NEW w, w = Knowing(v, q, id, read), NEW x, x = Knowing(v, r, id, read)
  PROVE  \A i \in 0 .. Len(q) : x[i] = w[i]
<1>1. PICK n, m : n = Len(q) /\ m = Len(r)
  OBVIOUS
<1>2. n \in Nat /\ m \in Nat /\ n =< m /\ \A i \in 1 .. n : r[i] = q[i]
  BY <1>1 DEF Begins
<1>3. \A i \in 0 .. n : w[i] = NextKnown(w, v, q, id, read, i)
  BY <1>1, KnowingTypes
<1>4. \A i \in 0 .. m : x[i] = NextKnown(x, v, r, id, read, i)
  BY <1>1, KnowingTypes
<1> DEFINE S == {i \in 0 .. n : x[i] = w[i]}
<1>5. 0 \in S
  <2>1. 0 \in 0 .. n /\ 0 \in 0 .. m /\ 0 =< read
    BY <1>2
  <2> QED BY <1>3, <1>4, <2>1 DEF NextKnown
<1>6. ASSUME NEW i \in 1 .. n, i - 1 \in S PROVE i \in S
  <2>1. i \in 0 .. n /\ i \in 0 .. m /\ r[i] = q[i] /\ x[i - 1] = w[i - 1]
    BY <1>2, <1>6
  <2>2. x[i] = w[i]
    BY <1>3, <1>4, <2>1 DEF NextKnown
  <2> QED BY <2>1, <2>2
<1>7. 0 .. n \subseteq S
  <2> HIDE DEF S
  <2> QED BY <1>2, <1>5, <1>6, UpTo
<1> QED BY <1>1, <1>7

MovedUp(q, r, w, x) == \A i \in 0 .. Len(r) : i + 1 \in 1 .. Len(q) /\ x[i] = w[i + 1]

(* When the first frame is dropped, all that is queued behind moves up.    *)
LEMMA MovesUp ==
  ASSUME NEW q \in Seq(FrameType), q # <<>>, NEW r, r = Tail(q), NEW v \in ViewType, NEW id,
         NEW w, w = Knowing(v, q, id, 1), NEW x, x = Knowing(v, r, id, 0)
  PROVE  MovedUp(q, r, w, x)
<1>1. PICK n : n = Len(r)
  OBVIOUS
<1>2. /\ n \in Nat /\ Len(q) = n + 1 /\ r \in Seq(FrameType)
      /\ \A i \in 1 .. n : r[i] = q[i + 1]
  BY <1>1, FirstFrame
<1>3. \A i \in 0 .. n + 1 : w[i] = NextKnown(w, v, q, id, 1, i)
  BY <1>2, KnowingTypes
<1>4. \A i \in 0 .. n : x[i] = NextKnown(x, v, r, id, 0, i)
  <2>1. PICK s : s = r
    OBVIOUS
  <2>2. s \in Seq(FrameType) /\ x = Knowing(v, s, id, 0) /\ 0 \in Nat
    BY <1>2, <2>1
  <2>3. \A i \in 0 .. Len(s) : x[i] = NextKnown(x, v, s, id, 0, i)
    BY <2>2, KnowingTypes
  <2> QED BY <1>1, <2>1, <2>3
<1> DEFINE S == {i \in 0 .. n : x[i] = w[i + 1]}
<1>5. 0 \in S
  <2>1. 0 \in 0 .. n /\ 1 \in 0 .. n + 1 /\ 0 + 1 = 1
    BY <1>2
  <2> QED BY <1>3, <1>4, <2>1 DEF NextKnown
<1>6. ASSUME NEW i \in 1 .. n, i - 1 \in S PROVE i \in S
  <2>1. PICK j : j = i + 1
    OBVIOUS
  <2>2. i \in 0 .. n /\ j \in 0 .. n + 1 /\ j - 1 = i /\ ~(j =< 1) /\ ~(i =< 0) /\ (i - 1) + 1 = i
    BY <1>2, <2>1
  <2>3. r[i] = q[j] /\ x[i - 1] = w[j - 1]
    BY <1>2, <1>6, <2>1, <2>2
  <2>4. x[i] = w[j]
    BY <1>3, <1>4, <2>2, <2>3 DEF NextKnown
  <2> QED BY <2>1, <2>2, <2>4
<1>7. 0 .. n \subseteq S
  <2> HIDE DEF S
  <2> QED BY <1>2, <1>5, <1>6, UpTo
<1>8. \A i \in 0 .. n : i + 1 \in 1 .. n + 1
  BY <1>2
<1> QED BY <1>1, <1>2, <1>7, <1>8 DEF MovedUp

(* When a client reads the first frame, it knows what it was going to.     *)
LEMMA IsRead ==
  ASSUME NEW q \in Seq(FrameType), q # <<>>, NEW v \in ViewType, NEW id,
         NEW w, w = Knowing(v, q, id, 0), NEW y, y = w[1], NEW x, x = Knowing(y, q, id, 1)
  PROVE  /\ y = IF Head(q).id = id THEN Seen(v, Head(q)) ELSE v
         /\ \A i \in 1 .. Len(q) : x[i] = w[i]
<1>1. PICK n : n = Len(q)
  OBVIOUS
<1>2. n \in Nat \ {0} /\ Head(q) = q[1]
  BY <1>1, FirstFrame
<1>3. 0 \in 0 .. n /\ 1 \in 0 .. n /\ 1 - 1 = 0 /\ ~(1 =< 0) /\ 0 =< 0
  BY <1>2
<1>4. \A i \in 0 .. n : w[i] \in ViewType /\ w[i] = NextKnown(w, v, q, id, 0, i)
  BY <1>1, KnowingTypes
<1>5. y \in ViewType
  BY <1>3, <1>4
<1>6. \A i \in 0 .. n : x[i] = NextKnown(x, y, q, id, 1, i)
  BY <1>1, <1>5, KnowingTypes
<1>7. y = IF Head(q).id = id THEN Seen(v, Head(q)) ELSE v
  BY <1>2, <1>3, <1>4 DEF NextKnown
<1> DEFINE S == {i \in 0 .. n : i = 0 \/ x[i] = w[i]}
<1>8. 0 \in S
  BY <1>3
<1>9. ASSUME NEW i \in 1 .. n, i - 1 \in S PROVE i \in S
  <2>1. i \in 0 .. n /\ ~(i =< 0)
    BY <1>2
  <2>2. CASE i = 1
    BY <1>3, <1>6, <2>1, <2>2 DEF NextKnown
  <2>3. CASE i # 1
    <3>1. ~(i =< 1) /\ i - 1 # 0
      BY <2>1, <2>3
    <3>2. x[i - 1] = w[i - 1]
      BY <1>9, <3>1
    <3>3. x[i] = w[i]
      BY <1>4, <1>6, <2>1, <3>1, <3>2 DEF NextKnown
    <3> QED BY <2>1, <3>3
  <2> QED BY <2>2, <2>3
<1>10. 0 .. n \subseteq S
  <2> HIDE DEF S
  <2> QED BY <1>2, <1>8, <1>9, UpTo
<1> QED BY <1>1, <1>7, <1>10

(* None of some frames begins or ends a channel of the id.                 *)
Quiet(q, id, m, n) ==
  \A i \in m + 1 .. n : q[i].id = id => q[i].kind \notin Opens \cup {"closed"}

(* Such frames leave the channel that the client knows.                    *)
LEMMA OfStays ==
  ASSUME NEW q \in Seq(FrameType), NEW v \in ViewType, NEW id, NEW read \in Nat,
         NEW w, w = Knowing(v, q, id, read),
         NEW m \in Nat, NEW n \in Nat, read =< m, m =< n, n =< Len(q),
         Quiet(q, id, m, n)
  PROVE  w[n].of = w[m].of
<1>1. PICK l \in Nat : n = m + l
  <2>1. n - m \in Nat /\ n = m + (n - m)
    OBVIOUS
  <2> QED BY <2>1
<1>2. Len(q) \in Nat /\ \A i \in 1 .. Len(q) : q[i] \in FrameType
  OBVIOUS
<1>3. \A i \in 0 .. Len(q) : w[i] \in ViewType /\ w[i] = NextKnown(w, v, q, id, read, i)
  BY KnowingTypes
<1> DEFINE S == {i \in 0 .. l : w[m + i].of = w[m].of}
<1>4. 0 \in S
  BY <1>1
<1>5. ASSUME NEW i \in 1 .. l, i - 1 \in S PROVE i \in S
  <2>1. PICK j : j = m + i
    OBVIOUS
  <2>2. /\ j \in m + 1 .. n /\ j \in 1 .. Len(q) /\ j - 1 \in 0 .. Len(q) /\ j \in 0 .. Len(q)
        /\ ~(j =< read) /\ j - 1 = m + (i - 1)
    BY <1>1, <1>2, <2>1
  <2>3. w[j - 1].of = w[m].of /\ w[j - 1] \in ViewType /\ q[j] \in FrameType
    BY <1>2, <1>3, <1>5, <2>2
  <2>4. w[j] = IF q[j].id = id THEN Seen(w[j - 1], q[j]) ELSE w[j - 1]
    BY <1>3, <2>2 DEF NextKnown
  <2>5. q[j].id = id => Seen(w[j - 1], q[j]).of = w[j - 1].of
    BY <2>2, <2>3, SeenOf DEF Quiet
  <2> QED BY <2>1, <2>3, <2>4, <2>5
<1>6. 0 .. l \subseteq S
  <2> HIDE DEF S
  <2> QED BY <1>4, <1>5, UpTo
<1>7. l \in S
  BY <1>6
<1> QED BY <1>1, <1>7

-----------------------------------------------------------------------------
(* What clients know, step by step.                                        *)

Read(e) == IF written[e] THEN 1 ELSE 0

Known(k) == Knowing(view[k], queue[k[1]], k[2], Read(k[1]))

(* What it is made of.                                                     *)
LEMMA KnownOf ==
  ASSUME TrafficTypes, NEW k \in Keys, NEW e, e = k[1]
  PROVE  /\ e \in Endpoints /\ k = <<e, k[2]>>
         /\ queue[e] \in Seq(FrameType) /\ Len(queue[e]) \in Nat /\ view[k] \in ViewType
         /\ written[e] \in BOOLEAN /\ Read(e) \in {0, 1} /\ Read(e) =< Len(queue[e])
         /\ Read(e) = 1 <=> written[e]
<1>1. e \in Endpoints /\ k = <<e, k[2]>>
  BY DEF Keys
<1>2. /\ queue[e] \in Seq(FrameType) /\ view[k] \in ViewType
      /\ written[e] \in BOOLEAN /\ (written[e] => queue[e] # <<>>)
  BY <1>1 DEF TrafficTypes, QueueType
<1>3. Len(queue[e]) \in Nat /\ (queue[e] # <<>> => Len(queue[e]) # 0)
  BY <1>2
<1>4. (Read(e) = 1 <=> written[e]) /\ Read(e) \in {0, 1}
  BY <1>2 DEF Read
<1>5. Read(e) =< Len(queue[e])
  BY <1>2, <1>3, <1>4
<1> QED BY <1>1, <1>2, <1>3, <1>4, <1>5

(* Will is what Known says.                                                *)
LEMMA WillIs == \A k, n : Will(k, n) = Known(k)[n]
BY DEF Will, Known, Read

(* Frames that are appended change nothing of what comes before.           *)
LEMMA RequestKnows ==
  ASSUME TrafficTypes, TrafficTypes', UNCHANGED <<written, view>>, NEW k \in Keys,
         NEW q, q = queue[k[1]], NEW r, r = queue'[k[1]], Begins(q, r),
         NEW w, w = Known(k), NEW x, x = Known(k)'
  PROVE  \A i \in 0 .. Len(q) : x[i] = w[i]
<1>1. PICK e, id : e = k[1] /\ id = k[2]
  OBVIOUS
<1>2. PICK v, read : v = view[k] /\ read = Read(e)
  OBVIOUS
<1>3. e \in Endpoints /\ v \in ViewType /\ read \in Nat
  BY <1>1, <1>2, KnownOf
<1>4. q \in Seq(FrameType) /\ r \in Seq(FrameType)
  BY <1>1, <1>3 DEF TrafficTypes, QueueType
<1>5. Read(e)' = read /\ view'[k] = v
  BY <1>2 DEF Read
<1>6. w = Knowing(v, q, id, read) /\ x = Knowing(v, r, id, read)
  BY <1>1, <1>2, <1>5 DEF Known
<1> QED BY <1>3, <1>4, <1>6, SameBefore

(* A writer that completes or drops a frame: the rest moves up, and what   *)
(* the client will know stays.                                             *)
Moves(q, r, w, x, read, now, c) ==
  /\ Len(r) \in Nat /\ Len(q) = Len(r) + c /\ now =< Len(r)
  /\ \A i \in 1 .. Len(r) : i + c \in 1 .. Len(q) /\ r[i] = q[i + c]
  /\ \A i \in now .. Len(r) : i + c \in read .. Len(q) /\ x[i] = w[i + c]

Advances(k) ==
  LET e == k[1] IN
  \E c \in {0, 1} :
    Moves(queue[e], queue'[e], Known(k), Known(k)', Read(e), Read(e)', c)

(* The frame that was written is dropped: the rest moves up by one.        *)
LEMMA DropAdvances ==
  ASSUME TrafficTypes, NEW e, Dropped(e), NEW k \in Keys, k[1] = e
  PROVE  Advances(k)
<1>1. PICK q : q = queue[e]
  OBVIOUS
<1>2. PICK r : r = Tail(q)
  OBVIOUS
<1>3. PICK id, v : id = k[2] /\ v = view[k]
  OBVIOUS
<1>4. /\ e \in Endpoints /\ written[e] /\ q \in Seq(FrameType) /\ q # <<>>
      /\ v \in ViewType /\ Read(e) = 1
  <2>1. e \in Endpoints /\ written[e]
    BY DEF Dropped
  <2>2. q # <<>>
    BY <1>1, <2>1 DEF TrafficTypes
  <2> QED BY <1>1, <1>3, <2>1, <2>2, KnownOf
<1>5. queue'[e] = r /\ Read(e)' = 0 /\ view' = view
  <2>1. queue' = [queue EXCEPT ![e] = r] /\ written' = [written EXCEPT ![e] = FALSE]
    BY <1>1, <1>2 DEF Dropped
  <2>2. queue'[e] = r /\ written'[e] = FALSE
    BY <1>4, <2>1 DEF TrafficTypes, QueueType
  <2> QED BY <2>2 DEF Dropped, Read
<1>6. PICK w, x : w = Known(k) /\ x = Known(k)'
  OBVIOUS
<1>7. w = Knowing(v, q, id, 1) /\ x = Knowing(v, r, id, 0)
  BY <1>1, <1>3, <1>4, <1>5, <1>6 DEF Known
<1>8. \A i \in 0 .. Len(r) : i + 1 \in 1 .. Len(q) /\ x[i] = w[i + 1]
  <2>1. q \in Seq(FrameType) /\ q # <<>> /\ v \in ViewType
    BY <1>4
  <2>2. MovedUp(q, r, w, x)
    BY <1>2, <1>7, <2>1, MovesUp
  <2> QED BY <2>2 DEF MovedUp
<1>9. /\ Len(r) \in Nat /\ Len(q) = Len(r) + 1
      /\ \A i \in 1 .. Len(r) : i + 1 \in 1 .. Len(q) /\ r[i] = q[i + 1]
  BY <1>2, <1>4, FirstFrame
<1>10. Moves(q, r, w, x, 1, 0, 1)
  BY <1>8, <1>9 DEF Moves
<1>11. \E c \in {0, 1} : Moves(q, r, w, x, 1, 0, c)
  BY <1>10
<1> QED BY <1>1, <1>4, <1>5, <1>6, <1>11 DEF Advances

(* A frame is read: the client knows what it was going to know by then.    *)
LEMMA ReceiptAdvances ==
  ASSUME TrafficTypes, NEW e, Received(e), NEW k \in Keys, k[1] = e
  PROVE  Advances(k)
<1>1. PICK q, f : q = queue[e] /\ f = Head(q)
  OBVIOUS
<1>2. PICK id, v : id = k[2] /\ v = view[k]
  OBVIOUS
<1>3. e \in Endpoints /\ ~written[e] /\ q # <<>> /\ queue' = queue
  BY <1>1 DEF Received
<1>4. /\ q \in Seq(FrameType) /\ v \in ViewType /\ Read(e) = 0 /\ k = <<e, id>>
      /\ Len(q) \in Nat
  BY <1>1, <1>2, <1>3, KnownOf
<1>5. Len(q) # 0
  BY <1>3, <1>4
<1>6. written'[e] = TRUE
  BY <1>3 DEF Received, TrafficTypes
<1>7. Read(e)' = 1
  BY <1>6 DEF Read
<1>8. PICK w, x : w = Known(k) /\ x = Known(k)'
  OBVIOUS
<1>9. w = Knowing(v, q, id, 0)
  BY <1>1, <1>2, <1>4, <1>8 DEF Known
<1>10. PICK y : y = w[1]
  OBVIOUS
<1>11. y = IF f.id = id THEN Seen(v, f) ELSE v
  <2>1. PICK z : z = Knowing(y, q, id, 1)
    OBVIOUS
  <2> QED BY <1>1, <1>3, <1>4, <1>9, <1>10, <2>1, IsRead
<1>12. view'[k] = y
  <2>1. PICK l : l = <<e, f.id>>
    OBVIOUS
  <2>2. view' = [view EXCEPT ![l] = Seen(view[l], f)]
    BY <1>1, <2>1 DEF Received
  <2>3. CASE f.id = id
    <3>1. l = k
      BY <1>4, <2>1, <2>3
    <3>2. view'[k] = Seen(v, f)
      BY <1>2, <2>2, <3>1 DEF TrafficTypes
    <3> QED BY <1>11, <2>3, <3>2
  <2>4. CASE f.id # id
    <3>1. l # k
      BY <1>4, <2>1, <2>4
    <3>2. view'[k] = v
      BY <1>2, <2>2, <3>1 DEF TrafficTypes
    <3> QED BY <1>11, <2>4, <3>2
  <2> QED BY <2>3, <2>4
<1>13. x = Knowing(y, q, id, 1)
  BY <1>1, <1>2, <1>3, <1>7, <1>8, <1>12 DEF Known
<1>14. \A i \in 1 .. Len(q) : x[i] = w[i]
  BY <1>3, <1>4, <1>9, <1>10, <1>13, IsRead
<1>15. PICK n : n = Len(q)
  OBVIOUS
<1>16. n \in Nat /\ n # 0 /\ n = n + 0 /\ 1 =< n
  BY <1>4, <1>5, <1>15
<1>17. \A i \in 1 .. n : i + 0 = i /\ i \in 0 .. n
  BY <1>16
<1>18. Moves(q, q, w, x, 0, 1, 0)
  BY <1>14, <1>15, <1>16, <1>17 DEF Moves
<1>19. \E c \in {0, 1} : Moves(q, q, w, x, 0, 1, c)
  BY <1>18
<1> QED BY <1>1, <1>3, <1>4, <1>7, <1>8, <1>19 DEF Advances

(* A step that leaves a connection alone.                                  *)
LEMMA IdleAdvances ==
  ASSUME TrafficTypes, NEW k \in Keys, NEW e, e = k[1],
         queue'[e] = queue[e], written'[e] = written[e], view'[k] = view[k]
  PROVE  Advances(k)
<1>1. PICK q, w : q = queue[e] /\ w = Known(k)
  OBVIOUS
<1>2. PICK read : read = Read(e)
  OBVIOUS
<1>3. Read(e)' = read
  BY <1>2 DEF Read
<1>4. Known(k)' = w
  BY <1>1, <1>2, <1>3 DEF Known
<1>5. PICK n : n = Len(q)
  OBVIOUS
<1>6. n \in Nat /\ read \in {0, 1} /\ read =< n /\ n = n + 0
  BY <1>1, <1>2, <1>5, KnownOf
<1>7. (\A i \in 1 .. n : i + 0 = i) /\ \A i \in read .. n : i + 0 = i
  BY <1>6
<1>8. Moves(q, q, w, w, read, read, 0)
  BY <1>5, <1>6, <1>7 DEF Moves
<1>9. \E c \in {0, 1} : Moves(q, q, w, w, read, read, c)
  BY <1>8
<1> QED BY <1>1, <1>2, <1>3, <1>4, <1>9 DEF Advances

(* No step of a writer changes what a client will know, but the one that   *)
(* ends its connection.                                                    *)
LEMMA WriterAdvances ==
  ASSUME TrafficTypes, NEW e, Dropped(e) \/ Received(e) \/ Ended(e),
         NEW k \in Keys, Ended(e) => k[1] # e
  PROVE  Advances(k)
<1>1. CASE k[1] = e
  BY <1>1, DropAdvances, ReceiptAdvances
<1>2. CASE k[1] # e
  <2>1. PICK c : c = k[1]
    OBVIOUS
  <2>2. c \in Endpoints /\ c # e /\ e \in Endpoints /\ k = <<c, k[2]>>
    BY <1>2, <2>1 DEF Keys, Dropped, Ended, Received
  <2>3. queue \in QueueType /\ written \in [Endpoints -> BOOLEAN] /\ view \in [Keys -> ViewType]
    BY DEF TrafficTypes
  <2>4. queue'[c] = queue[c]
    BY <2>2, <2>3 DEF Dropped, Ended, Received, QueueType
  <2>5. written'[c] = written[c]
    BY <2>2, <2>3 DEF Dropped, Ended, Received
  <2>6. view'[k] = view[k]
    BY <2>2, <2>3 DEF Dropped, Ended, Received
  <2> QED BY <2>1, <2>4, <2>5, <2>6, IdleAdvances
<1> QED BY <1>1, <1>2

(* The last of what it will know.                                          *)
LEMMA AdvanceKeeps ==
  ASSUME NEW k, Advances(k)
  PROVE  WillKnow(k)' = WillKnow(k)
<1>1. PICK q, r, w, x : q = queue[k[1]] /\ r = queue'[k[1]] /\ w = Known(k) /\ x = Known(k)'
  OBVIOUS
<1>2. PICK c \in {0, 1} : Moves(q, r, w, x, Read(k[1]), Read(k[1])', c)
  BY <1>1 DEF Advances
<1>3. x[Len(r)] = w[Len(q)]
  <2>1. Len(r) \in Read(k[1])' .. Len(r)
    <3>1. Read(k[1])' \in {0, 1}
      BY DEF Read
    <3> QED BY <1>2, <3>1 DEF Moves
  <2> QED BY <1>2, <2>1 DEF Moves
<1>4. WillKnow(k) = w[Len(q)]
  BY <1>1 DEF WillKnow, Will, Known, Read
<1>5. WillKnow(k)' = x[Len(r)]
  BY <1>1 DEF WillKnow, Will, Known, Read
<1> QED BY <1>3, <1>4, <1>5

-----------------------------------------------------------------------------
(* Clients are told of channels.                                           *)

(* The unread frames of an id follow each other as they should.            *)
Follows(w, q, id, read) ==
  \A i \in read + 1 .. Len(q) : q[i].id = id =>
    /\ q[i].kind \in Opens => w[i - 1].of = 0
    /\ q[i].kind \in {"data", "ack", "closed"} => w[i - 1].of = q[i].of

(* They do for the client of a key, and they end in what the fabric has.   *)
Informed(k) ==
  LET e == k[1] IN
  /\ Follows(Known(k), queue[e], k[2], Read(e))
  /\ e \in alive \cap open => Known(k)[Len(queue[e])].of = Truth(k)

(* A frame that a request adds is one of its deliveries, to a connection   *)
(* that was registered and whose outbox was open.                          *)
LEMMA NewFrame ==
  ASSUME NEW ds, Effect(ds), NEW k \in Keys, NEW q, q = queue[k[1]], NEW r, r = queue'[k[1]],
         NEW i \in Len(q) + 1 .. Len(r), r[i].id = k[2], r[i].kind # "names"
  PROVE  k[1] \in alive \cap open /\ \E d : Fits(d) /\ Key(d) = k /\ d.frame = r[i]
<1>1. PICK e : e = k[1]
  OBVIOUS
<1>2. e \in Endpoints /\ k = <<e, r[i].id>>
  BY <1>1 DEF Keys
<1>3. Grown(ds, e, q, r)
  BY <1>1, <1>2 DEF Effect, Queued
<1>4. PICK j \in 1 .. Len(ds) : /\ ds[j].ep = e /\ ds[j].frame = r[i]
                                /\ e \in alive /\ (ds[j].reserved \/ e \in open)
  BY <1>3 DEF Grown
<1>5. PICK d : d = ds[j]
  OBVIOUS
<1>6. Fits(d)
  BY <1>4, <1>5 DEF Effect
<1>7. e \in open
  BY <1>4, <1>5, <1>6 DEF Fits
<1>8. Key(d) = k /\ d.frame = r[i]
  BY <1>2, <1>4, <1>5 DEF Key
<1> QED BY <1>1, <1>4, <1>6, <1>7, <1>8

(* One frame of the id.                                                    *)
LEMMA TellsOf ==
  ASSUME NEW q \in Seq(FrameType), NEW v \in ViewType, NEW id, NEW read \in Nat,
         NEW w, w = Knowing(v, q, id, read),
         NEW i \in 1 .. Len(q), ~(i =< read), q[i].id = id
  PROVE  w[i].of = IF q[i].kind \in Opens THEN q[i].of
                   ELSE IF q[i].kind = "closed" THEN 0 ELSE w[i - 1].of
<1>1. Len(q) \in Nat /\ q[i] \in FrameType
  OBVIOUS
<1>2. i \in 0 .. Len(q) /\ i - 1 \in 0 .. Len(q)
  BY <1>1
<1>3. \A j \in 0 .. Len(q) : w[j] \in ViewType /\ w[j] = NextKnown(w, v, q, id, read, j)
  BY KnowingTypes
<1>4. w[i - 1] \in ViewType /\ w[i] = Seen(w[i - 1], q[i])
  BY <1>2, <1>3 DEF NextKnown
<1> QED BY <1>1, <1>4, SeenOf

(* A request keeps the client of every key informed.                       *)
LEMMA RequestInforms ==
  ASSUME FabricTypes, TrafficTypes', NEW ds, Effect(ds), NEW k \in Keys, Informed(k)
  PROVE  Informed(k)'
<1>1. PICK e : e = k[1]
  OBVIOUS
<1>2. PICK id : id = k[2]
  OBVIOUS
<1>3. TrafficTypes
  BY DEF FabricTypes
<1>4. PICK q : q = queue[e]
  OBVIOUS
<1>5. PICK r : r = queue'[e]
  OBVIOUS
<1>6. PICK read : read = Read(e)
  OBVIOUS
<1>7. PICK v : v = view[k]
  OBVIOUS
<1>8. /\ q \in Seq(FrameType) /\ v \in ViewType /\ read \in Nat /\ read =< Len(q)
      /\ e \in Endpoints /\ k = <<e, id>>
  BY <1>1, <1>2, <1>3, <1>4, <1>6, <1>7, KnownOf
<1>9. r \in Seq(FrameType)
  BY <1>5, <1>8 DEF TrafficTypes, QueueType
<1>10. Read(e)' = read /\ view'[k] = v /\ UNCHANGED <<written, view>>
  BY <1>6, <1>7 DEF Read, Effect
<1>11. PICK n : n = Len(q)
  OBVIOUS
<1>12. PICK m : m = Len(r)
  OBVIOUS
<1>13. n \in Nat /\ m \in Nat /\ read \in Nat /\ read =< n
  BY <1>8, <1>9, <1>11, <1>12
<1>14. Grown(ds, e, q, r)
  BY <1>4, <1>5, <1>8 DEF Effect, Queued
<1>15. n =< m /\ (\A i \in 1 .. n : r[i] = q[i]) /\ Begins(q, r)
  BY <1>11, <1>12, <1>14 DEF Grown, Begins
<1>16. PICK w, x : w = Known(k) /\ x = Known(k)'
  OBVIOUS
<1>17. x = Knowing(v, r, id, read)
  BY <1>1, <1>2, <1>5, <1>10, <1>16 DEF Known
<1>18. \A i \in 0 .. n : x[i] = w[i]
  BY <1>1, <1>3, <1>4, <1>5, <1>10, <1>11, <1>15, <1>16, RequestKnows
<1>19. /\ Follows(w, q, id, read)
       /\ e \in alive \cap open => x[n].of = Truth(k)
  BY <1>1, <1>2, <1>4, <1>6, <1>11, <1>13, <1>16, <1>18 DEF Informed
<1>20. ASSUME NEW i \in n + 1 .. m, r[i].id = id, r[i].kind # "names"
       PROVE  /\ e \in alive \cap open
              /\ \E d : Fits(d) /\ Key(d) = k /\ d.frame = r[i]
  BY <1>1, <1>2, <1>4, <1>5, <1>11, <1>12, <1>20, NewFrame
<1>21. ASSUME NEW i \in n + 1 .. m, NEW j \in n + 1 .. m, r[i].id = id, r[j].id = id,
              r[i].kind # "names", r[j].kind # "names"
       PROVE  i = j
  BY <1>11, <1>12, <1>14, <1>21 DEF Grown
<1>22. "names" \notin Opens \cup {"closed"}
  BY DEF Opens
<1>23. ASSUME NEW i \in n + 1 .. m, r[i].id = id, r[i].kind # "names"
       PROVE  x[i - 1].of = Truth(k) /\ x[m].of = x[i].of
  <2>1. x[n].of = Truth(k)
    BY <1>19, <1>20, <1>23
  <2>2. i - 1 \in Nat /\ i \in Nat /\ read =< n /\ n =< i - 1 /\ i - 1 =< m /\ i =< m /\ read =< i
    BY <1>13, <1>23
  <2>3. \A j \in n + 1 .. i - 1 : r[j].id = id => r[j].kind \notin Opens \cup {"closed"}
    BY <1>13, <1>21, <1>22, <1>23, <2>2
  <2>4. x[i - 1].of = x[n].of
    <3>1. PICK j : j = i - 1
      OBVIOUS
    <3>2. j \in Nat /\ n =< j /\ j =< Len(r)
      BY <1>12, <2>2, <3>1
    <3>3. Quiet(r, id, n, j)
      BY <2>3, <3>1 DEF Quiet
    <3>4. x[j].of = x[n].of
      BY <1>8, <1>9, <1>13, <1>17, <3>2, <3>3, OfStays
    <3> QED BY <3>1, <3>4
  <2>5. \A j \in i + 1 .. m : r[j].id = id => r[j].kind \notin Opens \cup {"closed"}
    BY <1>13, <1>21, <1>22, <1>23, <2>2
  <2>6. x[m].of = x[i].of
    <3>1. PICK j : j = m
      OBVIOUS
    <3>2. i \in Nat /\ j \in Nat /\ read =< i /\ i =< j /\ j =< Len(r)
      BY <1>12, <1>13, <2>2, <3>1
    <3>3. Quiet(r, id, i, j)
      BY <2>5, <3>1 DEF Quiet
    <3>4. read \in Nat /\ r \in Seq(FrameType) /\ v \in ViewType
      BY <1>8, <1>9, <1>13
    <3>5. x[j].of = x[i].of
      BY <1>17, <3>2, <3>3, <3>4, OfStays
    <3> QED BY <3>1, <3>5
  <2> QED BY <2>1, <2>4, <2>6
<1>24. ASSUME NEW i \in read + 1 .. m, r[i].id = id
       PROVE  /\ r[i].kind \in Opens => x[i - 1].of = 0
              /\ r[i].kind \in {"data", "ack", "closed"} => x[i - 1].of = r[i].of
  <2>1. CASE i \in read + 1 .. n
    <3>1. r[i] = q[i] /\ x[i - 1] = w[i - 1]
      BY <1>13, <1>15, <1>18, <2>1
    <3> QED BY <1>11, <1>19, <1>24, <2>1, <3>1 DEF Follows
  <2>2. CASE i \in n + 1 .. m /\ r[i].kind # "names"
    <3>1. PICK d : Fits(d) /\ Key(d) = k /\ d.frame = r[i]
      BY <1>20, <1>24, <2>2
    <3>2. x[i - 1].of = Truth(k)
      BY <1>23, <1>24, <2>2
    <3>3. /\ r[i].kind \in Opens => Truth(k) = 0
          /\ r[i].kind \in {"data", "ack", "closed"} => Truth(k) = r[i].of
      BY <3>1 DEF Fits, Opens
    <3> QED BY <3>2, <3>3
  <2>3. CASE r[i].kind = "names"
    BY <2>3 DEF Opens
  <2> QED BY <1>13, <1>24, <2>1, <2>2, <2>3
<1>25. Follows(x, r, id, read)
  BY <1>12, <1>24 DEF Follows
<1>26. ASSUME e \in alive' \cap open' PROVE x[m].of = Truth(k)'
  <2>1. e \in alive \cap open
    BY <1>26 DEF Effect, Queued
  <2>2. ASSUME NEW i \in n + 1 .. m, r[i].id = id, r[i].kind # "names"
        PROVE  x[m].of = Truth(k)'
    <3>1. PICK d : Fits(d) /\ Key(d) = k /\ d.frame = r[i]
      BY <1>20, <2>2
    <3>2. x[i - 1].of = Truth(k) /\ x[m].of = x[i].of
      BY <1>23, <2>2
    <3>3. i \in 0 .. m /\ ~(i =< read)
      BY <1>13, <2>2
    <3>4. x[i].of = IF r[i].kind \in Opens THEN r[i].of
                 ELSE IF r[i].kind = "closed" THEN 0 ELSE x[i - 1].of
      BY <1>8, <1>9, <1>12, <1>13, <1>17, <2>2, <3>3, TellsOf
    <3>5. r[i].kind \in Kinds
      <4>1. r[i] \in FrameType
        BY <1>9, <1>12, <1>13, <2>2
      <4> QED BY <4>1 DEF FrameType
    <3>6. /\ r[i].kind \in Opens => Truth(k)' = r[i].of
          /\ r[i].kind = "closed" => Truth(k)' = 0
          /\ r[i].kind \in {"data", "ack"} => Truth(k)' = r[i].of /\ Truth(k) = r[i].of
          /\ r[i].kind = "failed" => Truth(k)' = Truth(k)
      BY <3>1 DEF Fits, Opens
    <3>7. CASE r[i].kind \in Opens
      BY <3>2, <3>4, <3>6, <3>7
    <3>8. CASE r[i].kind = "closed"
      <4>1. r[i].kind \notin Opens
        BY <3>8 DEF Opens
      <4> QED BY <3>2, <3>4, <3>6, <3>8, <4>1
    <3>9. CASE r[i].kind \in {"data", "ack", "failed"}
      <4>1. r[i].kind \notin Opens /\ r[i].kind # "closed"
        BY <3>9 DEF Opens
      <4> QED BY <3>2, <3>4, <3>6, <3>9, <4>1
    <3> QED BY <2>2, <3>5, <3>7, <3>8, <3>9 DEF Kinds, Opens
  <2>3. CASE ~ \E i \in n + 1 .. m : r[i].id = id /\ r[i].kind # "names"
    <3>1. x[m].of = x[n].of
      <4>1. PICK j : j = m
        OBVIOUS
      <4>2. j \in Nat /\ n =< j /\ j =< Len(r) /\ n \in Nat /\ read \in Nat /\ read =< n
        BY <1>12, <1>13, <1>15, <4>1
      <4>3. Quiet(r, id, n, j)
        BY <1>22, <2>3, <4>1 DEF Quiet
      <4>4. r \in Seq(FrameType) /\ v \in ViewType
        BY <1>8, <1>9
      <4>5. x[j].of = x[n].of
        BY <1>17, <4>2, <4>3, <4>4, OfStays
      <4> QED BY <4>1, <4>5
    <3>2. Truth(k)' = Truth(k)
      <4>1. ASSUME NEW j \in 1 .. Len(ds), Key(ds[j]) = k PROVE Truth(k)' = Truth(k)
        <5>1. PICK d : d = ds[j]
          OBVIOUS
        <5>2. d.ep = e /\ d.frame.id = id /\ Fits(d) /\ Key(d) = k
          BY <1>8, <4>1, <5>1 DEF Key, Effect
        <5>3. PICK i \in n + 1 .. m : r[i] = d.frame
          BY <1>11, <1>12, <1>14, <1>26, <4>1, <5>1, <5>2 DEF Grown
        <5>4. d.frame.kind = "names"
          BY <2>3, <5>2, <5>3
        <5> QED BY <5>2, <5>4 DEF Fits
      <4>2. CASE \A j \in 1 .. Len(ds) : Key(ds[j]) # k
        BY <1>1, <1>26, <4>2 DEF Effect
      <4> QED BY <4>1, <4>2
    <3> QED BY <1>19, <2>1, <3>1, <3>2
  <2> QED BY <2>2, <2>3
<1> QED BY <1>1, <1>2, <1>5, <1>10, <1>12, <1>16, <1>25, <1>26 DEF Informed

(* So does a writer: the path of an id moves up or stays.                  *)
LEMMA AdvanceInforms ==
  ASSUME NEW k, Advances(k), UNCHANGED <<alive, listeners, handles>>, open' \subseteq open,
         Informed(k)
  PROVE  Informed(k)'
<1>1. PICK e, id : e = k[1] /\ id = k[2]
  OBVIOUS
<1>2. PICK q, r, w, x : q = queue[e] /\ r = queue'[e] /\ w = Known(k) /\ x = Known(k)'
  OBVIOUS
<1>3. PICK read, now : read = Read(e) /\ now = Read(e)'
  OBVIOUS
<1>4. PICK c \in {0, 1} : Moves(q, r, w, x, read, now, c)
  BY <1>1, <1>2, <1>3 DEF Advances
<1>5. now \in {0, 1} /\ c \in Nat
  BY <1>3, <1>4 DEF Read
<1>6. PICK m : m = Len(r)
  OBVIOUS
<1>7. PICK n : n = Len(q)
  OBVIOUS
<1>8. /\ m \in Nat /\ n = m + c /\ now =< m
      /\ \A i \in 1 .. m : i + c \in 1 .. n /\ r[i] = q[i + c]
      /\ \A i \in now .. m : i + c \in read .. n /\ x[i] = w[i + c]
  BY <1>4, <1>6, <1>7 DEF Moves
<1>9. Truth(k)' = Truth(k)
  BY DEF Truth
<1>10. e \in alive' \cap open' => x[m].of = Truth(k)'
  <2>1. m \in now .. m /\ m + c = n
    BY <1>5, <1>8
  <2>2. x[m] = w[n]
    BY <1>8, <2>1
  <2> QED BY <1>1, <1>2, <1>7, <1>9, <2>2 DEF Informed
<1>11. ASSUME NEW i \in now + 1 .. m, r[i].id = id
       PROVE  /\ r[i].kind \in Opens => x[i - 1].of = 0
              /\ r[i].kind \in {"data", "ack", "closed"} => x[i - 1].of = r[i].of
  <2>1. PICK j : j = i + c
    OBVIOUS
  <2>2. i \in 1 .. m /\ i - 1 \in now .. m /\ (i - 1) + c = j - 1
    BY <1>5, <1>8, <2>1
  <2>3. j \in 1 .. n /\ r[i] = q[j] /\ j - 1 \in read .. n /\ x[i - 1] = w[j - 1]
    BY <1>8, <2>1, <2>2
  <2>4. read \in {0, 1}
    BY <1>3 DEF Read
  <2>5. j \in read + 1 .. n
    BY <1>5, <1>8, <2>3, <2>4
  <2> QED BY <1>1, <1>2, <1>3, <1>7, <1>11, <2>3, <2>5 DEF Informed, Follows
<1>12. Follows(x, r, id, now)
  BY <1>6, <1>11 DEF Follows
<1> QED BY <1>1, <1>2, <1>3, <1>6, <1>10, <1>12 DEF Informed

(* A client whose connection ends is told nothing more.                    *)
LEMMA EndInforms ==
  ASSUME TrafficTypes, NEW e, Ended(e), NEW k \in Keys, k[1] = e
  PROVE  Informed(k)'
<1>1. e \in Endpoints
  BY DEF Ended
<1>2. queue' = [queue EXCEPT ![e] = <<>>] /\ open' = open \ {e}
  BY DEF Ended
<1>3. queue'[e] = <<>> /\ e \notin open'
  BY <1>1, <1>2 DEF TrafficTypes, QueueType
<1>4. PICK now : now = Read(e)'
  OBVIOUS
<1>5. now \in {0, 1}
  BY <1>4 DEF Read
<1>6. \A w : Follows(w, <<>>, k[2], now)
  BY <1>5 DEF Follows
<1> QED BY <1>3, <1>4, <1>6 DEF Informed

ToldInv == ChannelInv /\ \A k \in Keys : Informed(k)

(* Every step keeps clients informed.                                      *)
LEMMA ToldStep ==
  ASSUME ToldInv, [Next]_vars
  PROVE  ToldInv'
<1>1. ChannelInv'
  BY ChannelStep DEF ToldInv
<1>2. FabricTypes /\ TrafficTypes /\ TrafficTypes'
  BY <1>1 DEF ToldInv, ChannelInv, FabricTypes
<1>3. ASSUME NEW k \in Keys PROVE Informed(k)'
  <2>1. Informed(k) /\ k[1] \in Endpoints
    BY DEF ToldInv, Keys
  <2>2. CASE UNCHANGED <<alive, open, listeners, handles, watches, queue, written, view,
                         generation, nextId, pairs, dirty>>
    <3>1. PICK c : c = k[1]
      OBVIOUS
    <3>2. /\ queue'[c] = queue[c] /\ written'[c] = written[c] /\ view'[k] = view[k]
          /\ UNCHANGED <<alive, listeners, handles>> /\ open' \subseteq open
      BY <2>2
    <3>3. Advances(k)
      BY <1>2, <3>1, <3>2, IdleAdvances
    <3> QED BY <2>1, <3>2, <3>3, AdvanceInforms
  <2>3. CASE Asked
    <3>1. PICK ds : Effect(ds)
      BY <2>3, AskedEffect DEF ToldInv
    <3> QED BY <1>2, <2>1, <3>1, RequestInforms
  <2>4. ASSUME NEW e, Dropped(e) \/ Ended(e) \/ Received(e)
        PROVE  Informed(k)'
    <3>1. CASE Ended(e) /\ k[1] = e
      BY <1>2, <3>1, EndInforms
    <3>2. CASE ~(Ended(e) /\ k[1] = e)
      <4>1. Advances(k)
        BY <1>2, <2>4, <3>2, WriterAdvances
      <4>2. UNCHANGED <<alive, listeners, handles>> /\ open' \subseteq open
        BY <2>4 DEF Dropped, Ended, Received
      <4> QED BY <2>1, <4>1, <4>2, AdvanceInforms
    <3> QED BY <3>1, <3>2
  <2> QED BY <2>2, <2>3, <2>4, NextIs
<1> QED BY <1>1, <1>3 DEF ToldInv

(* Nobody has been told anything where there are no channels.              *)
LEMMA ToldInit == Init => ToldInv
<1> SUFFICES ASSUME Init PROVE ToldInv
  OBVIOUS
<1>1. ChannelInv
  BY ChannelInit
<1>2. ASSUME NEW k \in Keys PROVE Informed(k)
  <2>1. PICK e, id, v, w : e = k[1] /\ id = k[2] /\ v = view[k] /\ w = Known(k)
    OBVIOUS
  <2>2. e \in Endpoints /\ queue[e] = <<>> /\ Read(e) = 0 /\ v \in ViewType /\ v.of = 0
    BY <2>1 DEF Keys, Init, Read, Nothing, ViewType
  <2>3. PICK q : q = queue[e]
    OBVIOUS
  <2>4. q \in Seq(FrameType) /\ Len(q) = 0
    BY <2>2, <2>3
  <2>5. w = Knowing(v, q, id, 0)
    BY <2>1, <2>2, <2>3 DEF Known
  <2>6. w[0] = NextKnown(w, v, q, id, 0, 0)
    <3>0. q \in Seq(FrameType) /\ v \in ViewType /\ 0 \in Nat
      BY <2>2, <2>4
    <3>1. \A i \in 0 .. Len(q) : w[i] = NextKnown(w, v, q, id, 0, i)
      BY <2>5, <3>0, KnowingIs
    <3>2. 0 \in 0 .. Len(q)
      BY <2>4
    <3> QED BY <3>1, <3>2
  <2>7. w[0].of = 0
    BY <2>2, <2>6 DEF NextKnown
  <2>8. Follows(w, q, id, 0)
    BY <2>4 DEF Follows
  <2>9. Truth(k) = 0
    BY DEF Init, Truth
  <2> QED BY <2>1, <2>2, <2>3, <2>4, <2>7, <2>8, <2>9 DEF Informed
<1> QED BY <1>1, <1>2 DEF ToldInv

(* The invariant says what the two properties say.                         *)
LEMMA ToldMeans ==
  ASSUME ToldInv
  PROVE  FramesFollowTheirOpen /\ ClientsLearnTheTruth
<1>1. ASSUME NEW e \in Endpoints
      PROVE  queue[e] \in Seq(FrameType) /\ Len(queue[e]) \in Nat /\ (written[e] => Len(queue[e]) # 0)
             /\ written[e] \in BOOLEAN
  <2>1. queue[e] \in Seq(FrameType) /\ (written[e] => queue[e] # <<>>) /\ written[e] \in BOOLEAN
    BY DEF ToldInv, ChannelInv, FabricTypes, TrafficTypes, QueueType
  <2> QED BY <2>1
<1>2. ASSUME NEW e \in Endpoints, NEW i \in (IF written[e] THEN 2 ELSE 1) .. Len(queue[e]),
             NEW f, f = queue[e][i], NEW before, before = Will(<<e, f.id>>, i - 1).of
      PROVE  /\ f.kind \in {"opened", "accepted"} => before = 0
             /\ f.kind \in {"data", "ack", "closed"} => before = f.of
  <2>1. PICK k : k = <<e, f.id>>
    OBVIOUS
  <2>2. PICK n : n = Len(queue[e])
    OBVIOUS
  <2>3. n \in Nat /\ i \in 1 .. n /\ i \in Read(e) + 1 .. n
    BY <1>1, <1>2, <2>2 DEF Read
  <2>4. f \in FrameType
    BY <1>1, <1>2, <2>2, <2>3
  <2>5. k \in Keys /\ k[1] = e /\ k[2] = f.id
    BY <2>1, <2>4 DEF Keys, FrameType
  <2>6. Follows(Known(k), queue[e], f.id, Read(e))
    BY <2>5 DEF ToldInv, Informed
  <2>7. before = Known(k)[i - 1].of
    BY <1>2, <2>1, WillIs
  <2> QED BY <1>2, <2>2, <2>3, <2>6, <2>7 DEF Follows, Opens
<1>3. FramesFollowTheirOpen
  BY <1>2 DEF FramesFollowTheirOpen
<1>4. ASSUME NEW k \in Keys, k[1] \in alive \cap open
      PROVE  WillKnow(k).of = Truth(k)
  <2>1. Known(k)[Len(queue[k[1]])].of = Truth(k)
    BY <1>4 DEF ToldInv, Informed
  <2> QED BY <2>1, WillIs DEF WillKnow
<1>5. ClientsLearnTheTruth
  BY <1>4 DEF ClientsLearnTheTruth, Truth
<1> QED BY <1>3, <1>5

(* The inductive invariant holds throughout.                               *)
LEMMA ToldInvariant == Spec => []ToldInv
<1>1. ToldInv /\ [Next]_vars => ToldInv'
  BY ToldStep
<1>. QED BY ToldInit, <1>1, PTL DEF Spec

(* Frames reach a client in an order that makes sense of every id, across  *)
(* all its reuses: data, acknowledgements and the end of a channel follow  *)
(* its beginning, and a channel begins where the last one has ended.       *)
THEOREM FramesFollow == Spec => []FramesFollowTheirOpen
<1>1. ToldInv => FramesFollowTheirOpen
  BY ToldMeans
<1>. QED BY ToldInvariant, <1>1, PTL

(* No end and no beginning of a channel is lost or told twice: a client    *)
(* that reads its queue to the end knows what the fabric has.              *)
THEOREM TruthIsTold == Spec => []ClientsLearnTheTruth
<1>1. ToldInv => ClientsLearnTheTruth
  BY ToldMeans
<1>. QED BY ToldInvariant, <1>1, PTL

-----------------------------------------------------------------------------
(* What watches are told.                                                  *)

(* A frame tells the names, or leaves them.                                *)
LEMMA SeenNames ==
  ASSUME NEW v \in ViewType, NEW f \in FrameType
  PROVE  Seen(v, f).names = IF f.kind = "names" THEN f.names ELSE v.names
<1>1. CASE f.kind \in Opens
  <2>1. Seen(v, f) = [v EXCEPT !.of = f.of, !.got = 0]
    BY <1>1 DEF Seen, Opens
  <2> QED BY <1>1, <2>1 DEF ViewType, Opens
<1>2. CASE f.kind = "data"
  <2>1. Seen(v, f) = [v EXCEPT !.got = v.got + f.n]
    BY <1>2 DEF Seen
  <2> QED BY <1>2, <2>1 DEF ViewType
<1>3. CASE f.kind = "closed"
  <2>1. Seen(v, f) = [v EXCEPT !.of = 0, !.got = 0]
    BY <1>3 DEF Seen
  <2> QED BY <1>3, <2>1 DEF ViewType
<1>4. CASE f.kind = "names"
  <2>1. Seen(v, f) = [v EXCEPT !.names = f.names]
    BY <1>4 DEF Seen
  <2> QED BY <1>4, <2>1 DEF ViewType
<1>5. CASE f.kind \notin {"opened", "accepted", "data", "closed", "names"}
  <2>1. Seen(v, f) = v
    BY <1>5 DEF Seen
  <2> QED BY <1>5, <2>1
<1> QED BY <1>1, <1>2, <1>3, <1>4, <1>5 DEF Opens

(* The answers to the watch of an id behind the first m frames: none, or   *)
(* all of them say P.                                                      *)
Answers(q, id, m) == {i \in m + 1 .. Len(q) : q[i].id = id /\ q[i].kind = "names"}
AllSay(q, id, m, P) == \A i \in Answers(q, id, m) : q[i].names = P

(* Then P is what its client will know, if it was going to or was answered.*)
LEMMA NamesEnd ==
  ASSUME NEW q \in Seq(FrameType), NEW v \in ViewType, NEW id, NEW read \in Nat,
         NEW w, w = Knowing(v, q, id, read),
         NEW m \in Nat, read =< m, m =< Len(q), NEW P, AllSay(q, id, m, P),
         w[m].names = P \/ Answers(q, id, m) # {}
  PROVE  w[Len(q)].names = P
<1>1. PICK l \in Nat : Len(q) = m + l
  <2>1. Len(q) \in Nat
    OBVIOUS
  <2>2. Len(q) - m \in Nat /\ Len(q) = m + (Len(q) - m)
    BY <2>1
  <2> QED BY <2>2
<1>2. \A i \in 1 .. m + l : q[i] \in FrameType
  BY <1>1
<1>3. \A i \in 0 .. m + l : w[i] \in ViewType /\ w[i] = NextKnown(w, v, q, id, read, i)
  BY <1>1, KnowingTypes
<1> DEFINE Due(i) == w[m].names = P \/ \E j \in Answers(q, id, m) : j =< m + i
           S == {i \in 0 .. l : Due(i) => w[m + i].names = P}
<1>4. 0 \in S
  <2>1. \A j \in Answers(q, id, m) : ~(j =< m + 0)
    BY <1>1 DEF Answers
  <2> QED BY <1>1, <2>1
<1>5. ASSUME NEW i \in 1 .. l, i - 1 \in S PROVE i \in S
  <2>1. PICK j : j = m + i
    OBVIOUS
  <2>2. /\ j \in m + 1 .. m + l /\ j \in 1 .. m + l /\ j \in 0 .. m + l /\ j - 1 \in 0 .. m + l
        /\ ~(j =< read) /\ j - 1 = m + (i - 1)
    BY <1>1, <2>1
  <2>3. w[j - 1] \in ViewType /\ q[j] \in FrameType
    BY <1>2, <1>3, <2>2
  <2>4. w[j] = IF q[j].id = id THEN Seen(w[j - 1], q[j]) ELSE w[j - 1]
    BY <1>3, <2>2 DEF NextKnown
  <2>5. CASE j \in Answers(q, id, m)
    <3>1. q[j].id = id /\ q[j].kind = "names" /\ q[j].names = P
      BY <2>5 DEF Answers, AllSay
    <3>2. w[j].names = P
      BY <2>3, <2>4, <3>1, SeenNames
    <3> QED BY <2>1, <3>2
  <2>6. CASE j \notin Answers(q, id, m)
    <3>1. q[j].id = id => q[j].kind # "names"
      BY <1>1, <2>2, <2>6 DEF Answers
    <3>2. w[j].names = w[j - 1].names
      BY <2>3, <2>4, <3>1, SeenNames
    <3>3. ASSUME Due(i) PROVE Due(i - 1)
      <4>1. CASE w[m].names = P
        BY <4>1
      <4>2. ASSUME NEW a \in Answers(q, id, m), a =< m + i PROVE Due(i - 1)
        <5>1. a # j /\ a \in Nat
          BY <1>1, <2>6, <4>2 DEF Answers
        <5>2. a =< m + (i - 1)
          BY <2>1, <4>2, <5>1
        <5> QED BY <4>2, <5>2
      <4> QED BY <3>3, <4>1, <4>2
    <3>4. Due(i - 1) => w[m + (i - 1)].names = P
      BY <1>5
    <3> HIDE DEF Due
    <3> QED BY <2>1, <2>2, <3>2, <3>3, <3>4
  <2> QED BY <2>5, <2>6
<1>6. 0 .. l \subseteq S
  <2> HIDE DEF S
  <2> QED BY <1>4, <1>5, UpTo
<1>7. Due(l)
  BY <1>1 DEF Answers
<1>8. l \in S
  BY <1>6
<1> QED BY <1>1, <1>7, <1>8

(* Behind what was queued stand some of the deliveries all, and every one  *)
(* of them if the outbox is still open.                                    *)
Brought(all, e, q, r) ==
  /\ Begins(q, r)
  /\ \A i \in Len(q) + 1 .. Len(r) :
       \E p \in 1 .. Len(all) : all[p].ep = e /\ all[p].frame = r[i]
  /\ e \in open' => \A p \in 1 .. Len(all) : all[p].ep = e =>
       \E i \in Len(q) + 1 .. Len(r) : r[i] = all[p].frame

Brings(all) == \A e \in Endpoints : Brought(all, e, queue[e], queue'[e])

(* That is what sending does.                                              *)
LEMMA SendBrings ==
  ASSUME NEW all \in Seq(Delivery), NEW o \in Outbox, o.queue = queue, SendAll(all, o)
  PROVE  Brings(all) /\ open' \subseteq o.open
<1>1. PICK n : n = Len(all)
  OBVIOUS
<1>2. PICK u : Took(o, u, all, n) /\ queue' = u.queue /\ open' = u.open
  BY <1>1, SendAllTook
<1>3. n \in Nat
  BY <1>1
<1>4. ASSUME NEW e \in Endpoints PROVE Brought(all, e, queue[e], queue'[e])
  <2>1. PICK q, r : q = queue[e] /\ r = queue'[e]
    OBVIOUS
  <2>2. PICK pos : Taken(q, r, all, n, e, pos) /\ (e \in open' => Whole(all, n, e, pos))
    BY <1>2, <2>1 DEF Took
  <2>3. PICK lq, lp : lq = Len(q) /\ lp = Len(pos)
    OBVIOUS
  <2>4. lq \in Nat
    <3>1. q \in Seq(FrameType)
      BY <2>1 DEF Outbox, QueueType
    <3> QED BY <2>3, <3>1
  <2>5. lp \in Nat /\ \A j \in 1 .. lp : pos[j] \in 1 .. n
    <3>1. PICK R : R = 1 .. n
      OBVIOUS
    <3>2. pos \in Seq(R)
      BY <2>2, <3>1 DEF Taken
    <3>3. Len(pos) \in Nat /\ \A j \in 1 .. Len(pos) : pos[j] \in R
      BY <3>2
    <3> QED BY <2>3, <3>1, <3>3
  <2>6. /\ Len(r) = lq + lp /\ \A i \in 1 .. lq : r[i] = q[i]
        /\ \A j \in 1 .. lp : all[pos[j]].ep = e /\ r[lq + j] = all[pos[j]].frame
    BY <2>2, <2>3 DEF Taken
  <2>7. Begins(q, r)
    BY <2>3, <2>4, <2>5, <2>6 DEF Begins
  <2>8. ASSUME NEW i \in lq + 1 .. lq + lp
        PROVE  \E p \in 1 .. n : all[p].ep = e /\ all[p].frame = r[i]
    <3>1. PICK j : j = i - lq
      OBVIOUS
    <3>2. j \in 1 .. lp /\ i = lq + j
      BY <2>4, <2>5, <3>1
    <3> QED BY <2>5, <2>6, <3>2
  <2>9. ASSUME e \in open', NEW p \in 1 .. n, all[p].ep = e
        PROVE  \E i \in lq + 1 .. lq + lp : r[i] = all[p].frame
    <3>1. PICK j \in 1 .. lp : pos[j] = p
      BY <2>2, <2>3, <2>9 DEF Whole
    <3>2. lq + j \in lq + 1 .. lq + lp /\ r[lq + j] = all[p].frame
      BY <2>4, <2>5, <2>6, <3>1
    <3> QED BY <3>2
  <2>10. Brought(all, e, q, r)
    BY <1>1, <2>3, <2>6, <2>7, <2>8, <2>9 DEF Brought
  <2> QED BY <2>1, <2>10
<1> QED BY <1>2, <1>4 DEF Brings, Took

(* The deliveries all carry what handles send: the other side of a new     *)
(* handle is told of it, what a handle sent meanwhile is one message to    *)
(* its peer, and no other message reaches that.                            *)
Carried(all, k) ==
  LET r == handles'[k].peer IN
  IF k \notin DOMAIN handles
  THEN \E p \in 1 .. Len(all) : Key(all[p]) = r /\ all[p].frame.kind \in Opens
  ELSE \/ /\ handles'[k].sent = handles[k].sent
          /\ \A p \in 1 .. Len(all) : Key(all[p]) = r => all[p].frame.kind # "data"
       \/ \E p \in 1 .. Len(all) : /\ Key(all[p]) = r /\ all[p].frame.kind = "data"
                                   /\ handles'[k].sent = handles[k].sent + all[p].frame.n

(* And what says that a channel is closed drains its id.                   *)
ClosedDrains(f) == f.kind = "closed" => f.drain

Flows(all) == /\ \A k \in DOMAIN handles' : Carried(all, k)
              /\ \A p \in 1 .. Len(all) : ClosedDrains(all[p].frame)

(* The answers of watches carry nothing.                                   *)
LEMMA FlowsOn ==
  ASSUME NEW ds \in Seq(Delivery), NEW ns \in Seq(Delivery), AllNames(ns), Flows(ds),
         NEW all, all = ds \o ns
  PROVE  Flows(all)
<1>1. PICK m, n : m = Len(ds) /\ n = Len(ns)
  OBVIOUS
<1>2. /\ m \in Nat /\ n \in Nat /\ Len(all) = m + n
      /\ \A i \in 1 .. m : all[i] = ds[i] /\ i \in 1 .. m + n
      /\ \A i \in m + 1 .. m + n : all[i] = ns[i - m] /\ i - m \in 1 .. n
  BY <1>1
<1>3. ASSUME NEW i \in 1 .. m + n
      PROVE  i \in 1 .. m \/ (i \notin 1 .. m /\ all[i].frame.kind = "names")
  <2>1. CASE i \in m + 1 .. m + n
    <3>1. all[i] = ns[i - m] /\ i - m \in 1 .. n
      BY <1>2, <2>1
    <3>2. ns[i - m].frame.kind = "names"
      BY <1>1, <3>1 DEF AllNames
    <3>3. i \notin 1 .. m
      BY <1>2, <2>1
    <3> QED BY <3>1, <3>2, <3>3
  <2> QED BY <1>2, <2>1
<1>4. ASSUME NEW k \in DOMAIN handles' PROVE Carried(all, k)
  <2>1. PICK r : r = handles'[k].peer
    OBVIOUS
  <2>2. Carried(ds, k)
    BY DEF Flows
  <2>3. CASE k \notin DOMAIN handles
    <3>1. PICK p \in 1 .. m : Key(ds[p]) = r /\ ds[p].frame.kind \in Opens
      BY <1>1, <2>1, <2>2, <2>3 DEF Carried
    <3>2. p \in 1 .. Len(all) /\ all[p] = ds[p]
      BY <1>2
    <3> QED BY <2>1, <2>3, <3>1, <3>2 DEF Carried
  <2>4. CASE k \in DOMAIN handles
    <3>1. PICK s, t : s = handles'[k].sent /\ t = handles[k].sent
      OBVIOUS
    <3>2. CASE s = t /\ \A p \in 1 .. m : Key(ds[p]) = r => ds[p].frame.kind # "data"
      <4>1. ASSUME NEW p \in 1 .. m + n, Key(all[p]) = r PROVE all[p].frame.kind # "data"
        <5>1. CASE p \in 1 .. m
          BY <1>2, <3>2, <4>1, <5>1
        <5>2. CASE p \notin 1 .. m
          BY <1>3, <5>2
        <5> QED BY <5>1, <5>2
      <4> QED BY <1>2, <2>1, <2>4, <3>1, <3>2, <4>1 DEF Carried
    <3>3. ASSUME NEW p \in 1 .. m, Key(ds[p]) = r, ds[p].frame.kind = "data",
                 s = t + ds[p].frame.n
          PROVE  Carried(all, k)
      <4>1. p \in 1 .. Len(all) /\ all[p] = ds[p]
        BY <1>2
      <4> QED BY <2>1, <2>4, <3>1, <3>3, <4>1 DEF Carried
    <3> QED BY <1>1, <2>1, <2>2, <2>4, <3>1, <3>2, <3>3 DEF Carried
  <2> QED BY <2>3, <2>4
<1>5. ASSUME NEW p \in 1 .. m + n PROVE ClosedDrains(all[p].frame)
  <2>1. CASE p \in 1 .. m
    BY <1>1, <1>2, <2>1 DEF Flows
  <2>2. CASE p \notin 1 .. m
    BY <1>3, <2>2 DEF ClosedDrains
  <2> QED BY <2>1, <2>2
<1> QED BY <1>2, <1>4, <1>5 DEF Flows

(* A request that sends no message and makes no handle.                    *)
Unsent == \A k \in DOMAIN handles' : k \in DOMAIN handles /\ handles'[k].sent = handles[k].sent

Mute(ds) == \A j \in 1 .. Len(ds) : ds[j].frame.kind # "data" /\ ClosedDrains(ds[j].frame)

(* It carries nothing.                                                     *)
LEMMA MuteFlows ==
  ASSUME Unsent, NEW ds, Mute(ds)
  PROVE  Flows(ds)
<1>1. ASSUME NEW k \in DOMAIN handles' PROVE Carried(ds, k)
  BY DEF Carried, Unsent, Mute
<1> QED BY <1>1 DEF Flows, Mute

(* The handles that are left are as they were.                             *)
Shrunk == \A k \in DOMAIN handles' : k \in DOMAIN handles /\ handles'[k] = handles[k]

(* Nothing was sent on such handles.                                       *)
LEMMA ShrunkUnsent == Shrunk => Unsent
BY DEF Shrunk, Unsent

(* Closing a listener or a pair leaves the other handles.                  *)
LEMMA TerminateShrinks ==
  ASSUME NEW k, handles' = Terminate(k).hs
  PROVE  Shrunk
<1>1. handles' = handles \/ handles' = Without(handles, {k, Partner(k)})
  BY DEF Terminate
<1> QED BY <1>1 DEF Shrunk, Without

(* A departing endpoint takes its handles and their partners.              *)
LEMMA DepartShrinks ==
  ASSUME NEW e, Depart(e)
  PROVE  Shrunk
<1>1. PICK S : handles' = Without(handles, S)
  BY DEF Depart
<1> QED BY <1>1 DEF Shrunk, Without

(* The deliveries all tell of what becomes of the watches: nothing else    *)
(* than what is published, all that is new, and it is what the names are.  *)
Tells(all) ==
  \A k \in DOMAIN watches' :
    /\ \A p \in 1 .. Len(all) :
         Key(all[p]) = k /\ all[p].frame.kind = "names" => all[p].frame.names = watches'[k].published
    /\ \/ k \in DOMAIN watches /\ watches[k].published = watches'[k].published
       \/ \E p \in 1 .. Len(all) : Key(all[p]) = k /\ all[p].frame.kind = "names"
    /\ k[1] \in open' => dirty' \/ watches'[k].published = Present(listeners', watches'[k].names)

Announces(all) == Brings(all) /\ Tells(all) /\ Flows(all)

(* The watches before publish_names, ws, and the deliveries ds of its      *)
(* request: a new watch has its answer among ds, and an answer is true.    *)
Current(ls, ws, k) == ws[k].published = Present(ls, ws[k].names)

Prepared(ls, ws, changed, ds) ==
  /\ \A j \in 1 .. Len(ds) : ds[j].frame.kind = "names" =>
       LET k == Key(ds[j])
       IN  k \in DOMAIN ws => Current(ls, ws, k) /\ ds[j].frame.names = ws[k].published
  /\ \A k \in DOMAIN ws :
       /\ k[1] \in open => changed \/ Current(ls, ws, k)
       /\ \/ k \in DOMAIN watches /\ watches[k].published = ws[k].published
          \/ \E j \in 1 .. Len(ds) : Key(ds[j]) = k /\ ds[j].frame.kind = "names"

(* What publish_names makes of a watch: it is told the names as they are,  *)
(* or it is not told for want of room or of a change.                      *)
WatchIsTold(ls, ws, changed, o1, w, ns, k) ==
  /\ w[k].names = ws[k].names
  /\ \/ /\ w[k].published = ws[k].published
        /\ k[1] \in o1.open /\ changed => Current(ls, ws, k)
     \/ /\ w[k].published = Present(ls, ws[k].names)
        /\ \E j \in 1 .. Len(ns) : Key(ns[j]) = k /\ ns[j].frame.kind = "names"
  /\ \A j \in 1 .. Len(ns) : Key(ns[j]) = k =>
       ns[j].frame.names = w[k].published /\ w[k].published = Present(ls, ws[k].names)

(* That is what Told says of it.                                           *)
LEMMA WatchTold ==
  ASSUME NEW ls, NEW ws, WatchesType(ws), NEW changed, NEW o, NEW o1, NEW w, NEW ns,
         Told(ls, ws, Behind(ls, ws, changed), o, o1, w, ns), NEW k \in DOMAIN ws
  PROVE  WatchIsTold(ls, ws, changed, o1, w, ns, k)
<1>1. PICK behind : behind = Behind(ls, ws, changed)
  OBVIOUS
<1>2. behind \subseteq DOMAIN ws /\ (k \in behind <=> changed /\ ~Current(ls, ws, k))
  BY <1>1 DEF Behind, Current
<1>3. \A h \in DOMAIN ws : h = <<h[1], h[2]>>
  BY DEF WatchesType, Keys
<1>4. \A h \in DOMAIN ws : Key(NamesNow(ls, ws, h)) = h
  BY <1>3, AnswerKey DEF Key
<1>5. /\ w[k].names = ws[k].names
      /\ \A j \in 1 .. Len(ns) : \E h \in behind :
           ns[j] = NamesNow(ls, ws, h) /\ w[h].published = Present(ls, ws[h].names)
      /\ \/ w[k].published = ws[k].published /\ (k \in behind => k[1] \notin o1.open)
         \/ \E j \in 1 .. Len(ns) : ns[j] = NamesNow(ls, ws, k)
  BY <1>1 DEF Told
<1>6. ASSUME NEW j \in 1 .. Len(ns), Key(ns[j]) = k
      PROVE  /\ ns[j].frame.kind = "names" /\ ns[j].frame.names = w[k].published
             /\ w[k].published = Present(ls, ws[k].names)
  <2>1. PICK h \in behind : ns[j] = NamesNow(ls, ws, h) /\ w[h].published = Present(ls, ws[h].names)
    BY <1>5
  <2>2. h = k
    BY <1>2, <1>4, <1>6, <2>1
  <2> QED BY <2>1, <2>2, AnswerSays
<1>7. ASSUME NEW j \in 1 .. Len(ns), ns[j] = NamesNow(ls, ws, k)
      PROVE  Key(ns[j]) = k
  BY <1>4, <1>7
<1> QED BY <1>2, <1>5, <1>6, <1>7 DEF WatchIsTold

(* Every request that reaches publish_names tells of the watches.          *)
LEMMA PublishAnnounces ==
  ASSUME FabricTypes, NEW ls, ls = listeners', NEW ws, WatchesType(ws), NEW changed,
         NEW ds \in Seq(Delivery), NEW o \in Outbox, o.queue = queue, o.open \subseteq open,
         Publish(ls, ws, changed, ds, o), Prepared(ls, ws, changed, ds), Flows(ds)
  PROVE  \E all : Announces(all)
<1>1. PICK o1, ns : /\ Told(ls, ws, Behind(ls, ws, changed), o, o1, watches', ns)
                    /\ SendAll(ds \o ns, o1)
  BY PublishTells
<1>2. /\ o1 \in Outbox /\ o1.queue = queue /\ o1.open \subseteq open /\ ns \in Seq(Delivery)
      /\ DOMAIN watches' = DOMAIN ws
  BY <1>1 DEF Told
<1>3. PICK all, m, n : all = ds \o ns /\ m = Len(ds) /\ n = Len(ns)
  OBVIOUS
<1>4. /\ all \in Seq(Delivery) /\ m \in Nat /\ n \in Nat /\ Len(all) = m + n
      /\ \A i \in 1 .. m : all[i] = ds[i]
      /\ \A i \in m + 1 .. m + n : all[i] = ns[i - m]
      /\ \A i \in 1 .. n : all[m + i] = ns[i] /\ m + i \in 1 .. m + n
  BY <1>2, <1>3
<1>5. Brings(all) /\ open' \subseteq o1.open
  <2>1. SendAll(all, o1)
    BY <1>1, <1>3
  <2> QED BY <1>2, <1>4, <2>1, SendBrings
<1>6. ASSUME NEW k \in DOMAIN watches'
      PROVE  /\ \A p \in 1 .. Len(all) :
                  Key(all[p]) = k /\ all[p].frame.kind = "names"
                  => all[p].frame.names = watches'[k].published
             /\ \/ k \in DOMAIN watches /\ watches[k].published = watches'[k].published
                \/ \E p \in 1 .. Len(all) : Key(all[p]) = k /\ all[p].frame.kind = "names"
             /\ k[1] \in open' => watches'[k].published = Present(listeners', watches'[k].names)
  <2>1. PICK old, new, S : /\ old = ws[k].published /\ new = watches'[k].published
                           /\ S = Present(ls, ws[k].names)
    OBVIOUS
  <2>2. k \in DOMAIN ws
    BY <1>2, <1>6
  <2>3. /\ watches'[k].names = ws[k].names
        /\ \/ new = old /\ (k[1] \in o1.open /\ changed => old = S)
           \/ /\ new = S
              /\ \E j \in 1 .. n : Key(ns[j]) = k /\ ns[j].frame.kind = "names"
        /\ \A j \in 1 .. n : Key(ns[j]) = k => ns[j].frame.names = new /\ new = S
    <3>1. PICK w : w = watches'
      OBVIOUS
    <3>2. Told(ls, ws, Behind(ls, ws, changed), o, o1, w, ns)
      BY <1>1, <3>1
    <3>3. WatchIsTold(ls, ws, changed, o1, w, ns, k)
      BY <2>2, <3>2, WatchTold
    <3>4. Current(ls, ws, k) => old = S
      BY <2>1 DEF Current
    <3> QED BY <1>3, <2>1, <3>1, <3>3, <3>4 DEF WatchIsTold
  <2>4. /\ \A j \in 1 .. m : Key(ds[j]) = k /\ ds[j].frame.kind = "names" =>
             old = S /\ ds[j].frame.names = old
        /\ k[1] \in open => changed \/ old = S
        /\ \/ k \in DOMAIN watches /\ watches[k].published = old
           \/ \E j \in 1 .. m : Key(ds[j]) = k /\ ds[j].frame.kind = "names"
    BY <1>3, <2>1, <2>2 DEF Prepared, Current
  <2>5. ASSUME NEW p \in 1 .. m + n, Key(all[p]) = k, all[p].frame.kind = "names"
        PROVE  all[p].frame.names = new
    <3>1. CASE p \in 1 .. m
      BY <1>4, <2>3, <2>4, <2>5, <3>1
    <3>2. CASE p \in m + 1 .. m + n
      <4>1. PICK j : j = p - m
        OBVIOUS
      <4>2. j \in 1 .. n /\ all[p] = ns[j]
        BY <1>4, <3>2, <4>1
      <4> QED BY <2>3, <2>5, <4>2
    <3> QED BY <1>4, <3>1, <3>2
  <2>6. \/ k \in DOMAIN watches /\ watches[k].published = new
        \/ \E p \in 1 .. m + n : Key(all[p]) = k /\ all[p].frame.kind = "names"
    <3>1. CASE new = old
      <4>1. ASSUME NEW j \in 1 .. m, Key(ds[j]) = k, ds[j].frame.kind = "names"
            PROVE  \E p \in 1 .. m + n : Key(all[p]) = k /\ all[p].frame.kind = "names"
        <5>1. j \in 1 .. m + n /\ all[j] = ds[j]
          BY <1>4
        <5> QED BY <4>1, <5>1
      <4> QED BY <2>4, <3>1, <4>1
    <3>2. ASSUME NEW j \in 1 .. n, Key(ns[j]) = k, ns[j].frame.kind = "names"
          PROVE  \E p \in 1 .. m + n : Key(all[p]) = k /\ all[p].frame.kind = "names"
      <4>1. PICK p : p = m + j
        OBVIOUS
      <4>2. p \in 1 .. m + n /\ all[p] = ns[j]
        BY <1>4, <4>1
      <4> QED BY <3>2, <4>2
    <3> QED BY <2>3, <3>1, <3>2
  <2>7. k[1] \in open' => new = S
    BY <1>2, <1>5, <2>3, <2>4
  <2> QED BY <1>4, <2>1, <2>3, <2>5, <2>6, <2>7
<1>7. Tells(all)
  BY <1>6 DEF Tells
<1>8. Flows(all)
  <2>1. ASSUME NEW j \in 1 .. Len(ns) PROVE ns[j].frame.kind = "names" /\ ~ns[j].frame.drain
    BY <1>1, AnswerSays DEF Told
  <2>2. AllNames(ns)
    BY <2>1 DEF AllNames
  <2> QED BY <1>2, <1>3, <2>2, FlowsOn
<1> QED BY <1>5, <1>7, <1>8 DEF Announces

(* What a request does before publish_names, when none of its deliveries   *)
(* is an answer and it takes no watch: the names changed, or no news waits.*)
NoNews(changed, ls) == changed \/ (~dirty /\ \A S : Present(ls, S) = Present(listeners, S))

NoNames(ds) == \A j \in 1 .. Len(ds) : ds[j].frame.kind # "names"

Plain(ws, changed, ds, o) ==
  /\ Publish(listeners', ws, changed, ds, o)
  /\ NoNews(changed, listeners')
  /\ DOMAIN ws \subseteq DOMAIN watches /\ \A k \in DOMAIN ws : ws[k] = watches[k]
  /\ ds \in Seq(Delivery) /\ NoNames(ds) /\ Flows(ds)
  /\ o \in Outbox /\ o.queue = queue /\ o.open \subseteq open

(* A watch has been told what is published, and it is what the names are.  *)
WatchOK(k) ==
  k[1] \in open => /\ dirty \/ Current(listeners, watches, k)
                   /\ WillKnow(k).names = watches[k].published

AnsweredInv == ChannelInv /\ \A k \in DOMAIN watches : WatchOK(k)

(* Such a request tells of the watches.                                    *)
LEMMA PlainAnnounces ==
  ASSUME AnsweredInv, NEW ws, NEW changed, NEW ds, NEW o, Plain(ws, changed, ds, o)
  PROVE  \E all : Announces(all)
<1>1. FabricTypes /\ WatchesType(watches)
  BY DEF AnsweredInv, ChannelInv, FabricTypes
<1>2. PICK ls : ls = listeners'
  OBVIOUS
<1>3. /\ Publish(ls, ws, changed, ds, o) /\ NoNews(changed, ls)
      /\ DOMAIN ws \subseteq DOMAIN watches /\ \A k \in DOMAIN ws : ws[k] = watches[k]
      /\ ds \in Seq(Delivery) /\ NoNames(ds) /\ Flows(ds)
      /\ o \in Outbox /\ o.queue = queue /\ o.open \subseteq open
  BY <1>2 DEF Plain
<1>4. WatchesType(ws)
  BY <1>1, <1>3 DEF WatchesType
<1>5. ASSUME NEW k \in DOMAIN ws
      PROVE  /\ k \in DOMAIN watches /\ watches[k].published = ws[k].published
             /\ k[1] \in open => changed \/ Current(ls, ws, k)
  <2>1. k \in DOMAIN watches /\ ws[k] = watches[k]
    BY <1>3, <1>5
  <2>2. k[1] \in open => dirty \/ Current(listeners, watches, k)
    BY <2>1 DEF AnsweredInv, WatchOK
  <2>3. ~changed => ~dirty /\ \A S : Present(ls, S) = Present(listeners, S)
    BY <1>3 DEF NoNews
  <2> QED BY <2>1, <2>2, <2>3 DEF Current
<1>6. Prepared(ls, ws, changed, ds)
  <2>1. \A j \in 1 .. Len(ds) : ds[j].frame.kind # "names"
    BY <1>3 DEF NoNames
  <2> QED BY <1>5, <2>1 DEF Prepared
<1> QED BY <1>1, <1>2, <1>3, <1>4, <1>6, PublishAnnounces

(* A reply is such a request.                                              *)
LEMMA PlainReply ==
  ASSUME AnsweredInv, UNCHANGED listeners, NEW ds \in Seq(Delivery), NoNames(ds), Flows(ds),
         NEW o \in Outbox, o.queue = queue, o.open \subseteq open, Reply(ds, o)
  PROVE  \E all : Announces(all)
<1>1. Publish(listeners', watches, dirty, ds, o)
  BY DEF Reply
<1>2. PICK ws, changed : ws = watches /\ changed = dirty
  OBVIOUS
<1>3. NoNews(changed, listeners')
  BY <1>2 DEF NoNews
<1>4. Publish(listeners', ws, changed, ds, o)
  BY <1>1, <1>2
<1>5. Plain(ws, changed, ds, o)
  BY <1>2, <1>3, <1>4 DEF Plain
<1> QED BY <1>5, PlainAnnounces

(* A request that does not reach publish_names, and leaves the watches.    *)
LEMMA SentAnnounces ==
  ASSUME AnsweredInv, UNCHANGED watches, NEW ds \in Seq(Delivery), NoNames(ds), Flows(ds),
         SendAll(ds, Outboxes), NoNews(dirty', listeners')
  PROVE  \E all : Announces(all)
<1>1. FabricTypes
  BY DEF AnsweredInv, ChannelInv
<1>2. PICK o : o = Outboxes
  OBVIOUS
<1>3. o \in Outbox /\ o.queue = queue /\ o.open = open /\ SendAll(ds, o)
  BY <1>1, <1>2, OutboxesIs
<1>4. Brings(ds) /\ open' \subseteq open
  BY <1>3, SendBrings
<1>5. ASSUME NEW k \in DOMAIN watches', k[1] \in open'
      PROVE  dirty' \/ watches'[k].published = Present(listeners', watches'[k].names)
  <2>1. k \in DOMAIN watches /\ k[1] \in open
    BY <1>4, <1>5
  <2>2. dirty \/ watches[k].published = Present(listeners, watches[k].names)
    BY <2>1 DEF AnsweredInv, WatchOK, Current
  <2> QED BY <2>1, <2>2 DEF NoNews
<1>6. Tells(ds)
  BY <1>5 DEF Tells, NoNames
<1> QED BY <1>4, <1>6 DEF Announces

(* The deliveries that are not answers.                                    *)
LEMMA RefusalSays ==
  ASSUME NEW k \in Keys
  PROVE  /\ <<FailedOpen(k)>> \in Seq(Delivery)
         /\ NoNames(<<FailedOpen(k)>>) /\ Mute(<<FailedOpen(k)>>)
<1>1. PICK d : d = FailedOpen(k)
  OBVIOUS
<1>2. d \in Delivery /\ d.frame.kind = "failed"
  BY <1>1, FailedIs
<1>3. <<d>> \in Seq(Delivery) /\ Len(<<d>>) = 1 /\ <<d>>[1] = d
  BY <1>2, OneDelivery
<1> QED BY <1>1, <1>2, <1>3 DEF NoNames, Mute, ClosedDrains

(* No delivery at all.                                                     *)
LEMMA SilenceSays == <<>> \in Seq(Delivery) /\ NoNames(<<>>) /\ Mute(<<>>)
BY NoDelivery DEF NoNames, Mute

(* Closing a listener or a pair, or nothing.                               *)
LEMMA TerminateSays ==
  ASSUME ChannelInv, NEW k \in Keys
  PROVE  /\ Terminate(k).ds \in Seq(Delivery) /\ NoNames(Terminate(k).ds) /\ Mute(Terminate(k).ds)
         /\ NoNews(Terminate(k).changed, Terminate(k).ls)
<1>1. PICK ds : ds = Terminate(k).ds
  OBVIOUS
<1>2. PICK ls, changed : ls = Terminate(k).ls /\ changed = Terminate(k).changed
  OBVIOUS
<1>3. \A h, p : Closed(h, p).frame.kind = "closed" /\ Closed(h, p).frame.drain
  BY DEF Closed, To, Frame
<1>4. \A h, p : ClosedPair(h, p).frame.kind = "closed" /\ ClosedPair(h, p).frame.drain
  BY DEF ClosedPair, To, PairFrame, Frame
<1>5. CASE k \in DOMAIN listeners
  <2>1. PICK d : d = Closed(k, -listeners[k].gen)
    OBVIOUS
  <2>2. PICK t \in BOOLEAN : t = TRUE
    OBVIOUS
  <2>3. ds = <<d>> /\ d.frame.kind = "closed" /\ d.frame.drain
    BY <1>1, <1>3, <1>5, <2>1 DEF Terminate
  <2>4. changed = t
    BY <1>2, <1>5, <2>2 DEF Terminate
  <2>5. NoNews(t, ls)
    BY <2>2 DEF NoNews
  <2>6. NoNames(ds) /\ Mute(ds)
    BY <2>3 DEF NoNames, Mute, ClosedDrains
  <2> QED BY <1>1, <1>2, <2>4, <2>5, <2>6, TerminateDeliveries
<1>6. NoNews(dirty, listeners)
  BY DEF NoNews
<1>7. CASE k \notin DOMAIN listeners /\ k \in DOMAIN handles
  <2>1. PICK c, d : /\ c = ClosedPair(k, handles[k].pair)
                    /\ d = ClosedPair(Partner(k), handles[k].pair)
    OBVIOUS
  <2>2. ds = <<c, d>> /\ changed = dirty /\ ls = listeners
    BY <1>1, <1>2, <1>7, <2>1 DEF Terminate
  <2>3. c.frame.kind = "closed" /\ d.frame.kind = "closed" /\ c.frame.drain /\ d.frame.drain
    BY <1>4, <2>1
  <2>4. NoNames(ds) /\ Mute(ds)
    BY <2>2, <2>3 DEF NoNames, Mute, ClosedDrains
  <2> QED BY <1>1, <1>2, <1>6, <2>2, <2>4, TerminateDeliveries
<1>8. CASE k \notin DOMAIN listeners /\ k \notin DOMAIN handles
  <2>1. ds = <<>> /\ changed = dirty /\ ls = listeners
    BY <1>1, <1>2, <1>8 DEF Terminate
  <2> QED BY <1>1, <1>2, <1>6, <2>1, SilenceSays, TerminateDeliveries
<1> QED BY <1>5, <1>7, <1>8

(* LISTEN: the names change, unless it is refused.                         *)
LEMMA ListenAnnounces ==
  ASSUME AnsweredInv, NEW k \in Endpoints \X ClientIds, NEW name, Listen(k, name)
  PROVE  \E all : Announces(all)
<1>0. FabricTypes /\ k \in Keys /\ k[1] \in Endpoints
  BY ClientKey DEF AnsweredInv, ChannelInv
<1>s. Unsent
  BY ShrunkUnsent DEF Listen, Shrunk
<1>1. PICK o : o = Outboxes
  OBVIOUS
<1>2. o \in Outbox /\ o.queue = queue /\ o.open \subseteq open
  BY <1>0, <1>1, OutboxesIs
<1>3. PICK c : c = Charge(Outboxes, k[1])
  OBVIOUS
<1>4. c \in Outbox /\ c.queue = queue /\ c.open \subseteq open
  BY <1>0, <1>3, ChargedIs
<1>5. CASE CannotListen(k, name)
  <2>1. Reply(<<FailedOpen(k)>>, o) /\ UNCHANGED listeners
    BY <1>1, <1>5 DEF Listen
  <2> QED BY <1>0, <1>2, <1>s, <2>1, RefusalSays, MuteFlows, PlainReply
<1>6. CASE ~CannotListen(k, name) /\ ~Room(Outboxes, k[1])
  <2>1. Reply(<<>>, c) /\ UNCHANGED listeners
    BY <1>3, <1>6 DEF Listen
  <2> QED BY <1>4, <1>s, <2>1, SilenceSays, MuteFlows, PlainReply
<1>7. CASE ~CannotListen(k, name) /\ Room(Outboxes, k[1])
  <2>1. PICK g : g = generation
    OBVIOUS
  <2>2. -g \in Int
    BY <1>0, <2>1 DEF FabricTypes, RegistryTypes
  <2>3. PICK d : d = Reserved(k, [Frame("opened", k[2]) EXCEPT !.of = -g])
    OBVIOUS
  <2>4. d \in Delivery /\ d.frame.kind = "opened"
    BY <1>0, <2>2, <2>3, ListeningIs
  <2>5. PICK ds : ds = <<d>>
    OBVIOUS
  <2>6. ds \in Seq(Delivery) /\ Len(ds) = 1 /\ ds[1] = d
    BY <2>4, <2>5, OneDelivery
  <2>7. NoNames(ds) /\ Mute(ds)
    BY <2>4, <2>6 DEF NoNames, Mute, ClosedDrains
  <2>8. Publish(listeners', watches, TRUE, ds, c)
    BY <1>3, <1>7, <2>1, <2>3, <2>5 DEF Listen
  <2>9. PICK changed \in BOOLEAN : changed = TRUE
    OBVIOUS
  <2>10. PICK ws : ws = watches
    OBVIOUS
  <2>11. Publish(listeners', ws, changed, ds, c)
    BY <2>8, <2>9, <2>10
  <2>12. NoNews(changed, listeners')
    BY <2>9 DEF NoNews
  <2>13. Plain(ws, changed, ds, c)
    BY <1>4, <1>s, <2>6, <2>7, <2>10, <2>11, <2>12, MuteFlows DEF Plain
  <2> QED BY <2>13, PlainAnnounces
<1> QED BY <1>5, <1>6, <1>7

(* WATCH: a new watch is answered.                                         *)
LEMMA WatchAnnounces ==
  ASSUME AnsweredInv, NEW k \in Endpoints \X ClientIds, NEW S \in NameSets, Watch(k, S)
  PROVE  \E all : Announces(all)
<1>0. FabricTypes /\ WatchesType(watches) /\ k \in Keys /\ k[1] \in Endpoints
  BY ClientKey DEF AnsweredInv, ChannelInv, FabricTypes
<1>u. listeners' = listeners /\ Unsent
  BY ShrunkUnsent DEF Watch, Shrunk
<1>1. PICK o : o = Outboxes
  OBVIOUS
<1>2. o \in Outbox /\ o.queue = queue /\ o.open \subseteq open
  BY <1>0, <1>1, OutboxesIs
<1>3. PICK c : c = Charge(Outboxes, k[1])
  OBVIOUS
<1>4. c \in Outbox /\ c.queue = queue /\ c.open \subseteq open
  BY <1>0, <1>3, ChargedIs
<1>5. CASE Reply(<<FailedOpen(k)>>, Outboxes)
  BY <1>0, <1>1, <1>2, <1>5, <1>u, RefusalSays, MuteFlows, PlainReply
<1>6. CASE Reply(<<>>, Charge(Outboxes, k[1]))
  BY <1>3, <1>4, <1>6, <1>u, SilenceSays, MuteFlows, PlainReply
<1> DEFINE P == Present(listeners, S)
<1>7. CASE Publish(listeners, With(watches, k, [names |-> S, published |-> P]), dirty,
                   <<Reserved(k, NamesFrame(k, P))>>, Charge(Outboxes, k[1]))
  <2>1. PICK Q : Q = P
    OBVIOUS
  <2>2. Q \in SUBSET Names /\ S \in SUBSET Names
    BY ChannelAssumption, <2>1 DEF Present, ChannelAssumption
  <2>3. PICK ws : ws = With(watches, k, [names |-> S, published |-> Q])
    OBVIOUS
  <2>4. PICK d : d = Reserved(k, NamesFrame(k, Q))
    OBVIOUS
  <2>5. /\ d \in Delivery /\ d.ep = k[1] /\ d.frame.id = k[2]
        /\ d.frame.kind = "names" /\ d.frame.names = Q
    BY <1>0, <2>2, <2>4, WatchingIs
  <2>6. PICK ds : ds = <<d>>
    OBVIOUS
  <2>7. ds \in Seq(Delivery) /\ Len(ds) = 1 /\ ds[1] = d
    BY <2>5, <2>6, OneDelivery
  <2>8. PICK ls, changed : ls = listeners' /\ changed = dirty
    OBVIOUS
  <2>9. Publish(ls, ws, changed, ds, c)
    BY <1>3, <1>7, <1>u, <2>1, <2>3, <2>4, <2>6, <2>8
  <2>10. /\ DOMAIN ws = DOMAIN watches \cup {k} /\ ws[k] = [names |-> S, published |-> Q]
         /\ \A x \in DOMAIN watches : x # k => ws[x] = watches[x]
    BY <2>3 DEF With
  <2>11. WatchesType(ws)
    <3>1. ws[k] \in WatchType
      BY <2>2, <2>10 DEF WatchType
    <3> QED BY <1>0, <2>10, <3>1 DEF WatchesType
  <2>12. Key(d) = k
    BY <1>0, <2>5 DEF Key, Keys
  <2>13. Current(ls, ws, k) /\ d.frame.names = ws[k].published
    BY <1>u, <2>1, <2>5, <2>8, <2>10 DEF Current
  <2>14. ASSUME NEW j \in 1 .. Len(ds) PROVE ds[j] = d
    BY <2>7
  <2>15. ASSUME NEW x \in DOMAIN ws
         PROVE  /\ x[1] \in open => changed \/ Current(ls, ws, x)
                /\ \/ x \in DOMAIN watches /\ watches[x].published = ws[x].published
                   \/ x = k
    <3>1. CASE x = k
      BY <2>13, <3>1
    <3>2. CASE x # k
      <4>1. x \in DOMAIN watches /\ ws[x] = watches[x]
        BY <2>10, <3>2
      <4>2. x[1] \in open => dirty \/ Current(listeners, watches, x)
        BY <4>1 DEF AnsweredInv, WatchOK
      <4>3. Current(ls, ws, x) <=> Current(listeners, watches, x)
        BY <1>u, <2>8, <4>1 DEF Current
      <4>4. dirty => changed
        BY <2>8
      <4> QED BY <4>1, <4>2, <4>3, <4>4
    <3> QED BY <3>1, <3>2
  <2>16. \E j \in 1 .. Len(ds) : Key(ds[j]) = k /\ ds[j].frame.kind = "names"
    BY <2>5, <2>7, <2>12
  <2>17. Prepared(ls, ws, changed, ds)
    BY <2>12, <2>13, <2>14, <2>15, <2>16 DEF Prepared
  <2>18. Flows(ds)
    <3>1. Mute(ds)
      BY <2>5, <2>14 DEF Mute, ClosedDrains
    <3> QED BY <1>u, <3>1, MuteFlows
  <2> QED BY <1>0, <1>4, <2>7, <2>8, <2>9, <2>11, <2>17, <2>18, PublishAnnounces
<1> QED BY <1>5, <1>6, <1>7 DEF Watch

(* UNWATCH.                                                                *)
LEMMA UnwatchAnnounces ==
  ASSUME AnsweredInv, NEW k, Unwatch(k)
  PROVE  \E all : Announces(all)
<1>0. FabricTypes
  BY DEF AnsweredInv, ChannelInv
<1>1. PICK ws, o, changed : ws = Without(watches, {k}) /\ o = Outboxes /\ changed = dirty
  OBVIOUS
<1>2. DOMAIN ws \subseteq DOMAIN watches /\ \A x \in DOMAIN ws : ws[x] = watches[x]
  BY <1>1 DEF Without
<1>3. o \in Outbox /\ o.queue = queue /\ o.open \subseteq open
  BY <1>0, <1>1, OutboxesIs
<1>4. listeners' = listeners /\ Unsent
  BY ShrunkUnsent DEF Unwatch, Shrunk
<1>5. Publish(listeners', ws, changed, <<>>, o)
  BY <1>1, <1>4 DEF Unwatch
<1>6. NoNews(changed, listeners')
  BY <1>1, <1>4 DEF NoNews
<1>7. Plain(ws, changed, <<>>, o)
  BY <1>2, <1>3, <1>4, <1>5, <1>6, SilenceSays, MuteFlows DEF Plain
<1> QED BY <1>7, PlainAnnounces

(* Notifications of a pair.                                                *)
LEMMA PairDelivery ==
  ASSUME NEW k \in Keys, NEW kind \in Kinds, NEW p \in Int, NEW n \in Nat
  PROVE  /\ Reserved(k, PairFrame(kind, k[2], p, n)) \in Delivery
         /\ Reserved(k, PairFrame(kind, k[2], p, n)).frame.kind = kind
         /\ To(k, PairFrame(kind, k[2], p, n)) \in Delivery
         /\ To(k, PairFrame(kind, k[2], p, n)).frame.kind = kind
<1>1. k[1] \in Endpoints /\ k[2] \in Ids
  BY DEF Keys
<1>2. PICK f : f = PairFrame(kind, k[2], p, n)
  OBVIOUS
<1>3. f \in FrameType /\ f.kind = kind
  BY <1>1, <1>2, PairFrameIs
<1>4. PICK c, d : c = Reserved(k, f) /\ d = To(k, f)
  OBVIOUS
<1>5. /\ c = [ep |-> k[1], frame |-> f, reserved |-> TRUE]
      /\ d = [ep |-> k[1], frame |-> f, reserved |-> FALSE]
  BY <1>4 DEF Reserved, To
<1>6. c \in Delivery /\ c.frame = f /\ d \in Delivery /\ d.frame = f
  BY <1>1, <1>3, <1>5 DEF Delivery
<1> QED BY <1>2, <1>3, <1>4, <1>6

(* CONNECT changes no name.                                                *)
LEMMA CommitAnnounces ==
  ASSUME AnsweredInv, NEW k \in Keys, NEW a \in Keys, NEW o \in Outbox, o.queue = queue,
         o.open \subseteq open, Commit(k, a, o), UNCHANGED listeners,
         k \notin DOMAIN handles, a \notin DOMAIN handles
  PROVE  \E all : Announces(all)
<1>1. PICK p : p = Len(pairs) + 1
  OBVIOUS
<1>2. p \in Int /\ 0 \in Nat /\ "opened" \in Kinds /\ "accepted" \in Kinds
  <2>1. Len(pairs) \in Nat
    BY DEF AnsweredInv, ChannelInv, FabricTypes, RegistryTypes
  <2> QED BY <1>1, <2>1 DEF Kinds
<1>3. PICK c, d : /\ c = Reserved(k, PairFrame("opened", k[2], p, 0))
                  /\ d = Reserved(a, PairFrame("accepted", a[2], p, 0))
  OBVIOUS
<1>4. c \in Delivery /\ c.frame.kind = "opened" /\ d \in Delivery /\ d.frame.kind = "accepted"
  <2>1. /\ Reserved(k, PairFrame("opened", k[2], p, 0)) \in Delivery
        /\ Reserved(k, PairFrame("opened", k[2], p, 0)).frame.kind = "opened"
    BY <1>2, PairDelivery
  <2>2. /\ Reserved(a, PairFrame("accepted", a[2], p, 0)) \in Delivery
        /\ Reserved(a, PairFrame("accepted", a[2], p, 0)).frame.kind = "accepted"
    BY <1>2, PairDelivery
  <2> QED BY <1>3, <2>1, <2>2
<1>5. PICK ds : ds = <<c, d>>
  OBVIOUS
<1>6. ds \in Seq(Delivery) /\ NoNames(ds)
  BY <1>4, <1>5 DEF NoNames
<1>7. Reply(ds, o)
  BY <1>1, <1>3, <1>5 DEF Commit
<1>8. Flows(ds)
  <2>1. /\ DOMAIN handles' = DOMAIN handles \cup {k, a}
        /\ handles'[k].peer = a \/ k = a
        /\ handles'[a].peer = k
        /\ \A h \in DOMAIN handles' \ {k, a} : handles'[h] = handles[h]
    BY DEF Commit, With, NewHandle
  <2>2. Len(ds) = 2 /\ ds[1] = c /\ ds[2] = d
    BY <1>5
  <2>3. Key(c) = k /\ Key(d) = a
    <3>1. k = <<k[1], k[2]>> /\ a = <<a[1], a[2]>>
      BY DEF Keys
    <3> QED BY <1>3, <3>1 DEF Key, Reserved, PairFrame, Frame
  <2>4. ASSUME NEW h \in DOMAIN handles' PROVE Carried(ds, h)
    <3>1. CASE h \in {k, a}
      <4>1. h \notin DOMAIN handles
        BY <3>1
      <4>2. \E i \in 1 .. Len(ds) : Key(ds[i]) = handles'[h].peer /\ ds[i].frame.kind \in Opens
        <5>1. 1 \in 1 .. Len(ds) /\ 2 \in 1 .. Len(ds)
          BY <2>2
        <5>2. c.frame.kind \in Opens /\ d.frame.kind \in Opens
          BY <1>4 DEF Opens
        <5>3. handles'[h].peer = a \/ handles'[h].peer = k
          BY <2>1, <3>1
        <5>4. CASE handles'[h].peer = k
          BY <2>2, <2>3, <5>1, <5>2, <5>4
        <5>5. CASE handles'[h].peer = a
          BY <2>2, <2>3, <5>1, <5>2, <5>5
        <5> QED BY <5>3, <5>4, <5>5
      <4> QED BY <4>1, <4>2 DEF Carried
    <3>2. CASE h \notin {k, a}
      <4>1. h \in DOMAIN handles /\ handles'[h] = handles[h]
        BY <2>1, <3>2
      <4>2. \A i \in 1 .. Len(ds) : ds[i].frame.kind # "data"
        BY <1>4, <2>2
      <4> QED BY <4>1, <4>2 DEF Carried
    <3> QED BY <3>1, <3>2
  <2>5. \A i \in 1 .. Len(ds) : ClosedDrains(ds[i].frame)
    BY <1>4, <2>2 DEF ClosedDrains
  <2> QED BY <2>4, <2>5 DEF Flows
<1> QED BY <1>6, <1>7, <1>8, PlainReply

(* What CONNECT does: it is refused, makes a pair of two keys that were    *)
(* free, or is cancelled.                                                  *)
LEMMA ConnectIs ==
  ASSUME FabricTypes, NEW k \in Endpoints \X ClientIds, NEW name, NEW token,
         Connect(k, name, token)
  PROVE  \/ Reply(<<FailedOpen(k)>>, Outboxes) /\ UNCHANGED handles
         \/ \E l \in Endpoints :
              \/ \E i \in FreeServerIds(l) :
                   /\ <<l, i>> \in Keys /\ k \notin DOMAIN handles /\ <<l, i>> \notin DOMAIN handles
                   /\ Commit(k, <<l, i>>, ReservePair(k[1], l).o)
              \/ /\ UNCHANGED handles
                 /\ Reply(IF ReservePair(k[1], l).cancel
                          THEN <<[FailedOpen(k) EXCEPT !.reserved = TRUE]>>
                          ELSE <<>>, ReservePair(k[1], l).o)
<1>1. \/ Reply(<<FailedOpen(k)>>, Outboxes) /\ UNCHANGED handles
      \/ /\ ~NoServiceFor(k, name, token)
         /\ \E l \in DOMAIN listeners :
              \/ \E i \in FreeServerIds(l[1]) : Commit(k, <<l[1], i>>, ReservePair(k[1], l[1]).o)
              \/ /\ UNCHANGED handles
                 /\ Reply(IF ReservePair(k[1], l[1]).cancel
                          THEN <<[FailedOpen(k) EXCEPT !.reserved = TRUE]>>
                          ELSE <<>>, ReservePair(k[1], l[1]).o)
  BY Zenon DEF Connect
<1>2. \A l \in DOMAIN listeners : l[1] \in Endpoints
  BY DEF FabricTypes, RegistryTypes, Keys
<1>3. ~NoServiceFor(k, name, token) => k \notin DOMAIN handles
  BY DEF NoServiceFor, Live
<1>4. ASSUME NEW l \in Endpoints, NEW i \in FreeServerIds(l)
      PROVE  <<l, i>> \in Keys /\ <<l, i>> \notin DOMAIN handles
  <2>1. MaxId \in Nat /\ nextId[l] \in Nat \ {0}
    BY ChannelAssumption DEF FabricTypes, RegistryTypes, ChannelAssumption
  <2>2. i \in nextId[l] .. MaxId /\ i % 2 = 1 /\ ~Live(<<l, i>>)
    BY <1>4 DEF FreeServerIds
  <2>3. i \in 1 .. MaxId
    BY <2>1, <2>2
  <2> QED BY <2>2, <2>3 DEF Ids, Keys, Live
<1> QED BY Zenon, <1>1, <1>2, <1>3, <1>4

(* Neither does one that is refused or cancelled.                          *)
LEMMA ConnectAnnounces ==
  ASSUME AnsweredInv, NEW k \in Endpoints \X ClientIds, NEW name, NEW token,
         Connect(k, name, token)
  PROVE  \E all : Announces(all)
<1>0. FabricTypes /\ k \in Keys /\ k[1] \in Endpoints /\ UNCHANGED listeners
  BY ClientKey DEF AnsweredInv, ChannelInv, Connect
<1>s. UNCHANGED handles => Unsent
  BY ShrunkUnsent DEF Shrunk
<1>1. CASE Reply(<<FailedOpen(k)>>, Outboxes) /\ UNCHANGED handles
  <2>1. PICK o : o = Outboxes
    OBVIOUS
  <2>2. o \in Outbox /\ o.queue = queue /\ o.open \subseteq open
    BY <1>0, <2>1, OutboxesIs
  <2> QED BY <1>0, <1>1, <1>s, <2>1, <2>2, RefusalSays, MuteFlows, PlainReply
<1>2. ASSUME NEW l \in Endpoints, NEW i \in FreeServerIds(l), <<l, i>> \in Keys,
             k \notin DOMAIN handles, <<l, i>> \notin DOMAIN handles,
             Commit(k, <<l, i>>, ReservePair(k[1], l).o)
      PROVE  \E all : Announces(all)
  <2>1. PICK o : o = ReservePair(k[1], l).o
    OBVIOUS
  <2>2. o \in Outbox /\ o.queue = queue /\ o.open \subseteq open
    BY <1>0, <2>1, ReservePairIs
  <2> QED BY <1>0, <1>2, <2>1, <2>2, CommitAnnounces
<1>3. ASSUME NEW l \in Endpoints, UNCHANGED handles,
             Reply(IF ReservePair(k[1], l).cancel THEN <<[FailedOpen(k) EXCEPT !.reserved = TRUE]>>
                   ELSE <<>>, ReservePair(k[1], l).o)
      PROVE  \E all : Announces(all)
  <2>1. PICK r : r = ReservePair(k[1], l)
    OBVIOUS
  <2>2. PICK o : o = r.o
    OBVIOUS
  <2>3. o \in Outbox /\ o.queue = queue /\ o.open \subseteq open
    BY <1>0, <2>1, <2>2, ReservePairIs
  <2>4. CASE r.cancel
    <3>1. PICK d : d = FailedOpen(k)
      OBVIOUS
    <3>2. d \in Delivery /\ d.frame.kind = "failed"
      BY <1>0, <3>1, FailedIs
    <3>3. PICK c : c = [d EXCEPT !.reserved = TRUE]
      OBVIOUS
    <3>4. c \in Delivery /\ c.frame.kind = "failed"
      BY <3>2, <3>3 DEF Delivery
    <3>5. PICK ds : ds = <<c>>
      OBVIOUS
    <3>6. ds \in Seq(Delivery) /\ NoNames(ds) /\ Mute(ds)
      BY <3>4, <3>5 DEF NoNames, Mute, ClosedDrains
    <3>7. Reply(ds, o)
      BY <1>3, <2>1, <2>2, <2>4, <3>1, <3>3, <3>5
    <3> QED BY <1>0, <1>3, <1>s, <2>3, <3>6, <3>7, MuteFlows, PlainReply
  <2>5. CASE ~r.cancel
    <3>1. Reply(<<>>, o)
      BY <1>3, <2>1, <2>2, <2>5
    <3> QED BY <1>0, <1>3, <1>s, <2>3, <3>1, SilenceSays, MuteFlows, PlainReply
  <2> QED BY <2>4, <2>5
<1> QED BY <1>0, <1>1, <1>2, <1>3, ConnectIs

(* DATA or ACK on an open channel.                                         *)
LEMMA TrafficAnnounces ==
  ASSUME AnsweredInv, NEW h \in Keys, NEW kind \in {"data", "ack"}, NEW p \in Int, NEW n \in Nat,
         UNCHANGED listeners, Reply(<<To(h, PairFrame(kind, h[2], p, n))>>, Outboxes),
         Flows(<<To(h, PairFrame(kind, h[2], p, n))>>)
  PROVE  \E all : Announces(all)
<1>1. kind \in Kinds
  BY DEF Kinds
<1>2. PICK d : d = To(h, PairFrame(kind, h[2], p, n))
  OBVIOUS
<1>3. d \in Delivery /\ d.frame.kind # "names"
  <2>1. d \in Delivery /\ d.frame.kind = kind
    BY <1>1, <1>2, PairDelivery
  <2> QED BY <2>1
<1>4. PICK ds, o : ds = <<d>> /\ o = Outboxes
  OBVIOUS
<1>5. ds \in Seq(Delivery) /\ NoNames(ds)
  BY <1>3, <1>4 DEF NoNames
<1>6. o \in Outbox /\ o.queue = queue /\ o.open \subseteq open
  BY <1>4, OutboxesIs DEF AnsweredInv, ChannelInv
<1>7. Reply(ds, o)
  BY <1>2, <1>4
<1>8. Flows(ds)
  BY <1>2, <1>4
<1> QED BY <1>5, <1>6, <1>7, <1>8, PlainReply

(* Whatever ends what a key names.                                         *)
LEMMA TerminatedAnnounces ==
  ASSUME AnsweredInv, NEW k \in Keys, Terminated(k)
  PROVE  \E all : Announces(all)
<1>0. ChannelInv /\ FabricTypes
  BY DEF AnsweredInv, ChannelInv
<1>1. PICK ds, o, c, ws : /\ ds = Terminate(k).ds /\ o = Outboxes
                          /\ c = Terminate(k).changed /\ ws = watches
  OBVIOUS
<1>2. o \in Outbox /\ o.queue = queue /\ o.open \subseteq open
  BY <1>0, <1>1, OutboxesIs
<1>3. ds \in Seq(Delivery) /\ NoNames(ds) /\ Flows(ds) /\ NoNews(c, Terminate(k).ls)
  <2>1. Unsent
    BY TerminateShrinks, ShrunkUnsent DEF Terminated
  <2> QED BY <1>0, <1>1, <2>1, TerminateSays, MuteFlows
<1>4. listeners' = Terminate(k).ls /\ Publish(listeners', ws, c, ds, o)
  BY <1>1 DEF Terminated
<1>5. NoNews(c, listeners')
  BY <1>3, <1>4
<1>6. Plain(ws, c, ds, o)
  BY <1>1, <1>2, <1>3, <1>4, <1>5 DEF Plain
<1> QED BY <1>6, PlainAnnounces

(* DATA, and what ends the pair instead.                                   *)
LEMMA DataAnnounces ==
  ASSUME AnsweredInv, NEW k \in Keys, NEW n \in Sizes, Data(k, n)
  PROVE  \E all : Announces(all)
<1>1. CASE k \in DOMAIN handles /\ InCredit(handles[k], n)
  <2>1. PICK h, p : h = Partner(k) /\ p = handles[k].pair
    OBVIOUS
  <2>2. h \in Keys /\ p \in Int
    BY <1>1, <2>1 DEF AnsweredInv, ChannelInv, FabricInv, HandlesArePaired, Partner,
                      FabricTypes, RegistryTypes
  <2>3. n \in Nat
    BY ChannelAssumption DEF ChannelAssumption
  <2>4. /\ UNCHANGED listeners /\ Reply(<<To(h, PairFrame("data", h[2], p, n))>>, Outboxes)
        /\ handles' = [handles EXCEPT ![k] = Sent(handles[k], n)]
    BY <1>1, <2>1 DEF Data
  <2>5. PICK d : d = To(h, PairFrame("data", h[2], p, n))
    OBVIOUS
  <2>6. Key(d) = h /\ d.frame.kind = "data" /\ d.frame.n = n
    <3>1. h = <<h[1], h[2]>>
      BY <2>2 DEF Keys
    <3> QED BY <2>5, <3>1 DEF Key, To, PairFrame, Frame
  <2>7. ASSUME NEW x \in DOMAIN handles' PROVE Carried(<<d>>, x)
    <3>1. x \in DOMAIN handles
      BY <2>4, <2>7
    <3>2. Len(<<d>>) = 1 /\ <<d>>[1] = d /\ 1 \in 1 .. Len(<<d>>)
      OBVIOUS
    <3>3. CASE x = k
      <4>1. handles'[x] = Sent(handles[k], n)
        BY <2>4, <3>1, <3>3
      <4>2. handles'[x].peer = h /\ handles'[x].sent = handles[x].sent + n
        BY <2>1, <3>3, <4>1 DEF Sent, Partner
      <4> QED BY <2>6, <3>1, <3>2, <4>2 DEF Carried
    <3>4. CASE x # k
      <4>1. handles'[x] = handles[x]
        BY <2>4, <3>1, <3>4
      <4>2. handles[x].peer # h
        BY <1>1, <2>1, <3>1, <3>4
           DEF AnsweredInv, ChannelInv, FabricInv, HandlesArePaired, Partner
      <4> QED BY <2>6, <3>1, <3>2, <4>1, <4>2 DEF Carried
    <3> QED BY <3>3, <3>4
  <2>8. Flows(<<d>>)
    BY <2>6, <2>7 DEF Flows, ClosedDrains
  <2> QED BY <2>2, <2>3, <2>4, <2>5, <2>8, TrafficAnnounces
<1>2. CASE ~(k \in DOMAIN handles /\ InCredit(handles[k], n))
  BY <1>2, TerminatedAnnounces DEF Data
<1> QED BY <1>1, <1>2

(* ACK, likewise.                                                          *)
LEMMA AckAnnounces ==
  ASSUME AnsweredInv, NEW k \in Keys, NEW bytes \in 0 .. MaxSent, Ack(k, bytes)
  PROVE  \E all : Announces(all)
<1>1. CASE k \in DOMAIN handles /\ AckIsValid(handles[Partner(k)], bytes)
  <2>1. PICK h, p : h = Partner(k) /\ p = handles[k].pair
    OBVIOUS
  <2>2. h \in Keys /\ p \in Int
    BY <1>1, <2>1 DEF AnsweredInv, ChannelInv, FabricInv, HandlesArePaired, Partner,
                      FabricTypes, RegistryTypes
  <2>3. bytes \in Nat
    BY ChannelAssumption DEF ChannelAssumption
  <2>4. /\ UNCHANGED listeners /\ Reply(<<To(h, PairFrame("ack", h[2], p, bytes))>>, Outboxes)
        /\ handles' = [handles EXCEPT ![h] = Acked(handles[h], bytes)]
    BY <1>1, <2>1 DEF Ack
  <2>5. PICK d : d = To(h, PairFrame("ack", h[2], p, bytes))
    OBVIOUS
  <2>6. d.frame.kind = "ack"
    BY <2>5 DEF To, PairFrame, Frame
  <2>7. Unsent
    <3>1. Acked(handles[h], bytes).sent = handles[h].sent
      BY DEF Acked
    <3> QED BY <2>4, <3>1 DEF Unsent
  <2>8. Flows(<<d>>)
    <3>1. Mute(<<d>>)
      BY <2>6 DEF Mute, ClosedDrains
    <3> QED BY <2>7, <3>1, MuteFlows
  <2> QED BY <2>2, <2>3, <2>4, <2>5, <2>8, TrafficAnnounces
<1>2. CASE ~(k \in DOMAIN handles /\ AckIsValid(handles[Partner(k)], bytes))
  BY <1>2, TerminatedAnnounces DEF Ack
<1> QED BY <1>1, <1>2

(* A malformed packet does not reach publish_names: what it releases       *)
(* leaves the names dirty.                                                 *)
LEMMA MalformedAnnounces ==
  ASSUME AnsweredInv, NEW k \in Keys, NEW isOpen \in BOOLEAN, Malformed(k, isOpen)
  PROVE  \E all : Announces(all)
<1>0. UNCHANGED watches /\ ChannelInv
  BY DEF Malformed, AnsweredInv
<1>1. CASE isOpen
  <2>1. /\ listeners' = listeners /\ dirty' = dirty /\ SendAll(<<FailedOpen(k)>>, Outboxes)
        /\ handles' = handles
    BY <1>1 DEF Malformed
  <2>3. Unsent
    BY <2>1, ShrunkUnsent DEF Shrunk
  <2>2. NoNews(dirty', listeners')
    BY <2>1 DEF NoNews
  <2> QED BY <1>0, <2>1, <2>2, <2>3, RefusalSays, MuteFlows, SentAnnounces
<1>2. CASE ~isOpen
  <2>1. PICK ds, c : ds = Terminate(k).ds /\ c = Terminate(k).changed
    OBVIOUS
  <2>2. listeners' = Terminate(k).ls /\ dirty' = c /\ SendAll(ds, Outboxes)
    BY <1>2, <2>1 DEF Malformed
  <2>3. ds \in Seq(Delivery) /\ NoNames(ds) /\ Flows(ds) /\ NoNews(c, Terminate(k).ls)
    <3>1. handles' = Terminate(k).hs
      BY <1>2 DEF Malformed
    <3>2. Unsent
      BY <3>1, TerminateShrinks, ShrunkUnsent
    <3> QED BY <1>0, <2>1, <3>2, TerminateSays, MuteFlows
  <2>4. NoNews(dirty', listeners')
    BY <2>2, <2>3
  <2> QED BY <1>0, <2>2, <2>3, <2>4, SentAnnounces
<1> QED BY <1>1, <1>2

(* A request to open something during shutdown.                            *)
LEMMA RefuseAnnounces ==
  ASSUME AnsweredInv, NEW k \in Endpoints \X ClientIds, Refuse(k)
  PROVE  \E all : Announces(all)
<1>1. /\ UNCHANGED <<watches, listeners, dirty, handles>> /\ SendAll(<<FailedOpen(k)>>, Outboxes)
      /\ k \in Keys
  BY ClientKey DEF Refuse, registry
<1>2. NoNews(dirty', listeners')
  BY <1>1 DEF NoNews
<1>3. Unsent
  BY <1>1, ShrunkUnsent DEF Shrunk
<1> QED BY <1>1, <1>2, <1>3, RefusalSays, MuteFlows, SentAnnounces

(* A departing endpoint: its names are released, and the watches of others *)
(* are answered.                                                           *)
LEMMA DepartAnnounces ==
  ASSUME AnsweredInv, NEW e, Depart(e)
  PROVE  \E all : Announces(all)
<1>0. ChannelInv /\ FabricTypes
  BY DEF AnsweredInv, ChannelInv
<1>1. PICK own, sv, ls, ws, o :
        /\ own = Of(e, handles) /\ sv = {Partner(k) : k \in own} \ own
        /\ ls = Without(listeners, Of(e, listeners)) /\ ws = Without(watches, Of(e, watches))
        /\ o = Outboxes
  OBVIOUS
<1>c. PICK changed \in BOOLEAN : changed = (dirty \/ Of(e, listeners) # {})
  OBVIOUS
<1>2. listeners' = ls
  BY <1>1 DEF Depart
<1>3. PICK order \in SetToSeqs(sv) :
        Publish(ls, ws, changed,
                [i \in DOMAIN order |-> ClosedPair(order[i], handles[order[i]].pair)], o)
  BY <1>1, <1>c DEF Depart
<1>4. PICK ds : ds = [i \in DOMAIN order |-> ClosedPair(order[i], handles[order[i]].pair)]
  OBVIOUS
<1>5. \A h \in sv : h \in Keys /\ handles[h].pair \in Nat
  <2>1. \A k \in own : handles[k].peer \in DOMAIN handles
    BY <1>0, <1>1 DEF ChannelInv, FabricInv, HandlesArePaired, Of
  <2>2. \A h \in sv : h \in DOMAIN handles
    BY <1>1, <2>1 DEF Partner
  <2> QED BY <1>0, <2>2 DEF FabricTypes, RegistryTypes
<1>6. order \in Seq(sv)
  <2>1. sv \subseteq Keys
    BY <1>5
  <2> QED BY <2>1, OrderIsSequence
<1>7. PICK n \in Nat : n = Len(order)
  BY <1>6
<1>8. DOMAIN order = 1 .. n /\ \A i \in 1 .. n : order[i] \in sv
  BY <1>6, <1>7
<1>9. ASSUME NEW i \in 1 .. n
      PROVE  ds[i] \in Delivery /\ ds[i].frame.kind = "closed" /\ ds[i].frame.drain
  <2>1. PICK h, p : h = order[i] /\ p = handles[h].pair
    OBVIOUS
  <2>2. h \in Keys /\ p \in Nat
    BY <1>5, <1>8, <1>9, <2>1
  <2>3. PICK d : d = ClosedPair(h, p)
    OBVIOUS
  <2>4. d \in Delivery /\ d.frame.kind = "closed" /\ d.frame.drain
    BY <2>2, <2>3, ClosedPairIs
  <2>5. ds[i] = d
    BY <1>4, <1>8, <1>9, <2>1, <2>3
  <2> QED BY <2>4, <2>5
<1>10. ds \in Seq(Delivery) /\ Len(ds) = n
  <2>1. DOMAIN ds = 1 .. n /\ \A i \in 1 .. n : ds[i] \in Delivery
    BY <1>4, <1>8, <1>9
  <2>2. ds = [i \in 1 .. n |-> ds[i]]
    BY <1>4, <2>1
  <2> QED BY <2>1, <2>2
<1>11. NoNames(ds) /\ Flows(ds)
  <2>1. Mute(ds)
    BY <1>9, <1>10 DEF Mute, ClosedDrains
  <2> QED BY <1>9, <1>10, <2>1, DepartShrinks, ShrunkUnsent, MuteFlows DEF NoNames
<1>12. o \in Outbox /\ o.queue = queue /\ o.open \subseteq open
  BY <1>0, <1>1, OutboxesIs
<1>13. DOMAIN ws \subseteq DOMAIN watches /\ \A k \in DOMAIN ws : ws[k] = watches[k]
  BY <1>1 DEF Without
<1>14. NoNews(changed, listeners')
  <2>1. DOMAIN ls = DOMAIN listeners \ Of(e, listeners) /\ \A x \in DOMAIN ls : ls[x] = listeners[x]
    BY <1>1 DEF Without
  <2>2. CASE Of(e, listeners) # {}
    BY <1>c, <2>2 DEF NoNews
  <2>3. CASE Of(e, listeners) = {}
    <3>1. \A S : Present(ls, S) = Present(listeners, S)
      BY <2>1, <2>3 DEF Present
    <3>2. dirty => changed
      BY <1>c
    <3> QED BY <1>2, <3>1, <3>2 DEF NoNews
  <2> QED BY <2>2, <2>3
<1>15. Publish(listeners', ws, changed, ds, o)
  BY <1>2, <1>3, <1>4
<1>16. Plain(ws, changed, ds, o)
  BY <1>10, <1>11, <1>12, <1>13, <1>14, <1>15 DEF Plain
<1> QED BY <1>16, PlainAnnounces

(* Every request tells of the watches.                                     *)
LEMMA AskedAnnounces ==
  ASSUME AnsweredInv, Asked
  PROVE  \E all : Announces(all)
<1>1. ASSUME NEW k \in Endpoints \X ClientIds, NEW name \in Names, Listen(k, name)
      PROVE  \E all : Announces(all)
  BY <1>1, ListenAnnounces
<1>2. ASSUME NEW k \in Endpoints \X ClientIds, NEW name \in Names,
             NEW token \in 0..generation - 1, Connect(k, name, token)
      PROVE  \E all : Announces(all)
  BY <1>2, ConnectAnnounces
<1>3. ASSUME NEW k \in Endpoints \X ClientIds, NEW S \in NameSets, Watch(k, S)
      PROVE  \E all : Announces(all)
  BY <1>3, WatchAnnounces
<1>4. ASSUME NEW k \in Endpoints \X ClientIds, Unwatch(k)
      PROVE  \E all : Announces(all)
  BY <1>4, UnwatchAnnounces
<1>5. ASSUME NEW k \in Endpoints \X ClientIds, Refuse(k)
      PROVE  \E all : Announces(all)
  BY <1>5, RefuseAnnounces
<1>6. ASSUME NEW k \in Keys, NEW n \in Sizes, Data(k, n)
      PROVE  \E all : Announces(all)
  BY <1>6, DataAnnounces
<1>7. ASSUME NEW k \in Keys, NEW bytes \in 0..MaxSent, Ack(k, bytes)
      PROVE  \E all : Announces(all)
  BY <1>7, AckAnnounces
<1>8. ASSUME NEW k \in Keys, Close(k)
      PROVE  \E all : Announces(all)
  BY <1>8, TerminatedAnnounces DEF Close
<1>9. ASSUME NEW k \in Keys, NEW isOpen \in BOOLEAN, Malformed(k, isOpen)
      PROVE  \E all : Announces(all)
  BY <1>9, MalformedAnnounces
<1>10. ASSUME NEW e, Depart(e)
       PROVE  \E all : Announces(all)
  BY <1>10, DepartAnnounces
<1> QED BY <1>1, <1>2, <1>3, <1>4, <1>5, <1>6, <1>7, <1>8, <1>9, <1>10 DEF Asked

(* What a request tells is what its clients will know.                     *)
LEMMA RequestAnswers ==
  ASSUME TrafficTypes, TrafficTypes', UNCHANGED <<written, view>>, open' \subseteq open,
         \A k \in DOMAIN watches : WatchOK(k), NEW all, Announces(all),
         NEW k \in DOMAIN watches', k \in Keys
  PROVE  WatchOK(k)'
<1>1. PICK e, id, v, read : e = k[1] /\ id = k[2] /\ v = view[k] /\ read = Read(e)
  OBVIOUS
<1>2. PICK q, r, w, x : q = queue[e] /\ r = queue'[e] /\ w = Known(k) /\ x = Known(k)'
  OBVIOUS
<1>3. PICK P : P = watches'[k].published
  OBVIOUS
<1> SUFFICES ASSUME e \in open'
             PROVE  /\ dirty' \/ watches'[k].published = Present(listeners', watches'[k].names)
                    /\ WillKnow(k)'.names = P
  BY <1>1, <1>3 DEF WatchOK, Current
<1>4. /\ q \in Seq(FrameType) /\ v \in ViewType /\ read \in Nat /\ read =< Len(q)
      /\ e \in Endpoints /\ k = <<e, id>> /\ e \in open
  BY <1>1, <1>2, KnownOf
<1>5. r \in Seq(FrameType)
  BY <1>2, <1>4 DEF TrafficTypes, QueueType
<1>6. Brought(all, e, q, r)
  BY <1>2, <1>4 DEF Announces, Brings
<1>7. Begins(q, r)
  BY <1>6 DEF Brought
<1>8. PICK m : m = Len(q)
  OBVIOUS
<1>9. m \in Nat /\ read =< m /\ m =< Len(r)
  BY <1>4, <1>7, <1>8 DEF Begins
<1>10. Read(e)' = read /\ view'[k] = v
  BY <1>1 DEF Read
<1>11. x = Knowing(v, r, id, read)
  BY <1>1, <1>2, <1>10 DEF Known
<1>12. x[m] = w[m]
  <2>1. \A i \in 0 .. Len(q) : x[i] = w[i]
    BY <1>1, <1>2, <1>7, RequestKnows
  <2> QED BY <1>8, <1>9, <2>1
<1>13. /\ \A p \in 1 .. Len(all) : Key(all[p]) = k /\ all[p].frame.kind = "names"
                                   => all[p].frame.names = P
       /\ \/ k \in DOMAIN watches /\ watches[k].published = P
          \/ \E p \in 1 .. Len(all) : Key(all[p]) = k /\ all[p].frame.kind = "names"
       /\ dirty' \/ watches'[k].published = Present(listeners', watches'[k].names)
  BY <1>1, <1>3 DEF Announces, Tells
<1>14. ASSUME NEW i \in Answers(r, id, m) PROVE r[i].names = P
  <2>1. i \in Len(q) + 1 .. Len(r) /\ r[i].id = id /\ r[i].kind = "names"
    BY <1>8 DEF Answers
  <2>2. PICK p \in 1 .. Len(all) : all[p].ep = e /\ all[p].frame = r[i]
    BY <1>6, <2>1 DEF Brought
  <2>3. Key(all[p]) = k
    BY <1>4, <2>1, <2>2 DEF Key
  <2> QED BY <1>13, <2>1, <2>2, <2>3
<1>15. x[m].names = P \/ Answers(r, id, m) # {}
  <2>1. CASE k \in DOMAIN watches /\ watches[k].published = P
    <3>1. WillKnow(k).names = P
      BY <1>1, <1>4, <2>1 DEF WatchOK
    <3>2. WillKnow(k) = w[m]
      BY <1>1, <1>2, <1>8, WillIs DEF WillKnow
    <3> QED BY <1>12, <3>1, <3>2
  <2>2. ASSUME NEW p \in 1 .. Len(all), Key(all[p]) = k, all[p].frame.kind = "names"
        PROVE  Answers(r, id, m) # {}
    <3>1. all[p].ep = e /\ all[p].frame.id = id
      BY <1>4, <2>2 DEF Key
    <3>2. PICK i \in Len(q) + 1 .. Len(r) : r[i] = all[p].frame
      BY <1>6, <2>2, <3>1 DEF Brought
    <3>3. i \in Answers(r, id, m)
      BY <1>8, <2>2, <3>1, <3>2 DEF Answers
    <3> QED BY <3>3
  <2> QED BY <1>13, <2>1, <2>2
<1>16. x[Len(r)].names = P
  <2>1. AllSay(r, id, m, P)
    BY <1>14 DEF AllSay
  <2>2. v \in ViewType /\ read \in Nat
    BY <1>4
  <2> QED BY <1>5, <1>9, <1>11, <1>15, <2>1, <2>2, NamesEnd
<1>17. WillKnow(k)' = x[Len(r)]
  BY <1>1, <1>2 DEF WillKnow, Will, Known, Read
<1> QED BY <1>13, <1>16, <1>17

(* Every step keeps the watches answered.                                  *)
LEMMA AnsweredStep ==
  ASSUME AnsweredInv, [Next]_vars
  PROVE  AnsweredInv'
<1>1. ChannelInv'
  BY ChannelStep DEF AnsweredInv
<1>2. TrafficTypes /\ TrafficTypes' /\ WatchesType(watches) /\ WatchesType(watches')
  BY <1>1 DEF AnsweredInv, ChannelInv, FabricTypes
<1>3. ASSUME NEW k \in DOMAIN watches' PROVE WatchOK(k)'
  <2>1. k \in Keys
    BY <1>2 DEF WatchesType
  <2>2. k \in DOMAIN watches => WatchOK(k)
    BY DEF AnsweredInv
  <2>3. ASSUME Advances(k), UNCHANGED <<watches, listeners, dirty>>, open' \subseteq open
        PROVE  WatchOK(k)'
    <3>1. WillKnow(k)' = WillKnow(k)
      BY <2>3, AdvanceKeeps
    <3>2. Current(listeners, watches, k)' <=> Current(listeners, watches, k)
      BY <2>3 DEF Current
    <3>3. k[1] \in open' => /\ dirty' \/ Current(listeners', watches', k)
                            /\ WillKnow(k)'.names = watches'[k].published
      BY <2>2, <2>3, <3>1, <3>2 DEF WatchOK
    <3> QED BY <3>3 DEF WatchOK
  <2>4. CASE UNCHANGED <<alive, open, listeners, handles, watches, queue, written, view,
                         generation, nextId, pairs, dirty>>
    <3>1. PICK c : c = k[1]
      OBVIOUS
    <3>2. queue'[c] = queue[c] /\ written'[c] = written[c] /\ view'[k] = view[k]
      BY <2>4
    <3>3. Advances(k)
      BY <1>2, <2>1, <3>1, <3>2, IdleAdvances
    <3> QED BY <2>3, <2>4, <3>3
  <2>5. CASE Asked
    <3>1. PICK all : Announces(all)
      BY <2>5, AskedAnnounces
    <3>2. PICK ds : Effect(ds)
      BY <2>5, AskedEffect DEF AnsweredInv
    <3>3. UNCHANGED <<written, view>> /\ open' \subseteq open
      BY <3>2 DEF Effect, Queued
    <3>4. \A h \in DOMAIN watches : WatchOK(h)
      BY DEF AnsweredInv
    <3> QED BY <1>2, <1>3, <2>1, <3>1, <3>3, <3>4, RequestAnswers
  <2>6. ASSUME NEW e, Dropped(e) \/ Ended(e) \/ Received(e), UNCHANGED dirty
        PROVE  WatchOK(k)'
    <3>1. CASE Ended(e) /\ k[1] = e
      BY <3>1 DEF Ended, WatchOK
    <3>2. CASE ~(Ended(e) /\ k[1] = e)
      <4>1. Advances(k)
        BY <1>2, <2>1, <2>6, <3>2, WriterAdvances
      <4>2. UNCHANGED <<watches, listeners>> /\ open' \subseteq open
        BY <2>6 DEF Dropped, Ended, Received
      <4> QED BY <2>3, <2>6, <4>1, <4>2
    <3> QED BY <3>1, <3>2
  <2> QED BY <2>4, <2>5, <2>6, NextIs
<1> QED BY <1>1, <1>3 DEF AnsweredInv

(* The inductive invariant holds throughout.                               *)
LEMMA AnsweredInvariant == Spec => []AnsweredInv
<1>1. Init => AnsweredInv
  BY ChannelInit DEF Init, AnsweredInv
<1>2. AnsweredInv /\ [Next]_vars => AnsweredInv'
  BY AnsweredStep
<1>. QED BY <1>1, <1>2, PTL DEF Spec

(* Every watch is answered: it has been told the names as they are, but    *)
(* for a release that waits for the next request to publish it, and no     *)
(* answer is lost, repeated or overtaken on the way to its client.         *)
THEOREM AnswersReachWatches == Spec => []WatchesAreAnswered
<1>1. AnsweredInv => WatchesAreAnswered
  BY DEF AnsweredInv, WatchOK, Current, WatchesAreAnswered
<1>. QED BY AnsweredInvariant, <1>1, PTL

-----------------------------------------------------------------------------
(* What streams carry.                                                     *)

(* The boundaries of unacknowledged messages ascend from what was          *)
(* acknowledged to what was sent.                                          *)
BoundsOK(h) ==
  /\ h.bounds \in Seq(Nat) /\ Len(h.bounds) =< MaxUnconsumed
  /\ \A i \in 1 .. Len(h.bounds) : h.acked < h.bounds[i] /\ h.bounds[i] =< h.sent
  /\ \A i, j \in 1 .. Len(h.bounds) : i < j => h.bounds[i] < h.bounds[j]
  /\ IF Len(h.bounds) = 0 THEN h.acked = h.sent ELSE h.bounds[Len(h.bounds)] = h.sent

(* A message in credit adds one.                                           *)
LEMMA SentBounds ==
  ASSUME NEW h, BoundsOK(h), h.sent \in Nat, h.acked \in Nat, h.acked =< h.sent,
         NEW n \in Sizes, InCredit(h, n)
  PROVE  BoundsOK(Sent(h, n))
<1>1. n \in Nat /\ n > 0 /\ MaxUnconsumed \in Nat
  <2>1. n \in 1 .. Window /\ Window \in Nat /\ MaxUnconsumed \in Nat
    BY ChannelAssumption DEF ChannelAssumption
  <2> QED BY <2>1
<1>2. PICK B, l, s, a : B = h.bounds /\ l = Len(h.bounds) /\ s = h.sent /\ a = h.acked
  OBVIOUS
<1>3. /\ B \in Seq(Nat) /\ l = Len(B) /\ l \in Nat /\ s \in Nat /\ a \in Nat /\ a =< s
      /\ l < MaxUnconsumed
      /\ \A i \in 1 .. l : a < B[i] /\ B[i] =< s
      /\ \A i, j \in 1 .. l : i < j => B[i] < B[j]
  BY <1>2 DEF BoundsOK, InCredit
<1>4. PICK C : C = Append(B, s + n)
  OBVIOUS
<1>5. PICK t : t = s + n
  OBVIOUS
<1>6. t \in Nat /\ s < t
  BY <1>1, <1>3, <1>5
<1>7. /\ C \in Seq(Nat) /\ Len(C) = l + 1 /\ C[l + 1] = t
      /\ \A i \in 1 .. l : C[i] = B[i]
  BY <1>3, <1>4, <1>5, <1>6
<1>8. \A i \in 1 .. l : B[i] \in Nat
  BY <1>3
<1>9. \A i \in 1 .. l + 1 : a < C[i] /\ C[i] =< t
  <2>1. ASSUME NEW i \in 1 .. l + 1 PROVE a < C[i] /\ C[i] =< t
    <3>1. CASE i = l + 1
      BY <1>3, <1>6, <1>7, <3>1
    <3>2. CASE i # l + 1
      <4>1. i \in 1 .. l
        BY <1>3, <3>2
      <4> QED BY <1>3, <1>6, <1>7, <1>8, <4>1
    <3> QED BY <3>1, <3>2
  <2> QED BY <2>1
<1>10. \A i, j \in 1 .. l + 1 : i < j => C[i] < C[j]
  <2>1. ASSUME NEW i \in 1 .. l + 1, NEW j \in 1 .. l + 1, i < j PROVE C[i] < C[j]
    <3>1. i \in 1 .. l
      BY <1>3, <2>1
    <3>2. CASE j = l + 1
      BY <1>3, <1>6, <1>7, <1>8, <3>1, <3>2
    <3>3. CASE j # l + 1
      <4>1. j \in 1 .. l
        BY <1>3, <3>3
      <4> QED BY <1>3, <1>7, <2>1, <3>1, <4>1
    <3> QED BY <3>2, <3>3
  <2> QED BY <2>1
<1>11. PICK g : g = Sent(h, n)
  OBVIOUS
<1>12. g.bounds = C /\ g.acked = a /\ g.sent = t
  BY <1>2, <1>4, <1>5, <1>11 DEF Sent
<1>13. l + 1 =< MaxUnconsumed /\ l + 1 # 0
  BY <1>1, <1>3
<1>14. BoundsOK(g)
  BY <1>7, <1>9, <1>10, <1>12, <1>13 DEF BoundsOK
<1> QED BY <1>11, <1>14

(* An acknowledgement of a boundary, or of nothing new, pops the           *)
(* boundaries up to it.                                                    *)
LEMMA ConsumedIs ==
  ASSUME NEW B \in Seq(Nat), NEW a \in Nat, NEW b \in Nat,
         \A i \in 1 .. Len(B) : a < B[i],
         \A i, j \in 1 .. Len(B) : i < j => B[i] < B[j],
         b = a \/ \E i \in 1 .. Len(B) : B[i] = b
  PROVE  LET n == Consumed(B, b) IN
         /\ n \in 0 .. Len(B) /\ \A i \in 1 .. n : B[i] =< b
         /\ n < Len(B) => B[n + 1] > b
<1>1. PICK l : l = Len(B)
  OBVIOUS
<1>2. l \in Nat /\ \A i \in 1 .. l : B[i] \in Nat
  BY <1>1
<1>3. \E n \in 0 .. l : (\A i \in 1 .. n : B[i] =< b) /\ (n < l => B[n + 1] > b)
  <2>1. CASE b = a
    <3>1. 0 < l => B[0 + 1] > b
      BY <1>1, <1>2, <2>1
    <3>2. \A i \in 1 .. 0 : B[i] =< b
      OBVIOUS
    <3> QED BY <1>2, <3>1, <3>2
  <2>2. ASSUME NEW j \in 1 .. l, B[j] = b
        PROVE  \E n \in 0 .. l : (\A i \in 1 .. n : B[i] =< b) /\ (n < l => B[n + 1] > b)
    <3>1. j \in 0 .. l
      BY <1>2
    <3>2. \A i \in 1 .. j : B[i] =< b
      <4>1. ASSUME NEW i \in 1 .. j PROVE B[i] =< b
        <5>1. i \in 1 .. l /\ (i = j \/ i < j)
          BY <1>2
        <5> QED BY <1>1, <1>2, <2>2, <5>1
      <4> QED BY <4>1
    <3>3. j < l => B[j + 1] > b
      <4>1. ASSUME j < l PROVE B[j + 1] > b
        <5>1. j + 1 \in 1 .. l /\ j < j + 1
          BY <1>2, <4>1
        <5> QED BY <1>1, <1>2, <2>2, <5>1
      <4> QED BY <4>1
    <3> QED BY <3>1, <3>2, <3>3
  <2> QED BY <1>1, <2>1, <2>2
<1> QED BY <1>1, <1>3 DEF Consumed

(* The rest still ascends from what is acknowledged to what was sent.      *)
LEMMA AckedBounds ==
  ASSUME NEW h, BoundsOK(h), h.sent \in Nat, h.acked \in Nat, h.acked =< h.sent,
         NEW b \in Nat, AckIsValid(h, b)
  PROVE  BoundsOK(Acked(h, b))
<1>1. PICK B, l, s, a : B = h.bounds /\ l = Len(h.bounds) /\ s = h.sent /\ a = h.acked
  OBVIOUS
<1>2. /\ B \in Seq(Nat) /\ l = Len(B) /\ l \in Nat /\ s \in Nat /\ a \in Nat /\ a =< s
      /\ l =< MaxUnconsumed
      /\ \A i \in 1 .. l : a < B[i] /\ B[i] =< s
      /\ \A i, j \in 1 .. l : i < j => B[i] < B[j]
      /\ IF l = 0 THEN a = s ELSE B[l] = s
  BY <1>1 DEF BoundsOK
<1>3. /\ b = a \/ \E i \in 1 .. l : B[i] = b
      /\ b =< s
  BY <1>1, <1>2 DEF AckIsValid, Contains
<1>4. PICK n : n = Consumed(B, b)
  OBVIOUS
<1>5. n \in 0 .. l /\ (\A i \in 1 .. n : B[i] =< b) /\ (n < l => B[n + 1] > b)
  <2>1. \A i \in 1 .. l : a < B[i]
    BY <1>2
  <2>2. \A i, j \in 1 .. l : i < j => B[i] < B[j]
    BY <1>2
  <2> QED BY <1>2, <1>3, <1>4, <2>1, <2>2, ConsumedIs
<1>6. PICK C, m : C = SubSeq(B, n + 1, l) /\ m = l - n
  OBVIOUS
<1>7. m \in Nat /\ \A i \in 1 .. l : B[i] \in Nat
  BY <1>2, <1>5, <1>6
<1>8. \A i \in 1 .. m : n + i \in 1 .. l
  BY <1>2, <1>5, <1>6
<1>9. C \in Seq(Nat) /\ Len(C) = m /\ \A i \in 1 .. m : C[i] = B[n + i]
  <2>1. n + 1 \in Nat /\ n + 1 >= 1 /\ n + 1 =< l + 1
    BY <1>2, <1>5
  <2> QED BY <1>2, <1>5, <1>6, <1>7, <2>1
<1>10. \A i \in 1 .. m : b < C[i] /\ C[i] =< s
  <2>1. ASSUME NEW i \in 1 .. m PROVE b < C[i] /\ C[i] =< s
    <3>1. n < l /\ n + 1 \in 1 .. l /\ (i = 1 \/ n + 1 < n + i)
      <4>1. n \in Nat /\ n =< l /\ i \in Nat /\ 1 =< i /\ i =< m
        BY <1>2, <1>5, <1>7
      <4>2. n < l
        BY <1>2, <1>6, <4>1
      <4> QED BY <1>2, <4>1, <4>2
    <3>2. C[i] = B[n + i] /\ n + i \in 1 .. l
      BY <1>8, <1>9
    <3>3. B[n + 1] =< B[n + i]
      <4>1. CASE i = 1
        BY <1>7, <3>1, <4>1
      <4>2. CASE n + 1 < n + i
        <5>1. B[n + 1] < B[n + i]
          BY <1>2, <3>1, <3>2, <4>2
        <5> QED BY <1>7, <3>1, <3>2, <5>1
      <4> QED BY <3>1, <4>1, <4>2
    <3>4. b < B[n + 1]
      BY <1>5, <1>7, <3>1
    <3> QED BY <1>2, <1>7, <3>1, <3>2, <3>3, <3>4
  <2> QED BY <2>1
<1>11. \A i, j \in 1 .. m : i < j => C[i] < C[j]
  <2>1. ASSUME NEW i \in 1 .. m, NEW j \in 1 .. m, i < j PROVE C[i] < C[j]
    <3>1. n + i < n + j
      BY <1>2, <1>5, <1>7, <2>1
    <3>2. n + i \in 1 .. l /\ n + j \in 1 .. l
      BY <1>8
    <3>3. B[n + i] < B[n + j]
      BY <1>2, <3>1, <3>2
    <3> QED BY <1>9, <3>3
  <2> QED BY <2>1
<1>12. IF m = 0 THEN b = s ELSE C[m] = s
  <2>1. CASE m = 0
    <3>1. n = l
      BY <1>2, <1>5, <1>6, <2>1
    <3>2. CASE l = 0
      BY <1>2, <1>3, <2>1, <3>2
    <3>3. CASE l # 0
      <4>1. l \in 1 .. n /\ B[l] = s
        BY <1>2, <3>1, <3>3
      <4>2. s =< b
        BY <1>5, <4>1
      <4> QED BY <1>2, <1>3, <2>1, <4>2
    <3> QED BY <2>1, <3>2, <3>3
  <2>2. CASE m # 0
    <3>1. m \in 1 .. m /\ n + m = l /\ l # 0
      BY <1>2, <1>5, <1>6, <1>7, <2>2
    <3> QED BY <1>2, <1>9, <2>2, <3>1
  <2> QED BY <2>1, <2>2
<1>13. m =< MaxUnconsumed
  <2>1. MaxUnconsumed \in Nat
    BY ChannelAssumption DEF ChannelAssumption
  <2> QED BY <1>2, <1>5, <1>6, <2>1
<1>14. PICK g : g = Acked(h, b)
  OBVIOUS
<1>15. g.bounds = C /\ g.acked = b /\ g.sent = s
  BY <1>1, <1>4, <1>6, <1>14 DEF Acked
<1>16. BoundsOK(g)
  BY <1>9, <1>10, <1>11, <1>12, <1>13, <1>15 DEF BoundsOK
<1> QED BY <1>14, <1>16

(* What a request makes of a handle: it is new, as it was, in credit for a *)
(* message, or given back what its peer had the right to acknowledge.      *)
Acknowledged(h, b) ==
  /\ AckIsValid(h, b)
  /\ h.peer[1] \in Honest => view[h.peer].of = h.pair /\ b =< view[h.peer].got

Moved(k) ==
  \/ /\ k \notin DOMAIN handles
     /\ \E r, p : p \in Nat \ {0} /\ handles'[k] = NewHandle(r, p)
  \/ k \in DOMAIN handles /\ handles'[k] = handles[k]
  \/ /\ k \in DOMAIN handles
     /\ \E n \in Sizes : InCredit(handles[k], n) /\ handles'[k] = Sent(handles[k], n)
  \/ /\ k \in DOMAIN handles
     /\ \E b \in Nat : Acknowledged(handles[k], b) /\ handles'[k] = Acked(handles[k], b)

AllMoved == \A k \in DOMAIN handles' : Moved(k)

(* Handles that are as they were.                                          *)
LEMMA ShrunkMoved == Shrunk => AllMoved
BY DEF Shrunk, AllMoved, Moved

(* CONNECT adds two.                                                       *)
LEMMA CommitMoves ==
  ASSUME FabricTypes, NEW k, NEW a, NEW o, Commit(k, a, o),
         k \notin DOMAIN handles, a \notin DOMAIN handles
  PROVE  AllMoved
<1>1. PICK p : p = Len(pairs) + 1
  OBVIOUS
<1>2. p \in Nat \ {0}
  <2>1. Len(pairs) \in Nat
    BY DEF FabricTypes, RegistryTypes
  <2> QED BY <1>1, <2>1
<1>3. PICK m, n : m = NewHandle(a, p) /\ n = NewHandle(k, p)
  OBVIOUS
<1>4. handles' = With(With(handles, k, m), a, n)
  BY <1>1, <1>3 DEF Commit
<1>5. ASSUME NEW h \in DOMAIN handles'
      PROVE  \/ h \in DOMAIN handles /\ handles'[h] = handles[h]
             \/ h \notin DOMAIN handles /\ handles'[h] \in {m, n}
  BY <1>4, <1>5 DEF With
<1> QED BY <1>2, <1>3, <1>5 DEF AllMoved, Moved

(* DATA in credit and ACK of a boundary update one handle.                 *)
LEMMA UpdateMoves ==
  ASSUME NEW k \in DOMAIN handles, NEW h, handles' = [handles EXCEPT ![k] = h], Moved(k)
  PROVE  AllMoved
BY DEF AllMoved, Moved

(* Every request moves the handles so.                                     *)
LEMMA AskedMoves ==
  ASSUME ChannelInv, Asked
  PROVE  AllMoved
<1>0. FabricTypes
  BY DEF ChannelInv
<1>s. UNCHANGED handles => AllMoved
  BY ShrunkMoved DEF Shrunk
<1>1. ASSUME NEW k \in Endpoints \X ClientIds, NEW name \in Names, Listen(k, name)
      PROVE  AllMoved
  BY <1>1, <1>s DEF Listen
<1>2. ASSUME NEW k \in Endpoints \X ClientIds, NEW name \in Names,
             NEW token \in 0..generation - 1, Connect(k, name, token)
      PROVE  AllMoved
  BY <1>0, <1>2, <1>s, ConnectIs, CommitMoves
<1>3. ASSUME NEW k \in Endpoints \X ClientIds, NEW S \in NameSets, Watch(k, S)
      PROVE  AllMoved
  BY <1>3, <1>s DEF Watch
<1>4. ASSUME NEW k \in Endpoints \X ClientIds, Unwatch(k)
      PROVE  AllMoved
  BY <1>4, <1>s DEF Unwatch
<1>5. ASSUME NEW k \in Endpoints \X ClientIds, Refuse(k)
      PROVE  AllMoved
  BY <1>5, <1>s DEF Refuse, registry
<1>t. \A k : Terminated(k) => AllMoved
  BY TerminateShrinks, ShrunkMoved DEF Terminated
<1>6. ASSUME NEW k \in Keys, NEW n \in Sizes, Data(k, n)
      PROVE  AllMoved
  <2>1. CASE k \in DOMAIN handles /\ InCredit(handles[k], n)
    <3>1. handles' = [handles EXCEPT ![k] = Sent(handles[k], n)]
      BY <1>6, <2>1 DEF Data
    <3>2. Moved(k)
      BY <1>6, <2>1, <3>1 DEF Moved
    <3> QED BY <2>1, <3>1, <3>2, UpdateMoves
  <2>2. CASE ~(k \in DOMAIN handles /\ InCredit(handles[k], n))
    BY <1>6, <1>t, <2>2 DEF Data
  <2> QED BY <2>1, <2>2
<1>7. ASSUME NEW k \in Keys, NEW b \in 0..MaxSent, Ack(k, b)
      PROVE  AllMoved
  <2>1. CASE k \in DOMAIN handles /\ AckIsValid(handles[Partner(k)], b)
    <3>1. PICK p : p = Partner(k)
      OBVIOUS
    <3>2. handles' = [handles EXCEPT ![p] = Acked(handles[p], b)]
      BY <1>7, <2>1, <3>1 DEF Ack
    <3>3. p \in DOMAIN handles /\ handles[p].peer = k /\ handles[p].pair = handles[k].pair
      BY <2>1, <3>1 DEF ChannelInv, FabricInv, HandlesArePaired, Partner
    <3>4. k[1] \in Honest => view[k].of = handles[k].pair /\ b =< view[k].got
      BY <1>7 DEF Ack
    <3>5. Acknowledged(handles[p], b)
      BY <2>1, <3>1, <3>3, <3>4 DEF Acknowledged
    <3>6. b \in Nat
      BY <1>7, ChannelAssumption DEF ChannelAssumption
    <3>7. handles'[p] = Acked(handles[p], b)
      BY <3>2, <3>3
    <3>8. Moved(p)
      BY <3>3, <3>5, <3>6, <3>7 DEF Moved
    <3> QED BY <3>2, <3>3, <3>8, UpdateMoves
  <2>2. CASE ~(k \in DOMAIN handles /\ AckIsValid(handles[Partner(k)], b))
    BY <1>7, <1>t, <2>2 DEF Ack
  <2> QED BY <2>1, <2>2
<1>8. ASSUME NEW k \in Keys, Close(k)
      PROVE  AllMoved
  BY <1>8, <1>t DEF Close
<1>9. ASSUME NEW k \in Keys, NEW isOpen \in BOOLEAN, Malformed(k, isOpen)
      PROVE  AllMoved
  <2>1. handles' = handles \/ handles' = Terminate(k).hs
    BY <1>9 DEF Malformed
  <2> QED BY <1>s, <2>1, TerminateShrinks, ShrunkMoved
<1>10. ASSUME NEW e, Depart(e)
       PROVE  AllMoved
  BY <1>10, DepartShrinks, ShrunkMoved
<1> QED BY <1>1, <1>2, <1>3, <1>4, <1>5, <1>6, <1>7, <1>8, <1>9, <1>10 DEF Asked

(* A frame tells how much was received: a message adds, and a channel that *)
(* begins or ends starts from nothing.                                     *)
LEMMA SeenGot ==
  ASSUME NEW v \in ViewType, NEW f \in FrameType
  PROVE  Seen(v, f).got = IF f.kind \in Opens \cup {"closed"} THEN 0
                          ELSE IF f.kind = "data" THEN v.got + f.n ELSE v.got
<1>1. CASE f.kind \in Opens
  <2>1. Seen(v, f) = [v EXCEPT !.of = f.of, !.got = 0]
    BY <1>1 DEF Seen, Opens
  <2> QED BY <1>1, <2>1 DEF ViewType
<1>2. CASE f.kind = "data"
  <2>1. Seen(v, f) = [v EXCEPT !.got = v.got + f.n]
    BY <1>2 DEF Seen
  <2> QED BY <1>2, <2>1 DEF ViewType, Opens
<1>3. CASE f.kind = "closed"
  <2>1. Seen(v, f) = [v EXCEPT !.of = 0, !.got = 0]
    BY <1>3 DEF Seen
  <2> QED BY <1>3, <2>1 DEF ViewType
<1>4. CASE f.kind = "names"
  <2>1. Seen(v, f) = [v EXCEPT !.names = f.names]
    BY <1>4 DEF Seen
  <2> QED BY <1>4, <2>1 DEF ViewType, Opens
<1>5. CASE f.kind \notin {"opened", "accepted", "data", "closed", "names"}
  <2>1. Seen(v, f) = v
    BY <1>5 DEF Seen
  <2> QED BY <1>5, <2>1 DEF Opens
<1> QED BY <1>1, <1>2, <1>3, <1>4, <1>5 DEF Opens

(* None of some frames begins or ends a channel of the id, or carries.     *)
Still(q, id, m, n) ==
  \A i \in m + 1 .. n : q[i].id = id => q[i].kind \notin Opens \cup {"closed", "data"}

(* Such frames leave what the client has received.                         *)
LEMMA GotStays ==
  ASSUME NEW q \in Seq(FrameType), NEW v \in ViewType, NEW id, NEW read \in Nat,
         NEW w, w = Knowing(v, q, id, read),
         NEW m \in Nat, NEW n \in Nat, read =< m, m =< n, n =< Len(q),
         Still(q, id, m, n)
  PROVE  w[n].got = w[m].got
<1>1. PICK l \in Nat : n = m + l
  <2>1. n - m \in Nat /\ n = m + (n - m)
    OBVIOUS
  <2> QED BY <2>1
<1>2. Len(q) \in Nat /\ \A i \in 1 .. Len(q) : q[i] \in FrameType
  OBVIOUS
<1>3. \A i \in 0 .. Len(q) : w[i] \in ViewType /\ w[i] = NextKnown(w, v, q, id, read, i)
  BY KnowingTypes
<1> DEFINE S == {i \in 0 .. l : w[m + i].got = w[m].got}
<1>4. 0 \in S
  BY <1>1
<1>5. ASSUME NEW i \in 1 .. l, i - 1 \in S PROVE i \in S
  <2>1. PICK j : j = m + i
    OBVIOUS
  <2>2. /\ j \in m + 1 .. n /\ j \in 1 .. Len(q) /\ j - 1 \in 0 .. Len(q) /\ j \in 0 .. Len(q)
        /\ ~(j =< read) /\ j - 1 = m + (i - 1)
    BY <1>1, <1>2, <2>1
  <2>3. w[j - 1].got = w[m].got /\ w[j - 1] \in ViewType /\ q[j] \in FrameType
    BY <1>2, <1>3, <1>5, <2>2
  <2>4. w[j] = IF q[j].id = id THEN Seen(w[j - 1], q[j]) ELSE w[j - 1]
    BY <1>3, <2>2 DEF NextKnown
  <2>5. q[j].id = id => Seen(w[j - 1], q[j]).got = w[j - 1].got
    BY <2>2, <2>3, SeenGot DEF Still
  <2> QED BY <2>1, <2>3, <2>4, <2>5
<1>6. 0 .. l \subseteq S
  <2> HIDE DEF S
  <2> QED BY <1>4, <1>5, UpTo
<1>7. l \in S
  BY <1>6
<1> QED BY <1>1, <1>7

(* One frame of the id that begins a channel or carries.                   *)
LEMMA GotOf ==
  ASSUME NEW q \in Seq(FrameType), NEW v \in ViewType, NEW id, NEW read \in Nat,
         NEW w, w = Knowing(v, q, id, read),
         NEW i \in 1 .. Len(q), ~(i =< read), q[i].id = id
  PROVE  w[i].got = IF q[i].kind \in Opens \cup {"closed"} THEN 0
                    ELSE IF q[i].kind = "data" THEN w[i - 1].got + q[i].n ELSE w[i - 1].got
<1>1. Len(q) \in Nat /\ q[i] \in FrameType
  OBVIOUS
<1>2. i \in 0 .. Len(q) /\ i - 1 \in 0 .. Len(q)
  BY <1>1
<1>3. \A j \in 0 .. Len(q) : w[j] \in ViewType /\ w[j] = NextKnown(w, v, q, id, read, j)
  BY KnowingTypes
<1>4. w[i - 1] \in ViewType /\ w[i] = Seen(w[i - 1], q[i])
  BY <1>2, <1>3 DEF NextKnown
<1> QED BY <1>1, <1>4, SeenGot

(* A handle belongs to a pair, and its boundaries are in order.            *)
Held(h) == h.pair \in Nat \ {0} /\ BoundsOK(h)

(* Its client will know what was sent on it.                               *)
Arrives(k) == handles[k].peer[1] \in open => WillKnow(handles[k].peer).got = handles[k].sent

(* An honest client has acknowledged what it received, on this channel.    *)
Due(k) ==
  LET h == handles[k]
      r == handles[k].peer
  IN  r[1] \in Honest \cap open =>
        h.acked =< view[r].got /\ (h.acked = 0 \/ view[r].of = h.pair)

(* Requests keep a handle in order.                                        *)
LEMMA MovedHeld ==
  ASSUME ChannelInv, NEW k, Moved(k), k \in DOMAIN handles => Held(handles[k])
  PROVE  Held(handles'[k])
<1>1. ASSUME NEW r, NEW p \in Nat \ {0}, handles'[k] = NewHandle(r, p)
      PROVE  Held(handles'[k])
  <2>1. PICK h : h = NewHandle(r, p)
    OBVIOUS
  <2>2. h.pair = p /\ h.bounds = <<>> /\ h.acked = 0 /\ h.sent = 0
    BY <2>1 DEF NewHandle
  <2>3. <<>> \in Seq(Nat) /\ Len(<<>>) = 0 /\ 0 =< MaxUnconsumed
    BY ChannelAssumption DEF ChannelAssumption
  <2> QED BY <1>1, <2>1, <2>2, <2>3 DEF Held, BoundsOK
<1> SUFFICES ASSUME k \in DOMAIN handles
             PROVE  Held(handles'[k])
  BY <1>1 DEF Moved
<1>2. PICK h : h = handles[k]
  OBVIOUS
<1>3. Held(h) /\ h.sent \in Nat /\ h.acked \in Nat /\ h.acked =< h.sent
  BY <1>2 DEF ChannelInv, FabricInv, HandleInv
<1>4. ASSUME NEW n \in Sizes, InCredit(h, n), handles'[k] = Sent(h, n)
      PROVE  Held(handles'[k])
  <2>1. BoundsOK(Sent(h, n))
    BY <1>3, <1>4, SentBounds DEF Held
  <2>2. Sent(h, n).pair = h.pair
    BY DEF Sent
  <2> QED BY <1>3, <1>4, <2>1, <2>2 DEF Held
<1>5. ASSUME NEW b \in Nat, Acknowledged(h, b), handles'[k] = Acked(h, b)
      PROVE  Held(handles'[k])
  <2>1. BoundsOK(Acked(h, b))
    BY <1>3, <1>5, AckedBounds DEF Held, Acknowledged
  <2>2. Acked(h, b).pair = h.pair
    BY DEF Acked
  <2> QED BY <1>3, <1>5, <2>1, <2>2 DEF Held
<1> QED BY <1>2, <1>3, <1>4, <1>5 DEF Moved

(* And what honest clients acknowledged.                                   *)
LEMMA MovedDue ==
  ASSUME TrafficTypes, open' \subseteq open, view' = view, NEW k, Moved(k),
         k \in DOMAIN handles => Due(k), handles'[k].peer \in Keys
  PROVE  Due(k)'
<1>1. PICK g, r : g = handles'[k] /\ r = g.peer
  OBVIOUS
<1>2. PICK v : v = view[r]
  OBVIOUS
<1> SUFFICES ASSUME r[1] \in Honest \cap open
             PROVE  g.acked =< v.got /\ (g.acked = 0 \/ v.of = g.pair)
  BY <1>1, <1>2 DEF Due
<1>3. v.got \in Nat
  BY <1>1, <1>2 DEF TrafficTypes, ViewType
<1>4. ASSUME NEW s, NEW p, g = NewHandle(s, p)
      PROVE  g.acked =< v.got /\ (g.acked = 0 \/ v.of = g.pair)
  <2>1. g.acked = 0
    BY <1>4 DEF NewHandle
  <2> QED BY <1>3, <2>1
<1>5. ASSUME k \in DOMAIN handles, NEW h, h = handles[k],
             h.peer = r, h.pair = g.pair,
             h.acked = g.acked \/ (g.acked =< v.got /\ (r[1] \in Honest => v.of = h.pair))
      PROVE  g.acked =< v.got /\ (g.acked = 0 \/ v.of = g.pair)
  <2>1. h.acked =< v.got /\ (h.acked = 0 \/ v.of = h.pair)
    BY <1>2, <1>5 DEF Due
  <2> QED BY <1>5, <2>1
<1>6. ASSUME k \in DOMAIN handles, NEW b \in Nat, Acknowledged(handles[k], b),
             g = Acked(handles[k], b)
      PROVE  g.acked =< v.got /\ (g.acked = 0 \/ v.of = g.pair)
  <2>1. PICK h : h = handles[k]
    OBVIOUS
  <2>2. h.peer = g.peer /\ h.pair = g.pair /\ g.acked = b
    BY <1>6, <2>1 DEF Acked
  <2>3. r[1] \in Honest => v.of = h.pair /\ b =< v.got
    BY <1>1, <1>2, <1>6, <2>1, <2>2 DEF Acknowledged
  <2> QED BY <1>1, <1>5, <1>6, <2>1, <2>2, <2>3
<1>7. ASSUME NEW n, g = Sent(handles[k], n)
      PROVE  g.peer = handles[k].peer /\ g.pair = handles[k].pair /\ g.acked = handles[k].acked
  BY <1>7 DEF Sent
<1>8. CASE k \in DOMAIN handles /\ g = handles[k]
  BY <1>1, <1>5, <1>8
<1>9. ASSUME NEW n, k \in DOMAIN handles, g = Sent(handles[k], n)
      PROVE  g.acked =< v.got /\ (g.acked = 0 \/ v.of = g.pair)
  BY <1>1, <1>5, <1>7, <1>9
<1> QED BY <1>1, <1>4, <1>6, <1>8, <1>9 DEF Moved

(* Of the frames of the id behind the first m, only the i-th may begin or  *)
(* end a channel, or carry.                                                *)
Alone(q, id, m, i) ==
  \A j \in m + 1 .. Len(q) :
    q[j].id = id /\ j # i => q[j].kind \notin Opens \cup {"closed", "data"}

(* Then it decides what the client will have received.                     *)
LEMMA GotAlone ==
  ASSUME NEW q \in Seq(FrameType), NEW v \in ViewType, NEW id, NEW read \in Nat,
         NEW w, w = Knowing(v, q, id, read),
         NEW m \in Nat, read =< m, NEW i \in m + 1 .. Len(q), q[i].id = id, Alone(q, id, m, i)
  PROVE  w[Len(q)].got = IF q[i].kind \in Opens \cup {"closed"} THEN 0
                         ELSE IF q[i].kind = "data" THEN w[m].got + q[i].n ELSE w[m].got
<1>1. PICK n : n = Len(q)
  OBVIOUS
<1>2. n \in Nat /\ n =< Len(q)
  BY <1>1
<1>3. PICK j : j = i - 1
  OBVIOUS
<1>4. i \in Nat /\ j \in Nat /\ i \in 1 .. Len(q) /\ ~(i =< read) /\ read =< i /\ i =< n
  BY <1>1, <1>2, <1>3
<1>5. m =< j /\ j =< Len(q)
  BY <1>1, <1>2, <1>3
<1>6. w[n].got = w[i].got
  <2>1. Still(q, id, i, n)
    <3>1. ASSUME NEW l \in i + 1 .. n PROVE l \in m + 1 .. Len(q) /\ l # i
      BY <1>1, <1>2, <1>4
    <3> QED BY <3>1 DEF Still, Alone
  <2> QED BY <1>2, <1>4, <2>1, GotStays
<1>7. w[j].got = w[m].got
  <2>1. Still(q, id, m, j)
    <3>1. ASSUME NEW l \in m + 1 .. j PROVE l \in m + 1 .. Len(q) /\ l # i
      BY <1>2, <1>1, <1>3, <1>4
    <3> QED BY <3>1 DEF Still, Alone
  <2> QED BY <1>4, <1>5, <2>1, GotStays
<1>8. w[i].got = IF q[i].kind \in Opens \cup {"closed"} THEN 0
                 ELSE IF q[i].kind = "data" THEN w[i - 1].got + q[i].n ELSE w[i - 1].got
  BY <1>4, GotOf
<1> QED BY <1>1, <1>3, <1>6, <1>7, <1>8

(* A handle that a request leaves keeps its peer and its pair.             *)
LEMMA MovedSame ==
  ASSUME NEW k \in DOMAIN handles, Moved(k)
  PROVE  handles'[k].peer = handles[k].peer /\ handles'[k].pair = handles[k].pair
<1>1. \A h, n : Sent(h, n).peer = h.peer /\ Sent(h, n).pair = h.pair
  BY DEF Sent
<1>2. \A h, n : Acked(h, n).peer = h.peer /\ Acked(h, n).pair = h.pair
  BY DEF Acked
<1> QED BY <1>1, <1>2 DEF Moved

(* What a request sends on a handle is what its client will receive.       *)
LEMMA RequestCarries ==
  ASSUME ChannelInv, ChannelInv', NEW ds, Effect(ds), NEW all, Announces(all),
         NEW k \in DOMAIN handles', Moved(k),
         k \in DOMAIN handles => Held(handles[k]) /\ Arrives(k)
  PROVE  Arrives(k)'
<1>1. PICK r, s : r = handles'[k].peer /\ s = handles'[k].sent
  OBVIOUS
<1>2. PICK e, id : e = r[1] /\ id = r[2]
  OBVIOUS
<1> SUFFICES ASSUME e \in open'
             PROVE  WillKnow(r)'.got = s
  BY <1>1, <1>2 DEF Arrives
<1>3. TrafficTypes /\ TrafficTypes'
  BY DEF ChannelInv, FabricTypes
<1>4. r \in Keys /\ r \in DOMAIN handles' /\ handles'[r].pair = handles'[k].pair
  BY <1>1 DEF ChannelInv, FabricInv, HandlesArePaired, FabricTypes, RegistryTypes
<1>5. PICK q, u, v, read : q = queue[e] /\ u = queue'[e] /\ v = view[r] /\ read = Read(e)
  OBVIOUS
<1>6. PICK w, x : w = Known(r) /\ x = Known(r)'
  OBVIOUS
<1>7. /\ q \in Seq(FrameType) /\ v \in ViewType /\ read \in Nat /\ read =< Len(q)
      /\ e \in Endpoints /\ r = <<e, id>>
  BY <1>2, <1>3, <1>4, <1>5, KnownOf
<1>8. u \in Seq(FrameType)
  BY <1>3, <1>5, <1>7 DEF TrafficTypes, QueueType
<1>9. Read(e)' = read /\ view'[r] = v /\ UNCHANGED <<written, view>>
  BY <1>5 DEF Read, Effect
<1>10. Brought(all, e, q, u)
  BY <1>5, <1>7 DEF Announces, Brings
<1>11. Grown(ds, e, q, u)
  BY <1>5, <1>7 DEF Effect, Queued
<1>12. PICK m, n : m = Len(q) /\ n = Len(u)
  OBVIOUS
<1>13. m \in Nat /\ n \in Nat /\ read =< m /\ m =< n /\ Begins(q, u)
  BY <1>7, <1>8, <1>10, <1>12 DEF Brought, Begins
<1>14. x = Knowing(v, u, id, read)
  BY <1>2, <1>5, <1>6, <1>9 DEF Known
<1>15. x[m] = w[m]
  <2>1. \A i \in 0 .. Len(q) : x[i] = w[i]
    BY <1>2, <1>3, <1>4, <1>5, <1>6, <1>9, <1>13, RequestKnows
  <2>2. m \in 0 .. Len(q)
    BY <1>12, <1>13
  <2> QED BY <2>1, <2>2
<1>16. WillKnow(r)' = x[n]
  BY <1>2, <1>5, <1>6, <1>12 DEF WillKnow, Will, Known, Read
<1>17. WillKnow(r) = w[m]
  BY <1>2, <1>5, <1>6, <1>12 DEF WillKnow, Will, Known, Read
<1>18. ASSUME NEW p \in 1 .. Len(all), Key(all[p]) = r
       PROVE  \E i \in m + 1 .. n : u[i] = all[p].frame /\ u[i].id = id
  <2>1. all[p].ep = e /\ all[p].frame.id = id
    BY <1>7, <1>18 DEF Key
  <2>2. PICK i \in Len(q) + 1 .. Len(u) : u[i] = all[p].frame
    BY <1>10, <2>1 DEF Brought
  <2> QED BY <1>12, <2>1, <2>2
<1>19. ASSUME NEW i \in m + 1 .. n, u[i].id = id, u[i].kind # "names"
       PROVE  /\ \E p \in 1 .. Len(all) : Key(all[p]) = r /\ all[p].frame = u[i]
              /\ \E d : Fits(d) /\ Key(d) = r /\ d.frame = u[i]
  <2>1. PICK p \in 1 .. Len(all) : all[p].ep = e /\ all[p].frame = u[i]
    BY <1>10, <1>12 DEF Brought
  <2>2. Key(all[p]) = r
    BY <1>7, <1>19, <2>1 DEF Key
  <2>3. \E d : Fits(d) /\ Key(d) = r /\ d.frame = u[i]
    <3>1. q = queue[r[1]] /\ u = queue'[r[1]]
      BY <1>2, <1>5
    <3>2. i \in Len(q) + 1 .. Len(u) /\ u[i].id = r[2] /\ u[i].kind # "names"
      BY <1>2, <1>12, <1>19
    <3>3. r \in Keys /\ Effect(ds)
      BY <1>4
    <3> QED BY <3>1, <3>2, <3>3, NewFrame
  <2> QED BY <2>1, <2>2, <2>3
<1>20. ASSUME NEW i \in m + 1 .. n, u[i].id = id, u[i].kind \in Opens \cup {"closed", "data"}
       PROVE  x[n].got = IF u[i].kind \in Opens \cup {"closed"} THEN 0
                         ELSE IF u[i].kind = "data" THEN w[m].got + u[i].n ELSE w[m].got
  <2>1. "names" \notin Opens \cup {"closed", "data"}
    BY DEF Opens
  <2>2. ASSUME NEW j \in m + 1 .. n, u[j].id = id, j # i
        PROVE  u[j].kind \notin Opens \cup {"closed", "data"}
    BY <1>11, <1>12, <1>20, <2>1, <2>2 DEF Grown
  <2>3. Alone(u, id, m, i)
    BY <1>12, <2>2 DEF Alone
  <2>4. i \in m + 1 .. Len(u)
    BY <1>12
  <2>5. x[Len(u)].got = IF u[i].kind \in Opens \cup {"closed"} THEN 0
                        ELSE IF u[i].kind = "data" THEN x[m].got + u[i].n ELSE x[m].got
    BY <1>7, <1>8, <1>13, <1>14, <1>20, <2>3, <2>4, GotAlone
  <2> QED BY <1>12, <1>15, <2>5
<1>21. Carried(all, k)
  BY DEF Announces, Flows
<1>22. CASE k \notin DOMAIN handles
  <2>1. PICK p \in 1 .. Len(all) : Key(all[p]) = r /\ all[p].frame.kind \in Opens
    BY <1>1, <1>21, <1>22 DEF Carried
  <2>2. PICK i \in m + 1 .. n : u[i] = all[p].frame /\ u[i].id = id
    BY <1>18, <2>1
  <2>3. x[n].got = 0
    BY <1>20, <2>1, <2>2
  <2>4. s = 0
    BY <1>1, <1>22 DEF Moved, NewHandle
  <2> QED BY <1>16, <2>3, <2>4
<1>23. CASE k \in DOMAIN handles
  <2>1. PICK t, c : t = handles[k].sent /\ c = handles[k].pair
    OBVIOUS
  <2>2. handles[k].peer = r /\ handles'[k].pair = c /\ c # 0
    BY <1>1, <1>23, <2>1, MovedSame DEF Held
  <2>3. Truth(r) = c /\ Truth(r)' = c
    <3>1. r \in DOMAIN handles /\ handles[r].pair = c
      BY <1>23, <2>1, <2>2 DEF ChannelInv, FabricInv, HandlesArePaired
    <3> QED BY <1>4, <2>2, <3>1 DEF Truth
  <2>4. w[m].got = t
    <3>1. e \in open
      BY DEF Effect, Queued
    <3> QED BY <1>2, <1>17, <1>23, <2>1, <2>2, <3>1 DEF Arrives
  <2>5. ASSUME NEW i \in m + 1 .. n, u[i].id = id
        PROVE  u[i].kind \notin Opens \cup {"closed"}
    <3>1. "names" \notin Opens \cup {"closed"}
      BY DEF Opens
    <3>2. CASE u[i].kind # "names"
      <4>1. PICK d : Fits(d) /\ Key(d) = r /\ d.frame = u[i]
        BY <1>19, <2>5, <3>2
      <4>2. (d.frame.kind \in Opens => Truth(r) = 0) /\ (d.frame.kind = "closed" => Truth(r)' = 0)
        BY <4>1 DEF Fits, Opens
      <4> QED BY <2>2, <2>3, <4>1, <4>2
    <3> QED BY <3>1, <3>2
  <2>6. CASE s = t /\ \A p \in 1 .. Len(all) : Key(all[p]) = r => all[p].frame.kind # "data"
    <3>1. ASSUME NEW i \in m + 1 .. n, u[i].id = id
          PROVE  u[i].kind \notin Opens \cup {"closed", "data"}
      <4>1. u[i].kind # "data"
        BY <1>19, <2>6, <3>1
      <4> QED BY <2>5, <3>1, <4>1
    <3>2. Still(u, id, m, n)
      BY <3>1 DEF Still
    <3>3. n =< Len(u)
      BY <1>12, <1>13
    <3>4. x[n].got = x[m].got
      BY <1>7, <1>8, <1>13, <1>14, <3>2, <3>3, GotStays
    <3> QED BY <1>15, <1>16, <2>4, <2>6, <3>4
  <2>7. ASSUME NEW p \in 1 .. Len(all), Key(all[p]) = r, all[p].frame.kind = "data",
               s = t + all[p].frame.n
        PROVE  WillKnow(r)'.got = s
    <3>1. PICK i \in m + 1 .. n : u[i] = all[p].frame /\ u[i].id = id
      BY <1>18, <2>7
    <3>2. u[i].kind = "data" /\ u[i].kind \notin Opens \cup {"closed"}
      BY <2>7, <3>1 DEF Opens
    <3>3. x[n].got = w[m].got + u[i].n
      BY <1>20, <3>1, <3>2
    <3> QED BY <1>16, <2>4, <2>7, <3>1, <3>3
  <2> QED BY <1>1, <1>21, <1>23, <2>1, <2>6, <2>7 DEF Carried
<1> QED BY <1>22, <1>23

(* What says that a channel is closed ends the use of its id.              *)
ClosedAll == \A e \in Endpoints : \A i \in 1 .. Len(queue[e]) : ClosedDrains(queue[e][i])

StreamOK(k) == Held(handles[k]) /\ Arrives(k) /\ Due(k)

StreamInv == ToldInv /\ AnsweredInv /\ ClosedAll /\ \A k \in DOMAIN handles : StreamOK(k)

(* Every step keeps what closes a channel so.                              *)
LEMMA ClosedStep ==
  ASSUME TrafficTypes, TrafficTypes', ClosedAll,
         \/ queue' = queue
         \/ \E all : Announces(all)
         \/ \E e : Dropped(e) \/ Ended(e)
  PROVE  ClosedAll'
<1> SUFFICES ASSUME NEW c \in Endpoints, NEW i \in 1 .. Len(queue'[c])
             PROVE  ClosedDrains(queue'[c][i])
  BY DEF ClosedAll
<1>1. PICK q, r : q = queue[c] /\ r = queue'[c]
  OBVIOUS
<1>2. q \in Seq(FrameType) /\ r \in Seq(FrameType) /\ \A j \in 1 .. Len(q) : ClosedDrains(q[j])
  BY <1>1 DEF TrafficTypes, QueueType, ClosedAll
<1>3. CASE queue' = queue
  BY <1>3 DEF ClosedAll
<1>4. ASSUME NEW all, Announces(all) PROVE ClosedDrains(r[i])
  <2>1. Brought(all, c, q, r)
    BY <1>1, <1>4 DEF Announces, Brings
  <2>2. Len(q) \in Nat /\ Len(r) \in Nat
    BY <1>2
  <2>3. CASE i \in 1 .. Len(q)
    BY <1>2, <2>1, <2>3 DEF Brought, Begins
  <2>4. CASE i \in Len(q) + 1 .. Len(r)
    <3>1. PICK p \in 1 .. Len(all) : all[p].frame = r[i]
      BY <2>1, <2>4 DEF Brought
    <3>2. ClosedDrains(all[p].frame)
      BY <1>4 DEF Announces, Flows
    <3> QED BY <3>1, <3>2
  <2> QED BY <1>1, <2>2, <2>3, <2>4
<1>5. ASSUME NEW e, Dropped(e) PROVE ClosedDrains(r[i])
  <2>1. e \in Endpoints /\ written[e] /\ queue' = [queue EXCEPT ![e] = Tail(queue[e])]
    BY <1>5 DEF Dropped
  <2>2. CASE c # e
    <3>1. r = q
      BY <1>1, <2>1, <2>2 DEF TrafficTypes, QueueType
    <3> QED BY <1>1, <1>2, <3>1
  <2>3. CASE c = e
    <3>1. r = Tail(q) /\ q # <<>>
      BY <1>1, <2>1, <2>3 DEF TrafficTypes, QueueType
    <3>2. /\ Len(r) \in Nat /\ Len(q) = Len(r) + 1
          /\ \A j \in 1 .. Len(r) : r[j] = q[j + 1]
      BY <1>2, <3>1, FirstFrame
    <3>3. i + 1 \in 1 .. Len(q) /\ r[i] = q[i + 1]
      BY <1>1, <3>2
    <3> QED BY <1>2, <3>3
  <2> QED BY <2>2, <2>3
<1>6. ASSUME NEW e, Ended(e) PROVE ClosedDrains(r[i])
  <2>1. e \in Endpoints /\ queue' = [queue EXCEPT ![e] = <<>>]
    BY <1>6 DEF Ended
  <2>2. CASE c # e
    <3>1. r = q
      BY <1>1, <2>1, <2>2 DEF TrafficTypes, QueueType
    <3> QED BY <1>1, <1>2, <3>1
  <2>3. CASE c = e
    <3>1. r = <<>>
      BY <1>1, <2>1, <2>3 DEF TrafficTypes, QueueType
    <3> QED BY <1>1, <3>1
  <2> QED BY <2>2, <2>3
<1> QED BY <1>1, <1>3, <1>4, <1>5, <1>6

(* A writer changes nothing of what arrives.                               *)
LEMMA WriterArrives ==
  ASSUME NEW k \in DOMAIN handles, UNCHANGED handles, open' \subseteq open, Arrives(k),
         handles[k].peer[1] \in open' => Advances(handles[k].peer)
  PROVE  Arrives(k)'
<1>1. PICK r : r = handles[k].peer
  OBVIOUS
<1>2. ASSUME r[1] \in open' PROVE WillKnow(r)'.got = handles[k].sent
  <2>1. WillKnow(r)' = WillKnow(r)
    BY <1>1, <1>2, AdvanceKeeps
  <2>2. WillKnow(r).got = handles[k].sent
    BY <1>1, <1>2 DEF Arrives
  <2> QED BY <2>1, <2>2
<1> QED BY <1>1, <1>2 DEF Arrives

(* Nor of what was acknowledged to a client that is told nothing.          *)
LEMMA IdleDue ==
  ASSUME NEW k, UNCHANGED handles, open' \subseteq open, Due(k),
         view'[handles[k].peer] = view[handles[k].peer]
  PROVE  Due(k)'
BY DEF Due

(* What a client receives does not take back what it acknowledged: while   *)
(* the channel lasts it is not told of its end, and of its beginning only  *)
(* when it has acknowledged nothing.                                       *)
LEMMA ReceiptDue ==
  ASSUME StreamInv, NEW e, Received(e), NEW k \in DOMAIN handles
  PROVE  Due(k)'
<1>1. PICK h, r : h = handles[k] /\ r = h.peer
  OBVIOUS
<1>2. PICK q, f : q = queue[e] /\ f = Head(q)
  OBVIOUS
<1>3. PICK v : v = view[r]
  OBVIOUS
<1>4. /\ e \in Endpoints /\ ~written[e] /\ q # <<>>
      /\ view' = [view EXCEPT ![<<e, f.id>>] = Seen(view[<<e, f.id>>], f)]
      /\ UNCHANGED <<open, handles>>
  BY <1>2 DEF Received
<1>5. /\ TrafficTypes /\ r \in Keys /\ r \in DOMAIN handles
      /\ Due(k) /\ h.pair # 0 /\ h.acked \in Nat
  <2>1. StreamOK(k)
    BY DEF StreamInv
  <2>2. Due(k) /\ h.pair # 0
    BY <1>1, <2>1 DEF StreamOK, Held
  <2>3. ChannelInv
    BY DEF StreamInv, ToldInv
  <2>4. TrafficTypes /\ r \in DOMAIN handles /\ DOMAIN handles \subseteq Keys /\ h.acked \in Nat
    BY <1>1, <2>3 DEF ChannelInv, FabricTypes, RegistryTypes, FabricInv, HandlesArePaired, HandleInv
  <2> QED BY <2>2, <2>4
<1>6. CASE r # <<e, f.id>>
  <2>1. PICK l : l = <<e, f.id>>
    OBVIOUS
  <2>2. view' = [view EXCEPT ![l] = Seen(view[l], f)] /\ r # l
    BY <1>4, <1>6, <2>1
  <2>3. view'[r] = v
    BY <1>3, <1>5, <2>2 DEF TrafficTypes
  <2> QED BY <1>1, <1>3, <1>4, <1>5, <2>3, IdleDue
<1>7. CASE r = <<e, f.id>>
  <2>1. r[1] = e /\ r[2] = f.id
    BY <1>7
  <2>2. q \in Seq(FrameType) /\ v \in ViewType
    BY <1>2, <1>3, <1>4, <1>5 DEF TrafficTypes, QueueType
  <2>3. Len(q) \in Nat \ {0} /\ f = q[1] /\ f \in FrameType
    <3>1. Len(q) \in Nat \ {0} /\ f = q[1]
      BY <1>2, <1>4, <2>2, FirstFrame
    <3>2. q[1] \in FrameType
      BY <2>2, <3>1
    <3> QED BY <3>1, <3>2
  <2>4. view'[r] = Seen(v, f)
    BY <1>3, <1>4, <1>5, <1>7 DEF TrafficTypes
  <2>5. PICK y : y = Seen(v, f)
    OBVIOUS
  <2>6. y.of = IF f.kind \in Opens THEN f.of ELSE IF f.kind = "closed" THEN 0 ELSE v.of
    BY <2>2, <2>3, <2>5, SeenOf
  <2>7. y.got = IF f.kind \in Opens \cup {"closed"} THEN 0
                ELSE IF f.kind = "data" THEN v.got + f.n ELSE v.got
    BY <2>2, <2>3, <2>5, SeenGot
  <2>8. v.got \in Nat /\ f.n \in Nat
    BY <2>2, <2>3 DEF ViewType, FrameType
  <2> SUFFICES ASSUME r[1] \in Honest \cap open
               PROVE  h.acked =< y.got /\ (h.acked = 0 \/ y.of = h.pair)
    BY <1>1, <1>4, <2>4, <2>5 DEF Due
  <2>9. h.acked =< v.got /\ (h.acked = 0 \/ v.of = h.pair)
    BY <1>1, <1>3, <1>5 DEF Due
  <2>10. CASE f.kind \in Opens
    <3>1. Follows(Known(r), q, f.id, Read(e))
      BY <1>2, <1>5, <2>1 DEF StreamInv, ToldInv, Informed
    <3>2. Read(e) = 0
      BY <1>4 DEF Read
    <3>3. 1 \in Read(e) + 1 .. Len(q) /\ q[1].id = f.id
      BY <2>3, <3>2
    <3>4. Known(r)[1 - 1].of = 0
      BY <2>3, <2>10, <3>1, <3>3 DEF Follows
    <3>5. Known(r)[0] = v
      <4>1. PICK w : w = Knowing(v, q, f.id, 0)
        OBVIOUS
      <4>2. Known(r) = w
        BY <1>2, <1>3, <2>1, <3>2, <4>1 DEF Known
      <4>3. \A i \in 0 .. Len(q) : w[i] = NextKnown(w, v, q, f.id, 0, i)
        BY <2>2, <4>1, KnowingTypes
      <4>4. 0 \in 0 .. Len(q) /\ 0 =< 0
        BY <2>3
      <4> QED BY <4>2, <4>3, <4>4 DEF NextKnown
    <3>6. 1 - 1 = 0
      OBVIOUS
    <3>7. v.of = 0
      BY <3>4, <3>5, <3>6
    <3>8. h.acked = 0
      BY <1>5, <2>9, <3>7
    <3>9. y.got = 0
      BY <2>7, <2>10
    <3> QED BY <3>8, <3>9
  <2>11. CASE f.kind = "closed"
    <3>1. ClosedDrains(q[1])
      <4>1. 1 \in 1 .. Len(q)
        BY <2>3
      <4> QED BY <1>2, <1>4, <4>1 DEF StreamInv, ClosedAll
    <3>2. f.drain
      BY <2>3, <2>11, <3>1 DEF ClosedDrains
    <3>3. Drained(r)
      <4>1. 1 \in 1 .. Len(queue[r[1]]) /\ queue[r[1]][1] = f
        BY <1>2, <2>1, <2>3
      <4> QED BY <2>1, <3>2, <4>1 DEF Drained
    <3>4. ~Owned(r)
      BY <1>5, <3>3 DEF StreamInv, ToldInv, ChannelInv, DrainsAreFree
    <3> QED BY <1>5, <3>4 DEF Owned
  <2>12. CASE f.kind \notin Opens \cup {"closed"}
    <3>1. y.of = v.of
      BY <2>6, <2>12
    <3>2. v.got =< y.got
      BY <2>7, <2>8, <2>12
    <3>3. y.got \in Nat
      BY <2>7, <2>8, <2>12
    <3>4. h.acked =< y.got
      BY <1>5, <2>8, <2>9, <3>2, <3>3
    <3> QED BY <2>9, <3>1, <3>4
  <2> QED BY <2>10, <2>11, <2>12
<1> QED BY <1>6, <1>7

(* Every step keeps the streams whole.                                     *)
LEMMA StreamStep ==
  ASSUME StreamInv, [Next]_vars
  PROVE  StreamInv'
<1>1. ToldInv' /\ AnsweredInv' /\ ChannelInv /\ ChannelInv'
  BY ToldStep, AnsweredStep DEF StreamInv, ToldInv
<1>2. TrafficTypes /\ TrafficTypes' /\ ToldInv /\ AnsweredInv /\ ClosedAll
  BY <1>1 DEF StreamInv, ChannelInv, FabricTypes
<1>3. \A k \in DOMAIN handles : handles[k].peer \in Keys
  BY <1>1 DEF ChannelInv, FabricInv, HandlesArePaired, FabricTypes, RegistryTypes
<1>4. \A k \in DOMAIN handles : StreamOK(k)
  BY DEF StreamInv
<1>5. CASE UNCHANGED <<alive, open, listeners, handles, watches, queue, written, view,
                       generation, nextId, pairs, dirty>>
  <2>1. queue' = queue /\ open' = open /\ handles' = handles /\ view' = view /\ written' = written
    BY <1>5
  <2>2. ClosedAll'
    BY <1>2, <2>1, ClosedStep
  <2>3. ASSUME NEW k \in DOMAIN handles PROVE StreamOK(k)'
    <3>1. PICK r, c : r = handles[k].peer /\ c = r[1]
      OBVIOUS
    <3>2. r \in Keys
      BY <1>3, <3>1
    <3>3. queue'[c] = queue[c] /\ written'[c] = written[c] /\ view'[r] = view[r]
      BY <2>1
    <3>4. Advances(r)
      BY <1>2, <3>1, <3>2, <3>3, IdleAdvances
    <3>5. Held(handles[k]) /\ Arrives(k) /\ Due(k)
      BY <1>4 DEF StreamOK
    <3>6. Arrives(k)'
      BY <2>1, <3>1, <3>4, <3>5, WriterArrives
    <3>7. Due(k)'
      BY <2>1, <3>5, IdleDue
    <3> QED BY <2>1, <3>5, <3>6, <3>7 DEF StreamOK, Held, BoundsOK
  <2> QED BY <1>1, <2>1, <2>2, <2>3 DEF StreamInv
<1>6. CASE Asked
  <2>1. PICK all : Announces(all)
    BY <1>2, <1>6, AskedAnnounces
  <2>2. PICK ds : Effect(ds)
    BY <1>1, <1>6, AskedEffect
  <2>3. \A k \in DOMAIN handles' : Moved(k)
    BY <1>1, <1>6, AskedMoves DEF AllMoved
  <2>4. ClosedAll'
    BY <1>2, <2>1, ClosedStep
  <2>5. open' \subseteq open /\ view' = view
    BY <2>2 DEF Effect, Queued
  <2>6. ASSUME NEW k \in DOMAIN handles' PROVE StreamOK(k)'
    <3>1. Moved(k)
      BY <2>3
    <3>2. k \in DOMAIN handles => Held(handles[k]) /\ Arrives(k) /\ Due(k)
      BY <1>4 DEF StreamOK
    <3>3. handles'[k].peer \in Keys
      BY <1>1 DEF ChannelInv, FabricInv, HandlesArePaired, FabricTypes, RegistryTypes
    <3>4. Held(handles'[k])
      BY <1>1, <3>1, <3>2, MovedHeld
    <3>5. Arrives(k)'
      BY <1>1, <2>1, <2>2, <3>1, <3>2, RequestCarries
    <3>6. Due(k)'
      BY <1>2, <2>5, <3>1, <3>2, <3>3, MovedDue
    <3> QED BY <3>4, <3>5, <3>6 DEF StreamOK, Held, BoundsOK
  <2> QED BY <1>1, <2>4, <2>6 DEF StreamInv
<1>7. ASSUME NEW e, Dropped(e) \/ Ended(e) \/ Received(e) PROVE StreamInv'
  <2>1. handles' = handles /\ open' \subseteq open
    BY <1>7 DEF Dropped, Ended, Received
  <2>2. ClosedAll'
    <3>1. CASE Received(e)
      <4>1. queue' = queue
        BY <3>1 DEF Received
      <4> QED BY <1>2, <4>1, ClosedStep
    <3>2. CASE Dropped(e) \/ Ended(e)
      BY <1>2, <3>2, ClosedStep
    <3> QED BY <1>7, <3>1, <3>2
  <2>3. ASSUME NEW k \in DOMAIN handles PROVE StreamOK(k)'
    <3>1. PICK r : r = handles[k].peer
      OBVIOUS
    <3>2. r \in Keys
      BY <1>3, <3>1
    <3>3. Held(handles[k]) /\ Arrives(k) /\ Due(k)
      BY <1>4 DEF StreamOK
    <3>4. r[1] \in open' => Advances(r)
      <4>1. CASE Ended(e) /\ r[1] = e
        BY <4>1 DEF Ended
      <4>2. CASE ~(Ended(e) /\ r[1] = e)
        BY <1>2, <1>7, <3>2, <4>2, WriterAdvances
      <4> QED BY <4>1, <4>2
    <3>5. Arrives(k)'
      BY <2>1, <3>1, <3>3, <3>4, WriterArrives
    <3>6. Due(k)'
      <4>1. CASE Received(e)
        BY <4>1, ReceiptDue
      <4>2. CASE Dropped(e) \/ Ended(e)
        <5>1. view' = view
          BY <4>2 DEF Dropped, Ended
        <5> QED BY <2>1, <3>3, <5>1, IdleDue
      <4> QED BY <1>7, <4>1, <4>2
    <3> QED BY <2>1, <3>3, <3>5, <3>6 DEF StreamOK, Held, BoundsOK
  <2> QED BY <1>1, <2>1, <2>2, <2>3 DEF StreamInv
<1> QED BY <1>5, <1>6, <1>7, NextIs

(* There are no streams at first.                                          *)
LEMMA StreamInit == Init => StreamInv
<1> SUFFICES ASSUME Init PROVE StreamInv
  OBVIOUS
<1>1. ToldInv /\ ChannelInv
  BY ToldInit DEF ToldInv
<1>2. AnsweredInv
  BY <1>1 DEF Init, AnsweredInv
<1>3. ClosedAll
  BY DEF Init, ClosedAll
<1>4. DOMAIN handles = {}
  BY DEF Init
<1> QED BY <1>1, <1>2, <1>3, <1>4 DEF StreamInv

(* The inductive invariant holds throughout.                               *)
LEMMA StreamInvariant == Spec => []StreamInv
<1>1. StreamInv /\ [Next]_vars => StreamInv'
  BY StreamStep
<1>. QED BY StreamInit, <1>1, PTL DEF Spec

(* No payload is lost, repeated or carried over to the next channel of an  *)
(* id: what a client has received on a channel and what is queued for it   *)
(* is what its peer sent, within the credit and the message limit, an      *)
(* honest client has acknowledged no more than it received, and what is    *)
(* unacknowledged has a boundary to acknowledge it by.                     *)
THEOREM StreamsStayWhole == Spec => []StreamsAreWhole
<1>1. ASSUME StreamInv PROVE StreamsAreWhole
  <2>1. FabricInv
    BY <1>1 DEF StreamInv, ToldInv, ChannelInv
  <2>2. WithinCredit
    BY <2>1 DEF FabricInv, HandleInv, WithinCredit
  <2>3. ASSUME NEW k \in DOMAIN handles, NEW h, h = handles[k], NEW r, r = h.peer
        PROVE  /\ r[1] \in open => WillKnow(r).got = h.sent
               /\ r[1] \in Honest \cap open => h.acked =< view[r].got
               /\ Len(h.bounds) =< MaxUnconsumed
               /\ h.acked < h.sent <=> h.bounds # <<>>
    <3>1. Held(h) /\ Arrives(k) /\ Due(k)
      BY <1>1, <2>3 DEF StreamInv, StreamOK
    <3>2. r[1] \in open => WillKnow(r).got = h.sent
      BY <2>3, <3>1 DEF Arrives
    <3>3. r[1] \in Honest \cap open => h.acked =< view[r].got
      BY <2>3, <3>1 DEF Due
    <3>4. PICK B, l, s, a : B = h.bounds /\ l = Len(h.bounds) /\ s = h.sent /\ a = h.acked
      OBVIOUS
    <3>5. s \in Nat /\ a \in Nat
      BY <2>1, <2>3, <3>4 DEF FabricInv, HandleInv
    <3>6. /\ B \in Seq(Nat) /\ l = Len(B) /\ l =< MaxUnconsumed
          /\ \A i \in 1 .. l : a < B[i] /\ B[i] =< s
          /\ IF l = 0 THEN a = s ELSE B[l] = s
      BY <3>1, <3>4 DEF Held, BoundsOK
    <3>7. l \in Nat /\ (l = 0 <=> B = <<>>)
      BY <3>6
    <3>8. a < s <=> B # <<>>
      <4>1. CASE l = 0
        BY <3>5, <3>6, <3>7, <4>1
      <4>2. CASE l # 0
        <5>1. l \in 1 .. l
          BY <3>7, <4>2
        <5>2. a < B[l] /\ B[l] = s
          BY <3>6, <4>2, <5>1
        <5> QED BY <3>7, <4>2, <5>2
      <4> QED BY <4>1, <4>2
    <3> QED BY <3>2, <3>3, <3>4, <3>6, <3>8
  <2> QED BY <2>2, <2>3 DEF StreamsAreWhole
<1>. QED BY StreamInvariant, <1>1, PTL
=============================================================================
