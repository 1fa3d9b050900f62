----------------------- MODULE TerminalDeliveryProofs -----------------------
(***************************************************************************)
(* Proofs about TerminalDelivery for every set of clients and PTYs, every  *)
(* window, queue cap and bound.                                            *)
(*                                                                         *)
(* Inv is inductive by itself and gives TypeOK; it also says that the frame*)
(* being built without the lock was diffed from what last_sent still is,   *)
(* unless its stream was reset meanwhile, and that a queue of frames is in *)
(* order and behind the screen. OrderOK, the strengthening of              *)
(* LiveViewsGoForward, puts the frame of a tick between what the clients   *)
(* have seen and what is still to come.                                    *)
(* StreamsOK, the strengthening of BaselineIsShown, is kept by every step  *)
(* but one: a preview built for a view its client has parked meanwhile.    *)
(* That step is real (MCTerminalDelivery_stomp), so BaselineIsShown is     *)
(* proved of the behaviours without it, and of every session with a single *)
(* PTY, which has none.                                                    *)
(***************************************************************************)
EXTENDS TerminalDelivery, FiniteSetTheorems, WellFoundedInduction, TLAPS

(* The least element of a set of numbers is one of its elements.           *)
LEMMA MinIsMember ==
  ASSUME NEW S, S \subseteq Nat, S # {}
  PROVE  Min(S) \in S
<1>. DEFINE Less == {ss \in Nat \X Nat : ss[1] < ss[2]}
<1>1. IsWellFoundedOn(Less, Nat)
  BY NatLessThanWellFounded DEF OpToRel
<1>2. PICK x \in S : \A y \in S : <<y, x>> \notin Less
  BY <1>1, WFMin
<1>3. ASSUME NEW y \in S PROVE x <= y
  <2>1. x \in Nat /\ y \in Nat
    OBVIOUS
  <2>2. <<y, x>> \in Nat \X Nat /\ <<y, x>>[1] = y /\ <<y, x>>[2] = x
    BY <2>1
  <2>3. ~(y < x)
    BY <1>2, <2>2
  <2>. QED
    BY <2>1, <2>3
<1>. QED
  BY <1>3 DEF Min

-----------------------------------------------------------------------------
(* A frame that was built of a terminal has a size; FrameState::default has*)
(* none, so a diff against it is a keyframe.                               *)
Sized(f) == f.size # 0 \/ f = Blank

(* A client's record: the epochs are ones already given out, and what the  *)
(* server remembers of its streams is the default frame or a real one.     *)
ClientOK(cl) ==
  /\ cl \in Client
  /\ \A p \in Ptys : /\ cl.epoch[p] <= cl.next
                     /\ Sized(cl.last[p])
                     /\ cl.cache[p] = Gone \/ Sized(cl.cache[p])

(* What a client shows, g, is what the server would diff against. A parked *)
(* view without a cache has no last_sent to hand back either.              *)
StreamOK(cl, p, g) ==
  IF cl.offset[p] = 0 THEN cl.last[p] # Blank => g = cl.last[p]
  ELSE /\ cl.cache[p] \notin {Gone, Blank} => g = cl.cache[p]
       /\ cl.cache[p] = Gone => cl.last[p] = Blank

(* The stream of p is the one it was, or its epoch is a new one.           *)
SameOrNew(cl, cl2, p) ==
  \/ cl2.epoch[p] > cl.next
  \/ /\ p \in cl.subs /\ cl2.epoch[p] = cl.epoch[p] /\ cl2.last[p] = cl.last[p]
     /\ cl.offset[p] = 0 => cl2.offset[p] = 0

StreamKept(cl, cl2, p) ==
  \A g \in Frame : (p \in cl.subs => StreamOK(cl, p, g)) => StreamOK(cl2, p, g)

(* What every handler does to a client's record: epochs only grow, a stream*)
(* changes only with its epoch, and stays what the client shows.           *)
Keeps(cl, cl2) ==
  /\ cl2.on => cl.on
  /\ cl.next <= cl2.next
  /\ \A p \in cl2.subs : SameOrNew(cl, cl2, p) /\ StreamKept(cl, cl2, p)

(* A handler's steps may be taken one after the other.                     *)
LEMMA KeepsTransitive ==
  ASSUME NEW a, NEW b, NEW d, ClientOK(a), ClientOK(b), ClientOK(d),
         Keeps(a, b), Keeps(b, d)
  PROVE  Keeps(a, d)
<1>1. d.on => a.on
  BY DEF Keeps
<1>2. a.next \in Nat /\ b.next \in Nat /\ d.next \in Nat
  BY DEF ClientOK, Client
<1>3. a.next <= d.next
  BY <1>2 DEF Keeps
<1>4. ASSUME NEW p \in d.subs PROVE SameOrNew(a, d, p) /\ StreamKept(a, d, p)
  <2>1. p \in Ptys
    BY <1>4 DEF ClientOK, Client
  <2>2. b.epoch[p] \in Nat /\ d.epoch[p] \in Nat
    BY <2>1 DEF ClientOK, Client
  <2>3. SameOrNew(b, d, p) /\ StreamKept(b, d, p)
    BY <1>4 DEF Keeps
  <2>4. CASE p \in b.subs
    <3>1. SameOrNew(a, b, p) /\ StreamKept(a, b, p)
      BY <2>4 DEF Keeps
    <3>2. SameOrNew(a, d, p)
      BY <1>2, <1>3, <2>2, <2>3, <3>1 DEF SameOrNew, Keeps
    <3>3. StreamKept(a, d, p)
      BY <2>3, <3>1 DEF StreamKept
    <3>. QED
      BY <3>2, <3>3
  <2>5. CASE p \notin b.subs
    <3>1. SameOrNew(a, d, p)
      BY <2>5, <1>2, <2>2, <2>3 DEF SameOrNew, Keeps
    <3>2. StreamKept(a, d, p)
      BY <2>3, <2>5 DEF StreamKept
    <3>. QED
      BY <3>1, <3>2
  <2>. QED
    BY <2>4, <2>5
<1>. QED
  BY <1>1, <1>3, <1>4 DEF Keeps

(* A step that leaves the streams alone keeps them.                        *)
LEMMA SameStreams ==
  ASSUME NEW a, NEW b, ClientOK(a), b \in Client,
         b.on => a.on, b.next = a.next, b.subs \subseteq a.subs, b.epoch = a.epoch,
         b.last = a.last, b.cache = a.cache, b.offset = a.offset
  PROVE  ClientOK(b) /\ Keeps(a, b)
<1>1. ClientOK(b)
  BY DEF ClientOK
<1>2. \A p \in Ptys : StreamKept(a, b, p) \/ p \notin a.subs
  BY DEF StreamKept, StreamOK
<1>3. a.next <= b.next
  BY SMTT(30) DEF ClientOK, Client
<1>4. \A p \in b.subs : SameOrNew(a, b, p) /\ StreamKept(a, b, p)
  BY <1>2, SMTT(30) DEF SameOrNew, Client
<1>. QED
  BY <1>1, <1>3, <1>4 DEF Keeps

-----------------------------------------------------------------------------
(* The record operators, field by field.                                   *)

(* Advance changes the epochs of ps, and next if there are any.            *)
LEMMA AdvanceFields ==
  ASSUME NEW cl \in Client, NEW ps \in SUBSET Ptys
  PROVE  LET a == Advance(cl, ps) IN
         /\ a \in Client
         /\ a.on = cl.on /\ a.subs = cl.subs /\ a.lead = cl.lead /\ a.view = cl.view
         /\ a.last = cl.last /\ a.cache = cl.cache /\ a.offset = cl.offset
         /\ a.next = IF ps = {} THEN cl.next ELSE cl.next + 1
         /\ \A p \in Ptys : a.epoch[p] = IF p \in ps THEN cl.next + 1 ELSE cl.epoch[p]
<1>. DEFINE n == IF ps = {} THEN cl.next ELSE cl.next + 1
            e == [p \in Ptys |-> IF p \in ps THEN cl.next + 1 ELSE cl.epoch[p]]
<1>1. n \in Nat /\ e \in [Ptys -> Nat]
  BY DEF Client
<1>2. \A p \in Ptys : e[p] = IF p \in ps THEN cl.next + 1 ELSE cl.epoch[p]
  OBVIOUS
<1>3. Advance(cl, ps) = [cl EXCEPT !.next = n, !.epoch = e]
  BY DEF Advance, Client
<1>4. n = IF ps = {} THEN cl.next ELSE cl.next + 1
  OBVIOUS
<1>. HIDE DEF n, e
<1>. QED
  BY <1>1, <1>2, <1>3, <1>4 DEF Client

(* ResetInflight leaves the streams alone.                                 *)
LEMMA ResetInflightFields ==
  ASSUME NEW cl \in Client
  PROVE  LET a == ResetInflight(cl) IN
         /\ a \in Client
         /\ a.on = cl.on /\ a.subs = cl.subs /\ a.lead = cl.lead /\ a.view = cl.view
         /\ a.last = cl.last /\ a.cache = cl.cache /\ a.offset = cl.offset
         /\ a.next = cl.next /\ a.epoch = cl.epoch
  BY DEF ResetInflight, Client

(* Resetting the window and the pacing of a client keeps its streams.      *)
LEMMA ResetInflightKeeps ==
  ASSUME NEW cl, ClientOK(cl)
  PROVE  ClientOK(ResetInflight(cl)) /\ Keeps(cl, ResetInflight(cl))
<1>1. cl \in Client
  BY DEF ClientOK
<1>2. ResetInflight(cl) \in Client
  BY <1>1, ResetInflightFields
<1>3. /\ ResetInflight(cl).on = cl.on /\ ResetInflight(cl).subs = cl.subs
      /\ ResetInflight(cl).last = cl.last /\ ResetInflight(cl).cache = cl.cache
      /\ ResetInflight(cl).offset = cl.offset
      /\ ResetInflight(cl).next = cl.next /\ ResetInflight(cl).epoch = cl.epoch
  BY <1>1, ResetInflightFields
<1>. QED
  BY <1>2, <1>3, SameStreams

(* Subscribing, first or again, starts a new stream from the default frame.*)
LEMMA SubscribeKeeps ==
  ASSUME NEW cl, ClientOK(cl), NEW p \in Ptys
  PROVE  LET b == ResetBaseline(Subscribed(cl, p), p) IN
         /\ ClientOK(b) /\ Keeps(cl, b)
         /\ \A g \in Frame : StreamOK(b, p, g)
<1>. DEFINE s == [Subscribed(cl, p) EXCEPT !.last[p] = Blank, !.cache[p] = Gone, !.pdue[p] = TRUE]
            b == Advance(s, {p})
<1>0. cl \in Client /\ Blank \in Frame /\ Gone \in Frame
  BY DEF ClientOK, Blank, Gone, Frame
<1>1. /\ s \in Client /\ s.on = cl.on /\ s.subs = cl.subs \cup {p} /\ s.next = cl.next
      /\ s.epoch = cl.epoch /\ s.offset = cl.offset
      /\ s.last = [cl.last EXCEPT ![p] = Blank] /\ s.cache = [cl.cache EXCEPT ![p] = Gone]
  BY <1>0 DEF Subscribed, Client
<1>. HIDE DEF s
<1>2. /\ b \in Client /\ b.on = cl.on /\ b.subs = cl.subs \cup {p} /\ b.next = cl.next + 1
      /\ b.offset = cl.offset /\ b.last = s.last /\ b.cache = s.cache
      /\ \A q \in Ptys : b.epoch[q] = IF q = p THEN cl.next + 1 ELSE cl.epoch[q]
  BY <1>1, AdvanceFields
<1>. HIDE DEF b
<1>3. /\ b.last[p] = Blank /\ b.cache[p] = Gone
      /\ \A q \in Ptys \ {p} : b.last[q] = cl.last[q] /\ b.cache[q] = cl.cache[q]
  BY <1>0, <1>1, <1>2 DEF Client
<1>4. cl.next \in Nat /\ \A q \in Ptys : cl.epoch[q] \in Nat
  BY <1>0 DEF Client
<1>5. ClientOK(b)
  <2>1. \A q \in Ptys : b.epoch[q] <= b.next
    BY <1>2, <1>4 DEF ClientOK
  <2>2. \A q \in Ptys : Sized(b.last[q]) /\ (b.cache[q] = Gone \/ Sized(b.cache[q]))
    BY <1>3 DEF ClientOK, Sized
  <2>. QED
    BY <1>2, <2>1, <2>2 DEF ClientOK
<1>6. \A g \in Frame : StreamOK(b, p, g)
  BY <1>3 DEF StreamOK
<1>7. ASSUME NEW q \in b.subs PROVE SameOrNew(cl, b, q) /\ StreamKept(cl, b, q)
  <2>0. q \in Ptys
    BY <1>0, <1>2 DEF Client
  <2>1. CASE q = p
    <3>1. b.epoch[q] > cl.next
      BY <1>2, <1>4, <2>1
    <3>. QED
      BY <1>6, <2>1, <3>1 DEF SameOrNew, StreamKept
  <2>2. CASE q # p
    <3>1. q \in cl.subs /\ b.epoch[q] = cl.epoch[q] /\ b.last[q] = cl.last[q]
          /\ b.cache[q] = cl.cache[q] /\ b.offset[q] = cl.offset[q]
      BY <1>2, <1>3, <2>0, <2>2
    <3>. QED
      BY <3>1 DEF SameOrNew, StreamKept, StreamOK
  <2>. QED
    BY <2>1, <2>2
<1>8. Keeps(cl, b)
  BY <1>2, <1>4, <1>7 DEF Keeps
<1>9. ResetBaseline(Subscribed(cl, p), p) = b
  BY DEF ResetBaseline, b, s
<1>. QED
  BY <1>5, <1>6, <1>8, <1>9

(* first_subscribe is a subscription, or nothing.                          *)
LEMMA FirstSubscribeKeeps ==
  ASSUME NEW cl, ClientOK(cl), NEW p \in Ptys
  PROVE  ClientOK(FirstSubscribe(cl, p)) /\ Keeps(cl, FirstSubscribe(cl, p))
<1>1. CASE p \in cl.subs
  <2>1. FirstSubscribe(cl, p) = cl
    BY <1>1 DEF FirstSubscribe
  <2>. QED
    BY <2>1, SameStreams DEF ClientOK
<1>2. CASE p \notin cl.subs
  BY <1>2, SubscribeKeeps DEF FirstSubscribe
<1>. QED
  BY <1>1, <1>2

(* b is cl with the streams of ps begun anew: the others are as they were, *)
(* and each of them is what the client shows if it was before.             *)
LEMMA NewStreamsKeep ==
  ASSUME NEW cl, ClientOK(cl), NEW b \in Client, NEW ps \in SUBSET Ptys,
         b.on = cl.on, b.subs = cl.subs,
         b.next = IF ps = {} THEN cl.next ELSE cl.next + 1,
         \A q \in Ptys : b.epoch[q] = IF q \in ps THEN cl.next + 1 ELSE cl.epoch[q],
         \A q \in Ptys : Sized(b.last[q]) /\ (b.cache[q] = Gone \/ Sized(b.cache[q])),
         \A q \in cl.subs : StreamKept(cl, b, q),
         \A q \in cl.subs \ ps : b.last[q] = cl.last[q] /\ (cl.offset[q] = 0 => b.offset[q] = 0)
  PROVE  ClientOK(b) /\ Keeps(cl, b)
<1>1. /\ cl.next \in Nat /\ cl.subs \subseteq Ptys
      /\ \A q \in Ptys : cl.epoch[q] \in Nat /\ cl.epoch[q] <= cl.next
  BY DEF ClientOK, Client
<1>2. \A q \in Ptys : b.epoch[q] <= b.next
  BY <1>1
<1>3. \A q \in b.subs : SameOrNew(cl, b, q)
  BY <1>1 DEF SameOrNew
<1>4. cl.next <= b.next
  BY <1>1
<1>5. ClientOK(b)
  BY <1>2 DEF ClientOK
<1>. QED
  BY <1>3, <1>4, <1>5 DEF Keeps

(* Parking hands last_sent to the scroll cache, and returning hands it back*)
(* when there is one: the frame diffed against is the one shown.           *)
LEMMA UpdateScrollKeeps ==
  ASSUME NEW cl, ClientOK(cl), NEW p \in Ptys, NEW o \in 0 .. MaxOffset
  PROVE  ClientOK(UpdateScroll(cl, p, o)) /\ Keeps(cl, UpdateScroll(cl, p, o))
<1>. DEFINE parks   == cl.offset[p] = 0 /\ o > 0
            returns == cl.offset[p] > 0 /\ o = 0
            ca == IF parks THEN cl.last[p] ELSE IF returns THEN Gone ELSE cl.cache[p]
            la == IF returns /\ cl.cache[p] # Gone THEN cl.cache[p] ELSE cl.last[p]
            m == [cl EXCEPT !.offset[p] = o, !.cache[p] = ca, !.last[p] = la]
            b == ResetInflight(Advance(m, {p}))
<1>0. cl \in Client /\ Blank \in Frame /\ Gone \in Frame
  BY DEF ClientOK, Blank, Gone, Frame
<1>1. CASE cl.offset[p] = o
  <2>1. UpdateScroll(cl, p, o) = cl
    BY <1>1 DEF UpdateScroll
  <2>. QED
    BY <2>1, <1>0, SameStreams
<1>2. CASE cl.offset[p] # o
  <2>1. ca \in Frame /\ la \in Frame /\ cl.offset[p] \in Nat /\ o \in Nat
    BY <1>0, DeliveryAssumption DEF Client
  <2>2. UpdateScroll(cl, p, o) = b
    BY <1>2 DEF UpdateScroll
  <2>3. /\ Sized(la) /\ (ca = Gone \/ Sized(ca))
    BY DEF ClientOK
  <2>4. ASSUME NEW g \in Frame, StreamOK(cl, p, g)
        PROVE  IF o = 0 THEN la # Blank => g = la
               ELSE (ca \notin {Gone, Blank} => g = ca) /\ (ca = Gone => la = Blank)
    <3>1. CASE parks
      <4>1. cl.last[p] # Gone
        BY DEF ClientOK, Sized, Gone, Blank
      <4>. QED
        BY <2>1, <2>4, <3>1, <4>1 DEF StreamOK
    <3>2. CASE returns
      BY <2>1, <2>4, <3>2 DEF StreamOK
    <3>3. CASE ~parks /\ ~returns
      BY <1>2, <2>1, <2>4, <3>3 DEF StreamOK
    <3>. QED
      BY <3>1, <3>2, <3>3
  <2>. HIDE DEF ca, la
  <2>5. /\ m \in Client /\ m.on = cl.on /\ m.subs = cl.subs /\ m.next = cl.next
        /\ m.epoch = cl.epoch /\ m.offset = [cl.offset EXCEPT ![p] = o]
        /\ m.last = [cl.last EXCEPT ![p] = la] /\ m.cache = [cl.cache EXCEPT ![p] = ca]
    BY <1>0, <2>1 DEF Client
  <2>. HIDE DEF m
  <2>6. Advance(m, {p}) \in Client
    BY <2>5, AdvanceFields
  <2>7. /\ b \in Client /\ b.on = cl.on /\ b.subs = cl.subs /\ b.next = cl.next + 1
        /\ b.offset = m.offset /\ b.last = m.last /\ b.cache = m.cache
        /\ \A q \in Ptys : b.epoch[q] = IF q \in {p} THEN cl.next + 1 ELSE cl.epoch[q]
    BY <2>5, <2>6, AdvanceFields, ResetInflightFields
  <2>. HIDE DEF b
  <2>8. /\ b.last[p] = la /\ b.cache[p] = ca /\ b.offset[p] = o
        /\ \A q \in Ptys \ {p} : /\ b.last[q] = cl.last[q] /\ b.cache[q] = cl.cache[q]
                                 /\ b.offset[q] = cl.offset[q]
    BY <1>0, <2>5, <2>7 DEF Client
  <2>9. \A q \in Ptys : Sized(b.last[q]) /\ (b.cache[q] = Gone \/ Sized(b.cache[q]))
    BY <2>3, <2>8 DEF ClientOK
  <2>10. cl.subs \subseteq Ptys
    BY <1>0 DEF Client
  <2>11. \A q \in cl.subs : StreamKept(cl, b, q)
    <3>1. ASSUME NEW q \in cl.subs, NEW g \in Frame, StreamOK(cl, q, g) PROVE StreamOK(b, q, g)
      <4>1. CASE q = p
        BY <2>4, <2>8, <3>1, <4>1 DEF StreamOK
      <4>2. CASE q # p
        BY <2>8, <2>10, <3>1, <4>2 DEF StreamOK
      <4>. QED
        BY <4>1, <4>2
    <3>. QED
      BY <3>1 DEF StreamKept
  <2>12. \A q \in cl.subs \ {p} : b.last[q] = cl.last[q] /\ (cl.offset[q] = 0 => b.offset[q] = 0)
    BY <2>8, <2>10
  <2>. QED
    BY <2>2, <2>7, <2>9, <2>11, <2>12, NewStreamsKeep
<1>. QED
  BY <1>1, <1>2

(* Unsubscribing ends one stream and leaves the others alone.              *)
LEMMA UnsubscribedKeeps ==
  ASSUME NEW cl, ClientOK(cl), NEW p \in Ptys
  PROVE  LET b == Unsubscribed(cl, p) IN
         ClientOK(b) /\ Keeps(cl, b) /\ p \notin b.subs
<1>. DEFINE b == Unsubscribed(cl, p)
            ld == IF cl.lead = p THEN NoPty ELSE cl.lead
<1>0. cl \in Client /\ Blank \in Frame /\ Gone \in Frame
  BY DEF ClientOK, Blank, Gone, Frame
<1>. DEFINE ep == [cl.epoch EXCEPT ![p] = 0]
            la == [cl.last EXCEPT ![p] = Blank]
            ca == [cl.cache EXCEPT ![p] = Gone]
            of == [cl.offset EXCEPT ![p] = 0]
            vi == [cl.view EXCEPT ![p] = 0]
            pd == [cl.pdue EXCEPT ![p] = TRUE]
            su == cl.subs \ {p}
<1>1. /\ ld \in Ptys \cup {NoPty} /\ su \in SUBSET Ptys
      /\ ep \in [Ptys -> Nat] /\ la \in [Ptys -> Frame] /\ ca \in [Ptys -> Frame]
      /\ of \in [Ptys -> 0 .. MaxOffset] /\ vi \in [Ptys -> Sizes \cup {0}]
      /\ pd \in [Ptys -> BOOLEAN]
  BY <1>0, DeliveryAssumption DEF Client
<1>2. b = [cl EXCEPT !.subs = su, !.epoch = ep, !.last = la, !.pdue = pd, !.offset = of,
                     !.cache = ca, !.view = vi, !.lead = ld]
  BY <1>0 DEF Unsubscribed, Client
<1>3. /\ b \in Client /\ b.on = cl.on /\ b.subs = su /\ b.next = cl.next
      /\ b.epoch = ep /\ b.offset = of /\ b.last = la /\ b.cache = ca
  <2>. HIDE DEF ld, su, ep, la, ca, of, vi, pd, b
  <2>. QED
    BY <1>0, <1>1, <1>2 DEF Client
<1>. HIDE DEF b
<1>4. /\ b.last[p] = Blank /\ b.cache[p] = Gone /\ b.epoch[p] = 0
      /\ \A q \in Ptys \ {p} : /\ b.last[q] = cl.last[q] /\ b.cache[q] = cl.cache[q]
                               /\ b.epoch[q] = cl.epoch[q] /\ b.offset[q] = cl.offset[q]
  BY <1>0, <1>3 DEF Client
<1>5. cl.next \in Nat /\ cl.subs \subseteq Ptys
  BY <1>0 DEF Client
<1>6. \A q \in Ptys : b.epoch[q] <= b.next
  BY <1>3, <1>4, <1>5 DEF ClientOK
<1>7. \A q \in Ptys : Sized(b.last[q]) /\ (b.cache[q] = Gone \/ Sized(b.cache[q]))
  BY <1>4 DEF ClientOK, Sized
<1>8. ClientOK(b)
  BY <1>3, <1>6, <1>7 DEF ClientOK
<1>9. \A q \in b.subs : SameOrNew(cl, b, q) /\ StreamKept(cl, b, q)
  BY <1>3, <1>4, <1>5 DEF SameOrNew, StreamKept, StreamOK
<1>10. Keeps(cl, b)
  BY <1>3, <1>5, <1>9 DEF Keeps
<1>. QED
  BY <1>3, <1>8, <1>10 DEF b

(* A resize begins the streams of the resized PTYs anew, for a client that *)
(* watches them, and forgets what it had cached of them.                   *)
LEMMA ResizedKeeps ==
  ASSUME NEW cl, ClientOK(cl), NEW ps \in SUBSET Ptys
  PROVE  /\ ClientOK(ResizedClient(cl, ps)) /\ Keeps(cl, ResizedClient(cl, ps))
         /\ ResizedClient(cl, ps).subs = cl.subs
<1>. DEFINE lasts == [p \in Ptys |-> IF p \in ps \cap cl.subs THEN Blank ELSE cl.last[p]]
            m == [cl EXCEPT !.last = lasts]
            again == Advance(m, ps \cap cl.subs)
            caches == [p \in Ptys |-> IF p \in ps THEN Gone ELSE cl.cache[p]]
            clean == [again EXCEPT !.cache = caches]
            R(b) == ClientOK(b) /\ Keeps(cl, b)
<1>0. cl \in Client /\ Blank \in Frame /\ Gone \in Frame /\ cl.subs \subseteq Ptys
  BY DEF ClientOK, Blank, Gone, Frame, Client
<1>1. /\ lasts \in [Ptys -> Frame] /\ caches \in [Ptys -> Frame]
      /\ \A q \in Ptys : lasts[q] = IF q \in ps \cap cl.subs THEN Blank ELSE cl.last[q]
      /\ \A q \in Ptys : caches[q] = IF q \in ps THEN Gone ELSE cl.cache[q]
  BY <1>0 DEF Client
<1>2. /\ m \in Client /\ m.on = cl.on /\ m.subs = cl.subs /\ m.next = cl.next
      /\ m.epoch = cl.epoch /\ m.offset = cl.offset /\ m.last = lasts /\ m.cache = cl.cache
  <2>. HIDE DEF lasts
  <2>. QED
    BY <1>0, <1>1 DEF Client
<1>3. m.cache = cl.cache
  BY <1>2
<1>4. ResizedClient(cl, ps) = IF \A p \in ps : cl.cache[p] = Gone THEN again ELSE ResetInflight(clean)
  <2>1. m = [cl EXCEPT !.last = [p \in Ptys |-> IF p \in ps \cap cl.subs THEN Blank ELSE @[p]]]
    OBVIOUS
  <2>2. again.cache = cl.cache
    <3>. HIDE DEF m
    <3>. QED
      BY <1>2, AdvanceFields
  <2>3. clean = [again EXCEPT !.cache = [p \in Ptys |-> IF p \in ps THEN Gone ELSE @[p]]]
    <3>. HIDE DEF again
    <3>. QED
      BY <2>2
  <2>. QED
    BY <2>1, <2>3 DEF ResizedClient
<1>. HIDE DEF lasts, caches, m
<1>5. /\ again \in Client /\ again.on = cl.on /\ again.subs = cl.subs
      /\ again.offset = cl.offset /\ again.last = lasts /\ again.cache = cl.cache
      /\ again.next = IF ps \cap cl.subs = {} THEN cl.next ELSE cl.next + 1
      /\ \A q \in Ptys : again.epoch[q] = IF q \in ps \cap cl.subs THEN cl.next + 1 ELSE cl.epoch[q]
  BY <1>2, AdvanceFields
<1>. HIDE DEF again
<1>6. /\ clean \in Client /\ clean.on = cl.on /\ clean.subs = cl.subs
      /\ clean.offset = cl.offset /\ clean.last = lasts /\ clean.cache = caches
      /\ clean.next = again.next /\ clean.epoch = again.epoch
  BY <1>1, <1>5 DEF Client
<1>. HIDE DEF clean
<1>7. \A q \in Ptys : /\ Sized(lasts[q])
                      /\ cl.cache[q] = Gone \/ Sized(cl.cache[q])
                      /\ caches[q] = Gone \/ Sized(caches[q])
  BY <1>1 DEF ClientOK, Sized
<1>8. CASE \A p \in ps : cl.cache[p] = Gone
  <2>1. \A q \in cl.subs : StreamKept(cl, again, q)
    BY <1>0, <1>1, <1>5, <1>8 DEF StreamKept, StreamOK
  <2>2. \A q \in cl.subs \ (ps \cap cl.subs) :
          again.last[q] = cl.last[q] /\ (cl.offset[q] = 0 => again.offset[q] = 0)
    BY <1>0, <1>1, <1>5
  <2>3. R(again)
    BY <1>5, <1>7, <2>1, <2>2, NewStreamsKeep
  <2>. QED
    BY <1>4, <1>5, <1>8, <2>3
<1>9. CASE ~ \A p \in ps : cl.cache[p] = Gone
  <2>1. \A q \in cl.subs : StreamKept(cl, clean, q)
    BY <1>0, <1>1, <1>6 DEF StreamKept, StreamOK
  <2>2. \A q \in cl.subs \ (ps \cap cl.subs) :
          clean.last[q] = cl.last[q] /\ (cl.offset[q] = 0 => clean.offset[q] = 0)
    BY <1>0, <1>1, <1>6
  <2>5. /\ clean.next = IF ps \cap cl.subs = {} THEN cl.next ELSE cl.next + 1
        /\ \A q \in Ptys :
             clean.epoch[q] = IF q \in ps \cap cl.subs THEN cl.next + 1 ELSE cl.epoch[q]
    BY <1>5, <1>6
  <2>6. \A q \in Ptys : Sized(clean.last[q]) /\ (clean.cache[q] = Gone \/ Sized(clean.cache[q]))
    BY <1>6, <1>7
  <2>3. R(clean)
    BY <1>6, <2>1, <2>2, <2>5, <2>6, NewStreamsKeep
  <2>4. ClientOK(ResetInflight(clean)) /\ Keeps(clean, ResetInflight(clean))
    BY <2>3, ResetInflightKeeps
  <2>7. ResetInflight(clean).subs = cl.subs
    BY <1>6, ResetInflightFields
  <2>. QED
    BY <1>4, <1>9, <2>3, <2>4, <2>7, KeepsTransitive
<1>. QED
  BY <1>8, <1>9

(* A clamped offset is between the live view and the deepest one.          *)
LEMMA ClampRange ==
  ASSUME NEW o \in Int, NEW top \in 0 .. MaxOffset
  PROVE  Clamp(o, top) \in 0 .. MaxOffset
  BY DeliveryAssumption DEF Clamp

(* A reanchored view is at a new offset of the scrollback, or has returned *)
(* to the live view with the frame it was parked on.                       *)
LEMMA ReanchoredKeeps ==
  ASSUME NEW cl, ClientOK(cl), pty \in [Ptys -> Pty]
  PROVE  ClientOK(Reanchored(cl)) /\ Keeps(cl, Reanchored(cl))
<1>. DEFINE to(p) == Clamp(cl.offset[p] + pty[p].moved, pty[p].depth)
            moves == {p \in Ptys : cl.offset[p] > 0 /\ pty[p].moved # 0}
            back  == {p \in moves : to(p) = 0}
            of == [p \in Ptys |-> IF p \in moves THEN to(p) ELSE cl.offset[p]]
            ca == [p \in Ptys |-> IF p \in back THEN Gone ELSE cl.cache[p]]
            la == [p \in Ptys |-> IF p \in back /\ cl.cache[p] # Gone THEN cl.cache[p] ELSE cl.last[p]]
            m == [cl EXCEPT !.offset = of, !.cache = ca, !.last = la]
<1>0. cl \in Client /\ Gone \in Frame /\ cl.subs \subseteq Ptys
  BY DEF ClientOK, Gone, Frame, Client
<1>1. /\ back \in SUBSET Ptys
      /\ \A q \in back : q \in moves /\ cl.offset[q] > 0 /\ to(q) = 0
      /\ \A q \in moves : cl.offset[q] # 0 /\ (q \notin back => to(q) # 0)
      /\ \A q \in Ptys : q \notin back => (cl.offset[q] = 0 => q \notin moves)
  BY <1>0, DeliveryAssumption DEF Client
<1>2. \A q \in Ptys : to(q) \in 0 .. MaxOffset
  <2>1. ASSUME NEW q \in Ptys PROVE to(q) \in 0 .. MaxOffset
    <3>1. cl.offset[q] \in 0 .. MaxOffset /\ pty[q].moved \in Nat /\ pty[q].depth \in {0, MaxOffset}
      BY <1>0 DEF Client, Pty
    <3>2. cl.offset[q] + pty[q].moved \in Int /\ pty[q].depth \in 0 .. MaxOffset
      BY <3>1, DeliveryAssumption
    <3>. QED
      BY <3>2, ClampRange
  <2>. QED
    BY <2>1
<1>. HIDE DEF to
<1>3. Reanchored(cl) = IF back = {} THEN m ELSE ResetInflight(Advance(m, back))
  BY DEF Reanchored, to
<1>. HIDE DEF moves, back
<1>4. /\ of \in [Ptys -> 0 .. MaxOffset] /\ ca \in [Ptys -> Frame] /\ la \in [Ptys -> Frame]
      /\ \A q \in Ptys : /\ of[q] = IF q \in moves THEN to(q) ELSE cl.offset[q]
                         /\ ca[q] = IF q \in back THEN Gone ELSE cl.cache[q]
                         /\ la[q] = IF q \in back /\ cl.cache[q] # Gone
                                    THEN cl.cache[q] ELSE cl.last[q]
  BY <1>0, <1>1, <1>2 DEF Client
<1>. HIDE DEF of, ca, la
<1>5. /\ m \in Client /\ m.on = cl.on /\ m.subs = cl.subs /\ m.next = cl.next
      /\ m.epoch = cl.epoch /\ m.offset = of /\ m.last = la /\ m.cache = ca
  BY <1>0, <1>4 DEF Client
<1>. HIDE DEF m
<1>6. \A q \in Ptys : Sized(la[q]) /\ (ca[q] = Gone \/ Sized(ca[q]))
  BY <1>4 DEF ClientOK
<1>7. ASSUME NEW b \in Client, b.offset = of, b.last = la, b.cache = ca
      PROVE  /\ \A q \in cl.subs : StreamKept(cl, b, q)
             /\ \A q \in cl.subs \ back : b.last[q] = cl.last[q]
                                          /\ (cl.offset[q] = 0 => b.offset[q] = 0)
  <2>1. ASSUME NEW q \in cl.subs, NEW g \in Frame, StreamOK(cl, q, g) PROVE StreamOK(b, q, g)
    <3>0. q \in Ptys
      BY <1>0
    <3>1. CASE q \in back
      <4>1. b.offset[q] = 0 /\ cl.offset[q] # 0
            /\ b.last[q] = IF cl.cache[q] # Gone THEN cl.cache[q] ELSE cl.last[q]
        BY <1>1, <1>4, <1>7, <3>0, <3>1
      <4>. QED
        BY <2>1, <4>1 DEF StreamOK
    <3>2. CASE q \notin back
      <4>1. b.cache[q] = cl.cache[q] /\ b.last[q] = cl.last[q]
            /\ (b.offset[q] = 0 <=> cl.offset[q] = 0)
        BY <1>1, <1>4, <1>7, <3>0, <3>2
      <4>. QED
        BY <2>1, <4>1 DEF StreamOK
    <3>. QED
      BY <3>1, <3>2
  <2>2. \A q \in cl.subs \ back : b.last[q] = cl.last[q] /\ (cl.offset[q] = 0 => b.offset[q] = 0)
    BY <1>0, <1>1, <1>4, <1>7
  <2>. QED
    BY <2>1, <2>2 DEF StreamKept
<1>8. CASE back = {}
  <2>1. m.next = (IF back = {} THEN cl.next ELSE cl.next + 1)
        /\ \A q \in Ptys : m.epoch[q] = IF q \in back THEN cl.next + 1 ELSE cl.epoch[q]
    BY <1>5, <1>8
  <2>2. /\ \A q \in cl.subs : StreamKept(cl, m, q)
        /\ \A q \in cl.subs \ back : m.last[q] = cl.last[q]
                                     /\ (cl.offset[q] = 0 => m.offset[q] = 0)
    BY <1>5, <1>7
  <2>. QED
    BY <1>1, <1>3, <1>5, <1>6, <1>8, <2>1, <2>2, NewStreamsKeep
<1>9. CASE back # {}
  <2>. DEFINE b == ResetInflight(Advance(m, back))
  <2>1. Advance(m, back) \in Client
    BY <1>1, <1>5, AdvanceFields
  <2>2. /\ b \in Client /\ b.on = cl.on /\ b.subs = cl.subs
        /\ b.next = IF back = {} THEN cl.next ELSE cl.next + 1
        /\ b.offset = of /\ b.last = la /\ b.cache = ca
        /\ \A q \in Ptys : b.epoch[q] = IF q \in back THEN cl.next + 1 ELSE cl.epoch[q]
    BY <1>1, <1>5, <2>1, AdvanceFields, ResetInflightFields
  <2>. HIDE DEF b
  <2>3. /\ \A q \in cl.subs : StreamKept(cl, b, q)
        /\ \A q \in cl.subs \ back : b.last[q] = cl.last[q]
                                     /\ (cl.offset[q] = 0 => b.offset[q] = 0)
    BY <1>7, <2>2
  <2>4. Reanchored(cl) = b
    BY <1>3, <1>9 DEF b
  <2>5. \A q \in Ptys : Sized(b.last[q]) /\ (b.cache[q] = Gone \/ Sized(b.cache[q]))
    BY <1>6, <2>2
  <2>. QED
    BY <1>1, <2>2, <2>3, <2>4, <2>5, NewStreamsKeep, SMTT(30)
<1>. QED
  BY <1>8, <1>9

-----------------------------------------------------------------------------
(* A terminal's queue holds frames of terminals, the older ones first and  *)
(* none newer than the screen.                                             *)
Ordered(q, ver) ==
  \A i \in 1 .. Len(q) : /\ q[i].ver <= ver
                         /\ \A j \in i .. Len(q) : q[i].ver <= q[j].ver

PtyOK(t) ==
  /\ t \in Pty
  /\ \A i \in 1 .. Len(t.ready) : t.ready[i].size # 0
  /\ Ordered(t.ready, t.ver)

(* The oldest picture of the live view still to come.                      *)
Oldest(t) == IF t.ready = <<>> THEN t.ver ELSE t.ready[1].ver

(* It is no newer than the screen.                                         *)
LEMMA OldestIsOld ==
  ASSUME NEW t, PtyOK(t)
  PROVE  t.ver \in Nat /\ Oldest(t) \in Nat /\ Oldest(t) <= t.ver
<1>1. t.ready \in Seq(Frame) /\ t.ver \in Nat /\ Ordered(t.ready, t.ver)
  BY DEF PtyOK, Pty
<1>2. CASE t.ready = <<>>
  BY <1>1, <1>2 DEF Oldest
<1>3. CASE t.ready # <<>>
  <2>1. 1 \in 1 .. Len(t.ready) /\ t.ready[1] \in Frame
    BY <1>1, <1>3
  <2>2. t.ready[1].ver \in Nat /\ t.ready[1].ver <= t.ver
    BY <1>1, <2>1 DEF Ordered, Frame
  <2>. QED
    BY <1>1, <1>3, <2>2 DEF Oldest
<1>. QED
  BY <1>2, <1>3

(* A frame newer than the screen was joins the queue at its end.           *)
LEMMA QueueGrows ==
  ASSUME NEW q \in Seq(Frame), NEW v \in Nat, NEW f \in Frame, f.size # 0, f.ver = v + 1,
         \A i \in 1 .. Len(q) : q[i].size # 0, Ordered(q, v)
  PROVE  /\ Ordered(q, v + 1) /\ Append(q, f) \in Seq(Frame)
         /\ \A i \in 1 .. Len(Append(q, f)) : Append(q, f)[i].size # 0
         /\ Ordered(Append(q, f), v + 1)
         /\ Append(q, f)[1].ver = v + 1 \/ (q # <<>> /\ Append(q, f)[1] = q[1])
<1>. DEFINE r == Append(q, f)
<1>1. /\ r \in Seq(Frame) /\ Len(r) = Len(q) + 1 /\ Len(q) \in Nat
      /\ \A i \in 1 .. Len(q) : r[i] = q[i]
      /\ r[Len(q) + 1] = f
  OBVIOUS
<1>. HIDE DEF r
<1>2. \A i \in 1 .. Len(r) : i \in 1 .. Len(q) \/ i = Len(q) + 1
  BY <1>1
<1>3. \A i \in 1 .. Len(q) : q[i] \in Frame /\ q[i].ver \in Nat /\ q[i].ver <= v
  <2>1. \A i \in 1 .. Len(q) : q[i] \in Frame
    OBVIOUS
  <2>2. \A g \in Frame : g.ver \in Nat
    BY DEF Frame
  <2>. QED
    BY <2>1, <2>2 DEF Ordered
<1>4. \A i \in 1 .. Len(r) : r[i].size # 0 /\ r[i].ver <= v + 1
  <2>1. ASSUME NEW i \in 1 .. Len(q) PROVE r[i].size # 0 /\ r[i].ver <= v + 1
    BY <1>1, <1>3
  <2>2. r[Len(q) + 1].size # 0 /\ r[Len(q) + 1].ver <= v + 1
    BY <1>1
  <2>. QED
    BY <1>2, <2>1, <2>2
<1>5. ASSUME NEW i \in 1 .. Len(r), NEW j \in i .. Len(r) PROVE r[i].ver <= r[j].ver
  <2>1. CASE j = Len(q) + 1
    BY <1>1, <1>4, <2>1
  <2>2. CASE j # Len(q) + 1
    <3>1. i \in 1 .. Len(q) /\ j \in i .. Len(q) /\ j \in 1 .. Len(q)
      BY <1>1, <2>2
    <3>. QED
      BY <1>1, <3>1 DEF Ordered
  <2>. QED
    BY <2>1, <2>2
<1>6. Ordered(r, v + 1)
  BY <1>4, <1>5 DEF Ordered
<1>7. Ordered(q, v + 1)
  <2>1. \A i \in 1 .. Len(q) : q[i].ver <= v + 1
    BY <1>3
  <2>. QED
    BY <2>1 DEF Ordered
<1>8. r[1].ver = v + 1 \/ (q # <<>> /\ r[1] = q[1])
  <2>1. CASE q = <<>>
    BY <1>1, <2>1
  <2>2. CASE q # <<>>
    <3>1. 1 \in 1 .. Len(q)
      BY <2>2
    <3>. QED
      BY <1>1, <2>2, <3>1
  <2>. QED
    BY <2>1, <2>2
<1>. QED
  BY <1>1, <1>4, <1>6, <1>7, <1>8 DEF r

(* The screen moves on, and a frame may join the queue: what is to come is *)
(* no older than it was.                                                   *)
LEMMA OldestGrows ==
  ASSUME NEW t, NEW u, PtyOK(t), u.ver = t.ver + 1,
         \/ u.ready = t.ready
         \/ u.ready = <<>>
         \/ u.ready[1].ver = t.ver + 1
         \/ t.ready # <<>> /\ u.ready[1] = t.ready[1]
  PROVE  Oldest(t) <= Oldest(u)
<1>1. t.ver \in Nat /\ Oldest(t) \in Nat /\ Oldest(t) <= t.ver
  BY OldestIsOld
<1>2. CASE u.ready = <<>>
  BY <1>1, <1>2 DEF Oldest
<1>3. CASE u.ready # <<>> /\ u.ready[1].ver = t.ver + 1
  BY <1>1, <1>3 DEF Oldest
<1>4. CASE u.ready # <<>> /\ t.ready # <<>> /\ u.ready[1] = t.ready[1]
  BY <1>1, <1>4 DEF Oldest
<1>5. CASE u.ready # <<>> /\ u.ready = t.ready
  BY <1>1, <1>5 DEF Oldest
<1>. QED
  BY <1>2, <1>3, <1>4, <1>5

(* The size a PTY gets is one that somebody asked for, or the one it has.  *)
LEMMA MediatedIsSize ==
  ASSUME pty \in [Ptys -> Pty], NEW cls \in [Clients -> Client], NEW p \in Ptys
  PROVE  Mediated(cls, p) \in Sizes
<1>. DEFINE views == {cls[c].view[p] : c \in {d \in Clients : cls[d].on}} \ {0}
<1>1. views \subseteq Sizes
  BY DEF Client
<1>2. views # {} => Min(views) \in views
  BY <1>1, MinIsMember, DeliveryAssumption
<1>3. pty[p].size \in Sizes
  BY DEF Pty
<1>4. Mediated(cls, p) = IF views = {} THEN pty[p].size ELSE Min(views)
  BY DEF Mediated
<1>. QED
  BY <1>1, <1>2, <1>3, <1>4

(* Sizing keeps every client's streams and every queue.                    *)
LEMMA MediateKeeps ==
  ASSUME NEW cls \in [Clients -> Client], \A c \in Clients : ClientOK(cls[c]),
         NEW ps \in SUBSET Ptys, pty \in [Ptys -> Pty], \A p \in Ptys : PtyOK(pty[p]),
         Mediate(cls, ps)
  PROVE  /\ client' \in [Clients -> Client] /\ pty' \in [Ptys -> Pty]
         /\ \A c \in Clients : /\ ClientOK(client'[c]) /\ Keeps(cls[c], client'[c])
                               /\ client'[c].subs = cls[c].subs
         /\ \A p \in Ptys : PtyOK(pty'[p])
<1>. DEFINE new == {p \in ps : Mediated(cls, p) # pty[p].size}
<1>1. new \in SUBSET Ptys
  OBVIOUS
<1>2. /\ client' = [c \in Clients |->
                     IF new # {} /\ cls[c].on THEN ResizedClient(cls[c], new) ELSE cls[c]]
      /\ pty' = [p \in Ptys |-> IF p \notin new THEN pty[p]
                  ELSE [pty[p] EXCEPT !.size = Mediated(cls, p), !.ready = <<>>,
                                      !.dirty = TRUE]]
  BY DEF Mediate
<1>. HIDE DEF new
<1>3. ASSUME NEW c \in Clients
      PROVE  ClientOK(client'[c]) /\ Keeps(cls[c], client'[c]) /\ client'[c].subs = cls[c].subs
  <2>1. CASE new # {} /\ cls[c].on
    BY <1>1, <1>2, <2>1, ResizedKeeps
  <2>2. CASE ~(new # {} /\ cls[c].on)
    <3>1. client'[c] = cls[c]
      BY <1>2, <2>2
    <3>2. Keeps(cls[c], cls[c])
      BY SameStreams
    <3>. QED
      BY <3>1, <3>2
  <2>. QED
    BY <2>1, <2>2
<1>4. ASSUME NEW p \in Ptys PROVE PtyOK(pty'[p])
  <2>1. CASE p \notin new
    BY <1>2, <2>1
  <2>2. CASE p \in new
    <3>. DEFINE t == [pty[p] EXCEPT !.size = Mediated(cls, p), !.ready = <<>>, !.dirty = TRUE]
    <3>1. pty'[p] = t
      BY <1>2, <2>2
    <3>2. Mediated(cls, p) \in Sizes /\ pty[p] \in Pty
      BY MediatedIsSize
    <3>3. t \in Pty /\ t.ready = <<>>
      <4>. DEFINE sz == Mediated(cls, p)
      <4>1. sz \in Sizes /\ t = [pty[p] EXCEPT !.size = sz, !.ready = <<>>, !.dirty = TRUE]
        BY <3>2
      <4>2. <<>> \in Seq(Frame)
        OBVIOUS
      <4>. HIDE DEF sz, t
      <4>. QED
        BY <3>2, <4>1, <4>2 DEF Pty
    <3>. QED
      BY <3>1, <3>3 DEF PtyOK, Ordered
  <2>. QED
    BY <2>1, <2>2
<1>5. client' \in [Clients -> Client]
  <2>1. \A c \in Clients : client'[c] \in Client
    BY <1>3 DEF ClientOK
  <2>. QED
    BY <1>2, <2>1
<1>6. pty' \in [Ptys -> Pty]
  <2>1. \A p \in Ptys : pty'[p] \in Pty
    BY <1>4 DEF PtyOK
  <2>. QED
    BY <1>2, <2>1
<1>. QED
  BY <1>3, <1>4, <1>5, <1>6

-----------------------------------------------------------------------------
(* The inductive invariant.                                                *)

(* A diff being built is of a real frame, and its base is still last_sent  *)
(* if no reset of the stream has intervened.                               *)
JobOK ==
  pc = "building" =>
    /\ job.p \in Ptys /\ job.frame.size # 0
    /\ job.epoch <= client[visit.c].next
    /\ StreamIsCurrent(client[visit.c], job.p, job.epoch) => client[visit.c].last[job.p] = job.base

Inv ==
  /\ TypeOK
  /\ \A c \in Clients : ClientOK(client[c])
  /\ \A p \in Ptys : PtyOK(pty[p])
  /\ \A p \in Ptys : Sized(snaps[p])
  /\ JobOK

(* BaselineIsShown, with what parking and returning need besides.          *)
StreamsOK ==
  \A c \in Clients, p \in Ptys :
    client[c].on /\ p \in client[c].subs /\ ~lost[c][p] => StreamOK(client[c], p, grid[c][p])

(* The frame being built, if it is going to be sent, is for a live view.   *)
LiveViewsAreBuilt ==
  pc = "building" /\ client[visit.c].on /\ StreamIsCurrent(client[visit.c], job.p, job.epoch)
    => client[visit.c].offset[job.p] = 0

(* What holds of the tick when there is one PTY: the previews left are live*)
(* views, and none is left once the lock has been dropped.                 *)
OnePtyOK ==
  /\ pc = "previews" => \A p \in left : client[visit.c].offset[p] = 0
  /\ pc = "building" => left = {}
  /\ LiveViewsAreBuilt

(* A step of a message handler, of an ack, of a PTY or of the clock: the   *)
(* tick stays where it is, the streams are kept, and a client that shows   *)
(* something else than before is lost or has a stream that does not matter.*)
Handled ==
  /\ UNCHANGED <<pc, fed, snaps, todo, visit, left, job, newest>>
  /\ client' \in [Clients -> Client] /\ pty' \in [Ptys -> Pty]
  /\ grid' \in [Clients -> [Ptys -> Frame]] /\ lost' \in [Clients -> [Ptys -> BOOLEAN]]
  /\ requests' \in [Clients -> Nat]
  /\ \A c \in Clients : ClientOK(client'[c]) /\ Keeps(client[c], client'[c])
  /\ \A p \in Ptys : PtyOK(pty'[p])
  /\ \A c \in Clients, p \in Ptys :
       ~lost'[c][p] /\ p \in client'[c].subs =>
         \/ ~lost[c][p] /\ grid'[c][p] = grid[c][p]
         \/ \A g \in Frame : StreamOK(client'[c], p, g)
  /\ Unlocked \/ client' = client

(* A job whose stream is current after a handler was current before it.    *)
LEMMA StillCurrent ==
  ASSUME NEW a, NEW b, ClientOK(a), ClientOK(b), Keeps(a, b),
         NEW p \in Ptys, NEW e \in Nat, e <= a.next, StreamIsCurrent(b, p, e)
  PROVE  /\ StreamIsCurrent(a, p, e) /\ b.last[p] = a.last[p]
         /\ a.offset[p] = 0 => b.offset[p] = 0
<1>1. a.next \in Nat
  BY DEF ClientOK, Client
<1>. QED
  BY <1>1 DEF StreamIsCurrent, Keeps, SameOrNew

(* Handlers keep the inductive invariant.                                  *)
LEMMA HandledInv ==
  ASSUME Inv, Handled
  PROVE  Inv'
<1>. DEFINE v == visit.c
<1>1. TypeOK'
  BY DEF Inv, TypeOK, Handled
<1>2. JobOK'
  <2>1. SUFFICES ASSUME pc = "building"
                 PROVE  /\ job.p \in Ptys /\ job.frame.size # 0
                        /\ job.epoch <= client'[v].next
                        /\ StreamIsCurrent(client'[v], job.p, job.epoch)
                             => client'[v].last[job.p] = job.base
    BY DEF Handled, JobOK, StreamIsCurrent
  <2>2. v \in Clients /\ job.epoch \in Nat
    BY DEF Inv, TypeOK
  <2>3. /\ job.p \in Ptys /\ job.frame.size # 0 /\ job.epoch <= client[v].next
        /\ StreamIsCurrent(client[v], job.p, job.epoch) => client[v].last[job.p] = job.base
    BY <2>1 DEF Inv, JobOK
  <2>4. ClientOK(client[v]) /\ ClientOK(client'[v]) /\ Keeps(client[v], client'[v])
    BY <2>2 DEF Inv, Handled
  <2>5. client[v].next \in Nat /\ client'[v].next \in Nat /\ client[v].next <= client'[v].next
    BY <2>4 DEF ClientOK, Client, Keeps
  <2>6. job.epoch <= client'[v].next
    <3>. HIDE DEF v
    <3>. QED
      BY <2>2, <2>3, <2>5
  <2>7. ASSUME StreamIsCurrent(client'[v], job.p, job.epoch)
        PROVE  client'[v].last[job.p] = job.base
    BY <2>2, <2>3, <2>4, <2>7, StillCurrent
  <2>. QED
    BY <2>3, <2>6, <2>7
<1>. QED
  BY <1>1, <1>2 DEF Inv, Handled

(* Handlers keep what the clients show.                                    *)
LEMMA HandledStreams ==
  ASSUME Inv, StreamsOK, Handled
  PROVE  StreamsOK'
<1>1. SUFFICES ASSUME NEW c \in Clients, NEW p \in Ptys,
                      client'[c].on, p \in client'[c].subs, ~lost'[c][p]
               PROVE  StreamOK(client'[c], p, grid'[c][p])
  BY DEF StreamsOK, StreamOK
<1>2. grid'[c][p] \in Frame /\ grid[c][p] \in Frame
  BY DEF Handled, Inv, TypeOK
<1>3. CASE \A g \in Frame : StreamOK(client'[c], p, g)
  BY <1>2, <1>3
<1>4. CASE ~lost[c][p] /\ grid'[c][p] = grid[c][p]
  <2>1. Keeps(client[c], client'[c])
    BY DEF Handled
  <2>2. client[c].on /\ StreamKept(client[c], client'[c], p)
    BY <1>1, <2>1 DEF Keeps
  <2>3. p \in client[c].subs => StreamOK(client[c], p, grid[c][p])
    BY <1>4, <2>2 DEF StreamsOK
  <2>. QED
    BY <1>2, <1>4, <2>2, <2>3 DEF StreamKept
<1>. QED
  BY <1>1, <1>3, <1>4 DEF Handled

(* Handlers do not park the view a frame is being built for, unless they   *)
(* begin its stream anew.                                                  *)
LEMMA HandledOnePty ==
  ASSUME Inv, OnePtyOK, Handled
  PROVE  OnePtyOK'
<1>. DEFINE v == visit.c
<1>1. v \in Clients /\ job.epoch \in Nat
  BY DEF Inv, TypeOK
<1>2. LiveViewsAreBuilt'
  <2>1. SUFFICES ASSUME pc = "building", client'[v].on,
                        StreamIsCurrent(client'[v], job.p, job.epoch)
                 PROVE  client'[v].offset[job.p] = 0
    BY DEF Handled, LiveViewsAreBuilt, StreamIsCurrent
  <2>2. ClientOK(client[v]) /\ ClientOK(client'[v]) /\ Keeps(client[v], client'[v])
    BY <1>1 DEF Inv, Handled
  <2>3. job.p \in Ptys /\ job.epoch <= client[v].next
    BY <2>1 DEF Inv, JobOK
  <2>4. StreamIsCurrent(client[v], job.p, job.epoch)
        /\ (client[v].offset[job.p] = 0 => client'[v].offset[job.p] = 0)
    BY <1>1, <2>1, <2>2, <2>3, StillCurrent
  <2>5. client[v].on
    BY <2>1, <2>2 DEF Keeps
  <2>. QED
    BY <2>1, <2>4, <2>5 DEF OnePtyOK, LiveViewsAreBuilt
<1>3. (pc = "previews" => \A p \in left : client[visit.c].offset[p] = 0)'
  <2>1. pc = "previews" => client' = client
    BY DEF Handled, Unlocked
  <2>. QED
    BY <2>1 DEF Handled, OnePtyOK
<1>4. (pc = "building" => left = {})'
  BY DEF Handled, OnePtyOK
<1>. QED
  BY <1>2, <1>3, <1>4 DEF OnePtyOK

-----------------------------------------------------------------------------
(* Every handler is such a step.                                           *)

(* The parts of the invariant that the handlers start from.                *)
LEMMA InvParts ==
  ASSUME Inv
  PROVE  /\ client \in [Clients -> Client] /\ pty \in [Ptys -> Pty]
         /\ grid \in [Clients -> [Ptys -> Frame]] /\ lost \in [Clients -> [Ptys -> BOOLEAN]]
         /\ requests \in [Clients -> Nat]
         /\ \A c \in Clients : ClientOK(client[c]) /\ Keeps(client[c], client[c])
         /\ \A p \in Ptys : PtyOK(pty[p])
<1>1. \A c \in Clients : ClientOK(client[c])
  BY DEF Inv
<1>2. \A c \in Clients : Keeps(client[c], client[c])
  BY <1>1, SameStreams DEF ClientOK
<1>. QED
  BY <1>1, <1>2 DEF Inv, TypeOK

(* A handler that changes the record of one client.                        *)
LEMMA OneClient ==
  ASSUME Inv, NEW c \in Clients, NEW b, ClientOK(b), Keeps(client[c], b),
         client' = [client EXCEPT ![c] = b]
  PROVE  /\ client' \in [Clients -> Client]
         /\ \A d \in Clients : ClientOK(client'[d]) /\ Keeps(client[d], client'[d])
         /\ client'[c] = b
<1>1. client \in [Clients -> Client] /\ \A d \in Clients : ClientOK(client[d]) /\ Keeps(client[d], client[d])
  BY InvParts
<1>2. b \in Client
  BY DEF ClientOK
<1>. QED
  BY <1>1, <1>2

(* Marking a terminal dirty leaves its queue alone.                        *)
LEMMA MarkDirtyOK ==
  ASSUME Inv, NEW p, MarkDirty(p)
  PROVE  pty' \in [Ptys -> Pty] /\ \A q \in Ptys : PtyOK(pty'[q])
<1>1. pty \in [Ptys -> Pty] /\ \A q \in Ptys : PtyOK(pty[q])
  BY InvParts
<1>2. ASSUME NEW q \in Ptys
      PROVE  pty'[q] \in Pty /\ pty'[q].ready = pty[q].ready /\ pty'[q].ver = pty[q].ver
  BY <1>1 DEF MarkDirty, Pty
<1>3. ASSUME NEW q \in Ptys PROVE PtyOK(pty'[q])
  BY <1>1, <1>2 DEF PtyOK
<1>4. DOMAIN pty' = Ptys /\ pty' = [q \in Ptys |-> pty'[q]]
  BY <1>1 DEF MarkDirty
<1>. QED
  BY <1>2, <1>3, <1>4

(* A request is counted.                                                   *)
LEMMA RequestOK ==
  ASSUME Inv, NEW c \in Clients, Request(c)
  PROVE  requests' \in [Clients -> Nat] /\ Unlocked
  BY InvParts DEF Request

(* C2S_SUBSCRIBE: a client that had lost a delta is given a keyframe, so   *)
(* what it shows does not matter.                                          *)
LEMMA SubscribeHandled ==
  ASSUME Inv, NEW c \in Clients, NEW p \in Ptys, Subscribe(c, p)
  PROVE  Handled
<1>. DEFINE b == ResetBaseline(Subscribed(client[c], p), p)
<1>0. ClientOK(client[c]) /\ lost \in [Clients -> [Ptys -> BOOLEAN]]
      /\ grid \in [Clients -> [Ptys -> Frame]]
  BY InvParts
<1>1. ClientOK(b) /\ Keeps(client[c], b) /\ \A g \in Frame : StreamOK(b, p, g)
  BY <1>0, SubscribeKeeps
<1>2. client' = [client EXCEPT ![c] = b]
  BY DEF Subscribe
<1>. HIDE DEF b
<1>3. /\ client' \in [Clients -> Client]
      /\ \A d \in Clients : ClientOK(client'[d]) /\ Keeps(client[d], client'[d])
      /\ client'[c] = b
  BY <1>1, <1>2, OneClient
<1>4. lost' = [lost EXCEPT ![c] = [lost[c] EXCEPT ![p] = FALSE]]
  BY <1>0 DEF Subscribe
<1>5. lost' \in [Clients -> [Ptys -> BOOLEAN]]
  BY <1>0, <1>4
<1>6. \A d \in Clients, q \in Ptys : (d # c \/ q # p) => lost'[d][q] = lost[d][q]
  BY <1>0, <1>4
<1>7. grid' = grid
  BY DEF Subscribe
<1>8. \A d \in Clients, q \in Ptys :
        ~lost'[d][q] /\ q \in client'[d].subs =>
          \/ ~lost[d][q] /\ grid'[d][q] = grid[d][q]
          \/ \A g \in Frame : StreamOK(client'[d], q, g)
  BY <1>1, <1>3, <1>6, <1>7
<1>9. pty' \in [Ptys -> Pty] /\ \A q \in Ptys : PtyOK(pty'[q])
  BY MarkDirtyOK DEF Subscribe
<1>10. requests' \in [Clients -> Nat] /\ Unlocked
  BY RequestOK DEF Subscribe
<1>11. UNCHANGED <<pc, fed, snaps, todo, visit, left, job, newest>>
  BY DEF Subscribe, tickVars
<1>. QED
  BY <1>0, <1>3, <1>5, <1>7, <1>8, <1>9, <1>10, <1>11 DEF Handled

(* A handler that marks a terminal dirty and changes one client's record,  *)
(* but neither what is shown nor who is lost.                              *)
LEMMA QuietHandled ==
  ASSUME Inv, NEW c \in Clients, NEW p, NEW b, ClientOK(b), Keeps(client[c], b),
         client' = [client EXCEPT ![c] = b], MarkDirty(p), Request(c),
         UNCHANGED <<tickVars, grid, lost, newest>>
  PROVE  Handled
<1>1. /\ client' \in [Clients -> Client]
      /\ \A d \in Clients : ClientOK(client'[d]) /\ Keeps(client[d], client'[d])
  BY OneClient
<1>2. pty' \in [Ptys -> Pty] /\ \A q \in Ptys : PtyOK(pty'[q])
  BY MarkDirtyOK
<1>3. requests' \in [Clients -> Nat] /\ Unlocked
  BY RequestOK
<1>4. UNCHANGED <<pc, fed, snaps, todo, visit, left, job, newest, grid, lost>>
  BY DEF tickVars
<1>. QED
  BY <1>1, <1>2, <1>3, <1>4, InvParts DEF Handled

(* A change of the scrollback offset.                                      *)
LEMMA ScrollHandled ==
  ASSUME Inv, NEW c \in Clients, NEW p \in Ptys, NEW o \in 0 .. MaxOffset,
         client' = [client EXCEPT ![c] = UpdateScroll(client[c], p, o)],
         MarkDirty(p), Request(c), UNCHANGED <<tickVars, grid, lost, newest>>
  PROVE  Handled
<1>1. ClientOK(client[c])
  BY InvParts
<1>. QED
  BY <1>1, UpdateScrollKeeps, QuietHandled

(* C2S_SCROLL, C2S_SCROLL_BY and C2S_INPUT.                                *)
LEMMA ScrollsHandled ==
  ASSUME Inv, NEW c \in Clients, NEW p \in Ptys,
         \/ Input(c, p)
         \/ \E o \in 0 .. MaxOffset : Scroll(c, p, o)
         \/ \E d \in {-1, 1} : ScrollBy(c, p, d)
  PROVE  Handled
<1>0. 0 \in 0 .. MaxOffset
  BY DeliveryAssumption
<1>1. CASE Input(c, p)
  BY <1>0, <1>1, ScrollHandled DEF Input
<1>2. CASE \E o \in 0 .. MaxOffset : Scroll(c, p, o)
  BY <1>2, ScrollHandled DEF Scroll
<1>3. ASSUME NEW d \in {-1, 1}, ScrollBy(c, p, d) PROVE Handled
  <2>. DEFINE o == Clamp(client[c].offset[p] + d, pty[p].depth)
  <2>1. client[c] \in Client /\ pty[p] \in Pty
    BY InvParts
  <2>2. client[c].offset[p] + d \in Int /\ pty[p].depth \in 0 .. MaxOffset
    <3>1. client[c].offset[p] \in 0 .. MaxOffset /\ pty[p].depth \in {0, MaxOffset} /\ d \in Int
      BY <2>1 DEF Client, Pty
    <3>. QED
      BY <3>1, DeliveryAssumption
  <2>3. o \in 0 .. MaxOffset
    BY <2>2, ClampRange
  <2>4. client' = [client EXCEPT ![c] = UpdateScroll(client[c], p, o)]
    BY <1>3 DEF ScrollBy
  <2>. HIDE DEF o
  <2>. QED
    BY <1>3, <2>3, <2>4, ScrollHandled DEF ScrollBy
<1>. QED
  BY <1>1, <1>2, <1>3

(* C2S_FOCUS: subscribe if need be, then return to the live view or        *)
(* restart the pacing.                                                     *)
LEMMA FocusHandled ==
  ASSUME Inv, NEW c \in Clients, NEW p \in Ptys, Focus(c, p)
  PROVE  Handled
<1>. DEFINE a == [client[c] EXCEPT !.lead = p]
            cl == FirstSubscribe(a, p)
            b == IF client[c].lead = p THEN UpdateScroll(cl, p, 0) ELSE ResetInflight(cl)
<1>0. ClientOK(client[c]) /\ client[c] \in Client
  BY InvParts
<1>1. /\ a \in Client /\ a.on = client[c].on /\ a.next = client[c].next
      /\ a.subs = client[c].subs /\ a.epoch = client[c].epoch /\ a.last = client[c].last
      /\ a.cache = client[c].cache /\ a.offset = client[c].offset
  BY <1>0 DEF Client
<1>. HIDE DEF a
<1>2. ClientOK(a) /\ Keeps(client[c], a)
  BY <1>0, <1>1, SameStreams
<1>3. ClientOK(cl) /\ Keeps(a, cl)
  BY <1>2, FirstSubscribeKeeps
<1>4. 0 \in 0 .. MaxOffset
  BY DeliveryAssumption
<1>5. client' = [client EXCEPT ![c] = b]
  BY DEF Focus, a
<1>. HIDE DEF cl
<1>6. ClientOK(b) /\ Keeps(cl, b)
  BY <1>3, <1>4, UpdateScrollKeeps, ResetInflightKeeps
<1>. HIDE DEF b
<1>7. Keeps(client[c], b)
  BY <1>0, <1>2, <1>3, <1>6, KeepsTransitive
<1>. QED
  BY <1>5, <1>6, <1>7, QuietHandled DEF Focus

(* A handler that ends in a sizing of the PTYs of ps, after one client's   *)
(* record has become b.                                                    *)
LEMMA MediateHandled ==
  ASSUME Inv, NEW c \in Clients, NEW b, ClientOK(b), Keeps(client[c], b),
         NEW ps \in SUBSET Ptys, Mediate([client EXCEPT ![c] = b], ps)
  PROVE  /\ client' \in [Clients -> Client] /\ pty' \in [Ptys -> Pty]
         /\ \A d \in Clients : ClientOK(client'[d]) /\ Keeps(client[d], client'[d])
         /\ \A p \in Ptys : PtyOK(pty'[p])
         /\ client'[c].subs = b.subs
<1>. DEFINE cls == [client EXCEPT ![c] = b]
<1>0. /\ client \in [Clients -> Client] /\ pty \in [Ptys -> Pty]
      /\ \A d \in Clients : ClientOK(client[d]) /\ Keeps(client[d], client[d])
      /\ \A p \in Ptys : PtyOK(pty[p])
  BY InvParts
<1>1. b \in Client
  BY DEF ClientOK
<1>2. /\ cls \in [Clients -> Client] /\ cls[c] = b
      /\ \A d \in Clients : ClientOK(cls[d]) /\ Keeps(client[d], cls[d])
  BY <1>0, <1>1
<1>3. Mediate(cls, ps)
  OBVIOUS
<1>. HIDE DEF cls
<1>4. /\ client' \in [Clients -> Client] /\ pty' \in [Ptys -> Pty]
      /\ \A d \in Clients : /\ ClientOK(client'[d]) /\ Keeps(cls[d], client'[d])
                            /\ client'[d].subs = cls[d].subs
      /\ \A p \in Ptys : PtyOK(pty'[p])
  BY <1>0, <1>2, <1>3, MediateKeeps
<1>5. \A d \in Clients : Keeps(client[d], client'[d])
  BY <1>0, <1>2, <1>4, KeepsTransitive
<1>. QED
  BY <1>2, <1>4, <1>5

(* C2S_UNSUBSCRIBE: the stream is gone, whatever was lost of it.           *)
LEMMA UnsubscribeHandled ==
  ASSUME Inv, NEW c \in Clients, NEW p \in Ptys, Unsubscribe(c, p)
  PROVE  Handled
<1>. DEFINE u == Unsubscribed(client[c], p)
            b == ResetInflight(u)
            ps == IF p \in client[c].subs \/ client[c].view[p] > 0 THEN {p} ELSE {}
<1>0. /\ ClientOK(client[c]) /\ lost \in [Clients -> [Ptys -> BOOLEAN]]
      /\ grid \in [Clients -> [Ptys -> Frame]]
  BY InvParts
<1>1. ClientOK(u) /\ Keeps(client[c], u) /\ p \notin u.subs
  BY <1>0, UnsubscribedKeeps
<1>2. Mediate([client EXCEPT ![c] = b], ps) /\ ps \in SUBSET Ptys
  BY DEF Unsubscribe
<1>. HIDE DEF u, ps
<1>3. ClientOK(b) /\ Keeps(u, b) /\ b.subs = u.subs
  BY <1>1, ResetInflightKeeps, ResetInflightFields DEF ClientOK
<1>. HIDE DEF b
<1>4. Keeps(client[c], b)
  BY <1>0, <1>1, <1>3, KeepsTransitive
<1>5. /\ client' \in [Clients -> Client] /\ pty' \in [Ptys -> Pty]
      /\ \A d \in Clients : ClientOK(client'[d]) /\ Keeps(client[d], client'[d])
      /\ \A q \in Ptys : PtyOK(pty'[q])
      /\ client'[c].subs = b.subs
  BY <1>2, <1>3, <1>4, MediateHandled
<1>7. lost' = [lost EXCEPT ![c] = [lost[c] EXCEPT ![p] = FALSE]]
  BY <1>0 DEF Unsubscribe
<1>8. lost' \in [Clients -> [Ptys -> BOOLEAN]]
  BY <1>0, <1>7
<1>9. \A d \in Clients, q \in Ptys : (d # c \/ q # p) => lost'[d][q] = lost[d][q]
  BY <1>0, <1>7
<1>10. grid' = grid /\ UNCHANGED <<pc, fed, snaps, todo, visit, left, job, newest>>
  BY DEF Unsubscribe, tickVars
<1>11. \A d \in Clients, q \in Ptys :
         ~lost'[d][q] /\ q \in client'[d].subs => ~lost[d][q] /\ grid'[d][q] = grid[d][q]
  BY <1>1, <1>3, <1>5, <1>9, <1>10
<1>12. requests' \in [Clients -> Nat] /\ Unlocked
  BY RequestOK DEF Unsubscribe
<1>. QED
  BY <1>0, <1>5, <1>8, <1>10, <1>11, <1>12 DEF Handled

(* A handler that leaves the streams of its client alone and sizes PTYs.   *)
LEMMA SizeHandled ==
  ASSUME Inv, NEW c \in Clients, NEW b \in Client, NEW ps \in SUBSET Ptys,
         b.on => client[c].on, b.next = client[c].next, b.subs = client[c].subs,
         b.epoch = client[c].epoch, b.last = client[c].last, b.cache = client[c].cache,
         b.offset = client[c].offset,
         Mediate([client EXCEPT ![c] = b], ps), Request(c),
         UNCHANGED <<tickVars, grid, lost, newest>>
  PROVE  Handled
<1>1. ClientOK(b) /\ Keeps(client[c], b)
  BY InvParts, SameStreams
<1>2. /\ client' \in [Clients -> Client] /\ pty' \in [Ptys -> Pty]
      /\ \A d \in Clients : ClientOK(client'[d]) /\ Keeps(client[d], client'[d])
      /\ \A q \in Ptys : PtyOK(pty'[q])
  BY <1>1, MediateHandled
<1>3. requests' \in [Clients -> Nat] /\ Unlocked
  BY RequestOK
<1>4. UNCHANGED <<pc, fed, snaps, todo, visit, left, job, newest, grid, lost>>
  BY DEF tickVars
<1>. QED
  BY <1>2, <1>3, <1>4, InvParts DEF Handled

(* C2S_RESIZE of one PTY.                                                  *)
LEMMA ResizeHandled ==
  ASSUME Inv, NEW c \in Clients, NEW p \in Ptys, NEW sz \in Sizes \cup {0}, Resize(c, p, sz)
  PROVE  Handled
<1>. DEFINE vi == [client[c].view EXCEPT ![p] = sz]
            b == [client[c] EXCEPT !.view = vi]
<1>0. client[c] \in Client /\ client \in [Clients -> Client]
  BY InvParts
<1>1. vi \in [Ptys -> Sizes \cup {0}]
  BY <1>0 DEF Client
<1>2. [client EXCEPT ![c].view[p] = sz] = [client EXCEPT ![c] = b]
  BY <1>0 DEF Client
<1>. HIDE DEF vi
<1>3. /\ b \in Client /\ b.on = client[c].on /\ b.next = client[c].next
      /\ b.subs = client[c].subs /\ b.epoch = client[c].epoch /\ b.last = client[c].last
      /\ b.cache = client[c].cache /\ b.offset = client[c].offset
  BY <1>0, <1>1 DEF Client
<1>. HIDE DEF b
<1>4. Mediate([client EXCEPT ![c] = b], {p})
  BY <1>2 DEF Resize
<1>. QED
  BY <1>3, <1>4, SizeHandled DEF Resize

(* A disconnecting client gives up its sizes.                              *)
LEMMA DisconnectHandled ==
  ASSUME Inv, NEW c \in Clients, Disconnect(c)
  PROVE  Handled
<1>. DEFINE b == [client[c] EXCEPT !.on = FALSE]
            ps == {p \in Ptys : client[c].view[p] > 0}
<1>0. client[c] \in Client /\ client \in [Clients -> Client]
  BY InvParts
<1>1. /\ b \in Client /\ b.on = FALSE /\ b.next = client[c].next
      /\ b.subs = client[c].subs /\ b.epoch = client[c].epoch /\ b.last = client[c].last
      /\ b.cache = client[c].cache /\ b.offset = client[c].offset
  BY <1>0 DEF Client
<1>2. Mediate([client EXCEPT ![c] = b], ps) /\ ps \in SUBSET Ptys
  BY <1>0 DEF Disconnect
<1>. HIDE DEF b, ps
<1>. QED
  BY <1>1, <1>2, SizeHandled DEF Disconnect

(* A client that loses a delta is excused.                                 *)
LEMMA LoseDeltaHandled ==
  ASSUME Inv, NEW c \in Clients, NEW p \in Ptys, LoseDelta(c, p)
  PROVE  Handled
<1>0. /\ lost \in [Clients -> [Ptys -> BOOLEAN]] /\ grid \in [Clients -> [Ptys -> Frame]]
      /\ Torn \in Frame
  BY InvParts DEF Torn, Frame
<1>1. /\ lost' = [lost EXCEPT ![c] = [lost[c] EXCEPT ![p] = TRUE]]
      /\ grid' = [grid EXCEPT ![c] = [grid[c] EXCEPT ![p] = Torn]]
  BY <1>0 DEF LoseDelta
<1>2. lost' \in [Clients -> [Ptys -> BOOLEAN]] /\ grid' \in [Clients -> [Ptys -> Frame]]
  BY <1>0, <1>1
<1>3. /\ lost'[c][p] = TRUE
      /\ \A d \in Clients, q \in Ptys :
           (d # c \/ q # p) => lost'[d][q] = lost[d][q] /\ grid'[d][q] = grid[d][q]
  BY <1>0, <1>1
<1>4. requests' \in [Clients -> Nat] /\ Unlocked
  BY RequestOK DEF LoseDelta
<1>5. UNCHANGED <<pc, fed, snaps, todo, visit, left, job, newest, pty, client>>
  BY DEF LoseDelta, tickVars
<1>. QED
  BY <1>2, <1>3, <1>4, <1>5, InvParts DEF Handled

(* An ack or a deadline changes no stream.                                 *)
LEMMA PacingHandled ==
  ASSUME Inv, NEW c \in Clients, Ack(c) \/ LeadDue(c) \/ \E p \in Ptys : PreviewDue(c, p)
  PROVE  Handled
<1>0. client[c] \in Client /\ client \in [Clients -> Client] /\ ClientOK(client[c])
  BY InvParts
<1>1. ASSUME NEW b \in Client, client' = [client EXCEPT ![c] = b], Unlocked,
             b.on = client[c].on, b.next = client[c].next,
             b.subs = client[c].subs, b.epoch = client[c].epoch, b.last = client[c].last,
             b.cache = client[c].cache, b.offset = client[c].offset,
             UNCHANGED <<pty, tickVars, grid, lost, newest, requests>>
      PROVE  Handled
  <2>1. ClientOK(b) /\ Keeps(client[c], b)
    BY <1>0, <1>1, SameStreams
  <2>2. /\ client' \in [Clients -> Client]
        /\ \A d \in Clients : ClientOK(client'[d]) /\ Keeps(client[d], client'[d])
    BY <1>1, <2>1, OneClient
  <2>3. UNCHANGED <<pc, fed, snaps, todo, visit, left, job, newest, grid, lost, pty, requests>>
    BY <1>1 DEF tickVars
  <2>. QED
    BY <1>1, <2>2, <2>3, InvParts DEF Handled
<1>2. CASE Ack(c)
  <2>. DEFINE o == client[c].owed - 1
              i == IF client[c].inflight > 0 THEN client[c].inflight - 1 ELSE 0
              b == [client[c] EXCEPT !.owed = o, !.inflight = i]
  <2>1. o \in Nat /\ i \in Nat
    BY <1>0, <1>2 DEF Ack, Client
  <2>2. client' = [client EXCEPT ![c] = b]
    BY <1>0, <1>2 DEF Ack, Client
  <2>. HIDE DEF o, i
  <2>3. /\ b \in Client /\ b.on = client[c].on /\ b.next = client[c].next
        /\ b.subs = client[c].subs /\ b.epoch = client[c].epoch /\ b.last = client[c].last
        /\ b.cache = client[c].cache /\ b.offset = client[c].offset
    BY <1>0, <2>1 DEF Client
  <2>. HIDE DEF b
  <2>. QED
    BY <1>1, <1>2, <2>2, <2>3 DEF Ack
<1>3. CASE LeadDue(c)
  <2>. DEFINE b == [client[c] EXCEPT !.due = TRUE]
  <2>1. client' = [client EXCEPT ![c] = b]
    BY <1>0, <1>3 DEF LeadDue
  <2>2. /\ b \in Client /\ b.on = client[c].on /\ b.next = client[c].next
        /\ b.subs = client[c].subs /\ b.epoch = client[c].epoch /\ b.last = client[c].last
        /\ b.cache = client[c].cache /\ b.offset = client[c].offset
    BY <1>0 DEF Client
  <2>. HIDE DEF b
  <2>. QED
    BY <1>1, <1>3, <2>1, <2>2 DEF LeadDue, Unlocked
<1>4. ASSUME NEW p \in Ptys, PreviewDue(c, p) PROVE Handled
  <2>. DEFINE pd == [client[c].pdue EXCEPT ![p] = TRUE]
              b == [client[c] EXCEPT !.pdue = pd]
  <2>0. pd \in [Ptys -> BOOLEAN]
    BY <1>0 DEF Client
  <2>1. client' = [client EXCEPT ![c] = b]
    BY <1>0, <1>4 DEF PreviewDue
  <2>. HIDE DEF pd
  <2>2. /\ b \in Client /\ b.on = client[c].on /\ b.next = client[c].next
        /\ b.subs = client[c].subs /\ b.epoch = client[c].epoch /\ b.last = client[c].last
        /\ b.cache = client[c].cache /\ b.offset = client[c].offset
    BY <1>0, <2>0 DEF Client
  <2>. HIDE DEF b
  <2>. QED
    BY <1>1, <1>4, <2>1, <2>2 DEF PreviewDue, Unlocked
<1>. QED
  BY <1>2, <1>3, <1>4

(* Output is queued in front of the parser; a held burst is released.      *)
LEMMA OutputHandled ==
  ASSUME Inv, NEW p \in Ptys, Settle(p) \/ \E chunk \in Chunk : Output(p, chunk)
  PROVE  Handled
<1>0. pty \in [Ptys -> Pty] /\ \A q \in Ptys : PtyOK(pty[q])
  BY InvParts
<1>1. ASSUME NEW t \in Pty, t.ready = pty[p].ready, t.ver = pty[p].ver,
             pty' = [pty EXCEPT ![p] = t],
             UNCHANGED <<client, tickVars, grid, lost, newest, requests>>
      PROVE  Handled
  <2>1. /\ pty' \in [Ptys -> Pty]
        /\ \A q \in Ptys : pty'[q].ready = pty[q].ready /\ pty'[q].ver = pty[q].ver
    BY <1>0, <1>1
  <2>2. \A q \in Ptys : PtyOK(pty'[q])
    BY <1>0, <2>1 DEF PtyOK
  <2>3. UNCHANGED <<pc, fed, snaps, todo, visit, left, job, newest, grid, lost, client, requests>>
    BY <1>1 DEF tickVars
  <2>. QED
    BY <2>1, <2>2, <2>3, InvParts DEF Handled
<1>2. CASE Settle(p)
  <2>. DEFINE t == [pty[p] EXCEPT !.held = FALSE]
  <2>1. pty' = [pty EXCEPT ![p] = t] /\ t \in Pty /\ t.ready = pty[p].ready /\ t.ver = pty[p].ver
    BY <1>0, <1>2 DEF Settle, Pty
  <2>. HIDE DEF t
  <2>. QED
    BY <1>1, <1>2, <2>1 DEF Settle
<1>3. ASSUME NEW chunk \in Chunk, Output(p, chunk) PROVE Handled
  <2>. DEFINE i == Append(pty[p].input, chunk)
              t == [pty[p] EXCEPT !.input = i]
  <2>0. i \in Seq(Chunk)
    BY <1>0 DEF Pty
  <2>1. pty' = [pty EXCEPT ![p] = t]
    BY <1>0, <1>3 DEF Output
  <2>. HIDE DEF i
  <2>2. t \in Pty /\ t.ready = pty[p].ready /\ t.ver = pty[p].ver
    BY <1>0, <2>0 DEF Pty
  <2>. HIDE DEF t
  <2>. QED
    BY <1>1, <1>3, <2>1, <2>2 DEF Output
<1>. QED
  BY <1>2, <1>3

-----------------------------------------------------------------------------
(* The steps of the tick.                                                  *)

(* Steps between its parts change neither terminals nor clients.           *)
LEMMA BetweenInv ==
  ASSUME Inv,
         TickStart \/ ParseDone \/ ClientDone \/ TickEnd \/ \E c \in Clients : SkipClient(c)
  PROVE  Inv' /\ UNCHANGED <<client, grid, lost>> /\ pc' # "building" /\ (pc' = "previews" => FALSE)
<1>1. /\ UNCHANGED <<pty, client, grid, lost, newest, requests>>
      /\ pc' \in {"idle", "parse", "gap", "clients"}
  BY DEF TickStart, ParseDone, ClientDone, NextClient, TickEnd, SkipClient
<1>2. fed' \in Nat /\ todo' \in SUBSET Clients /\ left' \in SUBSET Ptys
  BY DEF Inv, TypeOK, TickStart, ParseDone, ClientDone, NextClient, TickEnd, SkipClient
<1>3. /\ NoVisit \in [c : Clients, lead : Ptys \cup {NoPty}, parked : SUBSET Ptys,
                      canLead : BOOLEAN, any : BOOLEAN]
      /\ NoJob \in [p : Ptys \cup {NoPty}, frame : Frame, base : Frame, epoch : Nat, lead : BOOLEAN]
      /\ NoSnap \in Frame /\ Sized(NoSnap)
  <2>1. (CHOOSE c \in Clients : TRUE) \in Clients
    BY DeliveryAssumption
  <2>. QED
    BY <2>1 DEF NoVisit, NoJob, NoSnap, Blank, Frame, Sized
<1>4. \/ UNCHANGED <<visit, job, snaps>>
      \/ visit' = NoVisit /\ job' = NoJob /\ snaps' = [p \in Ptys |-> NoSnap]
  BY DEF TickStart, ParseDone, ClientDone, TickEnd, SkipClient
<1>5. /\ visit' \in [c : Clients, lead : Ptys \cup {NoPty}, parked : SUBSET Ptys,
                     canLead : BOOLEAN, any : BOOLEAN]
      /\ job' \in [p : Ptys \cup {NoPty}, frame : Frame, base : Frame, epoch : Nat, lead : BOOLEAN]
      /\ snaps' \in [Ptys -> Frame] /\ \A p \in Ptys : Sized(snaps'[p])
  BY <1>3, <1>4 DEF Inv, TypeOK
<1>6. TypeOK'
  BY <1>1, <1>2, <1>5 DEF Inv, TypeOK
<1>7. JobOK'
  BY <1>1 DEF JobOK
<1>. QED
  BY <1>1, <1>5, <1>6, <1>7 DEF Inv

(* A chunk is parsed only while the queue of a watched terminal has room.  *)
LEMMA FeedInv ==
  ASSUME Inv, NEW p \in Ptys, NEW hold \in BOOLEAN, Feed(p, hold)
  PROVE  /\ Inv' /\ UNCHANGED <<client, grid, lost, newest, snaps>> /\ pc' = "parse"
         /\ \A q \in Ptys : Oldest(pty[q]) <= Oldest(pty'[q])
<1>. DEFINE chunk == Head(pty[p].input)
            mo == IF chunk.moves = "stay" THEN pty[p].moved ELSE pty[p].moved + 1
            sy == chunk.kind = "open" \/ (pty[p].synced /\ chunk.kind = "data")
            de == CASE chunk.moves = "scroll" -> MaxOffset
                    [] chunk.moves = "clear"  -> 0
                    [] OTHER -> pty[p].depth
            in == Tail(pty[p].input)
            ve == pty[p].ver + 1
            t == [pty[p] EXCEPT !.input = in, !.ver = ve, !.dirty = TRUE, !.held = hold,
                                !.synced = sy, !.moved = mo, !.depth = de]
            full == Len(t.ready) >= ReadyCap
            frame == [ver |-> t.ver, off |-> 0, size |-> t.size]
            re == IF full THEN t.ready ELSE Append(t.ready, frame)
            n == IF chunk.kind # "end" THEN t
                 ELSE [t EXCEPT !.ready = re, !.dirty = FALSE, !.held = FALSE]
<1>0. pty \in [Ptys -> Pty] /\ PtyOK(pty[p]) /\ pty[p] \in Pty /\ fed \in Nat
      /\ \A q \in Ptys : PtyOK(pty[q])
  BY InvParts DEF Inv, TypeOK
<1>1. /\ pc = "parse" /\ MayFeed(p) /\ fed' = fed + 1
      /\ pty' = [pty EXCEPT ![p] = n]
      /\ UNCHANGED <<client, pc, snaps, todo, visit, left, job, grid, lost, newest, requests>>
  BY DEF Feed
<1>2. pty[p].input \in Seq(Chunk) /\ pty[p].input # <<>>
  BY <1>0, <1>1 DEF Pty, MayFeed
<1>3. chunk \in Chunk /\ in \in Seq(Chunk)
  BY <1>2
<1>4. mo \in Nat /\ sy \in BOOLEAN /\ ve \in Nat
  BY <1>0 DEF Pty
<1>5. de \in {0, MaxOffset}
  <2>1. pty[p].depth \in {0, MaxOffset}
    BY <1>0 DEF Pty
  <2>2. CASE chunk.moves = "scroll"
    BY <2>2
  <2>3. CASE chunk.moves = "clear"
    BY <2>3
  <2>4. CASE chunk.moves # "scroll" /\ chunk.moves # "clear"
    BY <2>1, <2>4
  <2>. QED
    BY <2>2, <2>3, <2>4
<1>. HIDE DEF chunk, mo, sy, de, in, ve
<1>6. t \in Pty /\ t.ready = pty[p].ready /\ t.size = pty[p].size /\ t.ver = pty[p].ver + 1
  BY <1>0, <1>3, <1>4, <1>5 DEF Pty, ve
<1>. HIDE DEF t
<1>7. /\ t.ready \in Seq(Frame) /\ pty[p].ver \in Nat
      /\ (\A i \in 1 .. Len(t.ready) : t.ready[i].size # 0) /\ Ordered(t.ready, pty[p].ver)
  BY <1>0, <1>6 DEF Pty, PtyOK
<1>8. frame \in Frame /\ frame.size # 0 /\ frame.ver = pty[p].ver + 1
  BY <1>6, DeliveryAssumption DEF Pty, Frame
<1>9. /\ re \in Seq(Frame) /\ \A i \in 1 .. Len(re) : re[i].size # 0
      /\ Ordered(re, pty[p].ver + 1) /\ Ordered(t.ready, pty[p].ver + 1)
      /\ re = <<>> \/ re[1].ver = pty[p].ver + 1 \/ (t.ready # <<>> /\ re[1] = t.ready[1])
  <2>. HIDE DEF frame
  <2>. DEFINE q == t.ready
              v == pty[p].ver
  <2>1. q \in Seq(Frame) /\ v \in Nat /\ (\A i \in 1 .. Len(q) : q[i].size # 0) /\ Ordered(q, v)
    BY <1>7
  <2>2. frame \in Frame /\ frame.size # 0 /\ frame.ver = v + 1
    BY <1>8
  <2>3. re = q \/ re = Append(q, frame)
    OBVIOUS
  <2>. HIDE DEF q, v, re
  <2>4. /\ Ordered(q, v + 1) /\ Append(q, frame) \in Seq(Frame)
        /\ \A i \in 1 .. Len(Append(q, frame)) : Append(q, frame)[i].size # 0
        /\ Ordered(Append(q, frame), v + 1)
        /\ Append(q, frame)[1].ver = v + 1 \/ (q # <<>> /\ Append(q, frame)[1] = q[1])
    BY <2>1, <2>2, QueueGrows
  <2>5. /\ re \in Seq(Frame) /\ \A i \in 1 .. Len(re) : re[i].size # 0
        /\ Ordered(re, v + 1) /\ Ordered(q, v + 1)
        /\ re = <<>> \/ re[1].ver = v + 1 \/ (q # <<>> /\ re[1] = q[1])
    BY <2>1, <2>3, <2>4, Zenon
  <2>. QED
    BY <2>5 DEF q, v
<1>10. n \in Pty /\ (n.ready = t.ready \/ n.ready = re) /\ n.ver = pty[p].ver + 1
  <2>1. CASE chunk.kind # "end"
    BY <1>6, <2>1
  <2>2. CASE chunk.kind = "end"
    <3>. HIDE DEF re
    <3>. QED
      BY <1>6, <1>9, <2>2 DEF Pty
  <2>. QED
    BY <2>1, <2>2
<1>. HIDE DEF n, re, frame
<1>11. PtyOK(n)
  BY <1>7, <1>9, <1>10 DEF PtyOK
<1>12. Oldest(pty[p]) <= Oldest(n)
  BY <1>0, <1>6, <1>9, <1>10, OldestGrows
<1>13. pty' \in [Ptys -> Pty] /\ \A q \in Ptys : PtyOK(pty'[q])
  BY <1>0, <1>1, <1>10, <1>11
<1>14. fed' \in Nat
  BY <1>0, <1>1
<1>15. TypeOK'
  BY <1>1, <1>13, <1>14 DEF Inv, TypeOK
<1>16. JobOK'
  BY <1>1 DEF JobOK
<1>17. ASSUME NEW q \in Ptys PROVE Oldest(pty[q]) <= Oldest(pty'[q])
  <2>1. CASE q = p
    BY <1>0, <1>1, <1>12, <2>1
  <2>2. CASE q # p
    <3>1. Oldest(pty[q]) \in Nat /\ pty'[q] = pty[q]
      BY <1>0, <1>1, <2>2, OldestIsOld
    <3>. QED
      BY <3>1
  <2>. QED
    BY <2>1, <2>2
<1>. QED
  BY <1>1, <1>13, <1>14, <1>15, <1>16, <1>17 DEF Inv

(* Taking a frame off the queue leaves the rest of it, none of it older.   *)
LEMMA TailOK ==
  ASSUME NEW t \in Pty, PtyOK(t), t.ready # <<>>
  PROVE  /\ Tail(t.ready) \in Seq(Frame) /\ Ordered(Tail(t.ready), t.ver)
         /\ \A i \in 1 .. Len(Tail(t.ready)) : Tail(t.ready)[i].size # 0
         /\ Head(t.ready) \in Frame /\ Head(t.ready).size # 0 /\ Head(t.ready).ver = Oldest(t)
         /\ Tail(t.ready) # <<>> => Oldest(t) <= Tail(t.ready)[1].ver
<1>. DEFINE r == t.ready
            v == t.ver
<1>1. r \in Seq(Frame) /\ r # <<>> /\ Ordered(r, v) /\ \A i \in 1 .. Len(r) : r[i].size # 0
  BY DEF Pty, PtyOK
<1>0. Oldest(t) = r[1].ver
  BY <1>1 DEF Oldest
<1>. HIDE DEF r, v
<1>2. Len(r) \in Nat /\ Len(r) >= 1 /\ Len(Tail(r)) = Len(r) - 1 /\ Tail(r) \in Seq(Frame)
      /\ Head(r) = r[1] /\ Head(r) \in Frame
  BY <1>1
<1>3. \A i \in 1 .. Len(Tail(r)) : Tail(r)[i] = r[i + 1] /\ i + 1 \in 1 .. Len(r)
  BY <1>1, <1>2
<1>4. Ordered(Tail(r), v)
  <2>1. ASSUME NEW i \in 1 .. Len(Tail(r)), NEW j \in i .. Len(Tail(r))
        PROVE  Tail(r)[i].ver <= Tail(r)[j].ver
    <3>1. j \in 1 .. Len(Tail(r)) /\ i + 1 \in 1 .. Len(r) /\ j + 1 \in (i + 1) .. Len(r)
      BY <1>2
    <3>2. r[i + 1].ver <= r[j + 1].ver
      BY <1>1, <3>1 DEF Ordered
    <3>. QED
      BY <1>3, <3>1, <3>2
  <2>2. \A i \in 1 .. Len(Tail(r)) : Tail(r)[i].ver <= v
    BY <1>1, <1>3 DEF Ordered
  <2>. QED
    BY <2>1, <2>2 DEF Ordered
<1>5. 1 \in 1 .. Len(r)
  BY <1>2
<1>6. ASSUME Tail(r) # <<>> PROVE r[1].ver <= Tail(r)[1].ver
  <2>1. 1 \in 1 .. Len(Tail(r)) /\ 2 \in 1 .. Len(r)
    BY <1>2, <1>6
  <2>2. Tail(r)[1] = r[2]
    BY <1>3, <2>1
  <2>. QED
    BY <1>1, <1>5, <2>1, <2>2 DEF Ordered
<1>7. /\ \A i \in 1 .. Len(Tail(r)) : Tail(r)[i].size # 0
      /\ Head(r) \in Frame /\ Head(r).size # 0
  BY <1>1, <1>2, <1>3, <1>5
<1>. QED
  BY <1>0, <1>2, <1>4, <1>6, <1>7 DEF r, v

(* What a PTY gives up is nothing or a frame of it.                        *)
LEMMA SnapshotOfOK ==
  ASSUME Inv, NEW p \in Ptys
  PROVE  /\ SnapshotOf(p) \in Frame /\ Sized(SnapshotOf(p))
         /\ SnapshotOf(p) # NoSnap => SnapshotOf(p).ver = Oldest(pty[p])
         /\ Source(p) \in {"none", "queue", "screen"}
         /\ Source(p) = "queue" => pty[p].ready # <<>>
         /\ Source(p) = "screen" => pty[p].ready = <<>>
<1>0. pty[p] \in Pty /\ PtyOK(pty[p])
  BY InvParts
<1>1. NoSnap \in Frame /\ Sized(NoSnap)
  BY DEF NoSnap, Blank, Frame, Sized
<1>2. Live(p) \in Frame /\ Sized(Live(p)) /\ Live(p).ver = pty[p].ver
  BY <1>0, DeliveryAssumption DEF Live, Frame, Sized, Pty
<1>3. CASE Needful(p) /\ pty[p].ready # <<>>
  <2>1. Source(p) = "queue"
    BY <1>3 DEF Source
  <2>2. SnapshotOf(p) = Head(pty[p].ready)
    BY <2>1 DEF SnapshotOf
  <2>3. Head(pty[p].ready) \in Frame /\ Head(pty[p].ready).size # 0 /\ Head(pty[p].ready).ver = Oldest(pty[p])
    BY <1>0, <1>3, TailOK
  <2>. QED
    BY <1>3, <2>1, <2>2, <2>3 DEF Sized
<1>4. CASE ~Needful(p)
  <2>1. Source(p) = "none"
    BY <1>4 DEF Source
  <2>2. SnapshotOf(p) = NoSnap
    BY <2>1 DEF SnapshotOf
  <2>. QED
    BY <1>1, <2>1, <2>2
<1>5. CASE Needful(p) /\ pty[p].ready = <<>>
  <2>1. Source(p) = IF ScreenIsDue(p) THEN "screen" ELSE "none"
    BY <1>5, SMTT(30) DEF Source
  <2>2. Source(p) \in {"none", "screen"}
    BY <2>1
  <2>3. SnapshotOf(p) = IF Source(p) = "screen" THEN Live(p) ELSE NoSnap
    BY <2>2 DEF SnapshotOf
  <2>4. Oldest(pty[p]) = pty[p].ver
    BY <1>5 DEF Oldest
  <2>. QED
    BY <1>1, <1>2, <1>5, <2>2, <2>3, <2>4
<1>. QED
  BY <1>3, <1>4, <1>5

(* The snapshots are frames of terminals, and parked views keep theirs.    *)
LEMMA SnapshotInv ==
  ASSUME Inv, Snapshot
  PROVE  /\ Inv' /\ UNCHANGED <<grid, lost, newest>> /\ pc' = "clients"
         /\ \A c \in Clients : Keeps(client[c], client'[c])
         /\ \A p \in Ptys : /\ Oldest(pty[p]) <= Oldest(pty'[p])
                            /\ snaps'[p] # NoSnap => snaps'[p].ver = Oldest(pty[p])
<1>. DEFINE T(p) == LET t == [pty[p] EXCEPT !.moved = 0]
                    IN CASE Source(p) = "queue"  -> [t EXCEPT !.ready = Tail(@)]
                         [] Source(p) = "screen" -> [t EXCEPT !.dirty = FALSE]
                         [] OTHER -> t
<1>0. /\ pty \in [Ptys -> Pty] /\ client \in [Clients -> Client]
      /\ \A q \in Ptys : PtyOK(pty[q])
      /\ \A c \in Clients : ClientOK(client[c]) /\ Keeps(client[c], client[c])
  BY InvParts, ZenonT(60)
<1>1. /\ pc' = "clients"
      /\ snaps' = [p \in Ptys |-> SnapshotOf(p)]
      /\ pty' = [p \in Ptys |-> T(p)]
      /\ client' = [c \in Clients |-> IF client[c].on THEN Reanchored(client[c]) ELSE client[c]]
      /\ todo' = {c \in Clients : client[c].on}
      /\ UNCHANGED <<fed, visit, left, job, grid, lost, newest, requests>>
  BY DEF Snapshot
<1>2. ASSUME NEW p \in Ptys PROVE T(p) \in Pty /\ PtyOK(T(p)) /\ Oldest(pty[p]) <= Oldest(T(p))
  <2>. DEFINE t == [pty[p] EXCEPT !.moved = 0]
  <2>0. pty[p] \in Pty
    BY <1>0
  <2>1. t \in Pty /\ t.ready = pty[p].ready /\ t.ver = pty[p].ver
    BY <2>0 DEF Pty
  <2>2. PtyOK(t) /\ Oldest(t) = Oldest(pty[p])
    <3>. HIDE DEF t
    <3>. QED
      BY <1>0, <2>1 DEF PtyOK, Oldest
  <2>3. T(p) = CASE Source(p) = "queue"  -> [t EXCEPT !.ready = Tail(t.ready)]
                 [] Source(p) = "screen" -> [t EXCEPT !.dirty = FALSE]
                 [] OTHER -> t
    OBVIOUS
  <2>. HIDE DEF t, T
  <2>0a. /\ Source(p) \in {"none", "queue", "screen"}
         /\ Source(p) = "queue" => t.ready # <<>>
         /\ Oldest(t) \in Nat /\ Oldest(t) <= t.ver /\ t.ver \in Nat
    BY <2>1, <2>2, SnapshotOfOK, OldestIsOld
  <2>4. CASE Source(p) = "none"
    <3>1. T(p) = t
      BY <2>3, <2>4
    <3>. QED
      BY <2>0a, <2>1, <2>2, <3>1
  <2>5. CASE Source(p) = "queue"
    <3>. DEFINE tl == Tail(t.ready)
                u == [t EXCEPT !.ready = tl]
    <3>1. /\ tl \in Seq(Frame) /\ Ordered(tl, t.ver)
          /\ \A i \in 1 .. Len(tl) : tl[i].size # 0
          /\ tl # <<>> => Oldest(t) <= tl[1].ver
      BY <2>0a, <2>1, <2>2, <2>5, TailOK
    <3>2. T(p) = u
      BY <2>3, <2>5
    <3>. HIDE DEF tl
    <3>3. u \in Pty /\ u.ready = tl /\ u.ver = t.ver
      BY <2>1, <3>1 DEF Pty
    <3>. HIDE DEF u
    <3>4. PtyOK(u)
      BY <3>1, <3>3 DEF PtyOK
    <3>5. Oldest(t) <= Oldest(u)
      BY <2>0a, <3>1, <3>3 DEF Oldest
    <3>. QED
      BY <2>2, <3>2, <3>3, <3>4, <3>5
  <2>6. CASE Source(p) = "screen"
    <3>. DEFINE u == [t EXCEPT !.dirty = FALSE]
    <3>1. u \in Pty /\ u.ready = t.ready /\ u.ver = t.ver
      BY <2>1 DEF Pty
    <3>2. T(p) = u
      BY <2>3, <2>6
    <3>. HIDE DEF u
    <3>3. PtyOK(u) /\ Oldest(u) = Oldest(t)
      BY <2>2, <3>1 DEF PtyOK, Oldest
    <3>. QED
      BY <2>0a, <2>2, <3>1, <3>2, <3>3
  <2>. QED
    BY <2>0a, <2>4, <2>5, <2>6
<1>. HIDE DEF T
<1>3. /\ pty' \in [Ptys -> Pty]
      /\ \A p \in Ptys : PtyOK(pty'[p]) /\ Oldest(pty[p]) <= Oldest(pty'[p])
  BY <1>1, <1>2
<1>4. ASSUME NEW c \in Clients PROVE ClientOK(client'[c]) /\ Keeps(client[c], client'[c])
  <2>1. CASE client[c].on
    BY <1>0, <1>1, <2>1, ReanchoredKeeps
  <2>2. CASE ~client[c].on
    BY <1>0, <1>1, <2>2
  <2>. QED
    BY <2>1, <2>2
<1>5. client' \in [Clients -> Client]
  <2>1. \A c \in Clients : client'[c] \in Client
    BY <1>4 DEF ClientOK
  <2>. QED
    BY <1>1, <2>1
<1>6. /\ snaps' \in [Ptys -> Frame]
      /\ \A p \in Ptys : Sized(snaps'[p]) /\ (snaps'[p] # NoSnap => snaps'[p].ver = Oldest(pty[p]))
  BY <1>1, SnapshotOfOK
<1>7. TypeOK'
  BY <1>1, <1>3, <1>5, <1>6 DEF Inv, TypeOK
<1>8. JobOK'
  BY <1>1 DEF JobOK
<1>. QED
  BY <1>1, <1>3, <1>4, <1>6, <1>7, <1>8, SMTT(30) DEF Inv

(* The job of a client and PTY is of a real frame, and based on last_sent. *)
LEMMA StartBuildOK ==
  ASSUME Inv, NEW c \in Clients, NEW p \in Ptys, NEW lead \in BOOLEAN, snaps[p] # NoSnap,
         NEW v, StartBuild(v, client[c], p, lead)
  PROVE  /\ pc' = "building"
         /\ job' \in [p : Ptys \cup {NoPty}, frame : Frame, base : Frame, epoch : Nat,
                      lead : BOOLEAN]
         /\ job'.p = p /\ job'.frame.size # 0 /\ job'.epoch <= client[c].next
         /\ job'.base = client[c].last[p]
<1>1. client[c] \in Client /\ ClientOK(client[c])
  BY InvParts
<1>2. client[c].last[p] \in Frame /\ client[c].epoch[p] \in Nat /\ client[c].epoch[p] <= client[c].next
  BY <1>1 DEF ClientOK, Client
<1>3. snaps[p] \in Frame /\ snaps[p].size # 0
  BY DEF Inv, TypeOK, Sized, NoSnap
<1>. QED
  BY <1>2, <1>3 DEF StartBuild

(* A preview is built for a PTY that was left.                             *)
LEMMA PreviewInv ==
  ASSUME Inv, PreviewStep
  PROVE  /\ Inv' /\ UNCHANGED <<client, grid, lost, visit>>
         /\ left # {} /\ Min(left) \in left /\ left' = left \ {Min(left)} /\ pc = "previews"
         /\ pc' = "previews" \/ (pc' = "building" /\ job'.p = Min(left))
<1>. DEFINE p == Min(left)
            c == visit.c
<1>0. left \subseteq Ptys /\ left # {} /\ c \in Clients
  BY DEF Inv, TypeOK, PreviewStep
<1>1. p \in left /\ p \in Ptys
  BY <1>0, MinIsMember, DeliveryAssumption
<1>2. /\ pc = "previews" /\ left' = left \ {p}
      /\ UNCHANGED <<pty, client, fed, snaps, todo, visit, grid, lost, newest, requests>>
      /\ \/ snaps[p] # NoSnap /\ StartBuild(visit, client[c], p, FALSE)
         \/ UNCHANGED <<job, pc>>
  BY DEF PreviewStep
<1>. HIDE DEF p, c
<1>3. CASE snaps[p] # NoSnap /\ StartBuild(visit, client[c], p, FALSE)
  <2>1. /\ pc' = "building"
        /\ job' \in [p : Ptys \cup {NoPty}, frame : Frame, base : Frame, epoch : Nat,
                     lead : BOOLEAN]
        /\ job'.p = p /\ job'.frame.size # 0 /\ job'.epoch <= client[c].next
        /\ job'.base = client[c].last[p]
    BY <1>0, <1>1, <1>3, StartBuildOK
  <2>2. TypeOK'
    BY <1>0, <1>2, <2>1 DEF Inv, TypeOK
  <2>3. JobOK'
    BY <1>1, <1>2, <2>1 DEF JobOK, c
  <2>. QED
    BY <1>0, <1>1, <1>2, <2>1, <2>2, <2>3 DEF Inv, p
<1>4. CASE UNCHANGED <<job, pc>>
  <2>1. TypeOK'
    BY <1>0, <1>2, <1>4, ZenonT(60) DEF Inv, TypeOK
  <2>2. JobOK'
    BY <1>2, <1>4, ZenonT(60) DEF JobOK
  <2>. QED
    BY <1>0, <1>1, <1>2, <1>4, <2>1, <2>2 DEF Inv, p
<1>. QED
  BY <1>2, <1>3, <1>4

(* What FinishBuild leaves of the client it served, when it sends.         *)
LEMMA SentOK ==
  ASSUME Inv, pc = "building"
  PROVE  LET cl == client[visit.c]
             sent == [Recorded(cl, job.lead) EXCEPT
                        !.last[job.p] = job.frame, !.pdue[job.p] = @ /\ job.lead]
         IN /\ ClientOK(sent)
            /\ sent.on = cl.on /\ sent.subs = cl.subs /\ sent.cache = cl.cache
            /\ sent.offset = cl.offset /\ sent.last = [cl.last EXCEPT ![job.p] = job.frame]
<1>. DEFINE cl == client[visit.c]
            r == Recorded(cl, job.lead)
            la == [cl.last EXCEPT ![job.p] = job.frame]
            pd == [cl.pdue EXCEPT ![job.p] = @ /\ job.lead]
            du == cl.due /\ ~job.lead
            in == cl.inflight + 1
            ow == cl.owed + 1
            sent == [cl EXCEPT !.inflight = in, !.owed = ow, !.due = du, !.last = la, !.pdue = pd]
<1>0. /\ visit.c \in Clients /\ job.frame \in Frame /\ job.lead \in BOOLEAN /\ job.p \in Ptys
      /\ job.frame.size # 0
  BY DEF Inv, TypeOK, JobOK
<1>1. cl \in Client /\ ClientOK(cl)
  BY <1>0, InvParts
<1>2. [Recorded(cl, job.lead) EXCEPT !.last[job.p] = job.frame, !.pdue[job.p] = @ /\ job.lead]
        = sent
  <2>. HIDE DEF cl
  <2>. QED
    BY <1>1 DEF Recorded, Client
<1>. HIDE DEF cl
<1>3. /\ la \in [Ptys -> Frame] /\ pd \in [Ptys -> BOOLEAN] /\ du \in BOOLEAN
      /\ in \in Nat /\ ow \in Nat
  <2>1. cl.last \in [Ptys -> Frame] /\ cl.pdue \in [Ptys -> BOOLEAN] /\ cl.due \in BOOLEAN
        /\ cl.inflight \in Nat /\ cl.owed \in Nat
    BY <1>1 DEF Client
  <2>. QED
    BY <1>0, <2>1
<1>4. \A q \in Ptys : la[q] = IF q = job.p THEN job.frame ELSE cl.last[q]
  BY <1>1 DEF Client
<1>. HIDE DEF la, pd, du, in, ow
<1>5. /\ sent \in Client /\ sent.on = cl.on /\ sent.subs = cl.subs /\ sent.cache = cl.cache
      /\ sent.offset = cl.offset /\ sent.last = la /\ sent.next = cl.next
      /\ sent.epoch = cl.epoch
  BY <1>1, <1>3 DEF Client
<1>. HIDE DEF sent
<1>6. ClientOK(sent)
  <2>1. \A q \in Ptys : Sized(la[q])
    BY <1>0, <1>1, <1>4 DEF ClientOK, Sized
  <2>. QED
    BY <1>1, <1>5, <2>1 DEF ClientOK
<1>. QED
  BY <1>2, <1>5, <1>6 DEF cl, la

(* What FinishBuild does, whether it sends or not.                         *)
LEMMA FinishInv ==
  ASSUME Inv, FinishBuild
  PROVE  /\ Inv' /\ UNCHANGED lost /\ pc' # "building" /\ pc = "building"
         /\ pc' = "previews" => UNCHANGED left
<1>. DEFINE c == visit.c
            cl == client[c]
            p == job.p
            current == StreamIsCurrent(cl, p, job.epoch)
            sends == current /\ job.frame # job.base
            sent == [Recorded(cl, job.lead) EXCEPT
                       !.last[p] = job.frame, !.pdue[p] = @ /\ job.lead]
<1>0. /\ client \in [Clients -> Client] /\ pty \in [Ptys -> Pty] /\ c \in Clients
      /\ grid \in [Clients -> [Ptys -> Frame]]
      /\ \A d \in Clients : ClientOK(client[d])
      /\ \A q \in Ptys : PtyOK(pty[q])
  BY InvParts DEF Inv, TypeOK
<1>1. /\ pc = "building"
      /\ client' = IF cl.on /\ sends THEN [client EXCEPT ![c] = sent] ELSE client
      /\ grid' = IF cl.on /\ sends
                 THEN [grid EXCEPT ![c][p] = Shown(@, job.frame, job.base)] ELSE grid
      /\ pty' = IF cl.on /\ ~current THEN [pty EXCEPT ![p].dirty = TRUE] ELSE pty
      /\ \/ NextClient
         \/ pc' = "previews" /\ UNCHANGED <<todo, left>>
      /\ newest' = [newest EXCEPT ![c][p] = Newest(@, grid'[c][p])]
      /\ UNCHANGED <<fed, snaps, visit, job, lost, requests>>
  BY DEF FinishBuild
<1>2. p \in Ptys /\ job.frame \in Frame
  BY <1>1 DEF Inv, JobOK, TypeOK
<1>3. ClientOK(sent)
  BY <1>1, SentOK
<1>. HIDE DEF sent, sends, current
<1>4. client' \in [Clients -> Client] /\ \A d \in Clients : ClientOK(client'[d])
  <2>1. sent \in Client
    BY <1>3 DEF ClientOK
  <2>2. CASE cl.on /\ sends
    BY <1>0, <1>1, <1>3, <2>1, <2>2
  <2>3. CASE ~(cl.on /\ sends)
    BY <1>0, <1>1, <2>3
  <2>. QED
    BY <2>2, <2>3
<1>5. grid' \in [Clients -> [Ptys -> Frame]]
  <2>1. CASE cl.on /\ sends
    <3>1. grid' = [grid EXCEPT ![c] = [grid[c] EXCEPT ![p] = Shown(grid[c][p], job.frame, job.base)]]
      BY <1>0, <1>1, <1>2, <2>1
    <3>2. Shown(grid[c][p], job.frame, job.base) \in Frame
      BY <1>2 DEF Shown, Torn, Frame
    <3>. QED
      BY <1>0, <3>1, <3>2
  <2>2. CASE ~(cl.on /\ sends)
    BY <1>0, <1>1, <2>2
  <2>. QED
    BY <2>1, <2>2
<1>6. pty' \in [Ptys -> Pty] /\ \A q \in Ptys : PtyOK(pty'[q])
  <2>1. CASE cl.on /\ ~current
    BY <1>1, <2>1, MarkDirtyOK DEF MarkDirty
  <2>2. CASE ~(cl.on /\ ~current)
    BY <1>0, <1>1, <2>2
  <2>. QED
    BY <2>1, <2>2
<1>7. /\ pc' \in {"clients", "previews"} /\ todo' \in SUBSET Clients /\ left' \in SUBSET Ptys
      /\ pc' = "previews" => UNCHANGED left
  BY <1>1 DEF NextClient, Inv, TypeOK
<1>8. newest' \in [Clients -> [Ptys -> Nat]]
  <2>1. newest \in [Clients -> [Ptys -> Nat]]
    BY DEF Inv, TypeOK
  <2>2. newest[c][p] \in Nat /\ grid'[c][p] \in Frame
    BY <1>0, <1>2, <1>5, <2>1
  <2>3. Newest(newest[c][p], grid'[c][p]) \in Nat
    BY <2>2 DEF Newest, Frame
  <2>4. newest' = [newest EXCEPT ![c] = [newest[c] EXCEPT ![p] = Newest(newest[c][p], grid'[c][p])]]
    BY <1>0, <1>1, <1>2, <2>1
  <2>. QED
    BY <1>0, <1>2, <2>1, <2>3, <2>4
<1>9. TypeOK'
  BY <1>1, <1>4, <1>5, <1>6, <1>7, <1>8 DEF Inv, TypeOK
<1>10. JobOK'
  BY <1>7 DEF JobOK
<1>. QED
  BY <1>1, <1>4, <1>6, <1>7, <1>9, <1>10 DEF Inv

(* A diff sent for a live view leaves the client showing the frame, which  *)
(* is last_sent from then on.                                              *)
LEMMA FinishStreams ==
  ASSUME Inv, StreamsOK, LiveViewsAreBuilt, FinishBuild
  PROVE  StreamsOK'
<1>. DEFINE c == visit.c
            cl == client[c]
            p == job.p
            sends == StreamIsCurrent(cl, p, job.epoch) /\ job.frame # job.base
            sent == [Recorded(cl, job.lead) EXCEPT
                       !.last[p] = job.frame, !.pdue[p] = @ /\ job.lead]
            shown == Shown(grid[c][p], job.frame, job.base)
<1>0. /\ client \in [Clients -> Client] /\ c \in Clients /\ cl \in Client
      /\ grid \in [Clients -> [Ptys -> Frame]]
  BY InvParts DEF Inv, TypeOK
<1>1. /\ pc = "building" /\ lost' = lost
      /\ client' = IF cl.on /\ sends THEN [client EXCEPT ![c] = sent] ELSE client
      /\ grid' = IF cl.on /\ sends
                 THEN [grid EXCEPT ![c][p] = Shown(@, job.frame, job.base)] ELSE grid
  BY DEF FinishBuild
<1>2. CASE ~(cl.on /\ sends)
  BY <1>1, <1>2 DEF StreamsOK, StreamOK
<1>3. CASE cl.on /\ sends
  <2>1. /\ p \in Ptys /\ job.frame.size # 0 /\ cl.last[p] = job.base /\ p \in cl.subs
        /\ cl.offset[p] = 0
    BY <1>1, <1>3 DEF Inv, JobOK, LiveViewsAreBuilt, StreamIsCurrent
  <2>2. /\ sent.on = cl.on /\ sent.subs = cl.subs /\ sent.cache = cl.cache
        /\ sent.offset = cl.offset /\ sent.last = [cl.last EXCEPT ![p] = job.frame]
    BY <1>1, SentOK
  <2>. HIDE DEF sent
  <2>3. /\ client' = [client EXCEPT ![c] = sent]
        /\ grid' = [grid EXCEPT ![c] = [grid[c] EXCEPT ![p] = shown]]
    BY <1>0, <1>1, <1>3, <2>1
  <2>. HIDE DEF shown
  <2>4. /\ client'[c] = sent /\ grid'[c][p] = shown
        /\ \A d \in Clients \ {c} : client'[d] = client[d] /\ grid'[d] = grid[d]
        /\ \A q \in Ptys \ {p} : grid'[c][q] = grid[c][q]
    BY <1>0, <2>1, <2>3
  <2>5. sent.last[p] = job.frame /\ \A q \in Ptys \ {p} : sent.last[q] = cl.last[q]
    BY <1>0, <2>1, <2>2 DEF Client
  <2>6. ASSUME NEW d \in Clients, NEW q \in Ptys,
               client'[d].on, q \in client'[d].subs, ~lost[d][q]
        PROVE  StreamOK(client'[d], q, grid'[d][q])
    <3>1. CASE d # c
      BY <2>4, <2>6, <3>1 DEF StreamsOK
    <3>2. CASE d = c /\ q # p
      <4>1. StreamOK(cl, q, grid[c][q])
        BY <1>3, <2>2, <2>4, <2>6, <3>2 DEF StreamsOK
      <4>. QED
        BY <2>2, <2>4, <2>5, <3>2, <4>1 DEF StreamOK
    <3>3. CASE d = c /\ q = p
      <4>1. StreamOK(cl, p, grid[c][p])
        BY <1>3, <2>1, <2>6, <3>3 DEF StreamsOK
      <4>2. cl.last[p] # Blank => grid[c][p] = job.base
        BY <2>1, <4>1 DEF StreamOK
      <4>3. shown = job.frame
        BY <2>1, <4>2 DEF shown, Shown, Blank
      <4>. QED
        BY <2>1, <2>2, <2>4, <2>5, <3>3, <4>3 DEF StreamOK
    <3>. QED
      BY <3>1, <3>2, <3>3
  <2>. QED
    BY <1>1, <2>6 DEF StreamsOK, StreamOK
<1>. QED
  BY <1>2, <1>3

(* What the scrollback frames sent to a client leave of its record, and of *)
(* what it shows.                                                          *)
LEMMA ScrollSendsOK ==
  ASSUME Inv, NEW c \in Clients, NEW v, v = CaptureVisit(c), SendScrollFrames(v, client[c])
  PROVE  LET cl == client[c]
             now == ScrollSends(v, cl)
             b == client'[c]
         IN /\ client' \in [Clients -> Client] /\ grid' \in [Clients -> [Ptys -> Frame]]
            /\ ClientOK(b) /\ \A d \in Clients \ {c} : client'[d] = client[d] /\ grid'[d] = grid[d]
            /\ b.on = cl.on /\ b.subs = cl.subs /\ b.last = cl.last /\ b.offset = cl.offset
            /\ b.next = cl.next /\ b.epoch = cl.epoch
            /\ \A p \in now : /\ cl.offset[p] > 0 /\ p \in Ptys
                              /\ ScrollFrame(cl, p) \in Frame /\ ScrollFrame(cl, p).size # 0
                              /\ b.cache[p] = ScrollFrame(cl, p)
                              /\ grid'[c][p] = Shown(grid[c][p], ScrollFrame(cl, p), ScrollBase(cl, p))
            /\ \A p \in Ptys \ now : b.cache[p] = cl.cache[p] /\ grid'[c][p] = grid[c][p]
<1>. DEFINE cl == client[c]
            now == ScrollSends(v, cl)
            ca == [p \in Ptys |-> IF p \in now THEN ScrollFrame(cl, p) ELSE cl.cache[p]]
            gr == [p \in Ptys |-> IF p \in now
                     THEN Shown(grid[c][p], ScrollFrame(cl, p), ScrollBase(cl, p)) ELSE grid[c][p]]
            in == cl.inflight + Cardinality(now)
            ow == cl.owed + Cardinality(now)
            du == cl.due /\ v.lead \notin now
            b == [cl EXCEPT !.cache = ca, !.inflight = in, !.owed = ow, !.due = du]
<1>0. /\ client \in [Clients -> Client] /\ cl \in Client /\ ClientOK(cl) /\ pty \in [Ptys -> Pty]
      /\ grid \in [Clients -> [Ptys -> Frame]]
  BY InvParts
<1>1. v.parked = {p \in Ptys : cl.offset[p] > 0} /\ v.c = c
  BY DEF CaptureVisit, Parked
<1>2. now \subseteq Ptys /\ \A p \in now : cl.offset[p] > 0
  BY <1>1 DEF ScrollSends
<1>3. Cardinality(now) \in Nat
  BY <1>2, FS_Subset, FS_CardinalityType, DeliveryAssumption
<1>4. \A p \in Ptys : ScrollFrame(cl, p) \in Frame /\ ScrollFrame(cl, p).size # 0
  <2>1. \A p \in Ptys : /\ pty[p].ver \in Nat /\ pty[p].size \in Sizes
                        /\ cl.offset[p] \in 0 .. MaxOffset
    BY <1>0 DEF Client, Pty
  <2>2. \A p \in Ptys : pty[p].size \in Nat /\ pty[p].size # 0 /\ cl.offset[p] \in Nat
    <3>1. \A s \in Sizes : s \in Nat /\ s # 0
      BY DeliveryAssumption
    <3>2. \A o \in 0 .. MaxOffset : o \in Nat
      BY DeliveryAssumption
    <3>. QED
      BY <2>1, <3>1, <3>2
  <2>. QED
    BY <2>1, <2>2 DEF ScrollFrame, Frame
<1>5. client' = [client EXCEPT ![c] = b] /\ grid' = [grid EXCEPT ![c] = gr]
  BY <1>0, <1>1 DEF SendScrollFrames
<1>. HIDE DEF now, cl
<1>6. /\ ca \in [Ptys -> Frame]
      /\ \A p \in Ptys : ca[p] = IF p \in now THEN ScrollFrame(cl, p) ELSE cl.cache[p]
  BY <1>0, <1>2, <1>4 DEF Client
<1>7. /\ gr \in [Ptys -> Frame]
      /\ \A p \in Ptys : gr[p] = IF p \in now
           THEN Shown(grid[c][p], ScrollFrame(cl, p), ScrollBase(cl, p)) ELSE grid[c][p]
  <2>1. Torn \in Frame
    BY DEF Torn, Frame
  <2>2. \A p \in Ptys : Shown(grid[c][p], ScrollFrame(cl, p), ScrollBase(cl, p)) \in Frame
    BY <1>4, <2>1 DEF Shown
  <2>. QED
    BY <1>0, <2>2
<1>8. in \in Nat /\ ow \in Nat /\ du \in BOOLEAN
  BY <1>0, <1>3 DEF Client
<1>. HIDE DEF ca, gr, in, ow, du
<1>9. /\ b \in Client /\ b.on = cl.on /\ b.subs = cl.subs /\ b.last = cl.last
      /\ b.offset = cl.offset /\ b.next = cl.next /\ b.epoch = cl.epoch /\ b.cache = ca
  BY <1>0, <1>6, <1>8 DEF Client
<1>. HIDE DEF b
<1>10. /\ client' \in [Clients -> Client] /\ grid' \in [Clients -> [Ptys -> Frame]]
       /\ client'[c] = b /\ grid'[c] = gr
       /\ \A d \in Clients \ {c} : client'[d] = client[d] /\ grid'[d] = grid[d]
  BY <1>0, <1>5, <1>7, <1>9
<1>11. ClientOK(b)
  <2>1. \A p \in Ptys : ca[p] = Gone \/ Sized(ca[p])
    BY <1>0, <1>4, <1>6 DEF ClientOK, Sized
  <2>. QED
    BY <1>0, <1>9, <2>1 DEF ClientOK
<1>12. /\ client' \in [Clients -> Client] /\ grid' \in [Clients -> [Ptys -> Frame]]
       /\ ClientOK(client'[c])
       /\ \A d \in Clients \ {c} : client'[d] = client[d] /\ grid'[d] = grid[d]
       /\ client'[c].on = cl.on /\ client'[c].subs = cl.subs /\ client'[c].last = cl.last
       /\ client'[c].offset = cl.offset /\ client'[c].next = cl.next
       /\ client'[c].epoch = cl.epoch
  BY <1>9, <1>10, <1>11
<1>13. \A p \in now :
         /\ cl.offset[p] > 0 /\ p \in Ptys
         /\ ScrollFrame(cl, p) \in Frame /\ ScrollFrame(cl, p).size # 0
         /\ client'[c].cache[p] = ScrollFrame(cl, p)
         /\ grid'[c][p] = Shown(grid[c][p], ScrollFrame(cl, p), ScrollBase(cl, p))
  BY <1>2, <1>4, <1>6, <1>7, <1>9, <1>10
<1>14. \A p \in Ptys \ now : client'[c].cache[p] = cl.cache[p] /\ grid'[c][p] = grid[c][p]
  BY <1>6, <1>7, <1>9, <1>10
<1>. QED
  BY <1>12, <1>13, <1>14 DEF cl, now

(* What a visit to a client begins with.                                   *)
LEMMA BeginInv ==
  ASSUME Inv, NEW c \in Clients, ClientBegin(c)
  PROVE  /\ Inv' /\ UNCHANGED lost /\ visit' = CaptureVisit(c) /\ visit'.c = c
         /\ SendScrollFrames(visit', client[c])
         /\ left' = client[c].subs \ ({client[c].lead} \cup Parked(client[c]))
         /\ \/ pc' = "previews"
            \/ /\ pc' = "building" /\ job'.p = client[c].lead /\ job'.p \in Ptys
               /\ job'.p \notin Parked(client[c])
<1>. DEFINE cl == client[c]
            v == CaptureVisit(c)
            builds == v.lead # NoPty /\ v.lead \notin v.parked /\ v.canLead
                      /\ snaps[v.lead] # NoSnap
<1>0. cl \in Client /\ cl.lead \in Ptys \cup {NoPty} /\ cl.subs \subseteq Ptys
  BY InvParts DEF Client
<1>1. /\ visit' = v /\ left' = cl.subs \ ({cl.lead} \cup v.parked)
      /\ SendScrollFrames(v, cl)
      /\ IF builds THEN StartBuild(v, cl, v.lead, TRUE) ELSE pc' = "previews" /\ UNCHANGED job
      /\ UNCHANGED <<pty, fed, snaps, todo, lost, newest, requests>>
  BY DEF ClientBegin
<1>2. /\ v.c = c /\ v.lead = cl.lead /\ v.parked = Parked(cl)
      /\ v \in [c : Clients, lead : Ptys \cup {NoPty}, parked : SUBSET Ptys,
                canLead : BOOLEAN, any : BOOLEAN]
  <2>1. Parked(cl) \in SUBSET Ptys
    BY DEF Parked
  <2>2. (LeadOpen(cl) /\ cl.due) \in BOOLEAN /\ (LeadOpen(cl) \/ WindowOpen(cl)) \in BOOLEAN
    OBVIOUS
  <2>. QED
    BY <1>0, <2>1, <2>2 DEF CaptureVisit
<1>. HIDE DEF v
<1>3. /\ client' \in [Clients -> Client] /\ grid' \in [Clients -> [Ptys -> Frame]]
      /\ ClientOK(client'[c]) /\ \A d \in Clients \ {c} : client'[d] = client[d]
      /\ client'[c].subs = cl.subs /\ client'[c].last = cl.last /\ client'[c].next = cl.next
      /\ client'[c].epoch = cl.epoch
  BY <1>1, ScrollSendsOK DEF v
<1>4. \A d \in Clients : ClientOK(client'[d])
  BY <1>3, InvParts
<1>5. left' \in SUBSET Ptys
  BY <1>0, <1>1
<1>6. CASE ~builds
  <2>1. TypeOK'
    BY <1>1, <1>2, <1>3, <1>5, <1>6 DEF Inv, TypeOK
  <2>2. JobOK'
    BY <1>1, <1>6 DEF JobOK
  <2>3. Inv'
    BY <1>1, <1>4, <2>1, <2>2 DEF Inv
  <2>. QED
    BY <1>1, <1>2, <1>6, <2>3 DEF v
<1>7. CASE builds
  <2>1. StartBuild(v, client[c], v.lead, TRUE) /\ v.lead \in Ptys /\ snaps[v.lead] # NoSnap
    BY <1>0, <1>1, <1>2, <1>7
  <2>2. /\ pc' = "building"
        /\ job' \in [p : Ptys \cup {NoPty}, frame : Frame, base : Frame, epoch : Nat,
                     lead : BOOLEAN]
        /\ job'.p = v.lead /\ job'.frame.size # 0 /\ job'.epoch <= cl.next
        /\ job'.base = cl.last[v.lead]
    BY <2>1, StartBuildOK
  <2>3. TypeOK'
    BY <1>1, <1>2, <1>3, <1>5, <2>2 DEF Inv, TypeOK
  <2>4. JobOK'
    BY <1>1, <1>2, <1>3, <2>1, <2>2 DEF JobOK
  <2>5. Inv'
    BY <1>1, <1>4, <2>3, <2>4 DEF Inv
  <2>6. job'.p = cl.lead /\ job'.p \in Ptys /\ job'.p \notin Parked(cl)
    BY <1>2, <1>7, <2>1, <2>2
  <2>. QED
    BY <1>1, <1>2, <2>2, <2>5, <2>6 DEF v
<1>. QED
  BY <1>6, <1>7

(* A scrollback frame leaves a parked client showing it, and it is cached. *)
LEMMA BeginStreams ==
  ASSUME Inv, StreamsOK, NEW c \in Clients, ClientBegin(c)
  PROVE  StreamsOK'
<1>. DEFINE cl == client[c]
            v == CaptureVisit(c)
            now == ScrollSends(v, cl)
<1>0. lost' = lost /\ SendScrollFrames(v, client[c])
  BY BeginInv
<1>1. /\ \A d \in Clients \ {c} : client'[d] = client[d] /\ grid'[d] = grid[d]
      /\ client'[c].on = cl.on /\ client'[c].subs = cl.subs /\ client'[c].last = cl.last
      /\ client'[c].offset = cl.offset
      /\ \A p \in now : /\ cl.offset[p] > 0 /\ p \in Ptys /\ ScrollFrame(cl, p).size # 0
                        /\ client'[c].cache[p] = ScrollFrame(cl, p)
                        /\ grid'[c][p] = Shown(grid[c][p], ScrollFrame(cl, p), ScrollBase(cl, p))
      /\ \A p \in Ptys \ now : client'[c].cache[p] = cl.cache[p] /\ grid'[c][p] = grid[c][p]
  BY <1>0, ScrollSendsOK
<1>. HIDE DEF now
<1>2. ASSUME NEW d \in Clients, NEW p \in Ptys,
             client'[d].on, p \in client'[d].subs, ~lost[d][p]
      PROVE  StreamOK(client'[d], p, grid'[d][p])
  <2>1. CASE d # c
    BY <1>1, <1>2, <2>1 DEF StreamsOK
  <2>2. CASE d = c /\ p \notin now
    <3>1. StreamOK(cl, p, grid[c][p])
      BY <1>1, <1>2, <2>2 DEF StreamsOK
    <3>. QED
      BY <1>1, <2>2, <3>1 DEF StreamOK
  <2>3. CASE d = c /\ p \in now
    <3>1. StreamOK(cl, p, grid[c][p])
      BY <1>1, <1>2, <2>3 DEF StreamsOK
    <3>2. cl.offset[p] # 0
      BY <1>1, <2>3, InvParts DEF Client
    <3>3. ScrollBase(cl, p) = Blank \/ grid[c][p] = ScrollBase(cl, p)
      BY <3>1, <3>2 DEF StreamOK, ScrollBase
    <3>4. grid'[c][p] = ScrollFrame(cl, p)
      BY <1>1, <2>3, <3>3 DEF Shown, Blank
    <3>5. client'[c].cache[p] = ScrollFrame(cl, p) /\ client'[c].offset[p] # 0
          /\ ScrollFrame(cl, p).size # 0
      BY <1>1, <2>3, <3>2
    <3>. QED
      BY <2>3, <3>4, <3>5 DEF StreamOK, Gone
  <2>. QED
    BY <2>1, <2>2, <2>3
<1>. QED
  BY <1>0, <1>2 DEF StreamsOK, StreamOK

-----------------------------------------------------------------------------
(* The theorems.                                                           *)

(* The steps that are not the tick's are handlers.                         *)
LEMMA OthersHandled ==
  ASSUME Inv,
         \/ Passing
         \/ \E c \in Clients : Message(c) \/ Ack(c)
         \/ \E p \in Ptys, kind \in ChunkKinds, moves \in ChunkMoves :
              Output(p, [kind |-> kind, moves |-> moves])
  PROVE  Handled
<1>1. CASE Passing
  BY <1>1, OutputHandled, PacingHandled DEF Passing
<1>2. ASSUME NEW c \in Clients, Message(c) PROVE Handled
  <2>1. CASE \E p \in Ptys : Subscribe(c, p) \/ Unsubscribe(c, p) \/ Focus(c, p) \/ Input(c, p)
                             \/ LoseDelta(c, p)
    BY <2>1, SubscribeHandled, UnsubscribeHandled, FocusHandled, ScrollsHandled, LoseDeltaHandled
  <2>2. CASE \E p \in Ptys, o \in 0 .. MaxOffset : Scroll(c, p, o)
    BY <2>2, ScrollsHandled
  <2>3. CASE \E p \in Ptys, d \in {-1, 1} : ScrollBy(c, p, d)
    BY <2>3, ScrollsHandled
  <2>4. CASE \E p \in Ptys, sz \in Sizes \cup {0} : Resize(c, p, sz)
    BY <2>4, ResizeHandled
  <2>5. CASE Disconnect(c)
    BY <2>5, DisconnectHandled
  <2>. QED
    BY <1>2, <2>1, <2>2, <2>3, <2>4, <2>5 DEF Message
<1>3. ASSUME NEW c \in Clients, Ack(c) PROVE Handled
  BY <1>3, PacingHandled
<1>4. ASSUME NEW p \in Ptys, NEW kind \in ChunkKinds, NEW moves \in ChunkMoves,
             Output(p, [kind |-> kind, moves |-> moves])
      PROVE  Handled
  <2>1. [kind |-> kind, moves |-> moves] \in Chunk
    BY DeliveryAssumption DEF Chunk
  <2>. QED
    BY <1>4, <2>1, OutputHandled
<1>. QED
  BY <1>1, <1>2, <1>3, <1>4

(* The invariants hold at the start.                                       *)
LEMMA InitOK ==
  ASSUME Init
  PROVE  Inv /\ StreamsOK /\ OnePtyOK
<1>0. Blank \in Frame /\ Gone \in Frame
  BY DEF Blank, Gone, Frame
<1>1. pty \in [Ptys -> Pty] /\ \A p \in Ptys : PtyOK(pty[p])
  <2>. DEFINE S == {[input |-> <<>>, ver |-> 0, size |-> s, synced |-> FALSE,
                     held |-> FALSE, dirty |-> TRUE, ready |-> <<>>,
                     depth |-> 0, moved |-> 0] : s \in Sizes}
  <2>1. pty \in [Ptys -> S]
    BY DEF Init
  <2>2. ASSUME NEW t \in S PROVE t \in Pty /\ t.ready = <<>>
    <3>1. <<>> \in Seq(Chunk) /\ <<>> \in Seq(Frame)
      OBVIOUS
    <3>2. PICK s \in Sizes : t = [input |-> <<>>, ver |-> 0, size |-> s, synced |-> FALSE,
                                  held |-> FALSE, dirty |-> TRUE, ready |-> <<>>,
                                  depth |-> 0, moved |-> 0]
      BY <2>2
    <3>. QED
      BY <3>1, <3>2 DEF Pty
  <2>. HIDE DEF S
  <2>3. ASSUME NEW p \in Ptys PROVE pty[p] \in Pty /\ pty[p].ready = <<>>
    BY <2>1, <2>2
  <2>4. \A p \in Ptys : PtyOK(pty[p])
    BY <2>3 DEF PtyOK, Ordered
  <2>. QED
    BY <2>1, <2>3, <2>4
<1>2. ASSUME NEW c \in Clients PROVE ClientOK(client[c]) /\ \A p \in Ptys :
               client[c].last[p] = Blank /\ client[c].offset[p] = 0
  <2>. DEFINE ep == [p \in Ptys |-> IF p \in StartSubs[c] THEN 1 ELSE 0]
              la == [p \in Ptys |-> Blank]
              ca == [p \in Ptys |-> Gone]
              of == [p \in Ptys |-> 0]
              pd == [p \in Ptys |-> TRUE]
              s == [on |-> TRUE, subs |-> StartSubs[c], lead |-> StartLead[c], epoch |-> ep,
                    next |-> 1, last |-> la, cache |-> ca, offset |-> of, view |-> of,
                    inflight |-> 0, owed |-> 0, due |-> TRUE, pdue |-> pd]
  <2>1. /\ ep \in [Ptys -> Nat] /\ la \in [Ptys -> Frame] /\ ca \in [Ptys -> Frame]
        /\ of \in [Ptys -> 0 .. MaxOffset] /\ of \in [Ptys -> Sizes \cup {0}]
        /\ pd \in [Ptys -> BOOLEAN]
    BY <1>0, DeliveryAssumption
  <2>2. \A p \in Ptys : ep[p] <= 1 /\ la[p] = Blank /\ ca[p] = Gone /\ of[p] = 0
    OBVIOUS
  <2>3. client[c] = s
    BY DEF Init, StartClient
  <2>4. StartSubs[c] \in SUBSET Ptys /\ StartLead[c] \in Ptys \cup {NoPty}
    BY DeliveryAssumption
  <2>. HIDE DEF ep, la, ca, of, pd
  <2>5. /\ s \in Client /\ s.epoch = ep /\ s.next = 1 /\ s.last = la /\ s.cache = ca
        /\ s.offset = of
    BY <2>1, <2>4 DEF Client
  <2>. HIDE DEF s
  <2>6. ClientOK(s)
    BY <2>2, <2>5 DEF ClientOK, Sized
  <2>. QED
    BY <2>2, <2>3, <2>5, <2>6
<1>3. client \in [Clients -> Client]
  <2>1. \A c \in Clients : client[c] \in Client
    BY <1>2 DEF ClientOK
  <2>. QED
    BY <2>1 DEF Init
<1>4. /\ NoVisit \in [c : Clients, lead : Ptys \cup {NoPty}, parked : SUBSET Ptys,
                      canLead : BOOLEAN, any : BOOLEAN]
      /\ NoJob \in [p : Ptys \cup {NoPty}, frame : Frame, base : Frame, epoch : Nat, lead : BOOLEAN]
  <2>1. (CHOOSE c \in Clients : TRUE) \in Clients
    BY DeliveryAssumption
  <2>. QED
    BY <1>0, <2>1 DEF NoVisit, NoJob
<1>5. snaps \in [Ptys -> Frame] /\ \A p \in Ptys : Sized(snaps[p])
  BY <1>0 DEF Init, NoSnap, Sized
<1>6. /\ grid \in [Clients -> [Ptys -> Frame]] /\ lost \in [Clients -> [Ptys -> BOOLEAN]]
      /\ requests \in [Clients -> Nat] /\ newest \in [Clients -> [Ptys -> Nat]]
  BY <1>0 DEF Init
<1>7. TypeOK
  BY <1>1, <1>3, <1>4, <1>5, <1>6 DEF Init, TypeOK
<1>8. Inv
  BY <1>1, <1>2, <1>5, <1>7 DEF Inv, Init, JobOK
<1>9. StreamsOK
  BY <1>2 DEF StreamsOK, StreamOK
<1>10. OnePtyOK
  BY DEF OnePtyOK, LiveViewsAreBuilt, Init
<1>. QED
  BY <1>8, <1>9, <1>10

(* Every step keeps Inv.                                                   *)
LEMMA NextInv ==
  ASSUME Inv, [Next]_vars
  PROVE  Inv'
<1>1. CASE TickStep
  BY <1>1, BetweenInv, SnapshotInv, FinishInv, PreviewInv, FeedInv, BeginInv DEF TickStep
<1>2. CASE Next /\ ~TickStep
  BY <1>2, OthersHandled, HandledInv DEF Next
<1>3. CASE UNCHANGED vars
  BY <1>3 DEF vars, tickVars, Inv, TypeOK, JobOK, StreamIsCurrent
<1>. QED
  BY <1>1, <1>2, <1>3

(* Every step keeps StreamsOK, if what is being built is a live view.      *)
LEMMA NextStreams ==
  ASSUME Inv, StreamsOK, LiveViewsAreBuilt, [Next]_vars
  PROVE  StreamsOK'
<1>0. ASSUME UNCHANGED <<client, grid, lost>> PROVE StreamsOK'
  BY <1>0 DEF StreamsOK, StreamOK
<1>1. CASE \/ TickStart \/ ParseDone \/ ClientDone \/ TickEnd \/ PreviewStep
           \/ \E c \in Clients : SkipClient(c)
           \/ \E p \in Ptys, hold \in BOOLEAN : Feed(p, hold)
  BY <1>0, <1>1, BetweenInv, PreviewInv, FeedInv
<1>2. CASE Snapshot
  <2>1. /\ UNCHANGED <<grid, lost>>
        /\ \A c \in Clients : Keeps(client[c], client'[c])
    BY <1>2, SnapshotInv
  <2>2. ASSUME NEW c \in Clients, NEW p \in Ptys,
               client'[c].on, p \in client'[c].subs, ~lost[c][p]
        PROVE  StreamOK(client'[c], p, grid[c][p])
    <3>1. client[c].on /\ StreamKept(client[c], client'[c], p)
      BY <2>1, <2>2 DEF Keeps
    <3>2. p \in client[c].subs => StreamOK(client[c], p, grid[c][p])
      BY <2>2, <3>1 DEF StreamsOK
    <3>3. grid[c][p] \in Frame
      BY DEF Inv, TypeOK
    <3>. QED
      BY <3>1, <3>2, <3>3 DEF StreamKept
  <2>. QED
    BY <2>1, <2>2 DEF StreamsOK, StreamOK
<1>3. CASE FinishBuild
  BY <1>3, FinishStreams
<1>4. CASE \E c \in Clients : ClientBegin(c)
  BY <1>4, BeginStreams
<1>5. CASE Next /\ ~TickStep
  BY <1>5, OthersHandled, HandledStreams DEF Next
<1>6. CASE UNCHANGED vars
  BY <1>0, <1>6 DEF vars
<1>. QED
  BY <1>1, <1>2, <1>3, <1>4, <1>5, <1>6 DEF TickStep

(* With one PTY, every step keeps OnePtyOK.                                *)
LEMMA NextOnePty ==
  ASSUME Inv, OnePtyOK, NEW p0, Ptys = {p0}, [Next]_vars
  PROVE  OnePtyOK'
<1>1. CASE \/ TickStart \/ ParseDone \/ ClientDone \/ TickEnd
           \/ \E c \in Clients : SkipClient(c)
  BY <1>1, BetweenInv DEF OnePtyOK, LiveViewsAreBuilt
<1>2. CASE \E p \in Ptys, hold \in BOOLEAN : Feed(p, hold)
  BY <1>2, FeedInv DEF OnePtyOK, LiveViewsAreBuilt
<1>3. CASE Snapshot
  BY <1>3, SnapshotInv DEF OnePtyOK, LiveViewsAreBuilt
<1>4. CASE FinishBuild
  <2>1. pc' # "building" /\ left = {} /\ (pc' = "previews" => left' = left)
    BY <1>4, FinishInv DEF OnePtyOK
  <2>. QED
    BY <2>1 DEF OnePtyOK, LiveViewsAreBuilt
<1>5. CASE PreviewStep
  <2>. DEFINE p == Min(left)
  <2>1. /\ UNCHANGED <<client, visit>> /\ p \in left /\ left' = left \ {p} /\ pc = "previews"
        /\ pc' = "previews" \/ (pc' = "building" /\ job'.p = p)
    BY <1>5, PreviewInv
  <2>2. left \subseteq Ptys
    BY DEF Inv, TypeOK
  <2>. HIDE DEF p
  <2>3. left' = {} /\ client[visit.c].offset[p] = 0
    BY <2>1, <2>2 DEF OnePtyOK
  <2>. QED
    BY <2>1, <2>3 DEF OnePtyOK, LiveViewsAreBuilt
<1>6. ASSUME NEW c \in Clients, ClientBegin(c) PROVE OnePtyOK'
  <2>. DEFINE cl == client[c]
  <2>1. /\ visit'.c = c /\ visit' = CaptureVisit(c) /\ SendScrollFrames(visit', cl)
        /\ left' = cl.subs \ ({cl.lead} \cup Parked(cl))
        /\ \/ pc' = "previews"
           \/ /\ pc' = "building" /\ job'.p = cl.lead /\ job'.p \in Ptys
              /\ job'.p \notin Parked(cl)
    BY <1>6, BeginInv
  <2>2. client'[c].offset = cl.offset
    BY <2>1, ScrollSendsOK
  <2>3. cl \in Client
    BY InvParts
  <2>4. \A p \in Ptys : p \notin Parked(cl) => cl.offset[p] = 0
    BY <2>3, DeliveryAssumption DEF Client, Parked
  <2>5. cl.subs \subseteq Ptys
    BY <2>3 DEF Client
  <2>. HIDE DEF cl
  <2>6. \A p \in left' : client'[c].offset[p] = 0
    BY <2>1, <2>2, <2>4, <2>5
  <2>7. pc' = "building" => left' = {} /\ client'[c].offset[job'.p] = 0
    BY <2>1, <2>2, <2>4, <2>5
  <2>. QED
    BY <2>1, <2>6, <2>7 DEF OnePtyOK, LiveViewsAreBuilt
<1>7. CASE Next /\ ~TickStep
  BY <1>7, OthersHandled, HandledOnePty DEF Next
<1>8. CASE UNCHANGED vars
  BY <1>8 DEF vars, tickVars, OnePtyOK, LiveViewsAreBuilt, StreamIsCurrent
<1>. QED
  BY <1>1, <1>2, <1>3, <1>4, <1>5, <1>6, <1>7, <1>8 DEF TickStep

-----------------------------------------------------------------------------
(* The order of the pictures of the live view.                             *)

(* What a client has seen is no newer than the oldest picture to come, and *)
(* the frame of this tick is between the two. A job has that frame.        *)
OrderOK ==
  /\ \A c \in Clients, p \in Ptys :
       /\ newest[c][p] <= Oldest(pty[p])
       /\ IsLive(grid[c][p]) => grid[c][p].ver = newest[c][p]
       /\ snaps[p] # NoSnap => newest[c][p] <= snaps[p].ver
  /\ \A p \in Ptys : snaps[p] # NoSnap => snaps[p].ver <= Oldest(pty[p])
  /\ pc = "building" => job.frame = snaps[job.p] /\ snaps[job.p] # NoSnap

(* A step that shows no live picture and takes none off a queue, but may   *)
(* empty it: what a message, an ack and the clock do.                      *)
Forward ==
  /\ newest' = newest
  /\ \A p \in Ptys : pty'[p].ver = pty[p].ver /\ pty'[p].ready \in {pty[p].ready, <<>>}
  /\ \A c \in Clients, p \in Ptys : IsLive(grid'[c][p]) => grid'[c][p] = grid[c][p]

(* The numbers that are compared.                                          *)
LEMMA OrderTypes ==
  ASSUME Inv
  PROVE  /\ \A c \in Clients, p \in Ptys : newest[c][p] \in Nat /\ grid[c][p] \in Frame
         /\ \A p \in Ptys : /\ Oldest(pty[p]) \in Nat /\ Oldest(pty[p]) <= pty[p].ver
                            /\ pty[p].ver \in Nat /\ snaps[p] \in Frame /\ snaps[p].ver \in Nat
<1>1. \A p \in Ptys : PtyOK(pty[p]) /\ snaps[p] \in Frame
  BY DEF Inv, TypeOK
<1>2. \A p \in Ptys : snaps[p].ver \in Nat
  BY <1>1 DEF Frame
<1>3. \A c \in Clients, p \in Ptys : newest[c][p] \in Nat /\ grid[c][p] \in Frame
  BY DEF Inv, TypeOK
<1>. QED
  BY <1>1, <1>2, <1>3, OldestIsOld

(* Emptying a queue leaves only newer pictures to come.                    *)
LEMMA ForwardIsLater ==
  ASSUME Inv, Forward, NEW p \in Ptys
  PROVE  Oldest(pty[p]) <= Oldest(pty'[p])
<1>1. /\ Oldest(pty[p]) \in Nat /\ Oldest(pty[p]) <= pty[p].ver /\ pty[p].ver \in Nat
      /\ pty'[p].ver = pty[p].ver
      /\ pty'[p].ready = pty[p].ready \/ pty'[p].ready = <<>>
  BY OrderTypes DEF Forward
<1>. QED
  BY <1>1 DEF Oldest

(* A later queue keeps the order, when what is shown live stays.           *)
LEMMA LaterKeepsOrder ==
  ASSUME Inv, OrderOK, newest' = newest, Inv',
         \A p \in Ptys : Oldest(pty[p]) <= Oldest(pty'[p]),
         \A c \in Clients, p \in Ptys : IsLive(grid'[c][p]) => grid'[c][p] = grid[c][p],
         \A p \in Ptys : snaps'[p] = NoSnap \/ snaps'[p] = snaps[p],
         pc' = "building" => job'.frame = snaps'[job'.p] /\ snaps'[job'.p] # NoSnap
  PROVE  OrderOK'
<1>1. /\ \A c \in Clients, p \in Ptys : newest[c][p] \in Nat
      /\ \A p \in Ptys : Oldest(pty[p]) \in Nat /\ snaps[p].ver \in Nat
  BY OrderTypes
<1>2. \A p \in Ptys : Oldest(pty'[p]) \in Nat
  <2>1. \A p \in Ptys : PtyOK(pty'[p])
    BY DEF Inv
  <2>. QED
    BY <2>1, OldestIsOld
<1>3. ASSUME NEW c \in Clients, NEW p \in Ptys
      PROVE  /\ newest'[c][p] <= Oldest(pty'[p])
             /\ IsLive(grid'[c][p]) => grid'[c][p].ver = newest'[c][p]
             /\ snaps'[p] # NoSnap => newest'[c][p] <= snaps'[p].ver
  <2>1. newest[c][p] <= Oldest(pty[p]) /\ Oldest(pty[p]) <= Oldest(pty'[p])
    BY DEF OrderOK
  <2>2. newest[c][p] <= Oldest(pty'[p])
    BY <1>1, <1>2, <2>1
  <2>3. IsLive(grid'[c][p]) => grid'[c][p].ver = newest[c][p]
    BY DEF OrderOK
  <2>4. snaps'[p] # NoSnap => newest[c][p] <= snaps'[p].ver
    BY DEF OrderOK
  <2>. QED
    BY <2>2, <2>3, <2>4
<1>4. ASSUME NEW p \in Ptys, snaps'[p] # NoSnap PROVE snaps'[p].ver <= Oldest(pty'[p])
  <2>1. snaps'[p] = snaps[p] /\ snaps[p].ver <= Oldest(pty[p])
    BY <1>4 DEF OrderOK
  <2>. QED
    BY <1>1, <1>2, <2>1
<1>. QED
  BY <1>3, <1>4 DEF OrderOK

(* Messages, acks, output and the clock are such steps.                    *)
LEMMA OthersForward ==
  ASSUME Inv,
         \/ Passing
         \/ \E c \in Clients : Message(c) \/ Ack(c)
         \/ \E p \in Ptys, kind \in ChunkKinds, moves \in ChunkMoves :
              Output(p, [kind |-> kind, moves |-> moves])
  PROVE  Forward /\ UNCHANGED <<snaps, pc, job>>
<1>0. pty \in [Ptys -> Pty] /\ grid \in [Clients -> [Ptys -> Frame]]
  BY InvParts
<1>1. ASSUME UNCHANGED <<grid, newest>>,
             \A p \in Ptys : pty'[p].ver = pty[p].ver /\ pty'[p].ready \in {pty[p].ready, <<>>}
      PROVE  Forward
  BY <1>1 DEF Forward
<1>2. ASSUME NEW p \in Ptys, MarkDirty(p)
      PROVE  \A q \in Ptys : pty'[q].ver = pty[q].ver /\ pty'[q].ready \in {pty[q].ready, <<>>}
  <2>1. ASSUME NEW t \in Pty
        PROVE  LET u == [t EXCEPT !.dirty = TRUE] IN u.ver = t.ver /\ u.ready = t.ready
    BY DEF Pty
  <2>2. pty' = [pty EXCEPT ![p] = [pty[p] EXCEPT !.dirty = TRUE]]
    BY <1>0, <1>2 DEF MarkDirty
  <2>3. \A q \in Ptys : pty'[q] = IF q = p THEN [pty[p] EXCEPT !.dirty = TRUE] ELSE pty[q]
    BY <1>0, <2>2
  <2>4. pty[p] \in Pty
    BY <1>0
  <2>. QED
    BY <2>1, <2>3, <2>4
<1>3. ASSUME NEW cls, NEW ps, Mediate(cls, ps)
      PROVE  \A q \in Ptys : pty'[q].ver = pty[q].ver /\ pty'[q].ready \in {pty[q].ready, <<>>}
  <2>1. ASSUME NEW t \in Pty, NEW s
        PROVE  LET u == [t EXCEPT !.size = s, !.ready = <<>>, !.dirty = TRUE]
               IN u.ver = t.ver /\ u.ready = <<>>
    BY DEF Pty
  <2>2. \A q \in Ptys : \/ pty'[q] = pty[q]
                        \/ pty'[q] = [pty[q] EXCEPT !.size = Mediated(cls, q), !.ready = <<>>,
                                                    !.dirty = TRUE]
    BY <1>3 DEF Mediate
  <2>3. ASSUME NEW q \in Ptys
        PROVE  pty'[q].ver = pty[q].ver /\ pty'[q].ready \in {pty[q].ready, <<>>}
    <3>. DEFINE u == [pty[q] EXCEPT !.size = Mediated(cls, q), !.ready = <<>>, !.dirty = TRUE]
    <3>1. u.ver = pty[q].ver /\ u.ready = <<>>
      BY <1>0, <2>1
    <3>2. pty'[q] = pty[q] \/ pty'[q] = u
      BY <2>2
    <3>. HIDE DEF u
    <3>. QED
      BY <3>1, <3>2
  <2>. QED
    BY <2>3
<1>4. ASSUME pty' = pty
      PROVE  \A q \in Ptys : pty'[q].ver = pty[q].ver /\ pty'[q].ready \in {pty[q].ready, <<>>}
  BY <1>4
<1>5. CASE Passing
  <2>1. CASE pty' = pty
    BY <1>1, <1>4, <1>5, <2>1 DEF Passing, Settle, LeadDue, PreviewDue, tickVars
  <2>2. ASSUME NEW p \in Ptys, Settle(p) PROVE Forward /\ UNCHANGED <<snaps, pc, job>>
    <3>1. ASSUME NEW t \in Pty
          PROVE  LET u == [t EXCEPT !.held = FALSE] IN u.ver = t.ver /\ u.ready = t.ready
      BY DEF Pty
    <3>2. \A q \in Ptys : pty'[q] = IF q = p THEN [pty[p] EXCEPT !.held = FALSE] ELSE pty[q]
      BY <1>0, <2>2 DEF Settle
    <3>3. \A q \in Ptys : pty'[q].ver = pty[q].ver /\ pty'[q].ready \in {pty[q].ready, <<>>}
      BY <1>0, <3>1, <3>2
    <3>. QED
      BY <1>1, <2>2, <3>3 DEF Settle, tickVars
  <2>. QED
    BY <1>5, <2>1, <2>2 DEF Passing, LeadDue, PreviewDue
<1>6. ASSUME NEW c \in Clients, Message(c) PROVE Forward /\ UNCHANGED <<snaps, pc, job>>
  <2>1. ASSUME NEW p \in Ptys, NEW o, NEW d,
               \/ Subscribe(c, p) \/ Focus(c, p) \/ Input(c, p) \/ Scroll(c, p, o)
               \/ ScrollBy(c, p, d)
        PROVE  Forward /\ UNCHANGED <<snaps, pc, job>>
    <3>1. MarkDirty(p) /\ UNCHANGED <<tickVars, grid, newest>>
      BY <2>1 DEF Subscribe, Focus, Input, Scroll, ScrollBy
    <3>. QED
      BY <1>1, <1>2, <3>1 DEF tickVars
  <2>2. ASSUME NEW p \in Ptys, NEW sz, Unsubscribe(c, p) \/ Resize(c, p, sz) \/ Disconnect(c)
        PROVE  Forward /\ UNCHANGED <<snaps, pc, job>>
    <3>1. (\E cls, ps : Mediate(cls, ps)) /\ UNCHANGED <<tickVars, grid, newest>>
      BY <2>2 DEF Unsubscribe, Resize, Disconnect
    <3>. QED
      BY <1>1, <1>3, <3>1 DEF tickVars
  <2>3. ASSUME NEW p \in Ptys, LoseDelta(c, p) PROVE Forward /\ UNCHANGED <<snaps, pc, job>>
    <3>1. grid' = [grid EXCEPT ![c] = [grid[c] EXCEPT ![p] = Torn]]
          /\ UNCHANGED <<pty, client, tickVars, newest>>
      BY <1>0, <2>3 DEF LoseDelta
    <3>2. ~IsLive(Torn)
      BY DEF IsLive, Torn
    <3>3. \A d \in Clients, q \in Ptys :
            grid'[d][q] = IF d = c /\ q = p THEN Torn ELSE grid[d][q]
      BY <1>0, <3>1
    <3>. QED
      BY <1>4, <3>1, <3>2, <3>3 DEF Forward, tickVars
  <2>4. CASE Disconnect(c)
    <3>1. (\E cls, ps : Mediate(cls, ps)) /\ UNCHANGED <<tickVars, grid, newest>>
      BY <2>4 DEF Disconnect
    <3>. QED
      BY <1>1, <1>3, <3>1 DEF tickVars
  <2>. QED
    BY <1>6, <2>1, <2>2, <2>3, <2>4 DEF Message
<1>7. ASSUME NEW c \in Clients, Ack(c) PROVE Forward /\ UNCHANGED <<snaps, pc, job>>
  BY <1>1, <1>4, <1>7 DEF Ack, tickVars
<1>8. ASSUME NEW p \in Ptys, NEW chunk, Output(p, chunk)
      PROVE  Forward /\ UNCHANGED <<snaps, pc, job>>
  <2>1. ASSUME NEW t \in Pty
        PROVE  LET u == [t EXCEPT !.input = Append(@, chunk)] IN u.ver = t.ver /\ u.ready = t.ready
    BY DEF Pty
  <2>2. \A q \in Ptys :
          pty'[q] = IF q = p THEN [pty[p] EXCEPT !.input = Append(@, chunk)] ELSE pty[q]
    BY <1>0, <1>8 DEF Output
  <2>3. \A q \in Ptys : pty'[q].ver = pty[q].ver /\ pty'[q].ready \in {pty[q].ready, <<>>}
    BY <1>0, <2>1, <2>2
  <2>. QED
    BY <1>1, <1>8, <2>3 DEF Output, tickVars
<1>. QED
  BY <1>5, <1>6, <1>7, <1>8

(* The diff of the frame of this tick brings its client up to it.          *)
LEMMA FinishOrder ==
  ASSUME Inv, OrderOK, FinishBuild
  PROVE  OrderOK'
<1>. DEFINE c == visit.c
            p == job.p
            f == job.frame
<1>0. /\ c \in Clients /\ p \in Ptys /\ pc = "building" /\ pc' # "building"
      /\ grid \in [Clients -> [Ptys -> Frame]] /\ newest \in [Clients -> [Ptys -> Nat]]
      /\ pty \in [Ptys -> Pty] /\ f \in Frame /\ snaps' = snaps
      /\ f = snaps[p] /\ snaps[p] # NoSnap
  BY FinishInv DEF Inv, TypeOK, JobOK, OrderOK, FinishBuild
<1>1. /\ \A d \in Clients, q \in Ptys : newest[d][q] \in Nat
      /\ \A q \in Ptys : Oldest(pty[q]) \in Nat /\ snaps[q].ver \in Nat
  BY OrderTypes
<1>2. \A q \in Ptys : Oldest(pty'[q]) = Oldest(pty[q])
  <2>1. ASSUME NEW t \in Pty PROVE Oldest([t EXCEPT !.dirty = TRUE]) = Oldest(t)
    BY DEF Oldest, Pty
  <2>2. \/ pty' = pty
        \/ \A q \in Ptys : pty'[q] = IF q = p THEN [pty[p] EXCEPT !.dirty = TRUE] ELSE pty[q]
    BY <1>0 DEF FinishBuild
  <2>3. \A q \in Ptys : pty[q] \in Pty
    BY <1>0
  <2>. QED
    BY <1>0, <2>1, <2>2, <2>3
<1>3. /\ \A d \in Clients, q \in Ptys : d # c \/ q # p => grid'[d][q] = grid[d][q]
      /\ grid'[c][p] = grid[c][p] \/ grid'[c][p] = f \/ grid'[c][p] = Torn
  <2>1. \/ grid' = grid
        \/ grid' = [grid EXCEPT ![c] = [grid[c] EXCEPT ![p] = Shown(grid[c][p], f, job.base)]]
    BY <1>0 DEF FinishBuild
  <2>2. Shown(grid[c][p], f, job.base) \in {f, Torn}
    BY DEF Shown
  <2>. QED
    BY <1>0, <2>1, <2>2
<1>4. /\ \A d \in Clients, q \in Ptys : d # c \/ q # p => newest'[d][q] = newest[d][q]
      /\ newest'[c][p] = Newest(newest[c][p], grid'[c][p])
  <2>1. newest' = [newest EXCEPT ![c] = [newest[c] EXCEPT ![p] = Newest(newest[c][p], grid'[c][p])]]
    BY <1>0 DEF FinishBuild
  <2>. QED
    BY <1>0, <2>1
<1>5. /\ newest[c][p] <= f.ver /\ f.ver <= Oldest(pty[p]) /\ f.ver \in Nat
      /\ IsLive(grid[c][p]) => grid[c][p].ver = newest[c][p]
      /\ newest[c][p] <= Oldest(pty[p])
  BY <1>0, <1>1 DEF OrderOK
<1>6. /\ newest'[c][p] <= f.ver /\ newest'[c][p] <= Oldest(pty[p])
      /\ IsLive(grid'[c][p]) => grid'[c][p].ver = newest'[c][p]
  <2>1. newest[c][p] \in Nat /\ Oldest(pty[p]) \in Nat
    BY <1>0, <1>1
  <2>2. CASE grid'[c][p] = grid[c][p]
    BY <1>4, <1>5, <2>1, <2>2 DEF Newest
  <2>3. CASE grid'[c][p] = f
    BY <1>4, <1>5, <2>1, <2>3 DEF Newest
  <2>4. CASE grid'[c][p] = Torn
    <3>1. ~IsLive(grid'[c][p])
      BY <2>4 DEF IsLive, Torn
    <3>. QED
      BY <1>4, <1>5, <2>1, <3>1 DEF Newest
  <2>. QED
    BY <1>3, <2>2, <2>3, <2>4
<1>. HIDE DEF c, p, f
<1>7. ASSUME NEW d \in Clients, NEW q \in Ptys
      PROVE  /\ newest'[d][q] <= Oldest(pty'[q])
             /\ IsLive(grid'[d][q]) => grid'[d][q].ver = newest'[d][q]
             /\ snaps'[q] # NoSnap => newest'[d][q] <= snaps'[q].ver
  <2>1. CASE d = c /\ q = p
    BY <1>0, <1>2, <1>6, <2>1
  <2>2. CASE d # c \/ q # p
    BY <1>0, <1>2, <1>3, <1>4, <2>2 DEF OrderOK
  <2>. QED
    BY <2>1, <2>2
<1>8. \A q \in Ptys : snaps'[q] # NoSnap => snaps'[q].ver <= Oldest(pty'[q])
  BY <1>0, <1>2 DEF OrderOK
<1>. QED
  BY <1>0, <1>7, <1>8 DEF OrderOK

(* A visit shows no live picture, and what it builds is this tick's frame. *)
LEMMA BeginOrder ==
  ASSUME Inv, OrderOK, NEW c \in Clients, ClientBegin(c)
  PROVE  OrderOK'
<1>. DEFINE cl == client[c]
            v == CaptureVisit(c)
            now == ScrollSends(v, cl)
<1>1. Inv' /\ SendScrollFrames(v, client[c]) /\ UNCHANGED <<pty, snaps, newest>>
  BY BeginInv DEF ClientBegin
<1>2. /\ \A d \in Clients \ {c} : grid'[d] = grid[d]
      /\ \A p \in now : /\ cl.offset[p] > 0
                        /\ grid'[c][p] = Shown(grid[c][p], ScrollFrame(cl, p), ScrollBase(cl, p))
      /\ \A p \in Ptys \ now : grid'[c][p] = grid[c][p]
  BY <1>1, ScrollSendsOK
<1>3. cl \in Client
  BY InvParts
<1>. HIDE DEF now
<1>4. ASSUME NEW d \in Clients, NEW p \in Ptys, IsLive(grid'[d][p])
      PROVE  grid'[d][p] = grid[d][p]
  <2>1. CASE d = c /\ p \in now
    <3>1. cl.offset[p] \in Nat /\ cl.offset[p] # 0
      BY <1>2, <1>3, <2>1, DeliveryAssumption DEF Client
    <3>2. grid'[c][p] = ScrollFrame(cl, p) \/ grid'[c][p] = Torn
      BY <1>2, <2>1 DEF Shown
    <3>3. ~IsLive(ScrollFrame(cl, p)) /\ ~IsLive(Torn)
      BY <3>1 DEF IsLive, ScrollFrame, Torn
    <3>. QED
      BY <1>4, <2>1, <3>2, <3>3
  <2>2. CASE d # c \/ p \notin now
    BY <1>2, <2>2
  <2>. QED
    BY <2>1, <2>2
<1>5. pc' = "building" => job'.frame = snaps'[job'.p] /\ snaps'[job'.p] # NoSnap
  <2>1. \/ pc' = "previews"
        \/ snaps[cl.lead] # NoSnap /\ job'.frame = snaps[cl.lead] /\ job'.p = cl.lead
    BY DEF ClientBegin, StartBuild, CaptureVisit
  <2>. QED
    BY <1>1, <2>1
<1>6. \A p \in Ptys : Oldest(pty[p]) <= Oldest(pty'[p])
  <2>1. \A p \in Ptys : Oldest(pty[p]) \in Nat
    BY OrderTypes
  <2>. QED
    BY <1>1, <2>1
<1>7. \A p \in Ptys : snaps'[p] = NoSnap \/ snaps'[p] = snaps[p]
  BY <1>1
<1>. QED
  BY <1>1, <1>4, <1>5, <1>6, <1>7, LaterKeepsOrder

(* Every step keeps the order.                                             *)
LEMMA NextOrder ==
  ASSUME Inv, OrderOK, [Next]_vars
  PROVE  OrderOK'
<1>0. Inv' /\ \A p \in Ptys : Oldest(pty[p]) \in Nat
  BY NextInv, OrderTypes
<1>1. ASSUME UNCHANGED <<pty, grid, newest>>,
             \A p \in Ptys : snaps'[p] = NoSnap \/ snaps'[p] = snaps[p],
             pc' = "building" => job'.frame = snaps'[job'.p] /\ snaps'[job'.p] # NoSnap
      PROVE  OrderOK'
  <2>1. /\ \A p \in Ptys : Oldest(pty[p]) <= Oldest(pty'[p])
        /\ \A c \in Clients, p \in Ptys : IsLive(grid'[c][p]) => grid'[c][p] = grid[c][p]
    BY <1>0, <1>1
  <2>. QED
    BY <1>0, <1>1, <2>1, LaterKeepsOrder
<1>2. CASE TickStart \/ ParseDone \/ ClientDone \/ \E c \in Clients : SkipClient(c)
  <2>1. UNCHANGED <<pty, grid, newest, snaps>> /\ pc' # "building"
    BY <1>2 DEF TickStart, ParseDone, ClientDone, SkipClient, NextClient
  <2>. QED
    BY <1>1, <2>1
<1>3. CASE TickEnd
  <2>1. UNCHANGED <<pty, grid, newest>> /\ pc' # "building" /\ \A p \in Ptys : snaps'[p] = NoSnap
    BY <1>3 DEF TickEnd
  <2>. QED
    BY <1>1, <2>1
<1>4. CASE PreviewStep
  <2>1. UNCHANGED <<pty, grid, newest, snaps>>
    BY <1>4 DEF PreviewStep
  <2>2. \/ pc' = pc /\ pc = "previews"
        \/ snaps[Min(left)] # NoSnap /\ job'.frame = snaps[Min(left)] /\ job'.p = Min(left)
    BY <1>4 DEF PreviewStep, StartBuild
  <2>. QED
    BY <1>1, <2>1, <2>2
<1>5. ASSUME NEW p \in Ptys, NEW hold \in BOOLEAN, Feed(p, hold) PROVE OrderOK'
  <2>1. /\ UNCHANGED <<grid, newest, snaps>> /\ pc' = "parse"
        /\ \A q \in Ptys : Oldest(pty[q]) <= Oldest(pty'[q])
    BY <1>5, FeedInv
  <2>2. /\ newest' = newest /\ pc' # "building"
        /\ \A c \in Clients, q \in Ptys : IsLive(grid'[c][q]) => grid'[c][q] = grid[c][q]
        /\ \A q \in Ptys : snaps'[q] = NoSnap \/ snaps'[q] = snaps[q]
    BY <2>1
  <2>. QED
    BY <1>0, <2>1, <2>2, LaterKeepsOrder
<1>6. CASE Snapshot
  <2>1. /\ UNCHANGED <<grid, newest>> /\ pc' = "clients"
        /\ \A p \in Ptys : /\ Oldest(pty[p]) <= Oldest(pty'[p])
                           /\ snaps'[p] # NoSnap => snaps'[p].ver = Oldest(pty[p])
    BY <1>6, SnapshotInv
  <2>2. /\ \A p \in Ptys : Oldest(pty'[p]) \in Nat
        /\ \A c \in Clients, p \in Ptys : newest[c][p] \in Nat
    <3>1. \A p \in Ptys : PtyOK(pty'[p])
      BY <1>0 DEF Inv
    <3>. QED
      BY <3>1, OldestIsOld, OrderTypes
  <2>3. ASSUME NEW c \in Clients, NEW p \in Ptys
        PROVE  /\ newest'[c][p] <= Oldest(pty'[p])
               /\ IsLive(grid'[c][p]) => grid'[c][p].ver = newest'[c][p]
               /\ snaps'[p] # NoSnap => newest'[c][p] <= snaps'[p].ver
    <3>1. newest[c][p] <= Oldest(pty[p]) /\ (IsLive(grid[c][p]) => grid[c][p].ver = newest[c][p])
      BY DEF OrderOK
    <3>2. newest[c][p] <= Oldest(pty'[p])
      BY <1>0, <2>1, <2>2, <3>1
    <3>. QED
      BY <2>1, <3>1, <3>2
  <2>. QED
    BY <2>1, <2>3 DEF OrderOK
<1>7. CASE FinishBuild
  BY <1>7, FinishOrder
<1>8. CASE \E c \in Clients : ClientBegin(c)
  BY <1>8, BeginOrder
<1>9. CASE Next /\ ~TickStep
  <2>1. Forward /\ UNCHANGED <<snaps, pc, job>>
    BY <1>9, OthersForward DEF Next
  <2>2. \A p \in Ptys : Oldest(pty[p]) <= Oldest(pty'[p])
    BY <2>1, ForwardIsLater
  <2>3. pc' = "building" => job'.frame = snaps'[job'.p] /\ snaps'[job'.p] # NoSnap
    BY <2>1 DEF OrderOK
  <2>4. /\ newest' = newest
        /\ \A c \in Clients, p \in Ptys : IsLive(grid'[c][p]) => grid'[c][p] = grid[c][p]
        /\ \A p \in Ptys : snaps'[p] = NoSnap \/ snaps'[p] = snaps[p]
    BY <2>1 DEF Forward
  <2>. QED
    BY <1>0, <2>2, <2>3, <2>4, LaterKeepsOrder
<1>10. CASE UNCHANGED vars
  <2>1. UNCHANGED <<pty, grid, newest, snaps, pc, job>>
    BY <1>10 DEF vars, tickVars
  <2>2. pc' = "building" => job'.frame = snaps'[job'.p] /\ snaps'[job'.p] # NoSnap
    BY <2>1 DEF OrderOK
  <2>. QED
    BY <1>1, <2>1, <2>2
<1>. QED
  BY <1>2, <1>3, <1>4, <1>5, <1>6, <1>7, <1>8, <1>9, <1>10 DEF TickStep

-----------------------------------------------------------------------------
(* The inductive invariant holds throughout.                               *)
LEMMA InvHolds == Spec => []Inv
<1>1. Init => Inv
  BY InitOK
<1>2. Inv /\ [Next]_vars => Inv'
  BY NextInv
<1>. QED
  BY <1>1, <1>2, PTL DEF Spec

(* Every variable has its type, for every number of clients and PTYs.      *)
THEOREM TypeCorrect == Spec => []TypeOK
<1>1. Inv => TypeOK
  BY DEF Inv
<1>. QED
  BY <1>1, InvHolds, PTL

(* The live view of a client never goes back, for every number of clients, *)
(* PTYs and queued frames: the queue is in order and behind the screen, it *)
(* is drained before the screen is taken, and a diff built without the lock*)
(* is of the frame of its own tick. Resizes empty the queue, but only ever *)
(* to go on with something newer.                                          *)
THEOREM LiveViewsGo == Spec => []LiveViewsGoForward
<1>1. ASSUME Init PROVE OrderOK
  <2>1. \A c \in Clients, p \in Ptys :
          /\ newest[c][p] = 0 /\ grid[c][p] = Blank /\ snaps[p] = NoSnap /\ pc = "idle"
    BY <1>1 DEF Init
  <2>2. \A p \in Ptys : Oldest(pty[p]) \in Nat
    BY <1>1, InitOK, OrderTypes
  <2>3. ~IsLive(Blank) /\ pc # "building" /\ \A p \in Ptys : snaps[p] = NoSnap
    BY <1>1 DEF IsLive, Blank, Init
  <2>. QED
    BY <2>1, <2>2, <2>3 DEF OrderOK
<1>2. Inv /\ OrderOK /\ [Next]_vars => OrderOK'
  BY NextOrder
<1>3. OrderOK => LiveViewsGoForward
  BY DEF OrderOK, LiveViewsGoForward
<1>. QED
  BY <1>1, <1>2, <1>3, InvHolds, PTL DEF Spec

(* In a behaviour where no frame is built for a view that its client has   *)
(* parked meanwhile, the server always diffs against what the client shows,*)
(* whatever was reset, resized, parked, lost or resubscribed while a diff  *)
(* was being built without the lock: the epochs are enough.                *)
THEOREM BaselineUnlessStomped == Spec /\ []LiveViewsAreBuilt => []BaselineIsShown
<1>1. Init => StreamsOK
  BY InitOK
<1>2. Inv /\ StreamsOK /\ LiveViewsAreBuilt /\ [Next]_vars => StreamsOK'
  BY NextStreams
<1>3. StreamsOK => BaselineIsShown
  BY DEF StreamsOK, StreamOK, BaselineIsShown
<1>. QED
  BY <1>1, <1>2, <1>3, InvHolds, PTL DEF Spec

(* In a session with one PTY the server always diffs against what the      *)
(* client shows, for any number of clients: a PTY is a client's lead or one*)
(* of its previews, so no second frame is built in the same visit.         *)
THEOREM BaselineOfOnePty ==
  ASSUME NEW p0, Ptys = {p0}
  PROVE  Spec => []BaselineIsShown
<1>1. Init => StreamsOK /\ OnePtyOK
  BY InitOK
<1>2. Inv /\ OnePtyOK /\ [Next]_vars => OnePtyOK'
  BY NextOnePty
<1>3. OnePtyOK => LiveViewsAreBuilt
  BY DEF OnePtyOK
<1>4. Inv /\ StreamsOK /\ LiveViewsAreBuilt /\ [Next]_vars => StreamsOK'
  BY NextStreams
<1>5. StreamsOK => BaselineIsShown
  BY DEF StreamsOK, StreamOK, BaselineIsShown
<1>. QED
  BY <1>1, <1>2, <1>3, <1>4, <1>5, InvHolds, PTL DEF Spec
=============================================================================
