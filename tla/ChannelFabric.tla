---------------------------- MODULE ChannelFabric ----------------------------
(***************************************************************************)
(* Native channels between the endpoints of one server,                    *)
(* crates/server/src/channel.rs, with the outbox of each connection through*)
(* which its deliveries leave (crates/server/src/lib.rs): named listeners, *)
(* connected pairs of handles with byte credit, watches of names, and the  *)
(* guards that keep ids, slots and window bytes until a frame is written.  *)
(*                                                                         *)
(* A request runs under the session lock, from decoding to the last frame  *)
(* handed to an outbox, and is one step. The writer of each connection and *)
(* the end of a connection interleave with requests. Requests are those of *)
(* any client at any time: an id, a token or a byte count may be stale.    *)
(*                                                                         *)
(* A key is <<endpoint, channel id>>: ids that clients create are even,    *)
(* those the server creates odd. A pair of handles has a number, its place *)
(* in pairs; what a frame belongs to (of) is a pair's number, or minus the *)
(* generation of a listener. Guards are reference counts in the code; here *)
(* a guard is held while a handle or a queued frame carries it. Names and  *)
(* metadata bytes, statuses, reasons and texts are left out.               *)
(***************************************************************************)
EXTENDS Integers, Sequences, FiniteSets, FiniteSetsExt, SequencesExt

CONSTANTS
  Endpoints,     \* connections, numbered
  Limited,       \* those whose outbox has a hard limit (extensions)
  MaxMessages,   \* that limit, in messages
  ClientIds,     \* the ids that clients create
  MaxId,         \* the largest channel id
  MaxGeneration, \* listener generations end here
  Names, NameSets,        \* channel names; the sets of them that are watched
  Sizes,         \* payload sizes
  Window,        \* CHANNEL_WINDOW_BYTES
  MaxUnconsumed, \* CHANNEL_MAX_UNCONSUMED_MESSAGES
  ListenPerClient, WatchPerClient, MaxListeners,
  HandlesPerClient, ConnectedPairs, BufferBytes,   \* Limits
  Requests,      \* who makes which kind of request or event: {<<kind, endpoint>>}
  Honest,        \* endpoints that acknowledge only what they received
  MaxSent,       \* bound on the bytes sent on one handle
  MaxPairs,      \* bound on the pairs ever connected
  MaxQueue       \* bound on the frames queued before another request

Ids  == ClientIds \cup {i \in 1..MaxId : i % 2 = 1}
Keys == Endpoints \X Ids

ASSUME ChannelAssumption ==
  /\ Endpoints \subseteq Nat /\ IsFiniteSet(Endpoints)
  /\ Limited \subseteq Endpoints /\ Honest \subseteq Endpoints
  /\ ClientIds \subseteq {i \in 1..MaxId : i % 2 = 0}
  /\ NameSets \subseteq SUBSET Names
  /\ Sizes \subseteq 1..Window
  /\ {MaxMessages, MaxId, MaxGeneration, Window, MaxUnconsumed, MaxSent,
      MaxPairs, MaxQueue, ListenPerClient, WatchPerClient, MaxListeners,
      HandlesPerClient, ConnectedPairs, BufferBytes} \subseteq Nat

VARIABLES
  alive,      \* Session.clients: the endpoints whose connection is registered
  open,       \* endpoints whose outbox still admits frames
  sealed,     \* shutting_down
  listeners,  \* listeners and listener_names: key -> [name, gen]
  handles,    \* key -> the handle of a connected pair
  watches,    \* key -> [names, published]
  dirty,      \* names_revision differs from published_revision
  generation, \* next_listener_generation
  nextId,     \* next_server_id of each endpoint
  queue,      \* the frames each connection's writer has still to release
  written,    \* the first of them has been written, not yet dropped
  view,       \* history: what each client knows of each id from its frames
  pairs       \* history: the keys of each pair, connector first

registry == <<listeners, handles, watches, dirty, generation, nextId, pairs>>
vars == <<alive, open, sealed, registry, queue, written, view>>

With(f, k, v)    == [x \in DOMAIN f \cup {k} |-> IF x = k THEN v ELSE f[x]]
Without(f, S)    == [x \in DOMAIN f \ S |-> f[x]]
Of(e, f)         == {k \in DOMAIN f : k[1] = e}
Partner(k)       == handles[k].peer

-----------------------------------------------------------------------------
(* Frames, and the guards they carry.                                      *)

Frame(kind, id) ==
  [kind |-> kind, id |-> id, of |-> 0, n |-> 0, names |-> {},
   guard |-> FALSE, slot |-> FALSE, drain |-> FALSE]

MutPairFrame(kind, id, p, n) == [Frame(kind, id) EXCEPT !.of = p, !.n = n]   \* no guards
PairFrame(kind, id, p, n) ==
  [Frame(kind, id) EXCEPT !.of = p, !.n = n, !.guard = TRUE, !.slot = TRUE]

To(k, f)       == [ep |-> k[1], frame |-> f, reserved |-> FALSE]
Reserved(k, f) == [ep |-> k[1], frame |-> f, reserved |-> TRUE]

Frames(e) == Range(queue[e])

(* DrainReservation: the ids whose terminal packet is still queued.        *)
Drains == UNION {{<<e, f.id>> : f \in {g \in Frames(e) : g.drain}} : e \in Endpoints}

MutLive(k) == k \in DOMAIN listeners \cup DOMAIN handles \cup DOMAIN watches
Live(k) == k \in DOMAIN listeners \cup DOMAIN handles \cup DOMAIN watches \cup Drains

(* PairReservation: pairs whose count and window bytes are still charged.  *)
ChargedPairs ==
  {handles[k].pair : k \in DOMAIN handles}
    \cup UNION {{f.of : f \in {g \in Frames(e) : g.guard}} : e \in Endpoints}

(* HandleSlotReservation: the connected handles charged to an endpoint.    *)
ChargedSlots(e) ==
  {<<handles[k].pair, k[2]>> : k \in Of(e, handles)}
    \cup {<<f.of, f.id>> : f \in {g \in Frames(e) : g.slot}}

-----------------------------------------------------------------------------
(* The outboxes: messages charged, who admits, what is queued. A frame that*)
(* does not fit closes the outbox for good and cancels its endpoint.       *)

Outboxes == [used |-> [e \in Endpoints |-> Len(queue[e])], open |-> open, queue |-> queue]

Room(o, e) == /\ e \in alive /\ e \in o.open
              /\ e \in Limited => o.used[e] < MaxMessages

Charge(o, e) == IF Room(o, e) THEN [o EXCEPT !.used[e] = @ + 1]
                ELSE [o EXCEPT !.open = @ \ {e}]

MutSend(o, d) ==   \* a frame that does not fit is dropped, the outbox stays open
  IF d.ep \notin alive \/ ~(d.reserved \/ Room(o, d.ep)) THEN o
  ELSE [o EXCEPT !.used[d.ep] = @ + 1, !.queue[d.ep] = Append(@, d.frame)]
MutSendFirst(o, d) ==   \* a terminal frame overtakes what is queued
  IF d.ep \notin alive \/ ~(d.reserved \/ Room(o, d.ep))
  THEN [o EXCEPT !.open = @ \ {d.ep}]
  ELSE [(IF d.reserved THEN o ELSE Charge(o, d.ep))
          EXCEPT !.queue[d.ep] = IF d.frame.drain THEN <<d.frame>> \o @ ELSE Append(@, d.frame)]
Send(o, d) ==
  IF d.ep \notin alive \/ ~(d.reserved \/ Room(o, d.ep))
  THEN [o EXCEPT !.open = @ \ {d.ep}]
  ELSE [(IF d.reserved THEN o ELSE Charge(o, d.ep))
          EXCEPT !.queue[d.ep] = Append(@, d.frame)]

SendAll(ds, o) ==
  LET after == FoldLeft(Send, o, ds)
  IN  queue' = after.queue /\ open' = after.open

-----------------------------------------------------------------------------
(* Watches: the one place that answers them.                               *)

Present(ls, S) == S \cap {ls[k].name : k \in DOMAIN ls}

NamesFrame(k, S) == [Frame("names", k[2]) EXCEPT !.names = S]

MutAnswer(ls, acc, k) ==   \* forgets what it published
  LET S == Present(ls, acc.ws[k].names)
  IN  [o |-> Charge(acc.o, k[1]), ws |-> acc.ws,
       ds |-> Append(acc.ds, Reserved(k, NamesFrame(k, S)))]
Answer(ls, acc, k) ==
  LET S == Present(ls, acc.ws[k].names)
  IN  IF Room(acc.o, k[1])
      THEN [o |-> Charge(acc.o, k[1]), ws |-> [acc.ws EXCEPT ![k].published = S],
            ds |-> Append(acc.ds, Reserved(k, NamesFrame(k, S)))]
      ELSE [acc EXCEPT !.o = Charge(acc.o, k[1])]

(* publish_names after the request left ls, ws and the deliveries ds.      *)
Publish(ls, ws, changed, ds, o) ==
  LET behind == IF changed
                THEN {k \in DOMAIN ws : ws[k].published # Present(ls, ws[k].names)}
                ELSE {}
  IN  \E order \in SetToSeqs(behind) :
        LET p == FoldLeft(LAMBDA acc, k : Answer(ls, acc, k),
                          [o |-> o, ws |-> ws, ds |-> <<>>], order)
        IN  /\ watches' = p.ws
            /\ dirty' = FALSE
            /\ SendAll(ds \o p.ds, p.o)

(* A request that changes neither the names nor the watches.               *)
Reply(ds, o) == Publish(listeners, watches, dirty, ds, o)

FailedOpen(k) == To(k, [Frame("failed", k[2]) EXCEPT !.drain = ~Live(k)])

-----------------------------------------------------------------------------
(* LISTEN, WATCH, UNWATCH.                                                 *)

Calm == MapThenSumSet(LAMBDA e : Len(queue[e]), Endpoints) < MaxQueue
Accepts(kind, e) == <<kind, e>> \in Requests /\ e \in alive /\ ~sealed /\ Calm

CannotListen(k, name) ==
  \/ Live(k)
  \/ \E l \in DOMAIN listeners : listeners[l].name = name
  \/ Cardinality(DOMAIN listeners) >= MaxListeners
  \/ Cardinality(Of(k[1], listeners)) >= ListenPerClient
  \/ generation = MaxGeneration

Listen(k, name) ==
  /\ Accepts("listen", k[1])
  /\ UNCHANGED <<alive, sealed, handles, nextId, written, view, pairs>>
  /\ IF CannotListen(k, name) \/ ~Room(Outboxes, k[1])
     THEN /\ Reply(IF CannotListen(k, name) THEN <<FailedOpen(k)>> ELSE <<>>,
                   IF CannotListen(k, name) THEN Outboxes ELSE Charge(Outboxes, k[1]))
          /\ UNCHANGED <<listeners, generation>>
     ELSE LET ls == With(listeners, k, [name |-> name, gen |-> generation])
          IN  /\ listeners' = ls
              /\ generation' = generation + 1
              /\ Publish(ls, watches, TRUE,
                         <<Reserved(k, [Frame("opened", k[2]) EXCEPT !.of = -generation])>>,
                         Charge(Outboxes, k[1]))

CannotWatch(k) == Live(k) \/ Cardinality(Of(k[1], watches)) >= WatchPerClient

Watch(k, S) ==
  /\ Accepts("watch", k[1])
  /\ UNCHANGED <<alive, sealed, listeners, handles, generation, nextId, written, view, pairs>>
  /\ \/ /\ CannotWatch(k)
        /\ Reply(<<FailedOpen(k)>>, Outboxes)
     \/ /\ ~CannotWatch(k)
        /\ LET P == Present(listeners, S)
           IN  IF Room(Outboxes, k[1])
               THEN Publish(listeners, With(watches, k, [names |-> S, published |-> P]), dirty,
                            <<Reserved(k, NamesFrame(k, P))>>, Charge(Outboxes, k[1]))
               ELSE Reply(<<>>, Charge(Outboxes, k[1]))

Unwatch(k) ==
  /\ Accepts("watch", k[1]) /\ k \in DOMAIN watches
  /\ Publish(listeners, Without(watches, {k}), dirty, <<>>, Outboxes)
  /\ UNCHANGED <<alive, sealed, listeners, handles, generation, nextId, written, view, pairs>>

-----------------------------------------------------------------------------
(* CONNECT.                                                                *)

FreeServerIds(e) ==
  {i \in {j \in nextId[e]..MaxId : j % 2 = 1} : ~Live(<<e, i>>) /\ i + 2 =< MaxId}

PairAdmitted(c, l) ==
  /\ Cardinality(ChargedSlots(c)) + (IF c = l THEN 2 ELSE 1) =< HandlesPerClient
  /\ c # l => Cardinality(ChargedSlots(l)) + 1 =< HandlesPerClient
  /\ Cardinality(ChargedPairs) < ConnectedPairs
  /\ (Cardinality(ChargedPairs) + 1) * 2 * Window =< BufferBytes

NewHandle(peer, p) == [peer |-> peer, pair |-> p, sent |-> 0, acked |-> 0, bounds |-> <<>>]

(* The two initial notifications are reserved in the order of the endpoints*)
(* before either handle is visible; ok is whether both were.               *)
ReservePair(c, l) ==
  LET first  == IF c =< l THEN c ELSE l
      second == IF c =< l THEN l ELSE c
      o1 == Charge(Outboxes, first)
      o2 == Charge(o1, second)
  IN  CASE ~Room(Outboxes, first) /\ first = c -> [ok |-> FALSE, cancel |-> FALSE, o |-> o1]
        [] ~Room(Outboxes, first) /\ first # c ->   \* the listener's failed first
             [ok |-> FALSE, cancel |-> Room(o1, c), o |-> o2]
        [] Room(Outboxes, first) /\ ~Room(o1, second) ->
             [ok |-> FALSE, cancel |-> second = l, o |-> o2]
        [] OTHER -> [ok |-> TRUE, cancel |-> FALSE, o |-> o2]

Commit(k, a, o) ==
  LET p == Len(pairs) + 1
  IN  /\ nextId' = [nextId EXCEPT ![a[1]] = a[2] + 2]
      /\ handles' = With(With(handles, k, NewHandle(a, p)), a, NewHandle(k, p))
      /\ pairs' = Append(pairs, <<k, a>>)
      /\ Reply(<<Reserved(k, PairFrame("opened", k[2], p, 0)),
                 Reserved(a, PairFrame("accepted", a[2], p, 0))>>, o)

NoServiceFor(k, name, token) ==
  \/ Live(k)
  \/ ~\E l \in DOMAIN listeners : /\ listeners[l].name = name
                                  /\ token \in {0, listeners[l].gen}

Connect(k, name, token) ==
  /\ Accepts("connect", k[1]) /\ Len(pairs) < MaxPairs
  /\ UNCHANGED <<alive, sealed, listeners, generation, written, view>>
  /\ \/ /\ NoServiceFor(k, name, token)
        /\ Reply(<<FailedOpen(k)>>, Outboxes)
        /\ UNCHANGED <<handles, nextId, pairs>>
     \/ /\ ~NoServiceFor(k, name, token)
        /\ \E l \in DOMAIN listeners :
             LET ids == FreeServerIds(l[1])
                 r   == ReservePair(k[1], l[1])
             IN  /\ listeners[l].name = name
                 /\ IF ids = {} \/ ~PairAdmitted(k[1], l[1])
                    THEN Reply(<<FailedOpen(k)>>, Outboxes) /\ UNCHANGED <<handles, nextId, pairs>>
                    ELSE IF r.ok
                    THEN \E i \in ids : (\A j \in ids : i =< j) /\ Commit(k, <<l[1], i>>, r.o)
                    ELSE /\ Reply(IF r.cancel THEN <<[FailedOpen(k) EXCEPT !.reserved = TRUE]>>
                                  ELSE <<>>, r.o)
                         /\ UNCHANGED <<handles, nextId, pairs>>

-----------------------------------------------------------------------------
(* DATA, ACK, CLOSE and malformed packets.                                 *)

Closed(k, of) == To(k, [Frame("closed", k[2]) EXCEPT !.of = of, !.drain = TRUE])
ClosedPair(k, p) == To(k, [PairFrame("closed", k[2], p, 0) EXCEPT !.drain = TRUE])

MutTerminate(k) ==   \* the handle of the other side is left
  IF k \in DOMAIN listeners
  THEN [ls |-> Without(listeners, {k}), hs |-> handles, changed |-> TRUE,
        ds |-> <<Closed(k, -listeners[k].gen)>>]
  ELSE IF k \in DOMAIN handles
  THEN [ls |-> listeners, hs |-> Without(handles, {k}), changed |-> dirty,
        ds |-> <<ClosedPair(k, handles[k].pair), ClosedPair(Partner(k), handles[k].pair)>>]
  ELSE [ls |-> listeners, hs |-> handles, changed |-> dirty, ds |-> <<>>]
(* close and protocol_violation: what is left of the registry, and who is  *)
(* told.                                                                   *)
Terminate(k) ==
  IF k \in DOMAIN listeners
  THEN [ls |-> Without(listeners, {k}), hs |-> handles, changed |-> TRUE,
        ds |-> <<Closed(k, -listeners[k].gen)>>]
  ELSE IF k \in DOMAIN handles
  THEN [ls |-> listeners, hs |-> Without(handles, {k, Partner(k)}), changed |-> dirty,
        ds |-> <<ClosedPair(k, handles[k].pair), ClosedPair(Partner(k), handles[k].pair)>>]
  ELSE [ls |-> listeners, hs |-> handles, changed |-> dirty, ds |-> <<>>]

Terminated(k) ==
  LET t == Terminate(k)
  IN  /\ listeners' = t.ls
      /\ handles' = t.hs
      /\ Publish(t.ls, watches, t.changed, t.ds, Outboxes)

MutInCredit(h, n) == h.sent + n =< h.acked + Window + 1 /\ Len(h.bounds) =< MaxUnconsumed
InCredit(h, n) == h.sent + n =< h.acked + Window /\ Len(h.bounds) < MaxUnconsumed

Sent(h, n) == [peer |-> h.peer, pair |-> h.pair, sent |-> h.sent + n, acked |-> h.acked,
               bounds |-> Append(h.bounds, h.sent + n)]

Data(k, n) ==
  /\ Accepts("data", k[1])
  /\ UNCHANGED <<alive, sealed, generation, nextId, written, view, pairs>>
  /\ IF k \in DOMAIN handles /\ InCredit(handles[k], n)
     THEN /\ handles[k].sent + n =< MaxSent
          /\ handles' = [handles EXCEPT ![k] = Sent(@, n)]
          /\ Reply(<<To(Partner(k), PairFrame("data", Partner(k)[2], handles[k].pair, n))>>, Outboxes)
          /\ UNCHANGED listeners
     ELSE Terminated(k)

AckIsValid(h, bytes) == \/ bytes = h.acked
                        \/ bytes > h.acked /\ bytes =< h.sent /\ Contains(h.bounds, bytes)

(* How many message boundaries an acknowledgement pops from the front.     *)
Consumed(bounds, bytes) ==
  CHOOSE n \in 0..Len(bounds) : /\ \A i \in 1..n : bounds[i] =< bytes
                                /\ n < Len(bounds) => bounds[n + 1] > bytes

Acked(h, bytes) ==
  [peer |-> h.peer, pair |-> h.pair, sent |-> h.sent, acked |-> bytes,
   bounds |-> SubSeq(h.bounds, Consumed(h.bounds, bytes) + 1, Len(h.bounds))]

Ack(k, bytes) ==
  /\ Accepts("ack", k[1])
  /\ k[1] \in Honest => /\ k \in DOMAIN handles /\ view[k].of = handles[k].pair
                        /\ bytes =< view[k].got
  /\ UNCHANGED <<alive, sealed, generation, nextId, written, view, pairs>>
  /\ IF k \in DOMAIN handles /\ AckIsValid(handles[Partner(k)], bytes)
     THEN /\ handles' = [handles EXCEPT ![Partner(k)] = Acked(@, bytes)]
          /\ Reply(<<To(Partner(k), PairFrame("ack", Partner(k)[2], handles[k].pair, bytes))>>, Outboxes)
          /\ UNCHANGED listeners
     ELSE Terminated(k)

Close(k) ==
  /\ Accepts("close", k[1])
  /\ Terminated(k)
  /\ UNCHANGED <<alive, sealed, generation, nextId, written, view, pairs>>

(* A packet that does not decode: an open is answered, anything else ends  *)
(* what its id names. Neither passes through publish_names.                *)
Malformed(k, isOpen) ==
  /\ <<"malformed", k[1]>> \in Requests /\ k[1] \in alive /\ Calm
  /\ LET t == IF isOpen THEN [ls |-> listeners, hs |-> handles, changed |-> dirty,
                              ds |-> <<FailedOpen(k)>>]
              ELSE Terminate(k)
     IN  /\ listeners' = t.ls /\ handles' = t.hs /\ dirty' = t.changed
         /\ SendAll(t.ds, Outboxes)
  /\ UNCHANGED <<alive, sealed, watches, generation, nextId, written, view, pairs>>

-----------------------------------------------------------------------------
(* Connections and shutdown.                                               *)

MutDepartOwn(e) ==   \* only the channels it connected are closed
  LET own == {k \in Of(e, handles) : k[2] \in ClientIds}
      survivors == {Partner(k) : k \in own} \ own
      ls == Without(listeners, Of(e, listeners))
  IN  /\ <<"depart", e>> \in Requests /\ e \in alive
      /\ \E order \in SetToSeqs(survivors) :
           Publish(ls, Without(watches, Of(e, watches)), dirty \/ Of(e, listeners) # {},
                   [i \in DOMAIN order |-> ClosedPair(order[i], handles[order[i]].pair)],
                   Outboxes)
      /\ listeners' = ls
      /\ handles' = Without(handles, own \cup survivors)
      /\ alive' = alive \ {e}
      /\ UNCHANGED <<sealed, generation, nextId, written, view, pairs>>

(* close_endpoint_reserved, then the client is removed.                    *)
Depart(e) ==
  LET own == Of(e, handles)
      survivors == {Partner(k) : k \in own} \ own
      ls == Without(listeners, Of(e, listeners))
  IN  /\ <<"depart", e>> \in Requests /\ e \in alive
      /\ \E order \in SetToSeqs(survivors) :
           Publish(ls, Without(watches, Of(e, watches)), dirty \/ Of(e, listeners) # {},
                   [i \in DOMAIN order |-> ClosedPair(order[i], handles[order[i]].pair)],
                   Outboxes)
      /\ listeners' = ls
      /\ handles' = Without(handles, own \cup survivors)
      /\ alive' = alive \ {e}
      /\ UNCHANGED <<sealed, generation, nextId, written, view, pairs>>

(* begin_shutdown; then only requests to open something are answered.      *)
BeginShutdown ==
  /\ <<"shutdown", 0>> \in Requests /\ ~sealed /\ sealed' = TRUE
  /\ UNCHANGED <<alive, open, registry, queue, written, view>>

Refuse(k) ==
  /\ sealed /\ k[1] \in alive /\ Calm
  /\ SendAll(<<FailedOpen(k)>>, Outboxes)
  /\ UNCHANGED <<alive, sealed, registry, written, view>>

(* What a client knows of an id once it has received a frame.              *)
Nothing == [of |-> 0, got |-> 0, names |-> {}]
Seen(v, f) ==
  CASE f.kind \in {"opened", "accepted"} -> [v EXCEPT !.of = f.of, !.got = 0]
    [] f.kind = "data"   -> [v EXCEPT !.got = @ + f.n]
    [] f.kind = "closed" -> [v EXCEPT !.of = 0, !.got = 0]
    [] f.kind = "names"  -> [v EXCEPT !.names = f.names]
    [] OTHER -> v

(* The writer completes a frame, then drops it with its guards.            *)
Write(e) ==
  /\ queue[e] # <<>> /\ ~written[e]
  /\ written' = [written EXCEPT ![e] = TRUE]
  /\ view' = [view EXCEPT ![<<e, Head(queue[e]).id>>] = Seen(@, Head(queue[e]))]
  /\ UNCHANGED <<alive, open, sealed, registry, queue>>

Release(e) ==
  /\ written[e]
  /\ written' = [written EXCEPT ![e] = FALSE]
  /\ queue' = [queue EXCEPT ![e] = Tail(@)]
  /\ UNCHANGED <<alive, open, sealed, registry, view>>

(* The writer ends, by an error or a cancellation, and drops what is left. *)
WriterEnds(e) ==
  /\ <<"cut", e>> \in Requests
  /\ e \in open \/ queue[e] # <<>>
  /\ open' = open \ {e}
  /\ queue' = [queue EXCEPT ![e] = <<>>]
  /\ written' = [written EXCEPT ![e] = FALSE]
  /\ UNCHANGED <<alive, sealed, registry, view>>

-----------------------------------------------------------------------------
Init ==
  /\ alive = Endpoints /\ open = Endpoints /\ sealed = FALSE
  /\ listeners = [k \in {} |-> 0] /\ handles = [k \in {} |-> 0] /\ watches = [k \in {} |-> 0]
  /\ dirty = FALSE /\ generation = 1
  /\ nextId = [e \in Endpoints |-> 1]
  /\ queue = [e \in Endpoints |-> <<>>] /\ written = [e \in Endpoints |-> FALSE]
  /\ view = [k \in Keys |-> Nothing] /\ pairs = <<>>

Request ==
  \/ \E k \in Endpoints \X ClientIds :
       \/ \E name \in Names : Listen(k, name)
       \/ \E name \in Names, token \in 0..generation - 1 : Connect(k, name, token)
       \/ \E S \in NameSets : Watch(k, S)
       \/ Unwatch(k)
       \/ Refuse(k)
  \/ \E k \in Keys :
       \/ \E n \in Sizes : Data(k, n)
       \/ \E bytes \in 0..MaxSent : Ack(k, bytes)
       \/ Close(k)
       \/ \E isOpen \in BOOLEAN : Malformed(k, isOpen)

Next ==
  \/ Request
  \/ BeginShutdown
  \/ \E e \in Endpoints : Depart(e) \/ Write(e) \/ Release(e) \/ WriterEnds(e)

Spec == Init /\ [][Next]_vars

(* A writer makes progress or its connection ends (sender_no_progress_     *)
(* timeout, write errors); a connection whose writer ended or whose outbox *)
(* overflowed is cancelled and its reader closes the endpoint.             *)
LiveSpec ==
  /\ Spec
  /\ \A e \in Endpoints : /\ WF_vars(Write(e) \/ WriterEnds(e))
                          /\ WF_vars(Release(e))
                          /\ WF_vars(e \notin open /\ Depart(e))

-----------------------------------------------------------------------------
(* Properties.                                                             *)

(* Every variable has its type, and a record is where the others expect it.*)
TypeOK ==
  /\ alive \subseteq Endpoints /\ open \subseteq Endpoints
  /\ sealed \in BOOLEAN /\ dirty \in BOOLEAN
  /\ generation \in 1..MaxGeneration
  /\ nextId \in [Endpoints -> {i \in 1..MaxId : i % 2 = 1}]
  /\ DOMAIN listeners \subseteq alive \X ClientIds
  /\ \A k \in DOMAIN listeners : /\ listeners[k].name \in Names
                                 /\ listeners[k].gen \in 1..generation - 1
  /\ DOMAIN watches \subseteq alive \X ClientIds
  /\ \A k \in DOMAIN watches : /\ watches[k].names \in NameSets
                               /\ watches[k].published \subseteq watches[k].names
  /\ DOMAIN handles \subseteq alive \X Ids
  /\ \A k \in DOMAIN handles : /\ handles[k].pair \in 1..Len(pairs)
                               /\ handles[k].sent \in Nat /\ handles[k].acked \in Nat
                               /\ handles[k].bounds \in Seq(Nat)
  /\ pairs \in Seq(Keys \X Keys) /\ view \in [Keys -> [of : Int, got : Nat, names : SUBSET Names]]
  /\ \A e \in Endpoints : written[e] => queue[e] # <<>>

(* Handles come in pairs that name each other and belong to one pair       *)
(* number, no two listeners share a name: what connect, data and ack       *)
(* "expect" (they would panic otherwise).                                  *)
HandlesArePaired ==
  /\ \A k \in DOMAIN handles :
       /\ handles[k].peer \in DOMAIN handles \ {k}
       /\ handles[handles[k].peer].peer = k
       /\ handles[handles[k].peer].pair = handles[k].pair
  /\ \A k, l \in DOMAIN listeners : listeners[k].name = listeners[l].name => k = l

(* An id is one thing at a time: a listener, a handle, a watch or draining,*)
(* and it drains for one terminal frame only ("channel ID entered drain    *)
(* twice" in begin_drain).                                                 *)
IdsHaveOneOwner ==
  \A k \in Keys :
    LET terminal == {i \in DOMAIN queue[k[1]] : queue[k[1]][i].drain /\ queue[k[1]][i].id = k[2]}
    IN  Cardinality({s \in {"l", "h", "w"} : \/ s = "l" /\ k \in DOMAIN listeners
                                             \/ s = "h" /\ k \in DOMAIN handles
                                             \/ s = "w" /\ k \in DOMAIN watches})
          + Cardinality(terminal) =< 1

(* What a client knows of an id after each frame of its queue: v after     *)
(* those it has read, and then what it will know when they reach it.       *)
Knowing(v, q, id, read) ==
  LET knows[i \in 0..Len(q)] ==
        IF i =< read THEN v
        ELSE IF q[i].id = id THEN Seen(knows[i - 1], q[i]) ELSE knows[i - 1]
  IN  knows

Will(k, n) == Knowing(view[k], queue[k[1]], k[2], IF written[k[1]] THEN 1 ELSE 0)[n]

WillKnow(k) == Will(k, Len(queue[k[1]]))

(* A client never receives a frame of a channel it has not been told of, or*)
(* that it has been told is closed: DATA, ACK and CLOSED follow the OPENED *)
(* or ACCEPTED of the same channel, and an id is opened only after the     *)
(* CLOSED of its previous channel, across every reuse of the id.           *)
FramesFollowTheirOpen ==
  \A e \in Endpoints : \A i \in (IF written[e] THEN 2 ELSE 1)..Len(queue[e]) :
    LET f == queue[e][i]
        before == Will(<<e, f.id>>, i - 1).of
    IN  /\ f.kind \in {"opened", "accepted"} => before = 0
        /\ f.kind \in {"data", "ack", "closed"} => before = f.of

(* Every client learns the truth: once it has read what is queued for it,  *)
(* an id is its listener or handle exactly if the fabric says so. So every *)
(* end of a channel - a CLOSE, a violation, a peer that left - reaches both*)
(* sides exactly once.                                                     *)
ClientsLearnTheTruth ==
  \A k \in Keys : k[1] \in alive \cap open =>
    WillKnow(k).of = IF k \in DOMAIN handles THEN handles[k].pair
                     ELSE IF k \in DOMAIN listeners THEN -listeners[k].gen ELSE 0

(* No payload byte is lost or repeated: what a receiver has and what is    *)
(* queued for it add up to what the sender was allowed to send, and the    *)
(* sender is never ahead of its credit or its message limit.               *)
WithinCredit ==
  \A k \in DOMAIN handles : /\ handles[k].acked =< handles[k].sent
                            /\ handles[k].sent =< handles[k].acked + Window

StreamsAreWhole == WithinCredit /\
  \A k \in DOMAIN handles :
    LET h == handles[k]
        r == h.peer
    IN  /\ r[1] \in open => WillKnow(r).got = h.sent
        /\ r[1] \in Honest \cap open => h.acked =< view[r].got
        /\ Len(h.bounds) =< MaxUnconsumed
        /\ h.acked < h.sent <=> h.bounds # <<>>

(* Payload bytes that have not been written stay charged to their pair,    *)
(* also after it was closed, within the byte budget; and no endpoint has   *)
(* handles or queued frames of more channels than it has slots.            *)
UnwrittenBytes ==
  MapThenSumSet(LAMBDA e : FoldLeft(LAMBDA n, f : n + f.n, 0,
       SelectSeq(IF written[e] THEN Tail(queue[e]) ELSE queue[e],
                 LAMBDA f : f.kind = "data")), Endpoints)

BudgetsHold ==
  /\ UnwrittenBytes =< 2 * Window * Cardinality(ChargedPairs)
  /\ 2 * Window * Cardinality(ChargedPairs) =< BufferBytes
  /\ \A e \in Endpoints :
       Cardinality({<<handles[k].pair, k[2]>> : k \in Of(e, handles)}
                     \cup {<<f.of, f.id>> : f \in {g \in Frames(e) : g.of > 0}}) =< HandlesPerClient

(* A watch has been told the names as they are, or a release is waiting    *)
(* for the next request to publish it; what it was told last is what its   *)
(* client will know.                                                       *)
WatchesAreAnswered ==
  \A k \in DOMAIN watches : k[1] \in open =>
    /\ dirty \/ watches[k].published = Present(listeners, watches[k].names)
    /\ WillKnow(k).names = watches[k].published

(* "Every request that claims or releases a name passes through here, so   *)
(* this is the one place watches are answered from" (channel.rs:390);      *)
(* "NAMES is repeated whenever that answer changes" (docs/design/          *)
(* extensions.md:1921): between requests a watch is never behind.          *)
WatchesAreCurrent ==
  \A k \in DOMAIN watches : k[1] \in open =>
    watches[k].published = Present(listeners, watches[k].names)

(* "may reuse the client-created channel ID after observing that failed    *)
(* OPENED" (docs/design/extensions.md): an id that its client knows to be  *)
(* free, with nothing queued for it, can be opened again.                  *)
ObservedIdsAreFree ==
  \A e \in alive, id \in ClientIds :
    (/\ view[<<e, id>>].of = 0 /\ e \in open
     /\ \A i \in (IF written[e] THEN 2 ELSE 1)..Len(queue[e]) : queue[e][i].id # id
     /\ <<e, id>> \notin DOMAIN watches)
    => ~Live(<<e, id>>)

(* The channels of a connection that has failed are closed, and what they  *)
(* held of the survivors' budgets is returned.                             *)
FailedEndpointsAreCleared ==
  \A e \in Endpoints : (e \notin open) ~> (Of(e, handles) = {} /\ Of(e, listeners) = {}
                                           /\ ChargedSlots(e) = {})
-----------------------------------------------------------------------------
(* The promise to the two sides of a pair: side 1 connected, side 2        *)
(* accepted.                                                               *)

SideKey(p, s) == pairs[p][s]
IsOpen(p) == p =< Len(pairs) /\ \E k \in DOMAIN handles : handles[k].pair = p

OnTheWire(p, s) ==
  LET k == SideKey(p, s)
      unread == IF written[k[1]] THEN Tail(queue[k[1]]) ELSE queue[k[1]]
      data == SelectSeq(unread, LAMBDA f : f.kind = "data" /\ f.of = p /\ f.id = k[2])
  IN  [i \in DOMAIN data |-> data[i].n]

Pipes == INSTANCE ChannelPipes WITH
  Pairs   <- 1..MaxPairs,
  status  <- [p \in 1..MaxPairs |-> IF p > Len(pairs) THEN "none"
                                    ELSE IF IsOpen(p) THEN "open" ELSE "cut"],
  wire    <- [p \in 1..MaxPairs |-> [s \in {1, 2} |->
                IF p > Len(pairs) THEN <<>> ELSE OnTheWire(p, s)]],
  unacked <- [p \in 1..MaxPairs |-> [s \in {1, 2} |->
                IF IsOpen(p) THEN handles[SideKey(p, s)].sent - handles[SideKey(p, s)].acked
                ELSE 0]],
  failed  <- {x \in (1..Len(pairs)) \X {1, 2} : SideKey(x[1], x[2])[1] \notin open}

(* For clients that acknowledge only what they received, every step of the *)
(* fabric is a step of its promise: per direction and pair the bytes arrive*)
(* in order, unduplicated, within the window, also after the pair was      *)
(* closed, unless the receiving connection failed.                         *)
ImplementsPipes == Pipes!Spec
=============================================================================
