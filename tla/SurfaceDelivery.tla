-------------------------- MODULE SurfaceDelivery --------------------------
(***************************************************************************)
(* One Wayland surface delivered as video to one client by an encoder of   *)
(* the server's own: crates/server/src/lib.rs, the surface half of tick    *)
(* and the tasks it starts. An encoder lives in the subscription's slot, or*)
(* in the one encode that has it; an encoder is built by a task too. Both  *)
(* kinds of task end later, under the session's lock again, and find the   *)
(* subscription as it has become.                                          *)
(*                                                                         *)
(* A picture is its generation, a frame is the encoder it came from, its   *)
(* generation and whether it is a keyframe. The pixels of a generation are *)
(* there in every size. A preference stands for codec, bandwidth and speed.*)
(***************************************************************************)
EXTENDS Integers, FiniteSets

CONSTANTS
  Preferences,   \* what a client may ask of its encoder, over the server's default
  MaxFrames,     \* bounds the commits of the surface
  MaxMoves,      \* bounds its changes of size
  MaxWishes,     \* bounds the messages of the client, keyframe recovery apart
  MaxFaults,     \* bounds what fails, and the rebuilds for bandwidth
  NoneLimit      \* empty encodes in a row before the encoder is dropped

Default == "default"   \* codec_override 0, no bandwidth and no speed of its own

VARIABLES
  source,     \* the surface: if it is there, its picture's generation, its native size
  wish,       \* what the client last asked for, and whether it is subscribed
  sub,        \* surface_subs[sid], or what entry().or_default() would make
  life,       \* how often that entry was removed with tasks left to report
  encodes,    \* encode tasks that have not reported
  creations,  \* encoder creations that have not reported
  screen,     \* the client: its decoder's encoder (0 none), what it shows, if it broke
  spent       \* against the bounds

surfVars == <<source, wish, sub, life, encodes, creations, screen, spent>>

NoEncoder == [id |-> 0, pref |-> Default, size |-> 0, fresh |-> FALSE, life |-> 0]
NoFrame == [gen |-> 0, size |-> 0, key |-> FALSE]

NoEntry ==
  [held |-> FALSE, pref |-> Default, scaled |-> FALSE, encoder |-> NoEncoder,
   encoding |-> FALSE, creating |-> FALSE, inFlight |-> 0, pending |-> NoFrame,
   invalidated |-> FALSE, hasKey |-> FALSE, last |-> 0, empty |-> 0,
   mixed |-> FALSE]   \* a task started for an earlier entry reported to this one

Entry == [sub EXCEPT !.held = TRUE]   \* entry(sid).or_default()

DarkScreen == [dec |-> 0, gen |-> 0, stuck |-> FALSE]

SurfInit ==
  /\ source = [st |-> "absent", gen |-> 1, native |-> 1]
  /\ wish = [on |-> FALSE, pref |-> Default, scaled |-> FALSE]
  /\ sub = NoEntry /\ life = 0 /\ encodes = {} /\ creations = {}
  /\ screen = DarkScreen
  /\ spent = [moves |-> 0, wishes |-> 0, faults |-> 0]

Wished == spent.wishes < MaxWishes /\ spent' = [spent EXCEPT !.wishes = @ + 1]
Faulted == spent.faults < MaxFaults /\ spent' = [spent EXCEPT !.faults = @ + 1]

(* The size this client is served at: its own, or the surface's.           *)
Target == IF sub.scaled THEN 0 ELSE source.native

-----------------------------------------------------------------------------
(* The surface *)

Mapped == source.st = "mapped"

(* A client may have subscribed already. Of its entry the size and cadence *)
(* are kept; no task can be running.                                       *)
SurfaceCreated ==
  /\ source.st = "absent"
  /\ source' = [source EXCEPT !.st = "mapped"]
  /\ sub' = IF wish.on /\ sub.held
            THEN [NoEntry EXCEPT !.held = TRUE, !.scaled = sub.scaled] ELSE NoEntry
  /\ UNCHANGED <<wish, life, encodes, creations, screen, spent>>

SurfaceDestroyed ==
  /\ Mapped
  /\ source' = [source EXCEPT !.st = "gone"]
  /\ wish' = [wish EXCEPT !.on = FALSE]
  /\ sub' = NoEntry /\ life' = life + 1 /\ screen' = DarkScreen
  /\ UNCHANGED <<encodes, creations, spent>>

SurfaceCommit ==
  /\ Mapped /\ source.gen < MaxFrames
  /\ source' = [source EXCEPT !.gen = @ + 1]
  /\ UNCHANGED <<wish, sub, life, encodes, creations, screen, spent>>

(* With the first picture of the new size. The encoder is left to the next *)
(* tick, a task to its end.                                                *)
SurfaceResized ==
  /\ Mapped /\ spent.moves < MaxMoves /\ spent' = [spent EXCEPT !.moves = @ + 1]
  /\ source' = [source EXCEPT !.gen = @ + 1, !.native = 3 - @]
  /\ sub' = IF wish.on THEN [Entry EXCEPT !.empty = 0, !.hasKey = FALSE] ELSE sub
  /\ UNCHANGED <<wish, life, encodes, creations, screen>>

-----------------------------------------------------------------------------
(* The client *)

(* Mutant: the encoder is let go, and the task that runs is not told.      *)
MutInvalidate(s) == [s EXCEPT !.encoder = NoEncoder]

Invalidate(s) ==
  [s EXCEPT !.encoder = NoEncoder, !.invalidated = @ \/ s.encoding \/ s.creating]

Subscribed(pref, scaled) ==
  LET changed == sub.pref # pref \/ sub.scaled # scaled
      asked == [Entry EXCEPT !.pref = pref, !.scaled = scaled, !.hasKey = FALSE,
                  !.empty = IF ~wish.on \/ changed THEN 0 ELSE @]
  IN  IF wish.on /\ changed THEN Invalidate(asked) ELSE asked

SurfaceSubscribe(pref, scaled) ==
  /\ Wished
  /\ wish' = [on |-> TRUE, pref |-> pref, scaled |-> scaled]
  /\ sub' = Subscribed(pref, scaled)
  /\ screen' = IF wish.on THEN screen ELSE DarkScreen
  /\ UNCHANGED <<source, life, encodes, creations>>

(* The subscription again, because the decoder broke. It is heard when no  *)
(* keyframe is owed yet; the client repeats it past the two seconds.       *)
KeyframeRequest ==
  /\ wish.on /\ screen.stuck
  /\ sub.hasKey \/ sub.pref # wish.pref
  /\ sub' = Subscribed(wish.pref, wish.scaled)
  /\ UNCHANGED <<source, wish, life, encodes, creations, screen, spent>>

SurfaceUnsubscribe ==
  /\ wish.on /\ Wished
  /\ wish' = [wish EXCEPT !.on = FALSE]
  /\ sub' = NoEntry /\ life' = life + 1 /\ screen' = DarkScreen
  /\ UNCHANGED <<source, encodes, creations>>

(* C2S_SURFACE_RESIZE: a new box for the surface, with or without a        *)
(* subscription. The surface may follow later.                             *)
SurfaceViewed ==
  /\ Wished
  /\ sub' = [Entry EXCEPT !.empty = 0, !.hasKey = FALSE]
  /\ UNCHANGED <<source, wish, life, encodes, creations, screen>>

DecoderFails ==
  /\ screen.dec # 0 /\ Faulted
  /\ screen' = [screen EXCEPT !.dec = 0, !.stuck = TRUE]
  /\ UNCHANGED <<source, wish, sub, life, encodes, creations>>

(* A keyframe starts the decoder over; a delta is for its own encoder's.   *)
Receives(encoder, gen, key) ==
  IF ~wish.on THEN screen
  ELSE IF key \/ screen.dec = encoder.id
       THEN [dec |-> encoder.id, gen |-> gen, stuck |-> FALSE]
       ELSE [screen EXCEPT !.dec = 0, !.stuck = TRUE]

-----------------------------------------------------------------------------
(* The tick *)

AlreadyEncoded == sub.hasKey /\ sub.last = source.gen
Busy == sub.encoding \/ sub.creating
Visits == Mapped /\ wish.on /\ ~AlreadyEncoded

TickStep == UNCHANGED <<source, wish, life, screen>>

(* The newest picture waits for the encoder that is busy.                  *)
TickPending(fullRate) ==
  /\ Visits /\ Busy /\ TickStep
  /\ sub' = IF /\ fullRate /\ sub.encoding /\ ~sub.creating /\ ~sub.invalidated
               /\ source.gen > sub.inFlight /\ source.gen > sub.pending.gen
            THEN [sub EXCEPT !.pending = [gen |-> source.gen, size |-> Target,
                                          key |-> ~sub.hasKey]]
            ELSE IF ~fullRate \/ sub.invalidated THEN [sub EXCEPT !.pending = NoFrame]
            ELSE sub
  /\ UNCHANGED <<encodes, creations, spent>>

NeedsNewEncoder == sub.encoder = NoEncoder \/ sub.encoder.size # Target

(* After too many empty encodes, once the backoff is over.                 *)
TickCreates ==
  /\ Visits /\ ~Busy /\ NeedsNewEncoder /\ TickStep
  /\ sub' = [Entry EXCEPT !.encoder = NoEncoder, !.creating = TRUE,
               !.empty = IF @ >= NoneLimit THEN 0 ELSE @]
  /\ creations' = creations \cup {[pref |-> sub.pref, size |-> Target, life |-> life]}
  /\ UNCHANGED <<encodes, spent>>

TickEncodes ==
  /\ Visits /\ ~Busy /\ ~NeedsNewEncoder /\ TickStep
  /\ encodes' = encodes \cup
       {[encoder |-> sub.encoder, gen |-> source.gen,
         key |-> ~sub.hasKey \/ sub.encoder.fresh]}
  /\ sub' = [sub EXCEPT !.encoder = NoEncoder, !.encoding = TRUE,
               !.inFlight = source.gen, !.pending = NoFrame]
  /\ UNCHANGED <<creations, spent>>

(* The adaptive controller, for a backend that cannot retarget in place.   *)
TickRebuilds ==
  /\ Mapped /\ wish.on /\ TickStep /\ Faulted
  /\ sub' = Invalidate(Entry)
  /\ UNCHANGED <<encodes, creations>>

-----------------------------------------------------------------------------
(* An encode reports *)

Mixes(task) == sub.mixed \/ task.life # life
Settled(t) ==
  [Entry EXCEPT !.encoding = FALSE, !.inFlight = 0, !.mixed = Mixes(t.encoder)]
Refused(t) == [Settled(t) EXCEPT !.invalidated = FALSE, !.pending = NoFrame]

EncodeStep(t) == t \in encodes /\ UNCHANGED <<source, wish, life, creations>>

(* The frame is sent. What waits goes on with the encoder, if nothing holds*)
(* it back, or the encoder returns to its slot.                            *)
EncodeDelivers(t, goOn) ==
  LET encoder == [t.encoder EXCEPT !.fresh = FALSE]
      next == sub.pending
      done == [Settled(t) EXCEPT !.last = t.gen, !.empty = 0, !.pending = NoFrame,
                 !.hasKey = @ \/ t.key]
      others == encodes \ {t}
  IN  /\ screen' = Receives(t.encoder, t.gen, t.key)
      /\ IF goOn /\ next # NoFrame /\ next.size = encoder.size
         THEN /\ sub' = [done EXCEPT !.encoding = TRUE, !.inFlight = next.gen]
              /\ encodes' = others \cup {[encoder |-> encoder, gen |-> next.gen,
                                          key |-> next.key /\ ~t.key]}
         ELSE /\ sub' = [done EXCEPT !.encoder = encoder]
              /\ encodes' = others

EncodeDone(t, goOn) ==
  /\ EncodeStep(t) /\ UNCHANGED spent
  /\ \/ ~sub.invalidated /\ EncodeDelivers(t, goOn)
     \/ /\ sub.invalidated /\ sub' = Refused(t)
        /\ encodes' = encodes \ {t} /\ UNCHANGED screen

(* Mutant: the generation counts as shown though nothing came of it.       *)
MutShownAfterNothing(t) == t.gen
ShownAfterNothing(t) == sub.last

(* No output: the picture stays to be encoded, and the encoder is dropped  *)
(* when that goes on.                                                      *)
EncodeEmpty(t) ==
  /\ EncodeStep(t) /\ Faulted /\ encodes' = encodes \ {t} /\ UNCHANGED screen
  /\ LET kept == [Settled(t) EXCEPT !.encoder = t.encoder, !.pending = NoFrame,
                    !.last = ShownAfterNothing(t), !.empty = @ + 1]
     IN  sub' = IF sub.invalidated THEN Refused(t)
                ELSE IF kept.empty = NoneLimit
                     THEN [kept EXCEPT !.encoder = NoEncoder, !.hasKey = FALSE]
                     ELSE kept

(* The task panicked, or ran into ENCODE_TIMEOUT.                          *)
EncodeLost(t) ==
  /\ EncodeStep(t) /\ Faulted /\ encodes' = encodes \ {t} /\ UNCHANGED screen
  /\ sub' = [Settled(t) EXCEPT !.pending = NoFrame, !.hasKey = FALSE]

-----------------------------------------------------------------------------
(* A creation reports *)

InUse == {sub.encoder.id, screen.dec} \cup {t.encoder.id : t \in encodes}
NewId == CHOOSE i \in 1..Cardinality(InUse) + 1 : i \notin InUse

Built(c) == [sub EXCEPT !.creating = FALSE, !.mixed = Mixes(c)]

CreationStep(c) ==
  /\ c \in creations /\ creations' = creations \ {c}
  /\ UNCHANGED <<source, wish, life, encodes, screen>>

CreationDone(c) ==
  /\ CreationStep(c) /\ UNCHANGED spent
  /\ sub' = IF ~sub.held THEN sub
            ELSE IF sub.invalidated THEN [Built(c) EXCEPT !.invalidated = FALSE]
            ELSE [Built(c) EXCEPT !.empty = 0,
                    !.encoder = [id |-> NewId, pref |-> c.pref, size |-> c.size,
                                 fresh |-> TRUE, life |-> c.life]]

(* The task is lost, or reports that no backend took the size; the latter  *)
(* answers an invalidation too.                                            *)
CreationFails(c, reported) ==
  /\ CreationStep(c) /\ Faulted
  /\ sub' = IF ~sub.held THEN sub
            ELSE IF reported /\ sub.invalidated THEN [Built(c) EXCEPT !.invalidated = FALSE]
            ELSE [Built(c) EXCEPT !.empty = NoneLimit]

-----------------------------------------------------------------------------

SurfTick == TickCreates \/ TickEncodes
SurfaceTaskEnds == (\E t \in encodes : \E goOn \in BOOLEAN : EncodeDone(t, goOn))
              \/ (\E c \in creations : CreationDone(c))

SurfNext ==
  \/ SurfaceCreated \/ SurfaceDestroyed \/ SurfaceCommit \/ SurfaceResized
  \/ \E pref \in Preferences, scaled \in BOOLEAN : SurfaceSubscribe(pref, scaled)
  \/ KeyframeRequest \/ SurfaceUnsubscribe \/ SurfaceViewed \/ DecoderFails
  \/ SurfTick \/ TickRebuilds \/ \E fullRate \in BOOLEAN : TickPending(fullRate)
  \/ SurfaceTaskEnds
  \/ \E t \in encodes : EncodeEmpty(t) \/ EncodeLost(t)
  \/ \E c \in creations, reported \in BOOLEAN : CreationFails(c, reported)

(* The tick runs at the latest when its blanket interval is over, a task   *)
(* ends, and a client whose decoder broke asks again.                      *)
SurfFairness == WF_surfVars(SurfTick) /\ WF_surfVars(SurfaceTaskEnds) /\ WF_surfVars(KeyframeRequest)

SurfSpec == SurfInit /\ [][SurfNext]_surfVars
SurfLiveSpec == SurfSpec /\ SurfFairness

-----------------------------------------------------------------------------
(* Properties *)

(* When a surface goes still, its last picture gets to the screen of the   *)
(* client that watches, and the client can decode what comes next: whatever*)
(* was pending, empty, lost, invalidated or built twice on the way         *)
(* (encoded_generation's comment, the debt of request_surface_keyframe, and*)
(* the flags that say a task runs).                                        *)
StillSurfacesAreShown ==
  <>[](Mapped /\ wish.on => screen.gen = source.gen /\ screen.dec # 0 /\ ~screen.stuck)

AsAsked(encoder) == encoder.pref = sub.pref /\ (encoder.size = 0) = sub.scaled
Delivers(t) == t \notin encodes' /\ screen' # screen

(* Unless a task started for an earlier entry reported to it, a            *)
(* subscription delivers no frame made for other preferences than those in *)
(* force, whatever was being encoded or built when they changed            *)
(* (accept_completed_encode, accept_completed_creation).                   *)
OldPreferencesAreNotServed ==
  [][\A t \in encodes : Delivers(t) /\ ~sub'.mixed => AsAsked(t.encoder)]_surfVars

(* "Its output belongs to the old codec or dimensions, so it must neither  *)
(* be delivered nor advance the generation mark" (accept_completed_encode):*)
(* so also when the client left and came back while it was made.           *)
OldOutputIsRefused == [][\A t \in encodes : Delivers(t) => AsAsked(t.encoder)]_surfVars
=============================================================================
