----------------------------- MODULE MCKvStore -----------------------------
(* Instances of KvStore for TLC.                                           *)
EXTENDS KvStore, TLC

CONSTANTS k1, k2, a, b, c1, c2

BytesDef == [v \in Values |-> IF v = b THEN 2 ELSE 1]

(* Only c1 watches: a watcher handles nothing else while its snapshot goes *)
(* out, so what races with it is the other connection and the writer.      *)
OneWatcher   == [c \in Conns |-> IF c = c1 THEN {Keys} ELSE {}]
EveryPrefix  == [c \in Conns |-> IF c = c1 THEN {{k1}, Keys} ELSE {}]
NoWatcher    == [c \in Conns |-> {}]
(* Once somebody watches, two mutations are enough: one that races with   *)
(* the snapshot and one behind it.                                        *)
FewWhenWatched ==
  (\E c \in Conns : \E s \in Slots : subs[c][s] # NoSub) => Len(log) =< 2

(* No instance tells one key from the other.                               *)
SameKeys == Permutations(Keys)
=============================================================================
