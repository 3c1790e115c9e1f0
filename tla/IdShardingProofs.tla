-------------------------- MODULE IdShardingProofs --------------------------
(* What the ids of a generator can be relied on for. *)
EXTENDS IdSharding, TLAPS

(* The fields of an id are read back as they were put in: the time, the low bits of the hash
   and of the sequence (id_generator.go:51-75). *)
THEOREM FieldsReadBack ==
    ASSUME NEW ts \in Nat, NEW h \in Nat, NEW s \in Nat
    PROVE  /\ ExtractSequence(NextId(ts, h, s)) = s % SequenceSize
           /\ ExtractHash(NextId(ts, h, s)) = h % HashSize
           /\ ExtractTimestamp(NextId(ts, h, s)) = ts % TimestampSize
  <1> DEFINE a == ts % TimestampSize
             b == h % HashSize
             c == s % SequenceSize
             n == a * HashSize + b
             id == NextId(ts, h, s)
  <1>1. a \in Nat /\ a < TimestampSize
    BY TimestampAssumption, SMT
  <1>2. b \in 0..1023 /\ c \in 0..4095
    BY SMT DEF HashSize, SequenceSize
  <1> HIDE DEF a, b, c
  <1>3. n \in Nat /\ n % HashSize = b /\ n \div HashSize = a
    BY <1>1, <1>2, SMT DEF HashSize
  <1>4. id = n * SequenceSize + c
    BY <1>1, <1>2, SMT DEF NextId, HashSize, SequenceSize, a, b, c
  <1>5. id = a * (HashSize * SequenceSize) + (b * SequenceSize + c)
    BY <1>1, <1>2, SMT DEF NextId, HashSize, SequenceSize, a, b, c
  <1> HIDE DEF n, id
  <1>6. id % SequenceSize = c /\ id \div SequenceSize = n
    BY <1>2, <1>3, <1>4, SMT DEF SequenceSize
  <1>7. id \div (HashSize * SequenceSize) = a
    BY <1>1, <1>2, <1>5, SMT DEF HashSize, SequenceSize
  <1>8. a % TimestampSize = a
    BY <1>1, TimestampAssumption, SMT
  <1>9. /\ ExtractSequence(id) = c
        /\ ExtractHash(id) = b
        /\ ExtractTimestamp(id) = a
    BY <1>3, <1>6, <1>7, <1>8, SMT DEF ExtractSequence, ExtractHash, ExtractTimestamp
  <1> QED
    BY <1>9 DEF a, b, c, id

(* A notification is found by its id in the table it was stored in by business and key: ten
   bits of the hash are enough for the two databases of four tables
   (hash_sharding.go:23-46). *)
THEOREM IdFindsTable ==
    ASSUME NEW ts \in Nat, NEW h \in Nat, NEW s \in Nat
    PROVE  ShardWithId(NextId(ts, h, s)) = Shard(h)
  <1>1. ExtractHash(NextId(ts, h, s)) = h % HashSize
    BY FieldsReadBack
  <1>2. (h % HashSize) % DbSharding = h % DbSharding
    BY DEF HashSize, DbSharding
  <1>3. ((h % HashSize) \div DbSharding) % TableSharding = (h \div DbSharding) % TableSharding
    BY DEF HashSize, DbSharding, TableSharding
  <1> QED
    BY <1>1, <1>2, <1>3 DEF ShardWithId, Shard, Dst

(* The table a notification is stored in is one of those a broadcast visits. *)
THEOREM BroadCastComplete ==
    ASSUME NEW h \in Nat
    PROVE  Shard(h) \in BroadCast
  <1>1. h % DbSharding \in 0..(DbSharding - 1)
    BY DEF DbSharding
  <1>2. (h \div DbSharding) % TableSharding \in 0..(TableSharding - 1)
    BY DEF DbSharding, TableSharding
  <1> QED
    BY <1>1, <1>2 DEF Shard, Dst, BroadCast

(* Of any 4096 calls in a row of one generator no two return the same id, whatever the clock
   did between them; two equal ids are at least a whole turn of the sequence apart and carry
   the same time and hash (id_generator.go:55). *)
THEOREM IdsDiffer ==
    ASSUME NEW ts \in Nat, NEW h \in Nat, NEW s \in Nat,
           NEW ts2 \in Nat, NEW h2 \in Nat, NEW s2 \in Nat,
           s < s2, NextId(ts, h, s) = NextId(ts2, h2, s2)
    PROVE  /\ s2 - s >= SequenceSize
           /\ h % HashSize = h2 % HashSize
           /\ ts % TimestampSize = ts2 % TimestampSize
  <1>1. s % SequenceSize = s2 % SequenceSize
    BY FieldsReadBack
  <1>2. s2 - s >= SequenceSize
    BY <1>1 DEF SequenceSize
  <1>3. h % HashSize = h2 % HashSize /\ ts % TimestampSize = ts2 % TimestampSize
    BY FieldsReadBack
  <1> QED
    BY <1>2, <1>3
=============================================================================
