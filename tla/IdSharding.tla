---------------------------- MODULE IdSharding ------------------------------
(***************************************************************************)
(* The ids of notifications and the tables they lead to.  An id is 41 bits *)
(* of time, 10 bits of the hash of business and key, and 12 bits of a      *)
(* sequence that all calls of a generator share; HashStrategy finds the    *)
(* database and the table from the whole hash (Shard) or from the part of  *)
(* it that is in the id (ShardWithId).  Shifts are multiplications, masks  *)
(* are remainders, and the fields of an id do not overlap.                 *)
(***************************************************************************)
EXTENDS Integers

CONSTANT TimestampSize  \* 2^timestampBits, in the code 2^41

ASSUME TimestampAssumption == TimestampSize \in Nat \ {0}

SequenceSize == 4096  \* 2^sequenceBits
HashSize     == 1024  \* 2^hashBits

(* The wiring of ioc: jotify_0 and jotify_1 with four tables each. *)
DbSharding    == 2
TableSharding == 4

(* The id of the seq-th call at time ts (milliseconds since the epoch) for a hash. *)
NextId(ts, hashVal, seq) ==
    (ts % TimestampSize) * (HashSize * SequenceSize)
        + (hashVal % HashSize) * SequenceSize
        + (seq % SequenceSize)

ExtractTimestamp(id) == (id \div (HashSize * SequenceSize)) % TimestampSize
ExtractHash(id)      == (id \div SequenceSize) % HashSize
ExtractSequence(id)  == id % SequenceSize

Dst(hashVal) ==
    [db |-> hashVal % DbSharding, table |-> (hashVal \div DbSharding) % TableSharding]

Shard(hashVal)  == Dst(hashVal)
ShardWithId(id) == Dst(ExtractHash(id))

BroadCast == {[db |-> i, table |-> j] : i \in 0..(DbSharding - 1), j \in 0..(TableSharding - 1)}
=============================================================================
