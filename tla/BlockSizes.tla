---------------------------- MODULE BlockSizes ----------------------------
(***************************************************************************)
(* How many bytes a block has: what a set cuts a value into (storage.cc)   *)
(* and what a get puts together again (get.cc), which computes the same    *)
(* sizes from the length its caller passes in *value_length.               *)
(***************************************************************************)
EXTENDS Integers

CONSTANT SizeT          \* SIZE_MAX + 1: size_t arithmetic is modulo this

ASSUME SizeAssumption == SizeT \in Nat \ {0}

LongSize == 8           \* sizeof(long)

\* A plausible slip: the value is divided without rounding up.
MutBlockSize(len, k) == len \div k

\* determine_block_size_rs: the value is rounded up to a multiple of k longs.
BlockSize(len, k) ==
    LET mod == len % (k * LongSize)
    IN  IF mod = 0 THEN len \div k ELSE ((len + k * LongSize - mod) % SizeT) \div k

\* last_data_request_size: data block k-1 is stored without its padding.
LastSize(len, k) == (len - BlockSize(len, k) * (k - 1)) % SizeT

\* fill_data_ptrs: bytes_remained before each turn of the loop, and so how many
\* bytes of the value data block x holds; it is zeros from there on.
Remained(len, k) ==
    LET size == BlockSize(len, k)
        left[x \in 0..k] ==
            IF x = 0 THEN len
            ELSE LET before == left[x - 1] IN IF size <= before THEN before - size ELSE 0
    IN  [x \in 0..k |-> left[x]]

Filled(len, k) ==
    LET left == Remained(len, k) IN [x \in 0..k - 1 |-> left[x] - left[x + 1]]

\* What a get copies from data block x to byte x * BlockSize of its result.
Copied(len, k) == [x \in 0..k - 1 |-> IF x < k - 1 THEN BlockSize(len, k) ELSE LastSize(len, k)]

\* A get returns what was set, byte by byte, and writes nothing past its end.
Reassembles(len, k) ==
    /\ Copied(len, k) = Filled(len, k)
    /\ Remained(len, k)[k] = 0
============================================================================
