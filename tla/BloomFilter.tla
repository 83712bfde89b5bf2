------------------------------- MODULE BloomFilter -------------------------------
(***************************************************************************)
(* The filter over user names: a set of bits and, for every value, the     *)
(* bits that double hashing picks.  The two string hashes are parameters;  *)
(* their sum stays far below 2^53, so the modulo is exact.                 *)
(***************************************************************************)
EXTENDS Naturals

CONSTANTS
  Values,     \* the strings that are added or looked up
  Size,       \* bits: 10000 in the code
  NumHashes,  \* bits per value: 5 in the code
  fnv1a,      \* the first hash of every value
  djb2        \* the second

Bits == 0..(Size - 1)

getHashes(v) == {(fnv1a[v] + i * djb2[v]) % Size : i \in 0..(NumHashes - 1)}

Added(bits, v) == bits \cup getHashes(v)

Has(bits, v) == getHashes(v) \subseteq bits

\* What the filter holds once a list of values was loaded into a new one.
Loaded(vs) == UNION {getHashes(v) : v \in vs}
=============================================================================
