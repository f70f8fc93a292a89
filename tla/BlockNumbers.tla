---------------------------- MODULE BlockNumbers ----------------------------
(***************************************************************************)
(* Block numbers as the transformers hold them: Go int64 loop counters,    *)
(* scaled down to Width bits.  The loops step with i++, which wraps in    *)
(* two's complement once i reaches the largest value.                      *)
(***************************************************************************)
EXTENDS Integers

CONSTANT Width   \* bit width standing in for int64

ASSUME Width \in Nat \ {0}

MinInt == -(2^(Width - 1))
MaxInt == 2^(Width - 1) - 1

BlockNumber == MinInt .. MaxInt

\* i++ on a signed Width-bit integer.
Wrap(n) == ((n - MinInt) % 2^Width) + MinInt
=============================================================================
