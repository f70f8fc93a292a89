------------------------ MODULE MCStateTrieTransformer ------------------------
EXTENDS StateTrieTransformer

\* Ranges of up to three blocks, empty and inverted ones included, that
\* stop short of the largest block number.
MCRanges == {r \in BlockNumber \X BlockNumber : r[2] < MaxInt /\ r[2] - r[1] \in -1 .. 2}

\* Ranges that end at the largest block number Width bits hold.
MCRangesToMax == {<<MaxInt - 1, MaxInt>>}

\* Inverted ranges only.
MCInvertedRanges == {r \in BlockNumber \X BlockNumber : r[2] < r[1] /\ r[1] - r[2] <= 2}
=============================================================================
