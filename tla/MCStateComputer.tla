---------------------------- MODULE MCStateComputer ----------------------------
EXTENDS StateComputer, TLC

\* Four accounts; two funded at genesis.
MCGenesis == [k \in Key |-> IF k \in {<<0, 0>>, <<1, 0>>} THEN "v1" ELSE Absent]

\* Block 1 empties an account before EIP-158, block 2 (the fork block)
\* touches it and another empty one, block 3 empties the last account,
\* block 4 funds a new one.
MCWrites ==
  << (<<0, 0>> :> "empty"),
     (<<0, 0>> :> "empty") @@ (<<0, 1>> :> "empty"),
     (<<1, 0>> :> "empty"),
     (<<1, 1>> :> "v2") @@ (<<0, 1>> :> "v1") >>

\* The store lacks the genesis branch node above the accounts 1x.
MCLostPaths == {<<1>>}
=============================================================================
