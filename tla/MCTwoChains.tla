------------------------------ MODULE MCTwoChains ------------------------------
(***************************************************************************)
(* An instance of TwoChains for TLC.                                       *)
(***************************************************************************)
EXTENDS TwoChains

CONSTANTS u, br, x, r, s, f, here, other  \* user, bridge, EVM user, relayers, contracts

Duo == [list |-> <<r, f>>, threshold |-> 2]
Lists == {[list |-> <<s, f>>, threshold |-> 2], [list |-> <<r>>, threshold |-> 0]}

To(chain, contract, recipient) ==
  [ destination |-> chain, token |-> contract, sender |-> x, recipient |-> recipient,
    amount |-> 1, nonce |-> 0 ]

ElseWhere == {To(Stellar, other, u), To(Evm, other, x)}
Fakes == {To(Stellar, here, u), To(Evm, here, x)}
Targets == {[type |-> 0, recipient |-> u], [type |-> 2, recipient |-> u]}
SelfGrant == {[holder |-> x, spender |-> x]}
================================================================================
