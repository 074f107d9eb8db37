------------------------------ MODULE MCEvmBlock ------------------------------
(***************************************************************************)
(* Two accounts and blocks of four units of gas, of which two are the      *)
(* target.  A decimal number has two parts, and half of the gas limit is   *)
(* charged at least.                                                       *)
(***************************************************************************)
EXTENDS EvmBlock, TLC

CONSTANTS alice, bob

MCAccounts == {alice, bob}

MCParams(off, enableHeight, baseFee, minGasPrice) ==
  [noBaseFee |-> off, enableHeight |-> enableHeight, baseFee |-> baseFee, minGasPrice |-> minGasPrice]

EthTx(from, to, nonce, gas, feeCap, tip, value, create) ==
  [from |-> from, to |-> to, nonce |-> nonce, gas |-> gas, feeCap |-> feeCap, tip |-> tip,
   value |-> value, create |-> create]

CosmosTx(from, to, nonce, gas, fee, tip, value) ==
  [from |-> from, to |-> to, nonce |-> nonce, gas |-> gas, fee |-> fee, tip |-> tip, value |-> value]

MCBalance(a, b) == (alice :> a) @@ (bob :> b)

\* The fee market is on, and governance may turn it off or raise the minimum price.
Market ==
  [params |-> MCParams(FALSE, 0, 2, 1), maxGas |-> 4, balance |-> MCBalance(20, 12),
   changes |-> {MCParams(TRUE, 0, 2, 2), MCParams(FALSE, 0, 3, 4)},
   ethTxs |-> {EthTx(alice, bob, n, 3, 4, 1, 1, FALSE) : n \in 0 .. 1}
              \cup {EthTx(alice, bob, n, 2, 3, 1, 0, TRUE) : n \in 0 .. 1},
   cosmosTxs |-> {CosmosTx(bob, alice, 0, 2, 5, 1, 8)}]

\* The fee market starts with the second block; tips without a bound.
Late ==
  [params |-> MCParams(FALSE, 2, 2, 0), maxGas |-> 4, balance |-> MCBalance(16, 8),
   changes |-> {},
   ethTxs |-> {EthTx(alice, alice, n, 4, 2, 2, 1, FALSE) : n \in 0 .. 1}
              \cup {EthTx(bob, alice, n, 1, 3, 1, 3, FALSE) : n \in 0 .. 1},
   cosmosTxs |-> {CosmosTx(alice, bob, n, 1, 3, 9, 1) : n \in 0 .. 1}]

MCScenarios == {Market, Late}

===============================================================================
