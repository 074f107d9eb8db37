------------------------------ MODULE MCStateDB ------------------------------
EXTENDS StateDB, TLC

CONSTANTS a1, a2, m1, k1, k2, c1

Acc(balance, code) ==
  [balance |-> balance, nonce |-> 0, code |-> code, storage |-> [k \in Keys |-> 0]]

\* a1 has coins; a2 is new, has coins, or is a contract.
MCStores ==
  {[exists   |-> {a1} \cup X.exists, codes |-> {X.account.code} \ {NoCode},
    accounts |-> [x \in AllAccounts |-> IF x = a1 THEN Acc(1, NoCode)
                                        ELSE IF x = a2 THEN X.account ELSE Acc(0, NoCode)]] :
     X \in {[exists |-> {}, account |-> Acc(0, NoCode)],
            [exists |-> {a2}, account |-> Acc(1, NoCode)],
            [exists |-> {a2}, account |-> Acc(0, c1)]}}

\* a2 is new.
MCStoresNew == {store \in MCStores : a2 \notin store.exists}

\* a2 has no code.
MCStoresPlain == {store \in MCStores : store.codes = {}}

\* a2 has no coins.
MCStoresBare == {store \in MCStores : store.accounts[a2].balance = 0}

Send(from, to, n) == [from |-> from, to |-> to, amount |-> n]

MCSends == {<<>>, <<Send(a1, m1, 1)>>, <<Send(m1, a2, 1)>>, <<Send(a1, m1, 1), Send(m1, a2, 1)>>}

MCAccessLists == {<<[address |-> a1, key |-> k1]>>}

\* Transfers of the EVM and native sends of precompiles.
Coins ==
  [stores |-> MCStoresPlain, lists |-> {<<>>}, ops |-> {"transfer", "precompile", "nested"},
   keys |-> {k1}, sends |-> MCSends, revisions |-> 4, journal |-> 3]

\* Contracts created, changed and destroyed, around precompiles that move no coins.
Contracts ==
  [stores |-> MCStoresBare, lists |-> {<<>>}, ops |-> {"create", "code", "storage", "precompile"},
   keys |-> {k1}, sends |-> {<<>>}, revisions |-> 2, journal |-> 3]

\* Refunds, logs, transient storage and nonces.
Scratch ==
  [stores |-> MCStoresNew, lists |-> {<<>>}, ops |-> {"scratch", "nonce"},
   keys |-> {k1}, sends |-> {<<>>}, revisions |-> 2, journal |-> 3]

\* The access list, with entries that were declared, and nonces.
Access ==
  [stores |-> MCStoresNew, lists |-> MCAccessLists, ops |-> {"access", "nonce"},
   keys |-> {k1, k2}, sends |-> {<<>>}, revisions |-> 2, journal |-> 3]

MCScenarios == {Coins, Contracts, Scratch, Access}

==============================================================================
