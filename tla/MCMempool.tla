----------------------------- MODULE MCMempool -----------------------------
(***************************************************************************)
(* Three questions about the mempool: what happens to its lists while      *)
(* calls, blocks and runs interleave, what becomes of the waiting calls    *)
(* when its broadcasts reach CometBFT, and what a proposal gets out of it. *)
(***************************************************************************)
EXTENDS LegacyPool, TxIterator, TLC

CONSTANTS acc1, acc2

VARIABLE part   \* the question that is asked

Tx(from, nonce, price, auths) ==
    [from |-> from, nonce |-> nonce, price |-> price, cost |-> price, auths |-> auths]

\* The first transaction of acc1 costs more than the second, of which there are two
\* bids, the higher with an authorisation of acc2.
MCTxs ==
    {Tx(acc1, 0, 2, {}), Tx(acc1, 1, 1, {}), Tx(acc1, 1, 2, {acc2}), Tx(acc1, 2, 1, {}),
     Tx(acc2, 0, 1, {})}

MCGenesis == [nonce |-> 0, balance |-> 4, code |-> FALSE]

\* The block leaves acc1 with code and too little for its first transaction, or
\* runs that transaction and leaves too little for the higher bid of the second.
MCAccountStates ==
    (acc1 :> {[nonce |-> 0, balance |-> 1, code |-> TRUE],
              [nonce |-> 1, balance |-> 1, code |-> FALSE]})
        @@ (acc2 :> {})

Bid(cap, tip, time) == [cap |-> cap, tip |-> tip, time |-> time]

\* Tips that rise and fall along the nonces and across the senders, ties, and a
\* transaction that cannot pay in front of one that can.
MCEvmPools ==
    {(acc1 :> <<Bid(3, 1, 1), Bid(4, 3, 4), Bid(2, 2, 5)>>) @@ (acc2 :> <<Bid(4, 1, 2), Bid(1, 1, 3)>>),
     (acc1 :> <<Bid(4, 2, 1), Bid(1, 1, 2), Bid(4, 4, 3)>>) @@ (acc2 :> <<>>),
     (acc1 :> <<>>) @@ (acc2 :> <<>>)}

MCCosmosPools == {<<>>, <<3, 4>>, <<4, 1, 2>>}

\* The transactions that come when the client is connected.
MCFewTxs == {Tx(acc1, 0, 2, {}), Tx(acc1, 1, 1, {})}

MCInit ==
    /\ part \in {"pool", "connected", "proposal"}
    /\ Init /\ IteratorInit
    /\ connected = (part = "connected")
    /\ part # "proposal" => headFee = NoFee

MCNext ==
    /\ UNCHANGED part
    /\ \/ part = "pool" /\ Next /\ UNCHANGED iteratorVars
       \/ part = "connected" /\ Next /\ pool'.all \subseteq MCFewTxs /\ UNCHANGED iteratorVars
       \/ part = "proposal" /\ IteratorNext /\ UNCHANGED vars

MCSpec == MCInit /\ [][MCNext]_<<vars, iteratorVars, part>> /\ Fairness

\* Proposals alone.
MCProposals == MCInit /\ part = "proposal" /\ [][MCNext]_<<vars, iteratorVars, part>>
=============================================================================
