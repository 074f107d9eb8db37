------------------------------ MODULE Erc20IBC ------------------------------
(***************************************************************************)
(* A token pair of x/erc20 and an IBC channel: the transfer message and    *)
(* the transfer precompile, which convert tokens when coins are short, and *)
(* the erc20 middleware of both packet stacks, which converts what arrives *)
(* or comes back.                                                          *)
(*                                                                         *)
(* The other chain and the relayers are the environment.  They may deliver *)
(* a packet or not, acknowledge it with success or an error, and let it    *)
(* time out; ibc-go sees to it that a packet is settled once.              *)
(***************************************************************************)
EXTENDS Erc20, Sequences

CONSTANTS
  MaxSent,       \* bound: packets sent
  MaxReceived    \* bound: packets that the other chain sends

VARIABLES
  sent,      \* packets from here: [sender, amt, version, status]
  received,  \* packets to here: [receiver, amt, version, status]
  remote     \* coins that the other chain has a claim to

ibcVars == <<sent, received, remote>>

vars == <<erc20Vars, ibcVars>>

-----------------------------------------------------------------------------
\* Sending.

\* The ledgers with which a transfer goes on.  Only what the sender lacks in coins
\* is converted, and a pair that is missing or disabled is no error.
Prepared(u, amt) ==
  IF pair # "enabled" \/ ~IsERC20Enabled \/ ledger.coin[u] >= amt
  THEN {ledger}
  ELSE IF ~MintingEnabled(u) \/ ~HasCode
       THEN {}
       ELSE {r.ledger : r \in {q \in ConvertERC20IntoCoinsForNativeToken(
                                         ledger, amt - ledger.coin[u], u, u) : q.ok}}

\* ibc-go: the coins go to the escrow of the channel, and a packet is committed.
SendTransfer(caller, u, amt, version) ==
  /\ \E L \in Prepared(u, amt) : L.coin[u] >= amt /\ ledger' = MoveCoin(L, u, Escrow, amt)
  /\ sendEnabled
  /\ Len(sent) < MaxSent
  /\ sent' = Append(sent, [sender |-> u, amt |-> amt, version |-> version, status |-> "sent"])
  /\ signer' = {caller}
  /\ UNCHANGED <<governed, contract, received, remote>>

\* MsgTransfer; the gates in front of it are in module Gates.
Transfer(u, amt, version) == SendTransfer(u, u, amt, version)

\* Mutant: the precompile does not ask who calls.
TransferForAnyone(caller, u, amt, version) == SendTransfer(caller, u, amt, version)

\* The transfer precompile, called by any account or contract.
TransferPrecompile(caller, u, amt, version) ==
  /\ caller = u
  /\ SendTransfer(caller, u, amt, version)

-----------------------------------------------------------------------------
\* Receiving.

\* The keeper's callback after the coins have arrived at the receiver.
OnRecvPacket(L, receiver, amt) ==
  IF ~IsERC20Enabled \/ pair # "enabled"
  THEN {Done(L)}
  ELSE IF ~MintingEnabled(receiver)
       THEN {Failed(L)}
       ELSE ConvertCoinNativeERC20(L, amt, receiver, receiver)

\* IBCReceivePacketCallback for packets to the isolated address: the contract u
\* that the packet names is approved for the amount and called, it pulls what it
\* likes, and no tokens may be left.  The ledgers of the calls that succeed.
ReceiveCallback(L, receiver, amt) ==
  IF receiver # Isolated
  THEN {L}
  ELSE {[L EXCEPT !.token = Moved(L.token, Isolated, u, took, took)] :
           u \in Users,
           took \in {t \in 0 .. amt : pair # "none" /\ HasCode /\ t = L.token[Isolated]}}

Settle(i, status) == received' = [received EXCEPT ![i].status = status]

\* Mutant: the error is acknowledged, and what the packet did stays.
RecvPacketKept(i) ==
  /\ received[i].status = "sent" /\ received[i].version = 1
  /\ \E r \in OnRecvPacket(MoveCoin(ledger, Escrow, received[i].receiver, received[i].amt),
                           received[i].receiver, received[i].amt) :
       /\ ~r.spent
       /\ Settle(i, IF r.ok THEN "ok" ELSE "error")
       /\ ledger' = r.ledger
  /\ signer' = {}
  /\ UNCHANGED <<governed, contract, sent, remote>>

\* Writing the acknowledgement takes gas; a conversion that spent it all makes
\* the message fail, and the packet stays.
\* IBC v1: a failed conversion or callback undoes what the packet did, and the
\* acknowledgement is an error.
RecvPacket(i) ==
  /\ received[i].status = "sent" /\ received[i].version = 1
  /\ \E r \in OnRecvPacket(MoveCoin(ledger, Escrow, received[i].receiver, received[i].amt),
                           received[i].receiver, received[i].amt) :
       /\ ~r.spent
       /\ \/ /\ r.ok
             /\ ledger' \in ReceiveCallback(r.ledger, received[i].receiver, received[i].amt)
             /\ Settle(i, "ok")
          \/ /\ ~r.ok \/ received[i].receiver = Isolated
             /\ Settle(i, "error")
             /\ UNCHANGED ledger
  /\ signer' = {}
  /\ UNCHANGED <<governed, contract, sent, remote>>

\* IBC v2: the middleware drops what the keeper returns, and there are no
\* contract callbacks.
RecvPacketV2(i) ==
  /\ received[i].status = "sent" /\ received[i].version = 2
  /\ \E r \in OnRecvPacket(MoveCoin(ledger, Escrow, received[i].receiver, received[i].amt),
                           received[i].receiver, received[i].amt) :
       /\ ~r.spent
       /\ ledger' = r.ledger
  /\ Settle(i, "ok")
  /\ signer' = {}
  /\ UNCHANGED <<governed, contract, sent, remote>>

-----------------------------------------------------------------------------
\* Acknowledgements and timeouts.

\* Mutant: a conversion that fails is reported, and the message fails with it.
RefundIfConverted(L, sender, amt) ==
  IF pair = "none" \/ ~IsERC20Enabled
  THEN {Done(L)}
  ELSE {r \in ConvertCoinNativeERC20(L, amt, sender, sender) : r.ok}

\* The refund, converted to tokens if it can be; a failure is not reported.
ConvertCoinToERC20FromPacket(L, sender, amt) ==
  IF pair = "none" \/ ~IsERC20Enabled
  THEN {Done(L)}
  ELSE ConvertCoinNativeERC20(L, amt, sender, sender)

\* In the stack of IBC v1 the callbacks middleware reads the channel after the
\* refund; a conversion that spent all gas makes the message fail there, and the
\* packet stays.  In the stack of IBC v2 nothing comes after it.
Refund(i) ==
  /\ \E r \in ConvertCoinToERC20FromPacket(MoveCoin(ledger, Escrow, sent[i].sender, sent[i].amt),
                                           sent[i].sender, sent[i].amt) :
       /\ sent[i].version = 1 => ~r.spent
       /\ ledger' = r.ledger
  /\ sent' = [sent EXCEPT ![i].status = "refunded"]
  /\ signer' = {}
  /\ UNCHANGED <<governed, contract, received, remote>>

OnAcknowledgementPacket(i) ==
  \/ /\ sent[i].status = "accepted"
     /\ sent' = [sent EXCEPT ![i].status = "acknowledged"]
     /\ signer' = {}
     /\ UNCHANGED <<governed, contract, ledger, received, remote>>
  \/ sent[i].status = "refused" /\ Refund(i)

OnTimeoutPacket(i) == sent[i].status = "sent" /\ Refund(i)

-----------------------------------------------------------------------------
\* The other chain.

\* It receives a packet and writes an acknowledgement.
RemoteReceives(i) ==
  /\ sent[i].status = "sent"
  /\ \/ /\ sent' = [sent EXCEPT ![i].status = "accepted"]
        /\ remote' = remote + sent[i].amt
     \/ /\ sent' = [sent EXCEPT ![i].status = "refused"]
        /\ UNCHANGED remote
  /\ signer' = {}
  /\ UNCHANGED <<governed, contract, ledger, received>>

RemoteSends(receiver, amt, version) ==
  /\ Len(received) < MaxReceived
  /\ remote >= amt
  /\ receiver = Isolated => version = 1
  /\ remote' = remote - amt
  /\ received' = Append(received, [receiver |-> receiver, amt |-> amt,
                                   version |-> version, status |-> "sent"])
  /\ signer' = {}
  /\ UNCHANGED <<governed, contract, ledger, sent>>

\* The other chain learns of an error or of a timeout.
RemoteRefunds(i) ==
  /\ received[i].status \in {"sent", "error"}
  /\ Settle(i, "returned")
  /\ remote' = remote + received[i].amt
  /\ signer' = {}
  /\ UNCHANGED <<governed, contract, ledger, sent>>

Init(tokens) ==
  /\ Erc20Init(tokens)
  /\ sent = <<>>
  /\ received = <<>>
  /\ remote = 0

Next ==
  \/ Erc20Next /\ UNCHANGED ibcVars
  \/ \E u \in Users, amt \in Amounts, version \in {1, 2} : Transfer(u, amt, version)
  \/ \E caller, u \in Users, amt \in Amounts, version \in {1, 2} :
       TransferPrecompile(caller, u, amt, version)
  \/ \E u \in Users \cup {Isolated}, amt \in Amounts, version \in {1, 2} :
       RemoteSends(u, amt, version)
  \/ \E i \in DOMAIN sent :
       OnAcknowledgementPacket(i) \/ OnTimeoutPacket(i) \/ RemoteReceives(i)
  \/ \E i \in DOMAIN received :
       RecvPacket(i) \/ RecvPacketV2(i) \/ RemoteRefunds(i)

Spec == (\E tokens \in [Users -> Nat] : Init(tokens)) /\ [][Next]_vars

-----------------------------------------------------------------------------
\* Properties.

CoinsOutside == Total([h \in Holders \ {Module} |-> ledger.coin[h]])

\* What is in packets that were sent, or sent back, and not settled yet.
OpenSent ==
  Total([i \in DOMAIN sent |-> IF sent[i].status \in {"sent", "refused"} THEN sent[i].amt ELSE 0])

OpenReceived ==
  Total([i \in DOMAIN received |->
           IF received[i].status \in {"sent", "error"} THEN received[i].amt ELSE 0])

\* Every coin outside of the module's account has a token at the module's
\* account, but for what the contract charged that account on top of a transfer:
\* conversions check what arrived before they mint, and a receipt or a refund
\* that fails half-way leaves more tokens than coins, never less.  What a release
\* costs the module is not looked at (msg_server.go:134-147), so the charges are
\* an exception.
CoinsBacked ==
  HasCode => ledger.token[Module] + ledger.charged >= CoinsOutside

\* What the other chain can claim, or may yet be refunded, is in the escrow, coin
\* for coin: a packet leaves the escrow exactly once, also when its conversion
\* fails half-way under either version of IBC.
EscrowCoversClaims == ledger.coin[Escrow] = remote + OpenSent + OpenReceived

\* What an account has in both forms is diminished by its own messages and
\* calls only, unless the contract destroys itself: not by conversions, packets
\* or refunds of others, nor by governance, nor by other callers of the
\* precompile.  And tokens stay at the isolated address, from which nobody can
\* take them, only when somebody sent them there: a destination callback that
\* leaves some fails, and undoes the packet.
OnlySignerPays ==
  [][/\ \A u \in Users :
          ledger'.coin[u] + ledger'.token[u] < ledger.coin[u] + ledger.token[u] =>
            u \in signer' \/ contract' # contract
     /\ ledger'.token[Isolated] > ledger.token[Isolated] => signer' # {}]_vars

\* Token and coin are one asset in two forms.
Worths == [o \in Owners |-> ledger.coin[o] + ledger.token[o]]

Limbo == IF HasCode THEN ledger.token[Module] + ledger.charged - CoinsOutside ELSE 0

Transit == ledger.coin[Escrow]

Asset == INSTANCE AssetLedger
         WITH Tolls <- Costs, worth <- Worths, transit <- Transit, alive <- HasCode, limbo <- Limbo

\* The pair implements one asset: conversions are invisible, packets move
\* exactly their amount out of and into the escrow, and what becomes
\* unclaimable never comes from an owner except by a gift.  The contract's tolls
\* on an owner's payment are the owner's; its charges on a release are nobody's.
RefinesAssetLedger == Asset!Spec

\* Relayers do not give up on a packet.
Relayed(i) ==
  \/ i \in DOMAIN sent /\ OnAcknowledgementPacket(i)
  \/ i \in DOMAIN sent /\ OnTimeoutPacket(i)

Fairness == \A i \in 1 .. MaxSent : WF_vars(Relayed(i))

Settled(i) == sent[i].status \in {"acknowledged", "refunded"}

\* The conversion of a refund would use up the gas of the message, and the rest
\* of the v1 stack has none: the contract's transfer reverts.
OutOfGas(i) ==
  /\ sent[i].version = 1
  /\ pair # "none" /\ IsERC20Enabled /\ HasCode
  /\ \E r \in CallTransfer(ledger, Module, sent[i].sender, sent[i].amt) : r.spent

\* A packet that was sent is settled in the end, even if the pair is toggled or
\* deleted, the module disabled, or the contract destroyed or made to refuse for
\* ever: a refund does not depend on the conversion.  It depends on the gas: a
\* v1 packet may wait as long as the contract's transfer reverts, and no longer.
RefundsNotBlocked ==
  \A i \in 1 .. MaxSent : []<>(i \in DOMAIN sent => Settled(i) \/ OutOfGas(i))

\* A refund gives the sender back what was sent, as tokens or as coins.
RefundReturned ==
  [][\A i \in DOMAIN sent :
       (sent[i].status # "refunded" /\ sent'[i].status = "refunded") =>
         ledger'.coin[sent[i].sender] + ledger'.token[sent[i].sender]
           = ledger.coin[sent[i].sender] + ledger.token[sent[i].sender] + sent[i].amt]_vars
=============================================================================
