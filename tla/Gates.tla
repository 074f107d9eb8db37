-------------------------------- MODULE Gates --------------------------------
(***************************************************************************)
(* The emergency stops: x/circuit stops the whole system, x/ibcbreaker the *)
(* outbound IBC messages, and x/ibcratelimiterext lets operators change    *)
(* the rate limits.  Each has a whitelist of operators that only           *)
(* governance changes.                                                     *)
(*                                                                         *)
(* The stops are looked at when a transaction enters (ante), and again     *)
(* when a transfer runs.  Messages of a transaction run one at a time, and *)
(* a message that fails undoes the transaction.  Messages of a passed      *)
(* proposal run at the end of a block, without ante.                       *)
(***************************************************************************)
EXTENDS Naturals, Sequences

CONSTANTS
  Accounts,          \* accounts that sign transactions
  Authority,         \* the governance module account
  MaxNestedIbcMsgs,
  MaxNesting,        \* bound: MsgExec wrappers around a message
  Txs,               \* sequences of messages that transactions consist of
  Proposals          \* sequences of messages that proposals consist of

\* Message types, IBC stands for the restricted types other than the transfer
\* and Other for the types that no gate knows.
Restricted == {"Transfer", "IBC"}

Types == {"UpdateCircuit", "UpdateIbcBreaker", "UpdateParams", "RateLimit", "Other"} \cup Restricted

Components == {"circuit", "ibcbreaker", "ratelimit"}

\* nested counts the authz.MsgExec around the message; the flag, the whitelist
\* and the component are what the message asks for, as far as its type has them.
Messages ==
  [type : Types, signer : Accounts \cup {Authority}, nested : 0 .. MaxNesting,
   flag : BOOLEAN, whitelist : SUBSET Accounts, component : Components]

ASSUME GatesAssumption ==
  /\ Authority \notin Accounts
  /\ {MaxNestedIbcMsgs, MaxNesting} \subseteq Nat
  /\ Txs \subseteq Seq(Messages)
  /\ Proposals \subseteq Seq(Messages)

VARIABLES
  gates,      \* [system, ibc, whitelist]
  pending,    \* messages of the running transaction that are still to run
  begun,      \* gates when the running transaction began
  route,      \* where the running messages come from
  ran         \* history: the type of the message that ran last, and the stops then

vars == <<gates, pending, begun, route, ran>>

GateStates == [system : BOOLEAN, ibc : BOOLEAN, whitelist : [Components -> SUBSET Accounts]]

TypeOK ==
  /\ gates \in GateStates
  /\ begun \in GateStates
  /\ pending \in Seq(Messages)
  /\ route \in {"cosmos", "evm", "gov"}
  /\ ran \in [type : Types, system : BOOLEAN, ibc : BOOLEAN]

\* InitGenesis takes what Validate of the genesis states lets through.
Init ==
  /\ gates \in GateStates
  /\ ~gates.system => gates.whitelist["circuit"] # {}
  /\ pending = <<>> /\ begun = gates /\ route = "cosmos"
  /\ ran = [type |-> "Other", system |-> TRUE, ibc |-> TRUE]

----------------------------------------------------------------------------
\* Ante.

\* Mutant: one other message is let through.
CircuitAvailable_First(msgs) ==
  gates.system \/ msgs[1].type = "UpdateCircuit"

\* A message in a MsgExec is a MsgExec to this gate.
CircuitAvailable(msgs) ==
  gates.system \/ \A i \in DOMAIN msgs : msgs[i].type = "UpdateCircuit" /\ msgs[i].nested = 0

\* Mutant: MsgExec is not looked into.
containsRestrictedIbcMsg_Outer(msg) == msg.nested = 0 /\ msg.type \in Restricted

containsRestrictedIbcMsg(msg) ==
  msg.nested + 1 >= MaxNestedIbcMsgs \/ msg.type \in Restricted

IbcAvailable(msgs) ==
  gates.ibc \/ \A i \in DOMAIN msgs : ~containsRestrictedIbcMsg(msgs[i])

AnteHandle(r, msgs) ==
  /\ CircuitAvailable(msgs)
  /\ r = "cosmos" => IbcAvailable(msgs)

----------------------------------------------------------------------------
\* Message handlers: whether they succeed, and what they change.

IsWhitelisted(component, signer) == signer \in gates.whitelist[component]

\* Mutant: the whitelist may become empty at any time.
CanUpdateParams_Any(msg) == msg.signer = Authority

CanUpdateParams(msg) ==
  /\ msg.signer = Authority
  /\ msg.component = "circuit" /\ msg.whitelist = {} => gates.system

isAuthorized(signer) == signer = Authority \/ IsWhitelisted("ratelimit", signer)

\* The transfer looks at both stops again.
CanTransfer(msg) == gates.system /\ gates.ibc

Succeeds(msg) ==
  \/ msg.type = "UpdateCircuit" /\ IsWhitelisted("circuit", msg.signer)
  \/ msg.type = "UpdateIbcBreaker" /\ IsWhitelisted("ibcbreaker", msg.signer)
  \/ msg.type = "UpdateParams" /\ CanUpdateParams(msg)
  \/ msg.type = "RateLimit" /\ isAuthorized(msg.signer)
  \/ msg.type = "Transfer" /\ CanTransfer(msg)
  \/ msg.type \in {"IBC", "Other"}

After(msg) ==
  CASE msg.type = "UpdateCircuit"    -> [gates EXCEPT !.system = msg.flag]
    [] msg.type = "UpdateIbcBreaker" -> [gates EXCEPT !.ibc = msg.flag]
    [] msg.type = "UpdateParams"     -> [gates EXCEPT !.whitelist[msg.component] = msg.whitelist]
    [] OTHER                         -> gates

----------------------------------------------------------------------------
Begin(r, msgs) ==
  /\ pending = <<>>
  /\ pending' = msgs
  /\ begun' = gates
  /\ route' = r
  /\ UNCHANGED <<gates, ran>>

\* A transaction of the Cosmos route, which messages of any type may use.
DeliverTx == \E msgs \in Txs : AnteHandle("cosmos", msgs) /\ Begin("cosmos", msgs)

EthereumMsg(a, type) ==
  [type |-> type, signer |-> a, nested |-> 0, flag |-> TRUE, whitelist |-> {},
   component |-> "circuit"]

\* An Ethereum transaction; the ICS20 precompile may run a transfer in it.
DeliverEthereumTx ==
  \E a \in Accounts, type \in {"Transfer", "Other"} :
    /\ AnteHandle("evm", <<EthereumMsg(a, "Other")>>)
    /\ Begin("evm", <<EthereumMsg(a, type)>>)

EndBlocker == \E msgs \in Proposals : Begin("gov", msgs)

RunMsg ==
  /\ pending # <<>>
  /\ Succeeds(Head(pending))
  /\ gates' = After(Head(pending))
  /\ pending' = Tail(pending)
  /\ ran' = [type |-> Head(pending).type, system |-> gates.system, ibc |-> gates.ibc]
  /\ UNCHANGED <<begun, route>>

\* A message that the gates refuse fails, and any other may fail for reasons of its
\* own (gas, funds, a closed channel): baseapp drops the changes of them all.
FailMsg ==
  /\ pending # <<>>
  /\ gates' = begun
  /\ pending' = <<>>
  /\ UNCHANGED <<begun, route, ran>>

Next == DeliverTx \/ DeliverEthereumTx \/ EndBlocker \/ RunMsg \/ FailMsg

Spec == Init /\ [][Next]_vars

----------------------------------------------------------------------------
\* "the chain cannot be left without any operator able to re-enable it"
\* (x/circuit/README.md): while the system is stopped there is an account whose
\* transaction passes ante and whose message succeeds, also in the middle of a
\* transaction and after one was undone.
OperatorCanRestore ==
  \A g \in {gates, begun} : ~g.system => g.whitelist["circuit"] # {}

\* "internal execution paths cannot bypass a system-wide stop by skipping ante"
\* (Transfer in x/ibc/transfer/keeper/msg_server.go), on all three routes.
TransfersGated == ran.type = "Transfer" => ran.system /\ ran.ibc

\* While IBC is stopped a restricted message runs in a transaction only if the
\* transaction stopped IBC itself, before it: ante sees through MsgExec.
IbcStopHolds ==
  [][RunMsg /\ ran'.type \in Restricted /\ ~gates.ibc /\ route = "cosmos" => begun.ibc]_vars

\* While the system is stopped only the switch itself runs in a transaction that
\* began after the stop.
SystemStopHolds ==
  [][RunMsg /\ ran'.type # "UpdateCircuit" /\ route # "gov" => begun.system]_vars

=============================================================================
