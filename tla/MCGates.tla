------------------------------- MODULE MCGates -------------------------------
EXTENDS Gates

CONSTANTS op, user, gov

Msg(type, signer, nested, flag, whitelist, component) ==
  [type |-> type, signer |-> signer, nested |-> nested, flag |-> flag,
   whitelist |-> whitelist, component |-> component]

\* Each kind of message, bare and inside MsgExec up to the limit.
TxMsgs ==
  {Msg("UpdateCircuit", a, n, b, {}, "circuit") : a \in {op, user}, n \in {0, 1}, b \in BOOLEAN}
    \cup {Msg("UpdateIbcBreaker", op, 0, b, {}, "ibcbreaker") : b \in BOOLEAN}
    \cup {Msg(t, user, n, TRUE, {}, "circuit") : t \in {"Transfer", "IBC", "Other"}, n \in {0, 1, 2}}
    \cup {Msg("RateLimit", op, 0, TRUE, {}, "ratelimit"), Msg("UpdateParams", user, 0, TRUE, {}, "circuit")}

\* Pairs begin with a message that changes a gate.
MCTxs ==
  {<<x>> : x \in TxMsgs}
    \cup {<<x, y>> : x \in {x \in TxMsgs : x.nested = 0 /\ x.type \notin Restricted}, y \in TxMsgs}

GovMsgs ==
  {Msg("UpdateParams", gov, 0, TRUE, w, c) : w \in {{}, {op}}, c \in Components}
    \cup {Msg("Transfer", gov, 0, TRUE, {}, "circuit"), Msg("RateLimit", gov, 0, TRUE, {}, "ratelimit")}

MCProposals == {<<x>> : x \in GovMsgs} \cup {<<x, y>> : x \in GovMsgs, y \in GovMsgs}

==============================================================================
