------------------------------- MODULE StateDB -------------------------------
(***************************************************************************)
(* x/vm/statedb, the snapshot store below it and the precompiles above it. *)
(*                                                                         *)
(* The EVM works on objects, copies of accounts in memory, and notes every *)
(* change in a journal by which it is undone.  Native code that a          *)
(* precompile runs works on the store instead: on a stack of cached        *)
(* layers, to which the objects are flushed before, and from which bank    *)
(* events carry the balances back after.                                   *)
(*                                                                         *)
(* Coins of blocked module accounts are moved by native code alone: what   *)
(* the EVM transfers goes from one of the other accounts to another.  The  *)
(* balance handler passes over the events of a module, so the EVM reads of *)
(* its coins what the store had when the transaction began.                *)
(***************************************************************************)
EXTENDS Integers, Sequences, SequencesExt, FiniteSets

CONSTANTS
  Addrs, Modules, Keys, Values, Codes, NoCode, Amounts, Sends, MaxNonce,
  Scenarios,            \* records [stores, lists, ops, keys, sends, revisions, journal]:
                        \* stores that a transaction may begin with, access lists
                        \* that it may declare, the operations, keys and native
                        \* sends it uses, and bounds: it makes no more snapshots,
                        \* and the EVM adds no entries to a longer journal
  MaxPrecompileCalls,   \* x/vm/types/call.go
  Uint8                 \* number of values of the counter of calls

VARIABLES
  ctx,        \* the store: accounts with their code hashes, and codes
  db,         \* the StateDB
  frames,     \* the calls that are running, of contracts and of precompiles
  ended,      \* the transaction is over
  saved,      \* history: what each revision looked like
  scenario    \* what the transaction may do in this behaviour

vars == <<ctx, db, frames, ended, saved, scenario>>

AllAccounts == Addrs \cup Modules

NoAccount == [balance |-> 0, nonce |-> 0, code |-> NoCode,
              storage |-> [k \in Keys |-> 0]]

New ==
  [objects   |-> <<>>,          \* a function of some addresses
   journal   |-> <<>>,
   revisions |-> <<>>,
   nextRevisionID |-> 0,
   refund    |-> 0,
   logs      |-> 0,
   transient |-> [a \in Addrs |-> [k \in Keys |-> 0]],
   addresses |-> <<>>,          \* access list: index into slots, or -1
   slots     |-> <<>>,
   layers    |-> <<>>,          \* stores; empty before the first precompile call
   events    |-> <<>>,          \* bank events [account, delta]
   processed |-> 0,
   calls     |-> 0]

----------------------------------------------------------------------------
\* State objects, the journal and its entries.

newObject(account) ==
  [balance |-> account.balance, nonce |-> account.nonce, code |-> account.code,
   dirtyCode |-> FALSE, dirtyStorage |-> <<>>,
   selfDestructed |-> FALSE, newContract |-> FALSE]

Exist(s, a) == a \in DOMAIN s.objects \/ a \in ctx.exists

getStateObject(s, a) ==
  IF a \in DOMAIN s.objects THEN s.objects[a] ELSE newObject(ctx.accounts[a])

GetState(s, a, k) ==
  LET dirty == getStateObject(s, a).dirtyStorage
  IN  IF k \in DOMAIN dirty THEN dirty[k] ELSE ctx.accounts[a].storage[k]

With(f, x, v) == [y \in DOMAIN f \cup {x} |-> IF y = x THEN v ELSE f[y]]

Without(f, x) == [y \in DOMAIN f \ {x} |-> f[y]]

setStateObject(s, a, object) == [s EXCEPT !.objects = With(@, a, object)]

append(s, type, a, prev) ==
  [s EXCEPT !.journal = Append(@, [type |-> type, account |-> a, prev |-> prev])]

\* Kinds of entries that make an account dirty; the others dirty nothing.
DirtyingTypes == {"createObject", "selfDestruct", "balance", "nonce", "storage", "code"}

dirties(s) ==
  {s.journal[i].account : i \in {i \in DOMAIN s.journal : s.journal[i].type \in DirtyingTypes}}

createObject(s, a) ==
  setStateObject(append(s, "createObject", a, 0), a, newObject(NoAccount))

getOrNewStateObject(s, a) == IF Exist(s, a) THEN s ELSE createObject(s, a)

SetBalance(s, a, n) ==
  LET object == getStateObject(s, a)
  IN  setStateObject(append(s, "balance", a, object.balance), a,
                     [object EXCEPT !.balance = n])

AddBalance(s, a, n) ==
  LET t == getOrNewStateObject(s, a)
  IN  IF n = 0 THEN t ELSE SetBalance(t, a, getStateObject(t, a).balance + n)

SubBalance(s, a, n) ==
  LET t == getOrNewStateObject(s, a)
  IN  IF n = 0 THEN t ELSE SetBalance(t, a, getStateObject(t, a).balance - n)

SetNonce(s, a, n) ==
  LET t == getOrNewStateObject(s, a)
      object == getStateObject(t, a)
  IN  setStateObject(append(t, "nonce", a, object.nonce), a, [object EXCEPT !.nonce = n])

SetCode(s, a, c) ==
  LET t == getOrNewStateObject(s, a)
      object == getStateObject(t, a)
  IN  setStateObject(append(t, "code", a, object.code), a,
                     [object EXCEPT !.code = c, !.dirtyCode = TRUE])

SetState(s, a, k, v) ==
  LET t == getOrNewStateObject(s, a)
      object == getStateObject(t, a)
      prev == GetState(t, a, k)
  IN  IF prev = v
      THEN t
      ELSE setStateObject(append(t, "storage", a, <<k, prev>>), a,
                          [object EXCEPT !.dirtyStorage = With(@, k, v)])

CreateAccount(s, a) == createObject(s, a)

CreateContract(s, a) ==
  LET object == getStateObject(s, a)
  IN  IF object.newContract
      THEN s
      ELSE setStateObject(append(s, "createContract", a, FALSE), a,
                          [object EXCEPT !.newContract = TRUE])

SelfDestruct(s, a) ==
  LET object == getStateObject(s, a)
  IN  setStateObject(append(s, "selfDestruct", a, <<object.selfDestructed, object.balance>>),
                     a, [object EXCEPT !.selfDestructed = TRUE, !.balance = 0])

SelfDestruct6780(s, a) ==
  IF Exist(s, a) /\ getStateObject(s, a).newContract THEN SelfDestruct(s, a) ELSE s

SetTransientState(s, a, k, v) ==
  IF s.transient[a][k] = v
  THEN s
  ELSE [append(s, "transient", a, <<k, s.transient[a][k]>>) EXCEPT !.transient[a][k] = v]

AddRefund(s, n) == [append(s, "refund", 0, s.refund) EXCEPT !.refund = @ + n]

SubRefund(s, n) == [append(s, "refund", 0, s.refund) EXCEPT !.refund = @ - n]

AddLog(s) == [append(s, "addLog", 0, 0) EXCEPT !.logs = @ + 1]

----------------------------------------------------------------------------
\* The access list: an address points at its set of slots, -1 is none.

AddAddressToAccessList(s, a) ==
  IF a \in DOMAIN s.addresses
  THEN s
  ELSE [append(s, "accessAccount", a, 0) EXCEPT !.addresses = With(@, a, -1)]

HasSlots(s, a) == a \in DOMAIN s.addresses /\ s.addresses[a] # -1

AddSlotToAccessList(s, a, k) ==
  LET t == IF a \in DOMAIN s.addresses THEN s ELSE append(s, "accessAccount", a, 0)
      u == append(t, "accessSlot", a, k)
  IN  IF ~HasSlots(s, a)
      THEN [u EXCEPT !.addresses = With(@, a, Len(s.slots)), !.slots = Append(@, {k})]
      ELSE IF k \in s.slots[s.addresses[a] + 1]
           THEN s
           ELSE [u EXCEPT !.slots[s.addresses[a] + 1] = @ \cup {k}]

DeleteSlot(s, a, k) ==
  LET idx == s.addresses[a]
      rest == s.slots[idx + 1] \ {k}
  IN  IF rest = {}
      THEN [s EXCEPT !.slots = SubSeq(@, 1, idx), !.addresses[a] = -1]
      ELSE [s EXCEPT !.slots[idx + 1] = rest]

\* Sender, destination, precompiles and the declared list; not in the journal.
Prepare(s, list) ==
  [FoldLeft(LAMBDA t, e : AddSlotToAccessList(AddAddressToAccessList(t, e.address),
                                              e.address, e.key), s, list)
     EXCEPT !.journal = <<>>]

DeleteAddress(s, a) == [s EXCEPT !.addresses = Without(@, a)]

----------------------------------------------------------------------------
\* The snapshot store (layers), and writing the objects to a store.

\* The store that native code reads and writes.
Native(s) == IF s.layers = <<>> THEN ctx ELSE Last(s.layers)

\* Mutant: every call gets a cache of its own.
cache_EachCall(s) == [s EXCEPT !.layers = <<ctx>>]

cache(s) == [s EXCEPT !.layers = IF @ = <<>> THEN <<ctx>> ELSE @]

RevertMultiStore(s, snapshot) == [s EXCEPT !.layers = SubSeq(@, 1, snapshot + 1)]

SetAccount(store, a, object) ==
  [exists   |-> store.exists \cup {a},
   codes    |-> store.codes \cup (IF object.dirtyCode THEN {object.code} \ {NoCode} ELSE {}),
   accounts |-> [store.accounts EXCEPT ![a] =
                   [balance |-> object.balance, nonce |-> object.nonce, code |-> object.code,
                    storage |-> [k \in Keys |-> IF k \in DOMAIN object.dirtyStorage
                                                THEN object.dirtyStorage[k]
                                                ELSE @.storage[k]]]]]

CanDeleteAccount(store, a) == a \in store.exists => store.accounts[a].code # NoCode

DeleteAccount(store, a) ==
  [store EXCEPT !.exists = @ \ {a}, !.accounts[a] = NoAccount]

CanCommit(store, s) ==
  \A a \in dirties(s) : s.objects[a].selfDestructed => CanDeleteAccount(store, a)

commitWithCtx(store, s) ==
  FoldLeft(LAMBDA st, a : IF s.objects[a].selfDestructed
                          THEN DeleteAccount(st, a)
                          ELSE SetAccount(st, a, s.objects[a]),
           store, SetToSeq(dirties(s)))

\* SetBalance of the keeper mints or burns the difference.
MintsAndBurns(store, s) ==
  {[account |-> a, delta |-> s.objects[a].balance - store.accounts[a].balance] : a \in dirties(s)}

FlushToCacheCtx(s) ==
  LET events == s.events \o SetToSeq({e \in MintsAndBurns(Last(s.layers), s) : e.delta # 0})
  IN  [s EXCEPT !.layers[Len(s.layers)] = commitWithCtx(@, s),
                !.events = events,
                !.processed = Len(events)]


MultiStoreSnapshot(s) == [s EXCEPT !.layers = Append(@, Last(@))]

\* Commit: the layers first, then the objects on top of them.
Commit(s) == commitWithCtx(Native(s), s)

----------------------------------------------------------------------------
\* Snapshots of the EVM.

Snapshot(s) ==
  [s EXCEPT !.revisions = Append(@, [id |-> s.nextRevisionID, journalIndex |-> Len(s.journal)]),
            !.nextRevisionID = @ + 1]

selfDestructChange(s, e) ==
  [s EXCEPT !.objects[e.account].selfDestructed = e.prev[1],
            !.objects[e.account].balance = e.prev[2]]

codeChange(s, e) == [s EXCEPT !.objects[e.account].code = e.prev,
                              !.objects[e.account].dirtyCode = TRUE]

storageChange(s, e) ==
  [s EXCEPT !.objects[e.account].dirtyStorage = With(@, e.prev[1], e.prev[2])]

precompileCallChange(s, e) ==
  [RevertMultiStore(s, e.prev.snapshot) EXCEPT !.events = e.prev.events,
                                               !.processed = e.prev.processed]

RevertEntry(s, e) ==
  CASE e.type = "createObject"   -> [s EXCEPT !.objects = Without(@, e.account)]
    [] e.type = "selfDestruct"   -> selfDestructChange(s, e)
    [] e.type = "balance"        -> [s EXCEPT !.objects[e.account].balance = e.prev]
    [] e.type = "nonce"          -> [s EXCEPT !.objects[e.account].nonce = e.prev]
    [] e.type = "code"           -> codeChange(s, e)
    [] e.type = "storage"        -> storageChange(s, e)
    [] e.type = "createContract" -> [s EXCEPT !.objects[e.account].newContract = FALSE]
    [] e.type = "transient"      -> [s EXCEPT !.transient[e.account][e.prev[1]] = e.prev[2]]
    [] e.type = "refund"         -> [s EXCEPT !.refund = e.prev]
    [] e.type = "addLog"         -> [s EXCEPT !.logs = @ - 1]
    [] e.type = "accessAccount"  -> DeleteAddress(s, e.account)
    [] e.type = "accessSlot"     -> DeleteSlot(s, e.account, e.prev)
    [] e.type = "precompile"     -> precompileCallChange(s, e)

Revert(s, length) ==
  [FoldLeft(RevertEntry, s, Reverse(SubSeq(s.journal, length + 1, Len(s.journal))))
     EXCEPT !.journal = SubSeq(@, 1, length)]

RevisionIndex(s, id) == CHOOSE i \in DOMAIN s.revisions : s.revisions[i].id = id

RevertToSnapshot(s, id) ==
  LET i == RevisionIndex(s, id)
  IN  [Revert(s, s.revisions[i].journalIndex) EXCEPT !.revisions = SubSeq(@, 1, i - 1)]

----------------------------------------------------------------------------
\* Precompile calls.

AddPrecompileFn(s) ==
  [append(s, "precompile", 0, [snapshot  |-> Len(s.layers) - 2,
                               events    |-> s.events,
                               processed |-> s.processed])
     EXCEPT !.calls = (@ + 1) % Uint8]

\* Up to the flush; the snapshot of the layers is older than what is flushed.
PrepareNativeAction(s) == AddPrecompileFn(MultiStoreSnapshot(cache(s)))

CallAllowed(s) == s.calls <= MaxPrecompileCalls

\* Bank: the sender has the coins, the receiver's account is created when needed.
SendCoins(store, m) ==
  [store EXCEPT !.exists = @ \cup {m.to},
                !.accounts[m.from].balance = @ - m.amount,
                !.accounts[m.to].balance = @ + m.amount]

CanSend(store, sends) ==
  \A i \in DOMAIN sends :
    sends[i].amount <=
      FoldLeft(SendCoins, store, SubSeq(sends, 1, i - 1)).accounts[sends[i].from].balance

BankEvents(sends) ==
  FlattenSeq([i \in DOMAIN sends |->
                <<[account |-> sends[i].from, delta |-> -sends[i].amount],
                  [account |-> sends[i].to,   delta |-> sends[i].amount]>>])

IsEventProcessed(s, i) == i - 1 < s.processed

Blocked(a) == a \in Modules

ApplyEvent(s, e) ==
  IF Blocked(e.account) THEN s
  ELSE IF e.delta >= 0 THEN AddBalance(s, e.account, e.delta)
                       ELSE SubBalance(s, e.account, -e.delta)

AfterBalanceChange(s, prevEventsLen) ==
  FoldLeft(LAMBDA t, i : IF IsEventProcessed(s, i) THEN t ELSE ApplyEvent(t, s.events[i]),
           s, [j \in 1 .. Len(s.events) - prevEventsLen |-> prevEventsLen + j])

----------------------------------------------------------------------------
\* The state as the EVM sees it, and as it is stored.

Visible(store) ==
  [exists   |-> store.exists \cap Addrs,
   accounts |-> [a \in Addrs |->
                   [store.accounts[a] EXCEPT !.code = IF @ \in store.codes THEN @ ELSE NoCode]],
   coins    |-> [m \in Modules |-> store.accounts[m].balance]]

Seen(s, a) ==
  LET object == getStateObject(s, a)
  IN  [balance |-> object.balance, nonce |-> object.nonce, code |-> object.code,
       storage |-> [k \in Keys |-> GetState(s, a, k)]]

View(s) ==
  [exists     |-> {a \in Addrs : Exist(s, a)},
   accounts   |-> [a \in Addrs |-> Seen(s, a)],
   coins      |-> [m \in Modules |-> Native(s).accounts[m].balance],
   coinsRead  |-> [m \in Modules |-> Seen(s, m).balance],
   created    |-> {a \in DOMAIN s.objects : s.objects[a].newContract},
   destructed |-> {a \in DOMAIN s.objects : s.objects[a].selfDestructed},
   transient  |-> s.transient,
   refund     |-> s.refund,
   logs       |-> s.logs,
   warm       |-> DOMAIN s.addresses,
   warmSlots  |-> {t \in Addrs \X Keys : HasSlots(s, t[1])
                                         /\ t[2] \in s.slots[s.addresses[t[1]] + 1]}]

----------------------------------------------------------------------------
Init ==
  /\ scenario \in Scenarios
  /\ ctx \in scenario.stores
  /\ \E list \in scenario.lists : db = Prepare(New, list)
  /\ frames = <<>>
  /\ ended = FALSE
  /\ saved = <<>>

\* The EVM runs, at the top of the transaction or in a call.
Running == ~ended /\ \A i \in DOMAIN frames : i = Len(frames) => frames[i].kind = "call"

InCall == ~ended /\ frames # <<>> /\ Last(frames).kind = "call"

InPrecompile == ~ended /\ frames # <<>> /\ Last(frames).kind = "precompile"

Operation(op, s) ==
  /\ op \in scenario.ops
  /\ Running
  /\ Len(db.journal) < scenario.journal
  /\ db' = s
  /\ UNCHANGED <<ctx, frames, ended, saved>>

\* Saved views of the revisions that are left.
KeepRevisions(n) == SubSeq(saved, 1, n)

AddRevision == Append(saved, View(db))

Transfer ==
  \E from \in Addrs, to \in Addrs, n \in Amounts :
    /\ n <= getStateObject(db, from).balance
    /\ Operation("transfer", AddBalance(SubBalance(db, from, n), to, n))

IncreaseNonce ==
  \E a \in Addrs :
    /\ getStateObject(db, a).nonce < MaxNonce
    /\ Operation("nonce", SetNonce(db, a, getStateObject(db, a).nonce + 1))

ChangeCode ==
  \E a \in Addrs, c \in Codes \cup {NoCode} : Operation("code", SetCode(db, a, c))

ChangeState ==
  \E a \in Addrs, k \in scenario.keys, v \in Values : Operation("storage", SetState(db, a, k, v))

\* The EVM creates a contract where there is none: the address may have coins.
Create ==
  \E a \in Addrs :
    LET t == IF Exist(db, a) THEN db ELSE CreateAccount(db, a)
    IN  /\ getStateObject(db, a).code = NoCode
        /\ getStateObject(db, a).nonce = 0
        /\ Operation("create", CreateContract(t, a))

Destruct == \E a \in Addrs : Operation("create", SelfDestruct6780(db, a))

ChangeTransient ==
  \E a \in Addrs, k \in scenario.keys, v \in Values :
    Operation("scratch", SetTransientState(db, a, k, v))

ChangeRefund ==
  \/ Operation("scratch", AddRefund(db, 1))
  \/ db.refund >= 1 /\ Operation("scratch", SubRefund(db, 1))

EmitLog == Operation("scratch", AddLog(db))

Warm ==
  \E a \in Addrs : \/ Operation("access", AddAddressToAccessList(db, a))
                   \/ \E k \in scenario.keys : Operation("access", AddSlotToAccessList(db, a, k))

\* A call of a contract, by the EVM or by a precompile that has not moved coins yet.
Call ==
  /\ ~ended
  /\ Running \/ "nested" \in scenario.ops
  /\ db.nextRevisionID < scenario.revisions
  /\ db' = Snapshot(db)
  /\ frames' = Append(frames, [kind |-> "call", revid |-> db.nextRevisionID,
                               prevEventsLen |-> 0])
  /\ saved' = AddRevision
  /\ UNCHANGED <<ctx, ended>>

\* The precompile that made the last call, if one did.
CalledByPrecompile == Len(frames) > 1 /\ frames[Len(frames) - 1].kind = "precompile"

\* The snapshot of a call that returned stays, but nothing goes back to it.
Return ==
  /\ InCall
  /\ CalledByPrecompile => CanCommit(Last(db.layers), db)
  /\ db' = IF CalledByPrecompile THEN FlushToCacheCtx(db) ELSE db
  /\ frames' = Front(frames)
  /\ UNCHANGED <<ctx, ended, saved>>

\* Go back to where frame i began, and leave it.
Unwind(i) ==
  /\ db' = RevertToSnapshot(db, frames[i].revid)
  /\ frames' = SubSeq(frames, 1, i - 1)
  /\ saved' = KeepRevisions(RevisionIndex(db, frames[i].revid) - 1)
  /\ UNCHANGED <<ctx, ended>>

\* A call fails; a precompile that made it fails with it.
CallFails ==
  /\ InCall
  /\ Unwind(IF CalledByPrecompile THEN Len(frames) - 1 ELSE Len(frames))

PrecompileBegin ==
  LET begun == Snapshot(db)
      s == PrepareNativeAction(begun)
  IN  /\ "precompile" \in scenario.ops
      /\ Running
      /\ db.nextRevisionID < scenario.revisions
      /\ Len(db.journal) < scenario.journal
      /\ IF CallAllowed(s) /\ CanCommit(Last(s.layers), s)
         THEN LET flushed == FlushToCacheCtx(s)
              IN  /\ db' = flushed
                  /\ frames' = Append(frames, [kind          |-> "precompile",
                                               revid         |-> db.nextRevisionID,
                                               prevEventsLen |-> Len(flushed.events)])
                  /\ saved' = AddRevision
         ELSE /\ db' = RevertToSnapshot(s, db.nextRevisionID)
              /\ UNCHANGED <<frames, saved>>
      /\ UNCHANGED <<ctx, ended>>

NativeAction(s, sends) ==
  [s EXCEPT !.layers[Len(s.layers)] = FoldLeft(SendCoins, @, sends),
            !.events = @ \o BankEvents(sends)]

PrecompileEnd ==
  \E sends \in scenario.sends :
    /\ InPrecompile
    /\ CanSend(Last(db.layers), sends)
    /\ db' = AfterBalanceChange(NativeAction(db, sends), Last(frames).prevEventsLen)
    /\ frames' = Front(frames)
    /\ UNCHANGED <<ctx, ended, saved>>

PrecompileFails ==
  /\ InPrecompile
  /\ Unwind(Len(frames))

\* The transaction ends; one that cannot be committed leaves nothing behind.
ApplyTransaction ==
  /\ ~ended /\ frames = <<>>
  /\ ctx' = IF CanCommit(Native(db), db) THEN Commit(db) ELSE ctx
  /\ db' = New
  /\ ended' = TRUE
  /\ saved' = KeepRevisions(0)
  /\ UNCHANGED frames

Next ==
  /\ \/ Transfer \/ IncreaseNonce \/ ChangeCode \/ ChangeState \/ Create \/ Destruct
     \/ ChangeTransient \/ ChangeRefund \/ EmitLog \/ Warm
     \/ Call \/ Return \/ CallFails
     \/ PrecompileBegin \/ PrecompileEnd \/ PrecompileFails
     \/ ApplyTransaction
  /\ UNCHANGED scenario

Spec == Init /\ [][Next]_vars

----------------------------------------------------------------------------
World == INSTANCE EVMWorld WITH world <- View(db), saved <- saved,
                                stored <- Visible(ctx)


\* No step of a revert or of a commit can panic: a dirty address has its
\* object (commitWithCtx), the snapshots noted in the journal are layers in
\* the order they were taken (snapshotkv RevertToSnapshot), and an entry for a
\* slot finds its address in the access list (DeleteSlot).
NothingToPanicAbout ==
  /\ dirties(db) \subseteq DOMAIN db.objects
  /\ LET noted == SelectSeq(db.journal, LAMBDA e : e.type = "precompile")
     IN  /\ \A i, j \in DOMAIN noted : i < j => noted[i].prev.snapshot < noted[j].prev.snapshot
         /\ \A i \in DOMAIN noted : noted[i].prev.snapshot + 2 <= Len(db.layers)
  /\ \A i \in DOMAIN db.journal :
       db.journal[i].type = "accessSlot" => HasSlots(db, db.journal[i].account)
  /\ \A a, b \in DOMAIN db.addresses :
       HasSlots(db, a) => /\ db.addresses[a] + 1 \in DOMAIN db.slots
                          /\ a # b => db.addresses[a] # db.addresses[b]

=============================================================================
