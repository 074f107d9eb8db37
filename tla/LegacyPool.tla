----------------------------- MODULE LegacyPool -----------------------------
(***************************************************************************)
(* The EVM side of the application mempool: the legacy pool of executable  *)
(* ("pending") and future ("queue") transactions, the loop that schedules  *)
(* its reorganisations, the reset a new block triggers, and the CheckTx    *)
(* path that adds to it (mempool/txpool/legacypool, mempool/txpool,        *)
(* mempool/mempool.go).                                                    *)
(*                                                                         *)
(* Everything done under the pool's mutex is one step.  The pool is one    *)
(* record, and each method that needs the mutex is an operator from pool   *)
(* to pool, so that the reorganisation composes them in the code's order.  *)
(* Every transaction takes one slot.  The price heaps only decide which    *)
(* transaction a full pool gives up: any one may be.  Heartbeats only      *)
(* decide whose queue is cut first and who is evicted: any order may be.   *)
(* The behaviours begin when the pool has been given a state, and every    *)
(* notification has a context: the zero header of block 0, for whose root  *)
(* StateAt answers a nil state without an error, is not among them.        *)
(***************************************************************************)
EXTENDS Integers, FiniteSets, FiniteSetsExt

CONSTANTS
    Accounts,
    Txs,            \* records [from, nonce, price, cost, auths]
    AccountStates,  \* account -> the states [nonce, balance, code] a block may leave it in
    Genesis,        \* the state of every account at the start
    MaxBlocks,      \* bound: the number of blocks committed
    MaxFailures,    \* bound: the number of failed StateAt calls
    AccountSlots, GlobalSlots, AccountQueue, GlobalQueue, PriceBump

VARIABLES
    latest,     \* Blockchain.latestCtx: the account state of the last notification
    head,       \* TxPool.loop: newHead # oldHead
    pool,       \* the LegacyPool fields guarded by its mutex
    checkTx,    \* the CheckTx call between the pool's mutex and its request
    next,       \* scheduleReorgLoop: what the next run is to do
    run,        \* the run in progress
    announced,  \* pending transactions handed to BroadcastTxFn and txFeed since their promotion
    blocks,     \* number of blocks committed
    failures,   \* number of resets for which the new state was not available
    connected   \* the client context of BroadcastTxFn has a client (evmd's has none)

vars == <<latest, head, pool, checkTx, next, run, announced, blocks, failures, connected>>

ASSUME LimitsAssumption ==
    /\ {AccountSlots, GlobalSlots, AccountQueue, GlobalQueue, PriceBump} \subseteq Nat \ {0}
    /\ \A a \in Accounts :
           AccountStates[a] \cup {Genesis} \subseteq [nonce : Nat, balance : Nat, code : BOOLEAN]
    /\ \A t \in Txs : t.from \in Accounts /\ t.auths \subseteq Accounts

-----------------------------------------------------------------------------
(* list.go: an account's list is a set of transactions, one per nonce.     *)

Nonces(list) == {t.nonce : t \in list}

At(list, n) == {t \in list : t.nonce = n}

\* list.Add: a transaction takes the place of one of the same nonce only
\* when it bids more, and enough more.
Accepts(list, t) ==
    \A old \in At(list, t.nonce) :
        /\ old.price < t.price
        /\ t.price >= (old.price * (100 + PriceBump)) \div 100

Replaced(list, new) == {old \in list : old.nonce \in Nonces(new)}

Put(list, new) == (list \ Replaced(list, new)) \cup new

\* Events are kept by sender and nonce.
Record(events, new) ==
    {e \in events : \A t \in new : <<e.from, e.nonce>> # <<t.from, t.nonce>>} \cup new

Forward(list, n) == {t \in list : t.nonce >= n}

Payable(list, balance) == {t \in list : t.cost <= balance}

\* The part of a strict list that a removal of the transactions of gone
\* leaves valid: what lies below the lowest of them.
Below(list, gone) == {t \in list : \A g \in gone : t.nonce < g.nonce}

\* SortedMap.Cap: the k lowest nonces.
Cap(list, k) == {t \in list : Cardinality({u \in list : u.nonce < t.nonce}) < k}

\* SortedMap.Ready: nothing if the lowest nonce is above start, else the
\* consecutive transactions from the lowest nonce on.
Ready(list, start) ==
    IF list = {} \/ Min(Nonces(list)) > start
    THEN {}
    ELSE {t \in list : Min(Nonces(list)) .. t.nonce \subseteq Nonces(list)}

Sum(f) == MapThenSumSet(LAMBDA a : f[a], DOMAIN f)

Sizes(lists) == [a \in Accounts |-> Cardinality(lists[a])]

-----------------------------------------------------------------------------
(* The methods under the pool's mutex.                                     *)

Pooled(p, a) == p.pending[a] \cup p.queue[a]

AllPending(p) == UNION {p.pending[a] : a \in Accounts}

\* Drops the reservations of the accounts of A that have no transaction left.
Release(p, A) ==
    [p EXCEPT !.reserved = {a \in @ : a \in A => Pooled(p, a) # {}}]

\* enqueueTx for transactions of one account with different nonces: one that
\* does not outbid the queued transaction of its nonce is not inserted.
enqueueTx(p, a, new, addAll) ==
    LET q  == p.queue[a]
        in == {t \in new : Accepts(q, t)}
    IN  [p EXCEPT !.queue[a] = Put(q, in),
                  !.all = (@ \ Replaced(q, in)) \cup (IF addAll THEN in ELSE {})]

\* Mutant: the next nonce of the account is not lowered to the removed one.
removeTx_KeepsNonce(p, t, unreserve) ==
    LET a == t.from
        list == p.pending[a]
        lower == Below(list, {t})
        known == [p EXCEPT !.all = @ \ {t}]
        removed ==
            IF t.nonce \in Nonces(list)
            THEN enqueueTx([known EXCEPT !.pending[a] = lower],
                           a, list \ (lower \cup At(list, t.nonce)), FALSE)
            ELSE [known EXCEPT !.queue[a] = @ \ At(@, t.nonce)]
    IN  IF t \notin p.all THEN p
        ELSE IF unreserve THEN Release(removed, {a}) ELSE removed

removeTx(p, t, unreserve) ==
    LET a == t.from
        known == [p EXCEPT !.all = @ \ {t}]
        list == p.pending[a]
        lower == Below(list, {t})
        removed ==
            IF t.nonce \in Nonces(list)
            THEN enqueueTx([known EXCEPT !.pending[a] = lower,
                                         !.nonces[a] = Min({@, t.nonce})],
                           a, list \ (lower \cup At(list, t.nonce)), FALSE)
            ELSE [known EXCEPT !.queue[a] = @ \ At(@, t.nonce)]
    IN  IF t \notin p.all THEN p
        ELSE IF unreserve THEN Release(removed, {a}) ELSE removed

removeAll(p, S) == FoldSet(LAMBDA t, q : removeTx(q, t, TRUE), p, S)

\* promoteExecutables for one account; its promoteTx calls insert the ready
\* transactions in the order of their nonces.
Promoted(p, a) ==
    LET valid == Payable(Forward(p.queue[a], p.state[a].nonce), p.state[a].balance)
    IN  {t \in Ready(valid, p.nonces[a]) : Accepts(p.pending[a], t)}

promoteAccount(p, a) ==
    LET valid == Payable(Forward(p.queue[a], p.state[a].nonce), p.state[a].balance)
        kept  == Cap(valid \ Ready(valid, p.nonces[a]), AccountQueue)
        in    == Promoted(p, a)
    IN  IF p.queue[a] = {} THEN p
        ELSE Release([p EXCEPT !.pending[a] = Put(@, in),
                               !.queue[a] = kept,
                               !.nonces[a] = IF in = {} THEN @ ELSE Max(Nonces(in)) + 1,
                               !.all = @ \ (((p.queue[a] \ kept) \ in)
                                            \cup Replaced(p.pending[a], in))],
                     {a})

promoteExecutables(p, A) == FoldSet(LAMBDA a, q : promoteAccount(q, a), p, A)

\* Mutant: what follows a dropped transaction is not put back into the queue.
demoteAccount_LosesInvalids(p, a) ==
    LET current == Forward(p.pending[a], p.state[a].nonce)
        drops   == current \ Payable(current, p.state[a].balance)
        valid   == Below(current, drops)
        kept    == IF p.state[a].nonce \in Nonces(valid) THEN valid ELSE {}
    IN  IF p.pending[a] = {} THEN p
        ELSE Release([p EXCEPT !.pending[a] = kept,
                               !.all = @ \ ((p.pending[a] \ current) \cup drops)], {a})

\* demoteUnexecutables for one account.
demoteAccount(p, a) ==
    LET current == Forward(p.pending[a], p.state[a].nonce)
        drops   == current \ Payable(current, p.state[a].balance)
        valid   == Below(current, drops)
        kept    == IF p.state[a].nonce \in Nonces(valid) THEN valid ELSE {}
    IN  IF p.pending[a] = {} THEN p
        ELSE Release(enqueueTx([p EXCEPT !.pending[a] = kept,
                                         !.all = @ \ ((p.pending[a] \ current) \cup drops)],
                               a, (current \ drops) \ kept, FALSE),
                     {a})

demoteUnexecutables(p) == FoldSet(LAMBDA a, q : demoteAccount(q, a), p, Accounts)

\* The end of a reset: pendingNonces.setAll.
setAll(p) ==
    [p EXCEPT !.nonces = [a \in Accounts |->
        IF p.pending[a] = {} THEN p.state[a].nonce ELSE Max(Nonces(p.pending[a])) + 1]]

\* truncatePending cuts the longest lists together, one transaction at a
\* time, until the total is within GlobalSlots or they are down to
\* AccountSlots: every list is cut to the highest level that is enough.
CutTo(p, level) == [a \in Accounts |-> Min({level, Cardinality(p.pending[a])})]

\* Mutant: the cutting stops one transaction too early.
CutLevel_OneMore(p) ==
    LET enough == {k \in AccountSlots .. Cardinality(Txs) : Sum(CutTo(p, k)) <= GlobalSlots + 1}
    IN  IF enough = {} THEN AccountSlots ELSE Max(enough)

CutLevel(p) ==
    LET enough == {k \in AccountSlots .. Cardinality(Txs) : Sum(CutTo(p, k)) <= GlobalSlots}
    IN  IF enough = {} THEN AccountSlots ELSE Max(enough)

truncatePending(p) ==
    LET cut == [a \in Accounts |-> p.pending[a] \ Cap(p.pending[a], CutLevel(p))]
    IN  [p EXCEPT !.pending = [a \in Accounts |-> @[a] \ cut[a]],
                  !.nonces = [a \in Accounts |->
                      IF cut[a] = {} THEN @[a] ELSE Min({@[a], Min(Nonces(cut[a]))})],
                  !.all = @ \ UNION {cut[a] : a \in Accounts}]

\* truncateQueue cuts the queues in the order given (the oldest heartbeat
\* first): whole queues, then the highest nonces of the last one.
truncateQueue(p, order) ==
    LET size == Sizes(p.queue)
        over == Sum(size) - GlobalQueue
        drop(a) ==
            LET before == MapThenSumSet(LAMBDA b : size[b], {b \in Accounts : order[b] < order[a]})
            IN  Max({0, Min({size[a], over - before})})
    IN  removeAll(p, UNION {p.queue[a] \ Cap(p.queue[a], size[a] - drop(a)) : a \in Accounts})

Orders == {f \in [Accounts -> 1 .. Cardinality(Accounts)] :
               \A a, b \in Accounts : f[a] = f[b] => a = b}

-----------------------------------------------------------------------------
(* add.                                                                    *)

hasAuth(p, a) == \E t \in p.all : a \in t.auths

checkDelegationLimit(p, t) ==
    \/ ~p.state[t.from].code /\ ~hasAuth(p, t.from)
    \/ p.pending[t.from] = {} /\ p.nonces[t.from] = t.nonce
    \/ t.nonce \in Nonces(p.pending[t.from])

validateAuth(p, t) ==
    /\ checkDelegationLimit(p, t)
    /\ \A b \in t.auths : Cardinality(Pooled(p, b)) <= 1

ValidateTransactionWithState(p, t) ==
    LET a     == t.from
        spent == MapThenSumSet(LAMBDA u : u.cost, p.pending[a] \ At(p.pending[a], t.nonce))
    IN  /\ p.state[a].nonce <= t.nonce
        /\ p.state[a].balance >= t.cost
        /\ p.state[a].balance >= spent + t.cost

validateTx(p, t) == ValidateTransactionWithState(p, t) /\ validateAuth(p, t)

Full(p) == Cardinality(p.all) + 1 > GlobalSlots + GlobalQueue

isGapped(p, t) ==
    /\ t.nonce > p.nonces[t.from]
    /\ ~(p.nonces[t.from] .. t.nonce - 1 \subseteq Nonces(p.queue[t.from]))

\* The pools in which a full pool has made room for t: none when the pool is
\* throttled or t is a future transaction that would evict a pending one.
MakeRoom(p, t) ==
    LET InPending(d) == d.nonce \in Nonces(p.pending[d.from])
        Dropped(d)   == IF InPending(d)
                        THEN Cardinality(p.pending[d.from] \ Below(p.pending[d.from], {d}))
                        ELSE 0
    IN  IF p.changes > GlobalSlots \div 4 THEN {}
        ELSE {[removeTx(p, d, d.from # t.from) EXCEPT !.changes = @ + Dropped(d)] :
                  d \in {d \in p.all : isGapped(p, t) => ~InPending(d)}}

\* Mutant: no event for a transaction that replaces a pending one.
ReplacementEvents_None(t) == {}

\* queueTxEvent for a transaction that replaces a pending one.
ReplacementEvents(t) == {t}

\* Taking t into the pool once there is room, and the events and dirty
\* accounts that come of it.
Place(p, t) ==
    LET a    == t.from
        list == p.pending[a]
        q    == p.queue[a]
    IN  IF t.nonce \in Nonces(list)
        THEN IF Accepts(list, t)
             THEN [pool |-> [p EXCEPT !.pending[a] = Put(@, {t}),
                                      !.all = (@ \ At(list, t.nonce)) \cup {t}],
                   events |-> ReplacementEvents(t), dirty |-> {}]
             ELSE [pool |-> p, events |-> {}, dirty |-> {}]
        ELSE [pool |-> enqueueTx(p, a, {t}, TRUE), events |-> {},
              dirty |-> IF At(q, t.nonce) = {} THEN {a} ELSE {}]

\* Every outcome of add(t).  The reservation taken for a new account is given
\* up again when t is turned away.
add(p, t) ==
    LET held   == [p EXCEPT !.reserved = @ \cup {t.from}]
        reject == {[pool |-> p, events |-> {}, dirty |-> {}]}
    IN  IF ~validateTx(p, t) THEN reject
        ELSE IF Full(p)
             THEN reject \cup {Place(q, t) : q \in MakeRoom(held, t)}
             ELSE {Place(held, t)}

-----------------------------------------------------------------------------
(* The processes.                                                          *)

NoRequest == [launch |-> FALSE, reset |-> FALSE, dirty |-> {}, events |-> {}, waiters |-> {}]

NoRun == [phase |-> "none", reset |-> FALSE, dirty |-> {}, events |-> {}, waiters |-> {}]

Idle == [pc |-> "idle", sync |-> FALSE, dirty |-> {}]

Waits(w) == w \in next.waiters \cup run.waiters

\* ExperimentalEVMMempool.mtx: held by an Insert until its Add returns.
mtxFree == ~(checkTx.pc = "request" /\ checkTx.sync) /\ ~Waits("checkTx")

Init ==
    /\ latest = [a \in Accounts |-> Genesis]
    /\ head = FALSE
    /\ pool = [pending |-> [a \in Accounts |-> {}], queue |-> [a \in Accounts |-> {}],
               all |-> {}, nonces |-> [a \in Accounts |-> Genesis.nonce],
               reserved |-> {}, changes |-> 0, state |-> latest]
    /\ checkTx = Idle
    /\ next = NoRequest
    /\ run = NoRun
    /\ announced = {}
    /\ blocks = 0
    /\ failures = 0
    /\ connected \in BOOLEAN

\* An iteration of scheduleReorgLoop: it has taken in a request or the end of
\* a run, and launches the next run if one is asked for and none is going on.
scheduleReorgLoop(n, r) ==
    LET launches == r.phase = "none" /\ n.launch
    IN  /\ next' = IF launches THEN NoRequest ELSE n
        /\ run' = IF launches
                  THEN [phase |-> "launched", reset |-> n.reset, dirty |-> n.dirty,
                        events |-> n.events, waiters |-> n.waiters]
                  ELSE r

\* The event of a committed block reaches the mempool: NotifyNewBlock takes
\* the latest context and sends the head on.  The block may have run
\* transactions of an account, moved its funds, and set or cleared its code.
NotifyNewBlock(a) ==
    /\ blocks < MaxBlocks
    /\ \E s \in AccountStates[a] :
           /\ s.nonce >= latest[a].nonce
           /\ latest' = [latest EXCEPT ![a] = s]
    /\ head' = TRUE
    /\ blocks' = blocks + 1
    /\ UNCHANGED <<pool, checkTx, next, run, announced, failures, connected>>

\* TxPool.loop starts a reset when none is running; its goroutine asks the
\* pool for one and waits.
Reset ==
    /\ head
    /\ ~Waits("reset")
    /\ head' = FALSE
    /\ scheduleReorgLoop([next EXCEPT !.launch = TRUE, !.reset = TRUE,
                                      !.waiters = @ \cup {"reset"}], run)
    /\ UNCHANGED <<latest, pool, checkTx, announced, blocks, failures, connected>>

\* CheckTx hands over a transaction the pool does not know: Insert (sync) if
\* its nonce is the account's, InsertInvalidNonce otherwise.  LegacyPool.Add
\* takes it under the mutex; queueTxEvent passes the events on meanwhile.
Add(t, sync) ==
    /\ checkTx.pc = "idle"
    /\ ~Waits("checkTx")
    /\ t \notin pool.all
    /\ \E r \in add(pool, t) :
           /\ pool' = r.pool
           /\ checkTx' = [pc |-> "request", sync |-> sync, dirty |-> r.dirty]
           /\ next' = [next EXCEPT !.events = Record(@, r.events)]
           /\ announced' = announced \cap AllPending(r.pool)
    /\ UNCHANGED <<latest, head, run, blocks, failures, connected>>

\* Mutant: no run is asked for when no account is dirty.
LaunchesFor_Dirty(dirty) == next.launch \/ dirty # {}

\* reqPromoteCh: every request asks for a run.
LaunchesFor(dirty) == TRUE

\* Add's call of requestPromoteExecutables; only Insert waits for the run.
requestPromoteExecutables ==
    /\ checkTx.pc = "request"
    /\ checkTx' = Idle
    /\ scheduleReorgLoop([next EXCEPT !.launch = LaunchesFor(checkTx.dirty),
                                      !.dirty = @ \cup checkTx.dirty,
                                      !.waiters = IF checkTx.sync THEN @ \cup {"checkTx"} ELSE @],
                         run)
    /\ UNCHANGED <<latest, head, pool, announced, blocks, failures, connected>>

\* resetInternalState; when StateAt fails it changes nothing.
resetInternalState(p) ==
    [p EXCEPT !.state = latest, !.nonces = [a \in Accounts |-> latest[a].nonce]]

\* runReorg under the pool's mutex, from the pool p the reset leaves: the
\* accounts of a reset are all those with a queue, of another run the dirty
\* ones.
Reorganise(p) ==
    LET A == IF run.reset THEN Accounts ELSE run.dirty
    IN  /\ run.phase = "launched"
        /\ \E promoted \in {promoteExecutables(p, A)} :
           \E demoted \in {IF run.reset THEN setAll(demoteUnexecutables(promoted)) ELSE promoted} :
           \E cut \in {truncatePending(demoted)}, order \in Orders :
               pool' = [truncateQueue(cut, order) EXCEPT !.changes = 0]
        /\ run' = [run EXCEPT !.phase = "unlocked", !.reset = FALSE, !.dirty = {},
                              !.events = Record(IF run.reset
                                                THEN {t \in @ : t.nonce >= p.nonces[t.from]}
                                                ELSE @,
                                                UNION {Promoted(p, a) : a \in A})]
        /\ announced' = announced \cap AllPending(pool')
        /\ UNCHANGED <<latest, head, checkTx, next, blocks, connected>>

runReorg ==
    /\ \E p \in {IF run.reset THEN resetInternalState(pool) ELSE pool} : Reorganise(p)
    /\ UNCHANGED failures

runReorgStateUnavailable ==
    /\ run.reset
    /\ failures < MaxFailures
    /\ failures' = failures + 1
    /\ Reorganise(pool)

\* BroadcastTxFn sends the events through a client to CometBFT, whose CheckTx comes
\* back to Insert and waits for the mempool's mutex.  Without a client it fails at
\* once, which is logged.
BroadcastBlocked == connected /\ run.phase = "unlocked" /\ run.events # {} /\ ~mtxFree

\* The rest of runReorg: BroadcastTxFn and txFeed get the events, and the
\* done channel is closed.
Announce ==
    /\ run.phase = "unlocked"
    /\ ~BroadcastBlocked
    /\ announced' = announced \cup (run.events \cap AllPending(pool))
    /\ scheduleReorgLoop(next, NoRun)
    /\ UNCHANGED <<latest, head, pool, checkTx, blocks, failures, connected>>

\* ExperimentalEVMMempool.Remove of a transaction whose ante check fails.
Remove(t) ==
    /\ mtxFree
    /\ t \in pool.all
    /\ pool' = removeTx(pool, t, TRUE)
    /\ announced' = announced \cap AllPending(pool')
    /\ UNCHANGED <<latest, head, checkTx, next, run, blocks, failures, connected>>

\* loop: the queues of accounts silent for the configured lifetime.
Evict(a) ==
    /\ pool.queue[a] # {}
    /\ pool' = removeAll(pool, pool.queue[a])
    /\ announced' = announced \cap AllPending(pool')
    /\ UNCHANGED <<latest, head, checkTx, next, run, blocks, failures, connected>>

Next ==
    \/ \E a \in Accounts : NotifyNewBlock(a) \/ Evict(a)
    \/ Reset
    \/ \E t \in Txs, sync \in BOOLEAN : Add(t, sync)
    \/ requestPromoteExecutables
    \/ runReorg
    \/ runReorgStateUnavailable
    \/ Announce
    \/ \E t \in Txs : Remove(t)

\* The goroutines of the pool and the CheckTx call run until they block.  Each is
\* named by what its step does to its own variable, which no other step does:
\* requestPromoteExecutables, runReorg, Announce and Reset.
RequestTaken == checkTx.pc = "request" /\ checkTx' = Idle

RunReorganises ==
    /\ run.phase = "launched"
    /\ \E e \in SUBSET Txs :
           run' = [run EXCEPT !.phase = "unlocked", !.reset = FALSE, !.dirty = {}, !.events = e]

RunEnds == run.phase = "unlocked" /\ ~BroadcastBlocked /\ scheduleReorgLoop(next, NoRun)

ResetStarts == head /\ ~Waits("reset") /\ head' = FALSE

Fairness ==
    /\ WF_checkTx(RequestTaken)
    /\ WF_run(RunReorganises \/ RunEnds)
    /\ WF_head(ResetStarts)

-----------------------------------------------------------------------------
\* The lookup holds exactly the transactions of the lists, each in one list of
\* its sender, no nonce twice, and the accounts reserved are those with a
\* transaction: promotions, demotions, replacements, evictions and the drops of
\* a full pool keep pending, queue, all and the reserver in step.
OneListPerTx ==
    /\ pool.all = UNION {Pooled(pool, a) : a \in Accounts}
    /\ \A a \in Accounts :
           /\ \A t, u \in Pooled(pool, a) : t.nonce = u.nonce => t = u
           /\ pool.pending[a] \cap pool.queue[a] = {}
           /\ \A t \in Pooled(pool, a) : t.from = a
    /\ pool.reserved = {a \in Accounts : Pooled(pool, a) # {}}

\* The pending transactions of an account can be run one after the other on
\* the pool's state: their nonces follow the account's without a gap up to the
\* next nonce that pendingNonces reports, and each is affordable.
PendingExecutable ==
    \A a \in Accounts :
        /\ Nonces(pool.pending[a]) = pool.state[a].nonce .. pool.nonces[a] - 1
        /\ pool.nonces[a] >= pool.state[a].nonce
        /\ \A t \in pool.pending[a] : t.cost <= pool.state[a].balance

\* The pool never holds more than GlobalSlots and GlobalQueue allow, however
\* many transactions come between two runs, and a run leaves the queues and the
\* pending lists within their limits (truncatePending, truncateQueue).
WithinLimits ==
    [][/\ Cardinality(pool'.all) <= GlobalSlots + GlobalQueue
       /\ run.phase = "launched" /\ run'.phase = "unlocked"
              => /\ Sum(Sizes(pool'.queue)) <= GlobalQueue
                 /\ \/ Sum(Sizes(pool'.pending)) <= GlobalSlots
                    \/ \A a \in Accounts : Cardinality(pool'.pending[a]) <= AccountSlots]_vars

\* Once the requested runs are over, every pending transaction has been handed
\* to BroadcastTxFn and txFeed since it was promoted or replaced another, as
\* long as no reset lacked its state: discarding the events that a reset made
\* stale discards no other.
PendingAnnounced ==
    failures = 0 /\ checkTx.pc = "idle" /\ ~next.launch /\ run.phase = "none"
        => AllPending(pool) \subseteq announced

\* An Insert, which holds the mempool's mutex until its run is over, returns, and
\* a reset of TxPool.loop comes to an end, although requests are merged into the
\* next run while one is going on.  There is one way out of this, and only with a
\* connected client: a run that broadcasts waits for the mutex of an Insert that
\* waits for that run or the next one.  evmd makes its mempool before it has a
\* client, so its broadcasts fail at once and every request is answered.
RequestsAnswered ==
    \A w \in {"checkTx", "reset"} : []<>(~Waits(w) \/ BroadcastBlocked)
=============================================================================
