------------------------------ MODULE EVMWorld ------------------------------
(***************************************************************************)
(* What a transaction may rely on while it runs in the EVM and in          *)
(* precompiled contracts: one world, in which every operation takes effect *)
(* at once, a stack of saved worlds to go back to, and a stored world that *)
(* changes once, when the transaction ends.  Coins of native modules are   *)
(* part of it, but the EVM goes on reading what they had at the beginning. *)
(***************************************************************************)
EXTENDS Integers, Sequences, SequencesExt

CONSTANTS
  Addrs,      \* the accounts that the EVM works on
  Modules,    \* accounts of native modules, which only native code moves
  Keys,       \* storage keys
  Values,     \* storage values, 0 among them
  Codes,      \* contract codes
  NoCode,     \* the code of an account that is no contract
  Amounts,    \* amounts of transfers
  Sends,      \* sequences of native sends [from, to, amount] of a precompile
  MaxNonce    \* bound: no nonce beyond this

VARIABLES
  world,      \* the state as operations see it
  saved,      \* the worlds of the snapshots that can be reverted to
  stored      \* the accounts, and the coins of modules, in the store

wvars == <<world, saved, stored>>

Account == [balance : Nat, nonce : 0 .. MaxNonce, code : Codes \cup {NoCode},
            storage : [Keys -> Values]]

NoAccount == [balance |-> 0, nonce |-> 0, code |-> NoCode,
              storage |-> [k \in Keys |-> 0]]

\* An account appears the first time that something is written to it.
Update(w, a, account) ==
  [w EXCEPT !.exists = @ \cup {a}, !.accounts[a] = account]

Credit(w, a, n) ==
  IF a \in Modules THEN [w EXCEPT !.coins[a] = @ + n]
                   ELSE Update(w, a, [w.accounts[a] EXCEPT !.balance = @ + n])

Debit(w, a, n) ==
  IF a \in Modules THEN [w EXCEPT !.coins[a] = @ - n]
                   ELSE Update(w, a, [w.accounts[a] EXCEPT !.balance = @ - n])

Move(w, from, to, n) == Credit(Debit(w, from, n), to, n)

\* Accounts that ended their life leave nothing behind.
Remains(w) ==
  [exists   |-> w.exists \ w.destructed,
   accounts |-> [a \in Addrs |-> IF a \in w.destructed THEN NoAccount ELSE w.accounts[a]],
   coins    |-> w.coins]

Fresh(st) ==
  [exists     |-> st.exists,
   accounts   |-> st.accounts,
   coins      |-> st.coins,     \* of the modules, as native code has them
   coinsRead  |-> st.coins,     \* and as the EVM reads them
   created    |-> {},
   destructed |-> {},
   transient  |-> [a \in Addrs |-> [k \in Keys |-> 0]],
   refund     |-> 0,
   logs       |-> 0,
   warm       |-> {},
   warmSlots  |-> {}]

WInit ==
  /\ stored \in [exists : SUBSET Addrs, accounts : [Addrs -> Account], coins : [Modules -> Nat]]
  /\ \E declared \in SUBSET (Addrs \X Keys) :
       world = [Fresh(stored) EXCEPT !.warm = {t[1] : t \in declared}, !.warmSlots = declared]
  /\ saved = <<>>

----------------------------------------------------------------------------
\* The operations of the EVM: how the world changes.
Transfers(w) ==
  {Move(w, t[1], t[2], t[3]) : t \in {t \in Addrs \X Addrs \X Amounts :
                                        t[3] <= w.accounts[t[1]].balance}}

NonceBumps(w) ==
  {Update(w, a, [w.accounts[a] EXCEPT !.nonce = @ + 1]) : a \in Addrs}

CodeChanges(w) ==
  {Update(w, t[1], [w.accounts[t[1]] EXCEPT !.code = t[2]]) :
     t \in Addrs \X (Codes \cup {NoCode})}

StorageChanges(w) ==
  {Update(w, t[1], [w.accounts[t[1]] EXCEPT !.storage[t[2]] = t[3]]) :
     t \in Addrs \X Keys \X Values}

Creations(w) == {[Update(w, a, w.accounts[a]) EXCEPT !.created = @ \cup {a}] :
                   a \in Addrs}

Destructions(w) ==
  {[w EXCEPT !.accounts[a].balance = 0, !.destructed = @ \cup {a}] : a \in w.created}

ScratchChanges(w) ==
  {[w EXCEPT !.transient[t[1]][t[2]] = t[3]] : t \in Addrs \X Keys \X Values}
    \cup {[w EXCEPT !.refund = n] : n \in {w.refund - 1, w.refund + 1} \cap Nat}
    \cup {[w EXCEPT !.logs = @ + 1]}
    \cup {[w EXCEPT !.warm = @ \cup {a}] : a \in Addrs}
    \cup {[w EXCEPT !.warm = @ \cup {t[1]}, !.warmSlots = @ \cup {t}] : t \in Addrs \X Keys}

\* The coins that the native code of a precompile moves, all or none of them.
NativeMoves(w) ==
  {FoldLeft(LAMBDA acc, m : Move(acc, m.from, m.to, m.amount), w, sends) : sends \in Sends}

Changes(w) ==
  UNION {Transfers(w), NonceBumps(w), CodeChanges(w), StorageChanges(w), Creations(w),
         Destructions(w), ScratchChanges(w), NativeMoves(w)}

Change ==
  /\ UNCHANGED <<saved, stored>>
  /\ \E w \in {world} : world' \in Changes(w)

Save ==
  /\ saved' = Append(saved, world)
  /\ UNCHANGED <<world, stored>>

\* Going back to a snapshot forgets it and the later ones.
GoBack ==
  /\ \E i \in DOMAIN saved : /\ world' = saved[i]
                             /\ saved' = SubSeq(saved, 1, i - 1)
  /\ UNCHANGED stored

End ==
  /\ stored' = Remains(world)
  /\ world' = Fresh(stored')
  /\ saved' = <<>>

\* The transaction fails: nothing of it remains.
Discard ==
  /\ world' = Fresh(stored)
  /\ saved' = <<>>
  /\ UNCHANGED stored

WNext == Change \/ Save \/ GoBack \/ End \/ Discard

WSpec == WInit /\ [][WNext]_wvars

=============================================================================
