--------------------------- MODULE DelegatorBalances ---------------------------
(***************************************************************************)
(* CurrentDelegatorBalance::from_transaction (delegator_balances.rs) and   *)
(* the storer that upserts its rows, over a ledger of delegation-pool      *)
(* transactions.  Each transaction changes one delegator's share entry in  *)
(* the active-shares table of a pool or in the shares table of the pool's  *)
(* inactive pool_u64_unbound::Pool (which it always rewrites too), and may *)
(* or may not rewrite the 0x1::delegation_pool::DelegationPool resource.   *)
(*                                                                         *)
(* The first pass builds the transaction's ReferenceContext: inactive      *)
(* table handle -> staking pool from the DelegationPool resource, shares   *)
(* table handle -> its parent inactive table from the Pool item.  The      *)
(* second pass turns the share change into a history row and a current    *)
(* row; an inactive share whose DelegationPool was not rewritten is        *)
(* attributed with the DB lookup get_staking_pool_from_inactive_share_     *)
(* handle, which finds any current row whose parent_table_handle is the    *)
(* inactive table.  A failed lookup drops a write (logged) but is fatal    *)
(* for a delete (.context()? then .unwrap()), and the process restarts at  *)
(* the same transaction.                                                   *)
(***************************************************************************)
EXTENDS Integers, FiniteSets, TLC

CONSTANTS
    Delegators,       \* delegator addresses (model values)
    Pools,            \* staking pool addresses (model values)
    MaxTxns,          \* the ledger has versions 1..MaxTxns
    QueryRetries,     \* query_retries
    TransientErrors   \* whether a lookup query may fail although the row exists

ASSUME MaxTxns \in Nat /\ QueryRetries \in Nat /\ TransientErrors \in BOOLEAN

Versions == 1..MaxTxns
ActiveOps == {"write_active", "delete_active"}
InactiveOps == {"write_inactive", "delete_inactive"}
DeleteOps == {"delete_active", "delete_inactive"}

\* Table handles: DelegationPool.active_shares.shares, .inactive_shares, and
\* the shares table of the inactive pool (one observed lockup cycle).
ActiveTable(p) == <<"active", p>>
InactiveTable(p) == <<"inactive", p>>
SharesTable(p) == <<"shares", p>>

\* A transaction: op on delegator d's entry in pool p; res says whether the
\* DelegationPool resource is in the write set (always so for active shares,
\* which live inside the resource).
Txn == {t \in [op : ActiveOps \cup InactiveOps, d : Delegators, p : Pools, res : BOOLEAN] :
          t.op \in ActiveOps => t.res}

MaxOf(S) == CHOOSE x \in S : \A y \in S : x >= y

PoolType(t) == IF t.op \in ActiveOps THEN "active_shares" ELSE "inactive_shares"
KeyOf(t) == <<t.d, t.p, PoolType(t)>>
PK == Delegators \X Pools \X {"active_shares", "inactive_shares"}

\* The latest change before version v of the entry that l[v] changes.
PriorChanges(l, v) == {u \in 1..v - 1 : KeyOf(l[u]) = KeyOf(l[v])}

\* The ledger as the chain produces it: an entry is deleted only while it
\* exists, i.e. when its latest earlier change is a write.
ValidLedger(l) ==
    \A v \in Versions : l[v].op \in DeleteOps =>
        /\ PriorChanges(l, v) # {}
        /\ l[MaxOf(PriorChanges(l, v))].op \notin DeleteOps

NoRow == [ver |-> 0, pool |-> "none", shares |-> 0, parent |-> "none"]

VARIABLES
    ledger,     \* [Versions -> Txn]
    next,       \* the next version to process (the checkpoint + 1)
    history,    \* stored delegator_balances rows
    current,    \* current_delegator_balances: [PK -> row]
    logged,     \* versions whose row was dropped with an error log
    panicked    \* the processor aborted on the current version

vars == <<ledger, next, history, current, logged, panicked>>

-----------------------------------------------------------------------------
(* The ReferenceContext of one transaction (first pass, L455-475) and the  *)
(* batch-level active mapping passed in by the caller.                     *)

EmptyMap == [h \in {} |-> "none"]

\* get_active_pool_to_staking_pool_mapping: active table -> staking pool.
ActivePoolToStakingPool(t) == IF t.res THEN ActiveTable(t.p) :> t.p ELSE EmptyMap

\* get_inactive_pool_to_staking_pool_mapping: inactive table -> staking pool.
InactivePoolToStakingPool(t) == IF t.res THEN InactiveTable(t.p) :> t.p ELSE EmptyMap

\* get_inactive_share_to_pool_mapping: the rewritten Pool item maps its
\* shares table to its parent_table_handle, the inactive table.
InactiveShareToPool(t) ==
    IF t.op \in InactiveOps THEN SharesTable(t.p) :> InactiveTable(t.p) ELSE EmptyMap

\* The table the share change is in.
HandleOf(t) == IF t.op \in ActiveOps THEN ActiveTable(t.p) ELSE SharesTable(t.p)

\* get_by_inactive_share_handle: the first current row whose
\* parent_table_handle is the given handle.
RowsWithParent(h) == {k \in PK : current[k] # NoRow /\ current[k].parent = h}

\* A plausible slip: the query loses its filter and returns the first row.
LookupResultsUnfiltered(h) ==
    IF QueryRetries = 0 \/ RowsWithParent(h) = {} THEN {"err"}
    ELSE {current[k].pool : k \in {j \in PK : current[j] # NoRow}}
         \cup (IF TransientErrors THEN {"err"} ELSE {})

\* get_staking_pool_from_inactive_share_handle: the possible results of the
\* bounded retry loop; zero retries make no query at all.
LookupResults(h) ==
    IF QueryRetries = 0 \/ RowsWithParent(h) = {} THEN {"err"}
    ELSE {current[k].pool : k \in RowsWithParent(h)}
         \cup (IF TransientErrors THEN {"err"} ELSE {})

-----------------------------------------------------------------------------
(* The second pass over the share change (L477-537).  `looked` is the      *)
(* result of the DB lookup, used only when the in-transaction mapping      *)
(* does not know the inactive table.                                       *)

\* get_active_share_from_write_table_item: when the batch mapping knows the
\* table, both rows' parent is the active table itself; otherwise Ok(None).
ActiveShareFromWrite(t) ==
    IF HandleOf(t) \in DOMAIN ActivePoolToStakingPool(t)
    THEN [kind |-> "row", pool |-> ActivePoolToStakingPool(t)[HandleOf(t)],
          histParent |-> HandleOf(t), curParent |-> HandleOf(t)]
    ELSE [kind |-> "none"]

\* get_active_share_from_delete_table_item: the same rows with zero shares.
ActiveShareFromDelete(t) ==
    [kind |-> "row", pool |-> ActivePoolToStakingPool(t)[HandleOf(t)],
     histParent |-> HandleOf(t), curParent |-> HandleOf(t)]

\* get_inactive_share_from_delete_table_item: the pool comes from the
\* transaction's mapping or from the lookup, whose failure is an error the
\* caller unwraps (a panic); the history row's parent is the inactive
\* table but the current row's parent is the shares table (L333, L343).
InactiveShareFromDelete(t, looked) ==
    LET ip == InactiveShareToPool(t)[HandleOf(t)]
        known == ip \in DOMAIN InactivePoolToStakingPool(t)
    IN IF ~known /\ looked = "err" THEN [kind |-> "fatal"]
       ELSE [kind |-> "row", histParent |-> ip, curParent |-> HandleOf(t),
             pool |-> IF known THEN InactivePoolToStakingPool(t)[ip] ELSE looked]

InactiveShareFromWrite(t, looked) ==
    LET ip == InactiveShareToPool(t)[HandleOf(t)]
        known == ip \in DOMAIN InactivePoolToStakingPool(t)
    IN IF ~known /\ looked = "err" THEN [kind |-> "dropped"]
       ELSE [kind |-> "row", histParent |-> ip, curParent |-> ip,
             pool |-> IF known THEN InactivePoolToStakingPool(t)[ip] ELSE looked]

\* The match in from_transaction: a delete tries the active table, then
\* the inactive one; so does a write.  (A change of neither table yields
\* Ok(None); the ledgers here have none.)
ChangeResult(t, looked) ==
    IF t.op \in DeleteOps
    THEN IF HandleOf(t) \in DOMAIN ActivePoolToStakingPool(t) THEN ActiveShareFromDelete(t)
         ELSE InactiveShareFromDelete(t, looked)
    ELSE IF HandleOf(t) \in DOMAIN ActivePoolToStakingPool(t) THEN ActiveShareFromWrite(t)
         ELSE InactiveShareFromWrite(t, looked)

\* The lookup runs only for an inactive share whose DelegationPool resource
\* is not in the transaction.
Lookups(t) ==
    IF t.op \in InactiveOps /\ InactiveTable(t.p) \notin DOMAIN InactivePoolToStakingPool(t)
    THEN LookupResults(InactiveTable(t.p)) ELSE {"none"}

\* The shares of the rows: the parsed table value (the version stands for
\* it), zero for a delete.
SharesOf(t, v) == IF t.op \in DeleteOps THEN 0 ELSE v

\* A delegator_balances row (DelegatorBalance): the change's version, the
\* primary key, the shares and the parent table handle.
DelegatorBalanceRow(v, key, t, parent) ==
    [ver |-> v, key |-> key, shares |-> SharesOf(t, v), parent |-> parent]

\* A current_delegator_balances row (CurrentDelegatorBalance), stored under
\* its primary key (delegator, pool, pool_type).
CurrentDelegatorBalanceRow(v, pool, t, parent) ==
    [ver |-> v, pool |-> pool, shares |-> SharesOf(t, v), parent |-> parent]

-----------------------------------------------------------------------------
Init ==
    /\ ledger \in {l \in [Versions -> Txn] : ValidLedger(l)}
    /\ next = 1 /\ history = {} /\ current = [k \in PK |-> NoRow]
    /\ logged = {} /\ panicked = FALSE

\* from_transaction for the next version, then the storer: the history
\* row is inserted and the current row (the map's only entry, inserted at
\* L540-547) upserted; or the row is dropped with its log; or the unwrap
\* panics and the run aborts before anything of the version is stored.
ProcessTransaction ==
    /\ ~panicked /\ next <= MaxTxns
    /\ LET t == ledger[next]
       IN \E looked \in Lookups(t) :
            LET r == ChangeResult(t, looked)
                key == <<t.d, r.pool, PoolType(t)>>
            IN \/ /\ r.kind = "row"
                  /\ history' = history \cup {DelegatorBalanceRow(next, key, t, r.histParent)}
                  /\ current' = [current EXCEPT ![key] =
                       CurrentDelegatorBalanceRow(next, r.pool, t, r.curParent)]
                  /\ next' = next + 1
                  /\ UNCHANGED <<ledger, logged, panicked>>
               \/ /\ r.kind = "dropped"
                  /\ logged' = logged \cup {next}
                  /\ next' = next + 1
                  /\ UNCHANGED <<ledger, history, current, panicked>>
               \/ /\ r.kind = "fatal"
                  /\ panicked' = TRUE
                  /\ UNCHANGED <<ledger, next, history, current, logged>>

\* The process is restarted and resumes at the same version.
Restart ==
    /\ panicked
    /\ panicked' = FALSE
    /\ UNCHANGED <<ledger, next, history, current, logged>>

\* The bounded ledger is indexed to its end.
Done == next > MaxTxns /\ UNCHANGED vars

Next == ProcessTransaction \/ Restart \/ Done

Spec == Init /\ [][Next]_vars /\ WF_vars(ProcessTransaction) /\ WF_vars(Restart)

-----------------------------------------------------------------------------
(* Properties.                                                             *)

InactiveSharesStored(p, v) ==
    \E u \in 1..v - 1 : u \notin logged /\ ledger[u].op \in InactiveOps /\ ledger[u].p = p

(* The DB fallback resolves every pool it has stored inactive shares for:  *)
(* an inactive share write is dropped only when no earlier change of that  *)
(* pool's inactive shares was stored ("You probably should backfill db").  *)
InactiveLookupsSucceed == \A v \in logged : ~InactiveSharesStored(ledger[v].p, v)

(* Under restarts, every version of the ledger is eventually indexed: the  *)
(* fatal delete path does not stop the processor for good.                 *)
EveryVersionIndexed == <>(next > MaxTxns)
=============================================================================
