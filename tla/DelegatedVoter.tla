---------------------------- MODULE DelegatedVoter ----------------------------
(***************************************************************************)
(* current_delegated_voter.rs: the builders of current_delegated_voter     *)
(* rows and their two DB lookups, driven over a ledger of transactions.    *)
(*                                                                         *)
(* A transaction changes, in write-set order, an entry of a pool's vote    *)
(* delegation smart table (from_write_table_item) and/or a delegator's     *)
(* entry of the pool's active shares table                                 *)
(* (get_delegators_pre_contract_deployment).  The vote table's pool is     *)
(* known when the transaction rewrites the pool's GovernanceRecords        *)
(* resource; otherwise it is looked up in the DB by table_handle.  A       *)
(* delegator seen staking gets a default row (voter = itself) unless a row *)
(* for it exists in the batch map or, per get_existence_by_pk, in the DB.  *)
(* The caller, which keeps the batch map and upserts it, is the stake     *)
(* processor of the SDK; it is modelled from the transform contract.       *)
(* A row is abstracted to its voter and whether it carries the vote        *)
(* delegation table handle; pending_voter follows the voter's path.        *)
(***************************************************************************)
EXTENDS Integers, Sequences, FiniteSets, TLC

CONSTANTS
    Delegators,       \* delegator (and voter) addresses, model values
    Pools,            \* delegation pool addresses, model values
    NoPool,           \* the "" pool address of a failed lookup
    MaxChanges,       \* bound on the number of table changes processed
    QueryRetries,     \* query_retries
    TransientErrors   \* whether a query may fail although the row exists

ASSUME MaxChanges \in Nat /\ QueryRetries \in Nat /\ TransientErrors \in BOOLEAN
ASSUME NoPool \notin Pools

\* A vote delegation entry as VoteDelegationTableItem decodes a smart table
\* bucket (the only value type that gives one): delegator d of pool p
\* (the entry's key) delegates to voter; res says whether GovernanceRecords
\* of p is in the same write set.
VoteChange == [kind : {"vote"}, d : Delegators, p : Pools, voter : Delegators, res : BOOLEAN]
\* An active shares entry of d in p; res says whether the DelegationPool
\* resource (hence active_pool_to_staking_pool) is in the batch.
StakeChange == [kind : {"stake"}, d : Delegators, p : Pools, res : BOOLEAN]

\* Transactions of one change, and a vote followed by a stake in one write set.
Txns == {<<c>> : c \in VoteChange \cup StakeChange}
          \cup {<<v, s>> : v \in VoteChange, s \in StakeChange}

PK == Pools \X Delegators
\* A row: its voter and whether it carries the vote delegation table handle.
\* Two ghost fields: `read`, the number of batches committed when a default
\* row's existence query ran, and `at`, the commit that stored the row.
Row == [voter : Delegators, has_table_handle : BOOLEAN, read : Nat, at : Nat]
NoRow == [voter |-> NoPool, has_table_handle |-> FALSE, read |-> 0, at |-> 0]
EmptyMap == [k \in {} |-> NoRow]

VARIABLES
    current,   \* current_delegated_voter in the DB: [PK -> Row \cup {NoRow}]
    pending,   \* the changes of the transaction being transformed
    batch,     \* the batch map CurrentDelegatedVoterMap the extractor builds
    queue,     \* batch maps sent to the storer and not yet upserted
    count,     \* the number of table changes transformed
    commits    \* the number of batch maps the storer has upserted

vars == <<current, pending, batch, queue, count, commits>>

-----------------------------------------------------------------------------
(* The DB lookups, each a loop of at most query_retries attempts.  They    *)
(* read what the storer has committed, not the batches still queued.      *)

\* get_by_table_handle: some row whose table_handle is p's vote table.
HasTableHandleRow(p) == \E d \in Delegators : current[<<p, d>>].has_table_handle

\* get_delegation_pool_address_by_table_handle, as seen by from_write_table_item:
\* the pool of the first matching row, or "" after the error is logged.  A
\* transient error on every attempt fails like a missing row.
PoolLookups(p) ==
    IF QueryRetries = 0 \/ ~HasTableHandleRow(p) THEN {NoPool}
    ELSE {p} \cup (IF TransientErrors THEN {NoPool} ELSE {})

\* get_by_pk: the committed row of k, if any.
HasRowByPk(k) == current[k] # NoRow

\* get_existence_by_pk: true on the first successful query, false when every
\* attempt failed, whether the row is missing or the query erred.
ExistenceLookups(k) ==
    IF QueryRetries = 0 \/ ~HasRowByPk(k) THEN {FALSE}
    ELSE {TRUE} \cup (IF TransientErrors THEN {FALSE} ELSE {})

-----------------------------------------------------------------------------
(* The builders.                                                           *)

\* from_write_table_item: the pool from the transaction's mapping, else from
\* the DB; a non-empty pool gives one row per vector entry.
VotePool(c, looked) == IF c.res THEN c.p ELSE looked

VoteRows(c, pool) ==
    IF pool = NoPool THEN EmptyMap
    ELSE <<pool, c.d>> :> [voter |-> c.voter, has_table_handle |-> TRUE, read |-> 0, at |-> 0]

\* get_delegators_pre_contract_deployment first calls the active-share
\* builder of delegator_balances.rs on the table item.  Only that builder's
\* operators on one change are used; the balance model's state is fixed.
Balances == INSTANCE DelegatorBalances
    WITH MaxTxns <- MaxChanges, ledger <- <<>>, next <- 1, history <- {},
         current <- [k \in {} |-> NoRow], logged <- {}, panicked <- FALSE

\* The stake change as the write of d's entry in p's active shares table.
ActiveShareItem(c) == [op |-> "write_active", d |-> c.d, p |-> c.p, res |-> c.res]

\* A plausible slip: consulting only the batch map, never the DB.
AlreadyExistsInBatchOnly(k, prev, exists) == k \in DOMAIN prev

\* get_delegators_pre_contract_deployment: already_exists from the batch map,
\* else from get_existence_by_pk.
AlreadyExists(k, prev, exists) == k \in DOMAIN prev \/ exists

\* The default row, when the active share resolves to a pool
\* (get_active_share_from_write_table_item gives a row) and no row exists.
DefaultRows(c, prev, exists) ==
    LET a == Balances!ActiveShareFromWrite(ActiveShareItem(c))
    IN IF a.kind = "row" /\ ~AlreadyExists(<<a.pool, c.d>>, prev, exists)
       THEN <<a.pool, c.d>> :> [voter |-> c.d, has_table_handle |-> FALSE,
                                read |-> commits, at |-> 0]
       ELSE EmptyMap

-----------------------------------------------------------------------------
Init ==
    /\ current = [k \in PK |-> NoRow]
    /\ pending = <<>>
    /\ batch = EmptyMap
    /\ queue = <<>>
    /\ count = 0
    /\ commits = 0

\* The next transaction of the stream.
BeginTransaction ==
    /\ pending = <<>>
    /\ count < MaxChanges
    /\ \E t \in Txns : pending' = t
    /\ UNCHANGED <<current, batch, queue, count, commits>>

\* from_write_table_item on a vote delegation vector.
ProcessVote ==
    /\ pending # <<>>
    /\ Head(pending).kind = "vote"
    /\ LET c == Head(pending) IN
       \E looked \in (IF c.res THEN {c.p} ELSE PoolLookups(c.p)) :
          batch' = VoteRows(c, VotePool(c, looked)) @@ batch
    /\ pending' = Tail(pending)
    /\ count' = count + 1
    /\ UNCHANGED <<current, queue, commits>>

\* get_delegators_pre_contract_deployment on an active shares entry.
ProcessStake ==
    /\ pending # <<>>
    /\ Head(pending).kind = "stake"
    /\ LET c == Head(pending)
           k == <<c.p, c.d>>
       IN \E exists \in (IF k \in DOMAIN batch THEN {TRUE} ELSE ExistenceLookups(k)) :
            batch' = DefaultRows(c, batch, exists) @@ batch
    /\ pending' = Tail(pending)
    /\ count' = count + 1
    /\ UNCHANGED <<current, queue, commits>>

\* The extractor hands its batch map to the storer's channel at a
\* transaction boundary and starts the next batch at once (spec 4.1).
SendBatch ==
    /\ pending = <<>>
    /\ batch # EmptyMap
    /\ queue' = Append(queue, batch)
    /\ batch' = EmptyMap
    /\ UNCHANGED <<current, pending, count, commits>>

\* The storer upserts the oldest batch map unconditionally (spec 4.4),
\* concurrently with the extractor of later batches.
Commit ==
    /\ queue # <<>>
    /\ current' = [k \in PK |-> IF k \in DOMAIN Head(queue)
                                THEN [Head(queue)[k] EXCEPT !.at = commits + 1]
                                ELSE current[k]]
    /\ queue' = Tail(queue)
    /\ commits' = commits + 1
    /\ UNCHANGED <<pending, batch, count>>

Next == BeginTransaction \/ ProcessVote \/ ProcessStake \/ SendBatch \/ Commit

Spec == Init /\ [][Next]_vars

-----------------------------------------------------------------------------
(* Properties.                                                             *)

(* A default row replaces a stored vote delegation only when that vote was *)
(* committed after the default's get_existence_by_pk ran: the batch-map    *)
(* check and the DB query of get_delegators_pre_contract_deployment leave  *)
(* the storer running behind the extractor as the one way a default can   *)
(* "override the new data" (L133-135), whatever the ledger and batching.   *)
DefaultOverridesOnlyInFlight ==
    [][\A k \in PK : current[k].has_table_handle /\ ~current'[k].has_table_handle
                       => current[k].at > current'[k].read]_current

(* A stored vote delegation is never replaced by a default row.            *)
DefaultNeverOverridesDelegation ==
    [][\A k \in PK : current[k].has_table_handle => current'[k].has_table_handle]_current
=============================================================================
