----------------------------- MODULE TokenClaims -----------------------------
(***************************************************************************)
(* current_token_pending_claims (token_claims.rs), over a growing ledger   *)
(* cut into batches.  A token v1 offer writes the entry token_offer_id ->  *)
(* token of the offerer's PendingClaims table; a claim or a cancel deletes *)
(* it.  The table's owner is known from the batch's first pass            *)
(* (get_table_handle_to_owner_from_transactions), i.e. only when some      *)
(* transaction of the same batch rewrote the offerer's PendingClaims       *)
(* resource; a delete may also take it from the transaction's claim event  *)
(* (tokens_claimed).  An unattributed write is dropped with a warning, an  *)
(* unattributed delete panics.  The driver that cuts batches, collects the *)
(* claim events and upserts the rows (parse_v2_token and the storer) is    *)
(* SDK code, modelled from the transform contract.                         *)
(***************************************************************************)
EXTENDS Integers, Sequences, FiniteSets

CONSTANTS
    Tokens,      \* token ids (model values)
    Owners,      \* offerers, each with one PendingClaims table
    Receivers,   \* to_address of the offers
    Amounts,     \* token amounts an entry can hold, positive
    MaxTxns,     \* bound on the ledger length
    MaxBatch     \* the stream hands out 1..MaxBatch transactions at a time

ASSUME MaxTxns \in Nat /\ MaxBatch \in Nat \ {0} /\ 0 \notin Amounts

\* current_token_pending_claims primary key (token, property_version folded
\* into the token id, from_address, to_address).
Key == Tokens \X Owners \X Receivers

\* One table change per transaction; res says whether the offerer's
\* PendingClaims resource is in the same write set.
Change == [op : {"offer", "claim", "cancel"}, tok : Tokens, from : Owners,
           to : Receivers, amount : Amounts, res : BOOLEAN]

KeyOf(c) == <<c.tok, c.from, c.to>>
NoClaim == [amount |-> 0, version |-> 0]

\* The outcome of a row builder: a row, a dropped change, or a panic.
Row(a, v) == [status |-> "row", amount |-> a, version |-> v]
Dropped == [status |-> "dropped", amount |-> 0, version |-> 0]
Panic == [status |-> "panic", amount |-> 0, version |-> 0]

VARIABLES
    ledger,     \* the transactions the chain produced so far
    next,       \* first transaction not yet indexed (checkpoint + 1)
    current,    \* current_token_pending_claims: [Key -> row]
    panicked,   \* the extractor panicked on the batch at next
    made        \* ghost: versions whose change produced a row

vars == <<ledger, next, current, panicked, made>>

-----------------------------------------------------------------------------
(* The chain: a claim or a cancel removes an outstanding offer.            *)
Outstanding(l, k) ==
    \E i \in 1..Len(l) : KeyOf(l[i]) = k /\ l[i].op = "offer"
        /\ \A j \in i + 1..Len(l) : KeyOf(l[j]) = k => l[j].op = "offer"

ChainAppend ==
    /\ Len(ledger) < MaxTxns
    /\ \E c \in Change :
         /\ c.op # "offer" => Outstanding(ledger, KeyOf(c))
         /\ ledger' = Append(ledger, c)
    /\ UNCHANGED <<next, current, panicked, made>>

-----------------------------------------------------------------------------
(* The extractor on the batch next..e.                                     *)

\* A plausible slip: the first pass stopping one transaction short of the
\* batch's end.
TableHandleToOwnerShort(s, e) == {ledger[i].from : i \in {j \in s..e - 1 : ledger[j].res}}

\* table_handle_to_owner: the PendingClaims table of every offerer whose
\* resource some transaction of the batch rewrote.
TableHandleToOwner(s, e) == {ledger[i].from : i \in {j \in s..e : ledger[j].res}}

\* tokens_claimed of a transaction: its claim event names the offerer.
TokensClaimed(c) == IF c.op = "claim" THEN {c.tok} ELSE {}

\* from_write_table_item: a row when the owner is known, else warn and drop.
FromWriteTableItem(c, v, owners) ==
    IF c.from \in owners THEN Row(c.amount, v) ELSE Dropped

\* A plausible slip: the delete treating an unknown owner like the write.
FromDeleteTableItemSoft(c, v, owners) ==
    IF c.from \in owners \/ c.tok \in TokensClaimed(c)
    THEN Row(0, v) ELSE Dropped

\* from_delete_table_item: owner from the batch map, else from the claim
\* event, else panic; the row has amount zero.
FromDeleteTableItem(c, v, owners) ==
    IF c.from \in owners \/ c.tok \in TokensClaimed(c)
    THEN Row(0, v) ELSE Panic

ClaimResult(v, owners) ==
    IF ledger[v].op = "offer" THEN FromWriteTableItem(ledger[v], v, owners)
    ELSE FromDeleteTableItem(ledger[v], v, owners)

\* The batch's results in version order; the map insert keeps the last row
\* per key, and the storer upserts it.
Results(s, e) == [v \in s..e |-> ClaimResult(v, TableHandleToOwner(s, e))]

Rows(r) == {v \in DOMAIN r : r[v].status = "row"}

Upsert(cur, r) ==
    [k \in Key |->
        LET vs == {v \in Rows(r) : KeyOf(ledger[v]) = k}
        IN IF vs = {} THEN cur[k] ELSE LET last == CHOOSE v \in vs : \A w \in vs : w <= v
             IN [amount |-> r[last].amount, version |-> last]]

-----------------------------------------------------------------------------
Init ==
    /\ ledger = <<>>
    /\ next = 1
    /\ current = [k \in Key |-> NoClaim]
    /\ panicked = FALSE
    /\ made = {}

\* The extractor and the storer on one batch; a panic aborts the batch
\* before anything is stored.
ProcessBatch ==
    /\ ~panicked
    /\ next <= Len(ledger)
    /\ \E e \in next..(IF next + MaxBatch - 1 < Len(ledger) THEN next + MaxBatch - 1 ELSE Len(ledger)) :
         LET r == Results(next, e) IN
         IF \E v \in next..e : r[v].status = "panic"
         THEN /\ panicked' = TRUE
              /\ UNCHANGED <<next, current, made>>
         ELSE /\ current' = Upsert(current, r)
              /\ made' = made \cup Rows(r)
              /\ next' = e + 1
              /\ UNCHANGED panicked
    /\ UNCHANGED ledger

\* The process is restarted and resumes at the same version.
Restart ==
    /\ panicked
    /\ panicked' = FALSE
    /\ UNCHANGED <<ledger, next, current, made>>

Next == ChainAppend \/ ProcessBatch \/ Restart

Spec == Init /\ [][Next]_vars /\ WF_vars(ProcessBatch) /\ WF_vars(Restart)

-----------------------------------------------------------------------------
\* The latest indexed change of key k.
LastIndexed(k) ==
    LET vs == {v \in 1..next - 1 : KeyOf(ledger[v]) = k}
    IN IF vs = {} THEN 0 ELSE CHOOSE v \in vs : \A w \in vs : w <= v

(* An offer that was claimed or cancelled never stays visible as pending:  *)
(* whenever the last indexed change of a claim is a delete, its current    *)
(* row has amount zero.  The write path may drop an offer, so this rests   *)
(* on the delete path never dropping (token_claims.rs from_delete_table_   *)
(* item panics instead).                                                   *)
ClaimedOffersNotPending ==
    \A k \in Key : LastIndexed(k) # 0 /\ ledger[LastIndexed(k)].op # "offer"
                      => current[k].amount = 0

(* The batch-wide table_handle_to_owner makes an offer's storage depend on *)
(* where the batch is cut, but an offer whose own transaction rewrote the  *)
(* offerer's PendingClaims resource is always attributed: when it is the   *)
(* last indexed change of its key, the pending row holds its amount at its *)
(* version, however the stream cut the batches around it.                  *)
AttributedOfferIsPending ==
    \A k \in Key :
        LET v == LastIndexed(k)
        IN v # 0 /\ ledger[v].op = "offer" /\ ledger[v].res
           => current[k] = [amount |-> ledger[v].amount, version |-> v]

(* Every transaction the chain produced is eventually indexed.             *)
EveryClaimIndexed ==
    \A v \in 1..MaxTxns : (Len(ledger) >= v) ~> (next > v)
=============================================================================
