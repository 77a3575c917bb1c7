---------------------------- MODULE ParquetTokenV2 ----------------------------
(***************************************************************************)
(* current_token_datas_v2 as the parquet token v2 extractor writes it      *)
(* (ParquetTokenV2Extractor::process), over a ledger cut into batches.     *)
(*                                                                         *)
(* A transaction makes one token change:                                   *)
(*   - "write": the 0x4::token::Token resource of a v2 token is written    *)
(*     (mint or mutation); its ObjectCore is in the same write set, and    *)
(*     meta says whether another module's resource is written at the       *)
(*     object, inside its resource group or outside it;                    *)
(*   - "burn": the Token resource is deleted and a Burn event is emitted;  *)
(*     core says whether ObjectCore stays (written) or is deleted too;     *)
(*   - "v1": a table item of a v1 token is written, in the token_data      *)
(*     table (TokenDataId -> TokenData) or the tokens table.               *)
(* parse_v2_token (SDK code, modelled from the transform contract) builds  *)
(* the rows with the builders of v2_token_datas.rs and inserts them into   *)
(* two batch maps, current and deleted, each reduced per token_data_id,   *)
(* and the rows of token_royalty.rs and v2_token_metadata.rs into maps of  *)
(* their own.  The extractor writes the current map's rows followed by the *)
(* deleted map's rows as the batch's current_token_datas_v2, beside        *)
(* current_token_royalty_v1 and current_token_v2_metadata.                 *)
(***************************************************************************)
EXTENDS Integers, Sequences, FiniteSets, Reducer

CONSTANTS
    Tokens,      \* v2 token object addresses (model values)
    V1Tokens,    \* v1 token data ids (model values)
    MaxTxns,     \* bound on the ledger length
    MaxBatch     \* the stream hands out 1..MaxBatch transactions at a time

ASSUME MaxTxns \in Nat /\ MaxBatch \in Nat \ {0}

Change == [op : {"write"}, tok : Tokens, meta : {"none", "custom", "ungrouped"}]
          \cup [op : {"burn"}, tok : Tokens, core : BOOLEAN]
          \cup [op : {"v1"}, tok : V1Tokens, table : {"token_data", "tokens"}]

\* A current_token_datas_v2 row: is_deleted_v2 is "true", "false" or "none".
\* The rows of the other current tables carry "none".
CurrentRow(k, v, d) == [key |-> k, version |-> v, index |-> 0, deleted |-> d]

\* A token_datas_v2 row, keyed (transaction_version, write_set_change_index).
HistoryRow(k, v) == [key |-> <<v, 0>>, tok |-> k, version |-> v, index |-> 0]

\* A current_token_royalty_v1 row, keyed token_data_id.
RoyaltyRow(k, v) == CurrentRow(k, v, "none")

\* A current_token_v2_metadata row, keyed (object_address, resource_type).
MetadataRow(t, r, v) == CurrentRow(<<t, r>>, v, "none")

\* The parquet rows the extractor writes: `.into_iter().map(X::from)` with
\* the From impls of the Parquet* structs, which rename the fields and turn
\* numbers and JSON into strings (left out of the model).  token_datas_v2
\* rows carry is_deleted_v2 = None on both builder paths.
MapFrom(F(_), s) == [i \in DOMAIN s |-> F(s[i])]

ParquetTokenDataV2(r) ==
    [txn_version |-> r.version, write_set_change_index |-> r.index,
     token_data_id |-> r.tok, is_deleted_v2 |-> "none"]

ParquetCurrentTokenDataV2(r) ==
    [token_data_id |-> r.key, last_transaction_version |-> r.version, is_deleted_v2 |-> r.deleted]

ParquetCurrentTokenRoyaltyV1(r) ==
    [token_data_id |-> r.key, last_transaction_version |-> r.version]

ParquetCurrentTokenV2Metadata(r) ==
    [object_address |-> r.key[1], resource_type |-> r.key[2], last_transaction_version |-> r.version]

\* HasVersion::version of the current tables' parquet rows.
LastVersion(r) == r.last_transaction_version

\* The batch maps of parse_v2_token that the extractor writes.
Maps == {"cur", "del", "royalty", "meta"}

VARIABLES
    ledger,    \* the transactions the chain produced so far
    next,      \* first transaction not yet extracted
    written    \* per batch, the rows of each current table, in file order

vars == <<ledger, next, written>>

-----------------------------------------------------------------------------
(* The chain: a named token's address is free again only once its          *)
(* ObjectCore is deleted, so it can be minted again after such a burn.     *)
Alive(l, t) ==
    \E i \in 1..Len(l) : l[i].tok = t /\ l[i].op = "write"
        /\ \A j \in i + 1..Len(l) : ~(l[j].tok = t /\ l[j].op = "burn")

CoreKept(l, t) ==
    \E i \in 1..Len(l) : l[i].tok = t /\ l[i].op = "burn" /\ l[i].core
        /\ \A j \in i + 1..Len(l) : l[j].tok # t

Allowed(l, c) ==
    CASE c.op = "write" -> ~CoreKept(l, c.tok)
      [] c.op = "burn"  -> Alive(l, c.tok)
      [] OTHER          -> TRUE

ChainAppend ==
    /\ Len(ledger) < MaxTxns
    /\ \E c \in Change : Allowed(ledger, c) /\ ledger' = Append(ledger, c)
    /\ UNCHANGED <<next, written>>

-----------------------------------------------------------------------------
(* The builders on the transaction at version v.                           *)

\* TokenWriteSet::from_table_item_type on a table item's key and value
\* types: the variants of the two token v1 tables.
FromTableItemType(c) ==
    IF c.table = "token_data" THEN [key |-> "TokenDataId", value |-> "TokenData"]
    ELSE [key |-> "TokenId", value |-> "Token"]

\* object_metadatas: the objects whose ObjectCore the write set holds.
ObjectMetadatas(c) ==
    IF c.op = "write" \/ (c.op = "burn" /\ c.core) THEN {c.tok} ELSE {}

\* tokens_burned: the tokens of the transaction's Burn events.
TokensBurned(c) == IF c.op = "burn" THEN {c.tok} ELSE {}

\* get_v2_from_write_resource: a Token resource gives a history row and a
\* current row that is not deleted, unless its ObjectCore is missing
\* (early return).
GetV2FromWriteResource(c, v) ==
    IF c.op = "write" /\ c.tok \in ObjectMetadatas(c)
    THEN {[history |-> HistoryRow(c.tok, v), current |-> CurrentRow(c.tok, v, "false")]}
    ELSE {}

\* get_burned_nft_v2_from_write_resource: a write resource (the kept
\* ObjectCore) at an address with a Burn event gives a deleted row.
GetBurnedNftV2FromWriteResource(c, v) ==
    IF c.op = "burn" /\ c.core /\ c.tok \in TokensBurned(c)
    THEN {CurrentRow(c.tok, v, "true")} ELSE {}

\* get_burned_nft_v2_from_delete_resource: the deleted Token resource at an
\* address with a Burn event gives a deleted row.
GetBurnedNftV2FromDeleteResource(c, v) ==
    IF c.op = "burn" /\ c.tok \in TokensBurned(c)
    THEN {CurrentRow(c.tok, v, "true")} ELSE {}

\* The resources a write holds at the object: Token (0x4) and ObjectCore
\* (0x1), and another module's resource if any.
ResourcesOf(c) == {"Token", "ObjectCore"} \cup (IF c.meta = "none" THEN {} ELSE {c.meta})

\* A plausible slip: the resource group check (state_key_hash) left out.
TokenV2MetadataFromWriteResourceAnyGroup(c, r, v) ==
    IF c.tok \in ObjectMetadatas(c) /\ r \notin {"Token", "ObjectCore"}
    THEN {MetadataRow(c.tok, r, v)} ELSE {}

\* CurrentTokenV2Metadata::from_write_resource: a resource at a token object
\* gives a row keyed (object_address, resource_type), unless its type lives
\* at a framework address (0x1, 0x3, 0x4) or it is not in the object's
\* resource group (its state_key_hash differs).
TokenV2MetadataFromWriteResource(c, r, v) ==
    IF /\ c.tok \in ObjectMetadatas(c)
       /\ r \notin {"Token", "ObjectCore"}
       /\ r # "ungrouped"
    THEN {MetadataRow(c.tok, r, v)} ELSE {}

\* CurrentTokenRoyaltyV1::get_v1_from_write_table_item: the royalty of a
\* TokenData value under a TokenDataId key.
GetRoyaltyV1FromWriteTableItem(c, v) ==
    IF c.op = "v1" /\ FromTableItemType(c).value = "TokenData"
                   /\ FromTableItemType(c).key = "TokenDataId"
    THEN {RoyaltyRow(c.tok, v)} ELSE {}

\* get_v1_from_write_table_item: a TokenData value under a TokenDataId key
\* gives a history row and a current row with is_deleted_v2 = None.
GetV1FromWriteTableItem(c, v) ==
    IF c.op = "v1" /\ FromTableItemType(c).value = "TokenData"
                   /\ FromTableItemType(c).key = "TokenDataId"
    THEN {[history |-> HistoryRow(c.tok, v), current |-> CurrentRow(c.tok, v, "none")]}
    ELSE {}

\* The rows of one transaction for each batch map, and for token_datas_v2.
TokenDatasOf(v) == GetV2FromWriteResource(ledger[v], v) \cup GetV1FromWriteTableItem(ledger[v], v)
HistoryOf(v) == {p.history : p \in TokenDatasOf(v)}
CurrentOf(v) == {p.current : p \in TokenDatasOf(v)}
DeletedOf(v) ==
    GetBurnedNftV2FromWriteResource(ledger[v], v) \cup GetBurnedNftV2FromDeleteResource(ledger[v], v)
RoyaltyOf(v) == GetRoyaltyV1FromWriteTableItem(ledger[v], v)
MetadataOf(v) ==
    IF ledger[v].op = "write"
    THEN UNION {TokenV2MetadataFromWriteResource(ledger[v], r, v) : r \in ResourcesOf(ledger[v])}
    ELSE {}

\* The rows inserted into batch map m over versions s..e, in visiting order.
Visit(m, s, e) ==
    LET RowsOf(v) == CASE m = "hist" -> HistoryOf(v)
                       [] m = "cur" -> CurrentOf(v)
                       [] m = "del" -> DeletedOf(v)
                       [] m = "royalty" -> RoyaltyOf(v)
                       [] m = "meta" -> MetadataOf(v)
    IN FoldLeft(LAMBDA acc, v : acc \o SetToSeq(RowsOf(v)), <<>>, [i \in 1..e - s + 1 |-> s + i - 1])

\* A plausible slip: a merge that drops a deleted row whose key also has a
\* current row.
MergeCurrentWins(cur, del) ==
    SetToSeq(Range(cur)) \o SetToSeq({r \in Range(del) : r.key \notin DOMAIN cur})

\* The extractor's merge: the current map's values, then the deleted map's
\* (into_values order is the map's, abstracted to a fixed one).
Merge(cur, del) == SetToSeq(Range(cur)) \o SetToSeq(Range(del))

\* The files of the batch s..e: token_datas_v2 as pushed, the merged
\* current token datas, and the royalty and metadata maps' rows.
BatchFiles(s, e) ==
    LET rows == [m \in Maps \cup {"hist"} |-> Visit(m, s, e)]
    IN [history |-> MapFrom(ParquetTokenDataV2, rows["hist"]),
        datas |-> MapFrom(ParquetCurrentTokenDataV2, Merge(Reduce(rows["cur"]), Reduce(rows["del"]))),
        royalties |-> MapFrom(ParquetCurrentTokenRoyaltyV1, SetToSeq(Range(Reduce(rows["royalty"])))),
        metadata |-> MapFrom(ParquetCurrentTokenV2Metadata, SetToSeq(Range(Reduce(rows["meta"]))))]

-----------------------------------------------------------------------------
Init ==
    /\ ledger = <<>>
    /\ next = 1
    /\ written = <<>>

\* parse_v2_token and the extractor on the batch next..e.
ProcessBatch ==
    /\ next <= Len(ledger)
    /\ \E e \in next..(IF next + MaxBatch - 1 < Len(ledger) THEN next + MaxBatch - 1 ELSE Len(ledger)) :
         /\ written' = Append(written, BatchFiles(next, e))
         /\ next' = e + 1
    /\ UNCHANGED ledger

Next == ChainAppend \/ ProcessBatch

Spec == Init /\ [][Next]_vars

-----------------------------------------------------------------------------
\* The is_deleted_v2 a change leaves its token with, if it makes a row.
Status(c) ==
    CASE c.op = "write" -> "false"
      [] c.op = "burn"  -> "true"
      [] OTHER          -> "none"

Rows(c) == c.op # "v1" \/ c.table = "token_data"

LastIndexed(k) ==
    LET vs == {v \in 1..next - 1 : ledger[v].tok = k /\ Rows(ledger[v])}
    IN IF vs = {} THEN 0 ELSE CHOOSE v \in vs : \A w \in vs : w <= v

\* The last extracted write of token t that wrote resource r at its object.
LastResourceWrite(t, r) ==
    LET vs == {v \in 1..next - 1 : ledger[v].op = "write" /\ ledger[v].tok = t
                                  /\ r \in ResourcesOf(ledger[v])}
    IN IF vs = {} THEN 0 ELSE CHOOSE v \in vs : \A w \in vs : w <= v

\* Every row of table f (datas, royalties or metadata) over the batches.
WrittenRows(f) == UNION {ToSet(written[b][f]) : b \in 1..Len(written)}

\* The primary key of a row of table f.
FilePK(f, r) == IF f = "metadata" THEN <<r.object_address, r.resource_type>> ELSE r.token_data_id

\* The row of key k in table f with the highest last_transaction_version.
NewestRow(f, k) ==
    CHOOSE r \in WrittenRows(f) : FilePK(f, r) = k
        /\ \A o \in WrittenRows(f) : FilePK(f, o) = k => LastVersion(o) <= LastVersion(r)

(* A reader who takes, per token_data_id, the row with the highest         *)
(* last_transaction_version across the files sees each token's state as of *)
(* the last extracted transaction: burned tokens deleted, minted or        *)
(* re-minted ones not, v1 tokens with is_deleted_v2 = None.  This rests on *)
(* the merge keeping the deleted map's rows beside the current map's.      *)
(* Likewise a v1 token's newest royalty row is of its last token_data      *)
(* write, and a token object's newest row of a custom resource is of the   *)
(* last write of that resource within the object's resource group, none if *)
(* there was none (v2_token_metadata.rs from_write_resource).              *)
NewestRowReflectsLedger ==
    /\ \A k \in Tokens \cup V1Tokens :
        LastIndexed(k) # 0 =>
            /\ \E r \in WrittenRows("datas") : FilePK("datas", r) = k
            /\ LastVersion(NewestRow("datas", k)) = LastIndexed(k)
            /\ NewestRow("datas", k).is_deleted_v2 = Status(ledger[LastIndexed(k)])
    /\ \A k \in V1Tokens :
        LastIndexed(k) # 0 => LastVersion(NewestRow("royalties", k)) = LastIndexed(k)
    /\ \A t \in Tokens, r \in {"custom", "ungrouped"} :
        LET w == LastResourceWrite(t, "custom")
        IN IF r = "custom" /\ w # 0
           THEN LastVersion(NewestRow("metadata", <<t, r>>)) = w
           ELSE \A o \in WrittenRows("metadata") : FilePK("metadata", o) # <<t, r>>

(* Spec 4.2: the current rows a batch hands to the storer hold one row per *)
(* key, the one of its highest version.  The extractor concatenates the    *)
(* current and the deleted rows of parse_v2_token                          *)
(* (parquet_token_v2_extractor.rs 133-140), each reduced on its own.       *)
OneRowPerKeyPerBatch ==
    \A b \in 1..Len(written) :
        LET rows == written[b].datas
        IN \A i, j \in 1..Len(rows) : i # j => rows[i].token_data_id # rows[j].token_data_id
=============================================================================
