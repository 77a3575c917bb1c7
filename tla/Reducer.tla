------------------------------ MODULE Reducer ------------------------------
(***************************************************************************)
(* The current-state reduction shared by every model builder: the rows of  *)
(* the write-set changes are visited in transaction order and, within a    *)
(* transaction, in write_set_change_index order, and each row is inserted  *)
(* into an AHashMap keyed by its primary key.  AHashMap::insert overwrites,*)
(* so the row that survives for a key is the one visited last             *)
(* (delegator_balances.rs from_transaction, tokens.rs from_transaction).   *)
(*                                                                         *)
(* A row is any record with the field key; ParquetTokenV2 folds the rows  *)
(* its builders produce for each batch map.                                *)
(***************************************************************************)
EXTENDS Naturals, Sequences, SequencesExt

\* The map before the first insert.
EmptyMap == [k \in {} |-> Head(<<>>)]

\* current_*.insert(pk, row): the new row replaces any row of the same key.
InsertDelta(m, d) == (d.key :> d) @@ m

\* The fold of the inserts over the rows in visiting order.
Reduce(ds) == FoldLeft(InsertDelta, EmptyMap, ds)
=============================================================================
