-------------------------- MODULE SequentialIndexer --------------------------
(***************************************************************************)
(* What a processor promises its readers, with no pipelining: a single     *)
(* loop that takes the next range of versions, applies the last write of   *)
(* each entity in the range to the current-state table, and from time to  *)
(* time saves a checkpoint at or below what it has applied.  A crash loses *)
(* the loop's position and the restart continues after the checkpoint.     *)
(* A version whose reference cannot be resolved ahead of the loop may have *)
(* its drop logged (spec 4.3 step 4, the soft-fail policy); only a logged  *)
(* version's row may be missing from the range it belongs to.              *)
(***************************************************************************)
EXTENDS Integers

CONSTANTS Keys, FirstVersion, EndVersion, Writes

VARIABLES up, next, current, checkpoint, dropped

Versions == FirstVersion..EndVersion
NoRow == FirstVersion - 1

LastWriteIn(k, S) == CHOOSE v \in S : Writes[v] = k /\ \A u \in S : Writes[u] = k => u <= v

\* The current rows after the versions first..last but those in D are
\* applied in order.
Apply(cur, first, last, D) ==
    LET S == (first..last) \ D
    IN [k \in Keys |-> IF \E v \in S : Writes[v] = k THEN LastWriteIn(k, S) ELSE cur[k]]

Init == up = TRUE /\ next = FirstVersion /\ current = [k \in Keys |-> NoRow]
        /\ checkpoint = NoRow /\ dropped = {}

IndexRange == \E e \in next..EndVersion, D \in SUBSET dropped :
                /\ up
                /\ D \subseteq next..e
                /\ current' = Apply(current, next, e, D)
                /\ next' = e + 1
                /\ UNCHANGED <<up, checkpoint, dropped>>

LogDrop == \E v \in (next..EndVersion) \ dropped :
             /\ up
             /\ dropped' = dropped \cup {v}
             /\ UNCHANGED <<up, next, current, checkpoint>>

SaveCheckpoint == \E c \in checkpoint + 1..next - 1 :
                    /\ up
                    /\ checkpoint' = c
                    /\ UNCHANGED <<up, next, current, dropped>>

\* The position in the stream is lost with the process.
Crash == up /\ up' = FALSE /\ next' \in Versions \cup {EndVersion + 1}
         /\ UNCHANGED <<current, checkpoint, dropped>>

Restart == ~up /\ up' = TRUE
           /\ next' = (IF checkpoint + 1 > FirstVersion THEN checkpoint + 1 ELSE FirstVersion)
           /\ UNCHANGED <<current, checkpoint, dropped>>

Spec == Init /\ [][IndexRange \/ LogDrop \/ SaveCheckpoint \/ Crash \/ Restart]_<<up, next, current, checkpoint, dropped>>
=============================================================================
