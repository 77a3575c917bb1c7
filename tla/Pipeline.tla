------------------------------ MODULE Pipeline ------------------------------
(***************************************************************************)
(* One processor run loop (user_transaction_processor.rs run_processor):   *)
(* TransactionStreamStep -> extractor -> storer -> VersionTrackerStep,     *)
(* connected by bounded channels of capacity channel_size, with the run    *)
(* loop draining the last channel until it closes.  The steps come from    *)
(* the processor SDK and follow spec sections 4.1, 4.4, 4.5 and 6.         *)
(*                                                                         *)
(* A transaction version v writes the current-state row of entity          *)
(* Writes[v]; its value is abstracted to v itself, which is also the row's *)
(* last_transaction_version.  Some versions need a reference (a table      *)
(* handle's owner) established by an earlier version RefOf[v]; the         *)
(* extractor resolves it in the batch's ReferenceContext when RefOf[v] is  *)
(* in the same batch and otherwise with the bounded-retry lookup against   *)
(* the current-state tables (collection_datas.rs get_collection_creator).  *)
(* On exhaustion it logs and drops the row (the soft-fail call sites).     *)
(*                                                                         *)
(* The process may crash at any point; the checkpoint, the history rows    *)
(* and the current rows are durable, everything else is lost, and the      *)
(* restart resumes at max(configured start, checkpoint + 1).               *)
(***************************************************************************)
EXTENDS Integers, Sequences, FiniteSets

CONSTANTS
    Keys,          \* entities with a current-state row (model values)
    FirstVersion,  \* configured starting_version
    EndVersion,    \* request_ending_version
    MaxBatch,      \* largest number of transactions in one stream batch
    ChannelSize,   \* channel_size of every connect_to
    Writes,        \* [Versions -> Keys]: the entity each transaction writes
    RefOf,         \* [Versions -> Versions \cup {NoRef}]: the reference it needs
    NoRef,
    QueryRetries,  \* query_retries of the lookup
    MaxCrashes     \* bound on process crashes in one behaviour

Versions == FirstVersion..EndVersion
NoRow == FirstVersion - 1          \* no current row stored for the key yet

ASSUME /\ FirstVersion \in Nat /\ EndVersion >= FirstVersion
       /\ MaxBatch \in Nat \ {0} /\ ChannelSize \in Nat \ {0}
       /\ Writes \in [Versions -> Keys]
       /\ \A v \in Versions : RefOf[v] = NoRef \/ RefOf[v] \in FirstVersion..v - 1
       /\ QueryRetries \in Nat /\ MaxCrashes \in Nat

VARIABLES
    status,       \* "running", "down" (crashed or aborted), "done" (loop returned Ok)
    crashes,
    srcNext,      \* TransactionStreamStep: next version to fetch
    toExtractor, toStorer, toTracker, toOwner,   \* the bounded channels
    extractor,    \* [phase, batch, todo, tried, lost]
    storer,       \* [phase, batch]
    watermark,    \* VersionTrackerStep: highest contiguous version seen
    gap,          \* the tracker reported a non-contiguous batch
    checkpoint,   \* durable processor_status.last_success_version
    history,      \* durable: versions whose history rows are stored
    current,      \* durable: [Keys -> last_transaction_version of the row]
    logged        \* durable log: versions whose rows were dropped with an error

volatile == <<srcNext, toExtractor, toStorer, toTracker, toOwner, extractor, storer, watermark>>
durableVars == <<checkpoint, history, current, logged>>
vars == <<status, crashes, gap, volatile, durableVars>>

ExtractorIdle == [phase |-> "idle", batch |-> [start |-> 0, end |-> 0],
                  todo |-> {}, tried |-> 0, lost |-> {}]
StorerIdle == [phase |-> "idle", batch |-> [start |-> 0, end |-> 0, rows |-> {}, deltas |-> <<>>]]

MinOf(S) == CHOOSE x \in S : \A y \in S : x <= y
MaxOf(S) == CHOOSE x \in S : \A y \in S : x >= y

\* A plausible slip: the reduction keeps the first write of each entity.
ReduceRowsFirstWins(rows) == [k \in {Writes[v] : v \in rows} |-> MinOf({v \in rows : Writes[v] = k})]

\* The reduced current-state rows of a batch: the last write per entity.
ReduceRows(rows) == [k \in {Writes[v] : v \in rows} |-> MaxOf({v \in rows : Writes[v] = k})]

\* Versions of the batch whose reference is not in the batch itself.
CrossBatchRefs(b) == {v \in b.start..b.end : RefOf[v] # NoRef /\ RefOf[v] < b.start}

\* The lookup finds the owner once the owner's current row is committed.
Committed(w) == current[Writes[w]] # NoRow

\* A plausible slip: taking the configured start and ignoring the checkpoint.
StartingVersionFromConfig(cp) == FirstVersion

\* get_starting_version: max(configured start, checkpoint + 1).
StartingVersion(cp) == IF cp + 1 > FirstVersion THEN cp + 1 ELSE FirstVersion

-----------------------------------------------------------------------------
Init ==
    /\ status = "running" /\ crashes = 0 /\ gap = FALSE
    /\ srcNext = StartingVersion(NoRow) /\ watermark = StartingVersion(NoRow) - 1
    /\ toExtractor = <<>> /\ toStorer = <<>> /\ toTracker = <<>> /\ toOwner = <<>>
    /\ extractor = ExtractorIdle /\ storer = StorerIdle
    /\ checkpoint = NoRow /\ history = {} /\ current = [k \in Keys |-> NoRow]
    /\ logged = {}

\* A plausible slip: the stream step sends without waiting for capacity.
FetchIgnoringBackpressure ==
    /\ status = "running" /\ srcNext <= EndVersion
    /\ \E n \in 1..MaxBatch :
         LET e == IF srcNext + n - 1 < EndVersion THEN srcNext + n - 1 ELSE EndVersion
         IN /\ toExtractor' = Append(toExtractor, [start |-> srcNext, end |-> e])
            /\ srcNext' = e + 1
    /\ UNCHANGED <<status, crashes, gap, toStorer, toTracker, toOwner, extractor, storer,
                   watermark, durableVars>>

\* TransactionStreamStep: the next batch of up to MaxBatch versions; blocks
\* while the channel is full, closes at request_ending_version.
Fetch ==
    /\ status = "running" /\ srcNext <= EndVersion /\ Len(toExtractor) < ChannelSize
    /\ \E n \in 1..MaxBatch :
         LET e == IF srcNext + n - 1 < EndVersion THEN srcNext + n - 1 ELSE EndVersion
         IN /\ toExtractor' = Append(toExtractor, [start |-> srcNext, end |-> e])
            /\ srcNext' = e + 1
    /\ UNCHANGED <<status, crashes, gap, toStorer, toTracker, toOwner, extractor, storer,
                   watermark, durableVars>>

\* The extractor takes the next batch; references that the batch's own
\* ReferenceContext (the first pass over the batch) holds need no lookup.
ExtractBegin ==
    /\ status = "running" /\ extractor.phase = "idle" /\ toExtractor # <<>>
    /\ extractor' = [ExtractorIdle EXCEPT !.phase = "resolve", !.batch = Head(toExtractor),
                                          !.todo = CrossBatchRefs(Head(toExtractor))]
    /\ toExtractor' = Tail(toExtractor)
    /\ UNCHANGED <<status, crashes, gap, srcNext, toStorer, toTracker, toOwner, storer,
                   watermark, durableVars>>

\* One pass of `while tried < query_retries { tried += 1; match query ... }`
\* for the reference of the first unresolved change: Ok returns, Err sleeps
\* query_retry_delay_ms (other stages run meanwhile) and loops.
ResolveAttempt ==
    /\ status = "running" /\ extractor.phase = "resolve" /\ extractor.todo # {}
    /\ extractor.tried < QueryRetries
    /\ LET v == MinOf(extractor.todo)
       IN extractor' = IF Committed(RefOf[v])
                       THEN [extractor EXCEPT !.todo = @ \ {v}, !.tried = 0]
                       ELSE [extractor EXCEPT !.tried = @ + 1]
    /\ UNCHANGED <<status, crashes, gap, srcNext, toExtractor, toStorer, toTracker, toOwner,
                   storer, watermark, durableVars>>

\* The loop ends without an answer: Err is logged and the row is dropped
\* (`return Ok(None)` / the "" sentinel that skips the row).
ResolveExhausted ==
    /\ status = "running" /\ extractor.phase = "resolve" /\ extractor.todo # {}
    /\ extractor.tried >= QueryRetries
    /\ LET v == MinOf(extractor.todo)
       IN extractor' = [extractor EXCEPT !.todo = @ \ {v}, !.tried = 0, !.lost = @ \cup {v}]
    /\ UNCHANGED <<status, crashes, gap, srcNext, toExtractor, toStorer, toTracker, toOwner,
                   storer, watermark, durableVars>>

\* The extractor emits the history rows and the reduced current rows of the
\* batch with its version metadata; blocks while the channel is full.
ExtractEmit ==
    /\ status = "running" /\ extractor.phase = "resolve" /\ extractor.todo = {}
    /\ Len(toStorer) < ChannelSize
    /\ LET b == extractor.batch
           rows == (b.start..b.end) \ extractor.lost
       IN toStorer' = Append(toStorer, [start |-> b.start, end |-> b.end, rows |-> rows,
                                        deltas |-> ReduceRows(rows)])
    /\ logged' = logged \cup extractor.lost
    /\ extractor' = ExtractorIdle
    /\ UNCHANGED <<status, crashes, gap, srcNext, toExtractor, toTracker, toOwner, storer,
                   watermark, checkpoint, history, current>>

\* A plausible slip: the storer skips the current-state upsert of a batch.
StoreHistorySkippingCurrent ==
    /\ status = "running" /\ storer.phase = "idle" /\ toStorer # <<>>
    /\ history' = history \cup Head(toStorer).rows
    /\ storer' = [phase |-> "send", batch |-> Head(toStorer)]
    /\ toStorer' = Tail(toStorer)
    /\ UNCHANGED <<status, crashes, gap, srcNext, toExtractor, toTracker, toOwner, extractor,
                   watermark, checkpoint, current, logged>>

\* Storer: insert the history rows, ignoring rows already stored by an
\* earlier run (insert-ignore makes the replay harmless).
StoreHistory ==
    /\ status = "running" /\ storer.phase = "idle" /\ toStorer # <<>>
    /\ history' = history \cup Head(toStorer).rows
    /\ storer' = [phase |-> "current", batch |-> Head(toStorer)]
    /\ toStorer' = Tail(toStorer)
    /\ UNCHANGED <<status, crashes, gap, srcNext, toExtractor, toTracker, toOwner, extractor,
                   watermark, checkpoint, current, logged>>

\* Storer: upsert the current rows; ON CONFLICT the new row replaces the
\* stored one unconditionally (spec 4.4).  A crash may fall between the
\* two writes: nothing rolls the history insert back.
StoreCurrent ==
    /\ status = "running" /\ storer.phase = "current"
    /\ LET d == storer.batch.deltas
       IN current' = [k \in Keys |-> IF k \in DOMAIN d THEN d[k] ELSE current[k]]
    /\ storer' = [storer EXCEPT !.phase = "send"]
    /\ UNCHANGED <<status, crashes, gap, srcNext, toExtractor, toStorer, toTracker, toOwner,
                   extractor, watermark, checkpoint, history, logged>>

\* Storer: forward the batch metadata to the tracker; blocks while full.
StorerSend ==
    /\ status = "running" /\ storer.phase = "send" /\ Len(toTracker) < ChannelSize
    /\ toTracker' = Append(toTracker, [start |-> storer.batch.start, end |-> storer.batch.end])
    /\ storer' = StorerIdle
    /\ UNCHANGED <<status, crashes, gap, srcNext, toExtractor, toStorer, toOwner, extractor,
                   watermark, durableVars>>

\* VersionTrackerStep: extend the watermark by a contiguous batch; a batch
\* that does not start at watermark + 1 is a gap, a fatal stage error that
\* aborts the pipeline.
Track ==
    /\ status = "running" /\ toTracker # <<>> /\ Len(toOwner) < ChannelSize
    /\ LET b == Head(toTracker)
       IN IF b.start = watermark + 1
          THEN /\ watermark' = b.end
               /\ toOwner' = Append(toOwner, b)
               /\ UNCHANGED <<status, gap>>
          ELSE /\ gap' = TRUE /\ status' = "down"
               /\ UNCHANGED <<watermark, toOwner>>
    /\ toTracker' = Tail(toTracker)
    /\ UNCHANGED <<crashes, srcNext, toExtractor, toStorer, extractor, storer, durableVars>>

\* The tracker's timer (DEFAULT_UPDATE_PROCESSOR_STATUS_SECS) fires and
\* saves the watermark as last_success_version.
Flush ==
    /\ status = "running" /\ watermark > checkpoint
    /\ checkpoint' = watermark
    /\ UNCHANGED <<status, crashes, gap, volatile, history, current, logged>>

\* run_processor's loop: `buffer_receiver.recv()` returns Ok(txn_context).
Drain ==
    /\ status = "running" /\ toOwner # <<>>
    /\ toOwner' = Tail(toOwner)
    /\ UNCHANGED <<status, crashes, gap, srcNext, toExtractor, toStorer, toTracker, extractor,
                   storer, watermark, durableVars>>

Quiescent ==
    /\ srcNext > EndVersion
    /\ toExtractor = <<>> /\ toStorer = <<>> /\ toTracker = <<>> /\ toOwner = <<>>
    /\ extractor.phase = "idle" /\ storer.phase = "idle"

\* A plausible slip: the pipeline closes without the tracker's last flush.
ShutdownWithoutFlush ==
    /\ status = "running" /\ Quiescent
    /\ status' = "done"
    /\ UNCHANGED <<crashes, gap, volatile, durableVars>>

\* The stream is closed and every stage has drained: the tracker flushes
\* on shutdown, recv() returns Err and the loop breaks with Ok(()).
Shutdown ==
    /\ status = "running" /\ Quiescent
    /\ checkpoint' = IF watermark > checkpoint THEN watermark ELSE checkpoint
    /\ status' = "done"
    /\ UNCHANGED <<crashes, gap, volatile, history, current, logged>>

\* The process dies: channels and in-flight batches are lost.
Crash ==
    /\ status = "running" /\ crashes < MaxCrashes
    /\ status' = "down" /\ crashes' = crashes + 1
    /\ toExtractor' = <<>> /\ toStorer' = <<>> /\ toTracker' = <<>> /\ toOwner' = <<>>
    /\ extractor' = ExtractorIdle /\ storer' = StorerIdle
    /\ UNCHANGED <<gap, srcNext, watermark, durableVars>>

\* The process is started again: run_processor reads the checkpoint and
\* builds a fresh pipeline from get_starting_version.
Restart ==
    /\ status = "down"
    /\ status' = "running"
    /\ srcNext' = StartingVersion(checkpoint)
    /\ watermark' = StartingVersion(checkpoint) - 1
    /\ UNCHANGED <<crashes, gap, toExtractor, toStorer, toTracker, toOwner, extractor, storer,
                   durableVars>>

\* The run has returned Ok(()); nothing changes any more.
Terminated == status = "done" /\ UNCHANGED vars

Next ==
    \/ Fetch \/ ExtractBegin \/ ResolveAttempt \/ ResolveExhausted \/ ExtractEmit
    \/ StoreHistory \/ StoreCurrent \/ StorerSend \/ Track \/ Flush \/ Drain
    \/ Shutdown \/ Crash \/ Restart \/ Terminated

\* Every step's task is kept scheduled by the runtime, the timer keeps
\* firing, and a crashed process is started again by its supervisor.
Fairness ==
    /\ WF_vars(Fetch) /\ WF_vars(ExtractBegin) /\ WF_vars(ResolveAttempt)
    /\ WF_vars(ResolveExhausted) /\ WF_vars(ExtractEmit) /\ WF_vars(StoreHistory)
    /\ WF_vars(StoreCurrent) /\ WF_vars(StorerSend) /\ WF_vars(Track) /\ WF_vars(Flush)
    /\ WF_vars(Drain) /\ WF_vars(Shutdown) /\ WF_vars(Restart)

Spec == Init /\ [][Next]_vars /\ Fairness

-----------------------------------------------------------------------------
(* Properties.                                                             *)

Batch == [start : Versions, end : Versions]

TypeOK ==
    /\ status \in {"running", "down", "done"} /\ crashes \in 0..MaxCrashes
    /\ srcNext \in FirstVersion..EndVersion + 1 /\ watermark \in NoRow..EndVersion
    /\ \A ch \in {toExtractor, toTracker, toOwner} : ch \in Seq(Batch) /\ Len(ch) <= ChannelSize
    /\ Len(toStorer) <= ChannelSize
    /\ extractor.phase \in {"idle", "resolve"} /\ extractor.tried \in 0..QueryRetries
    /\ extractor.todo \subseteq Versions /\ extractor.lost \subseteq Versions
    /\ storer.phase \in {"idle", "current", "send"}
    /\ gap \in BOOLEAN /\ checkpoint \in NoRow..EndVersion
    /\ history \subseteq Versions /\ logged \subseteq Versions
    /\ current \in [Keys -> NoRow..EndVersion]

(* The checkpoint never runs ahead of the storer: every version up to      *)
(* last_success_version has its history row stored or its loss logged, and *)
(* unless its loss was logged, the current row of the entity it wrote is   *)
(* at least that new.  A restart from checkpoint + 1 thus loses nothing    *)
(* silently, even after a crash between the history insert and the current *)
(* upsert, with batches in flight, or with a row dropped only on replay.   *)
CheckpointDurable ==
    \A v \in FirstVersion..checkpoint :
        /\ v \in history \cup logged
        /\ v \notin logged => current[Writes[v]] >= v

\* The last version whose current rows this run has upserted: the storer's
\* batch once written, else the batches waiting for or passed by the tracker.
StoredUpTo ==
    IF storer.phase = "send" THEN storer.batch.end
    ELSE IF toTracker # <<>> THEN toTracker[Len(toTracker)].end
    ELSE watermark

(* The pipelined stages, with their crashes and restarts, implement the    *)
(* single sequential loop of SequentialIndexer: although the extractor     *)
(* runs ahead of the storer, current rows change as if each batch were     *)
(* applied whole, in version order, and the saved checkpoint never exceeds *)
(* what was applied; a row dropped by a lookup is missing from exactly the *)
(* batch it belonged to.                                                   *)
Sequential == INSTANCE SequentialIndexer
    WITH up <- status # "down", next <- StoredUpTo + 1,
         dropped <- logged
ImplementsSequentialIndexer == Sequential!Spec

LatestWrite(k) == MaxOf({v \in Versions : Writes[v] = k} \cup {NoRow})

(* When no reference has to be resolved across batches, every run that     *)
(* is not crashed forever ends: the loop returns Ok, the checkpoint is the *)
(* ending version and every current row holds the entity's latest write.   *)
Converges ==
    <>(/\ status = "done" /\ checkpoint = EndVersion
       /\ \A k \in Keys : current[k] = LatestWrite(k))

(* Spec 3: a current row's last_transaction_version never decreases.  The  *)
(* storer upserts unconditionally and a restart replays from checkpoint+1, *)
(* which can be far behind what was already stored before the crash.       *)
RowVersionMonotone == [][\A k \in Keys : current'[k] >= current[k]]_current

(* Spec 4.3: a reference established by an earlier batch is resolved, so   *)
(* no row is dropped by the extractor's lookup (get_collection_creator).   *)
ReferencesResolved == logged = {}
=============================================================================
