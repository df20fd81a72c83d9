------------------------------ MODULE AuditWal ------------------------------
(***************************************************************************)
(* The audit log of the LLM gateway: the segmented write-ahead log with    *)
(* its writer thread (audit/wal.rs) and the sink that ships it to the      *)
(* audit database (audit/sink.rs).  Records are numbered; the sink's       *)
(* checkpoint is a number, and a segment goes when its last number is at   *)
(* or below it.  The process may be killed at any moment and opens the     *)
(* directory again; what was written stays, whether synchronised or not.   *)
(***************************************************************************)
EXTENDS Naturals, Sequences, FiniteSets, SequencesExt

CONSTANTS
    MaxEvents,     \* bound: events appended
    MaxFaults,     \* bound: kills and failures of the disk
    SegmentSize,   \* max_segment_bytes, in records
    BatchSize,     \* batch_records of the writer
    SinkSize       \* batch_records of the sink

ASSUME WalAssumption ==
    /\ {MaxEvents, MaxFaults} \subseteq Nat
    /\ {SegmentSize, BatchSize, SinkSize} \subseteq Nat \ {0}

VARIABLES
    segments,    \* the *.wal files, by name and so by age
    checkpoint,  \* sink-checkpoint.json
    wal,         \* the memory of AuditWal
    queue,       \* the writer's channel, its batch in front
    writer,      \* how much of the batch it has taken is on disk
    sink,        \* where the sink is, and with which batch
    appended,    \* number of events, which are their own names
    promised,    \* events whose durable append has been confirmed
    ingested,    \* events in the audit database
    renumbered,  \* whether numbering has begun again below the checkpoint
    faults       \* bound on kills and failures

vars == <<segments, checkpoint, wal, queue, writer, sink, appended, promised, ingested,
          renumbered, faults>>

Segment == [records |-> <<>>, header |-> TRUE, torn |-> FALSE]

Waiting == [taken |-> 0, written |-> 0]

Idle == [pc |-> "read", batch |-> {}, last |-> 0]

Down == [phase |-> "down", next |-> 0, durable |-> 0, acked |-> 0, failed |-> FALSE]

Init ==
    /\ segments = <<>>
    /\ checkpoint = 0
    /\ wal = Down
    /\ queue = <<>>
    /\ writer = Waiting
    /\ sink = Idle
    /\ appended = 0
    /\ promised = {}
    /\ ingested = {}
    /\ renumbered = FALSE
    /\ faults = 0

(* What the segments hold, in any order.                                   *)
Records(files) == UNION {ToSet(files[i].records) : i \in DOMAIN files}

(* From record to record, and from segment to segment, the numbers grow.   *)
Increasing(files) ==
    \A i, j \in DOMAIN files :
        \A k \in DOMAIN files[i].records, l \in DOMAIN files[j].records :
            i < j \/ (i = j /\ k < l) => files[i].records[k].seq < files[j].records[l].seq

-----------------------------------------------------------------------------
(* AuditWal::open.                                                         *)

(* recover: every segment has its header, the numbers increase, and only   *)
(* the last segment may end in a partial record.                           *)
Recoverable ==
    /\ \A i \in DOMAIN segments : segments[i].header
    /\ \A i \in DOMAIN segments : segments[i].torn => i = Len(segments)
    /\ Increasing(segments)

(* The number recovery ends with, of which there is one: 0, or the         *)
(* highest found.                                                          *)
LastSequence(files) ==
    {n \in {0} \cup {r.seq : r \in Records(files)} : \A r \in Records(files) : r.seq <= n}

(* A bug: a partial record is left in place.                               *)
TruncatedNot == segments

Truncated ==
    [i \in DOMAIN segments |-> [segments[i] EXCEPT !.torn = FALSE]]

(* The numbering goes on after the last record found; the writer begins a  *)
(* segment of its own.                                                     *)
Open ==
    /\ wal.phase = "down"
    /\ \/ /\ Recoverable
          /\ segments' = Append(Truncated, Segment)
          /\ \E last \in LastSequence(segments) :
                /\ wal' = [phase |-> "up", next |-> last, durable |-> last,
                           acked |-> checkpoint, failed |-> FALSE]
                /\ renumbered' = (renumbered \/ last < checkpoint)
       \/ /\ ~Recoverable
          /\ wal' = [wal EXCEPT !.phase = "refused"]
          /\ UNCHANGED <<segments, renumbered>>
    /\ UNCHANGED <<checkpoint, queue, writer, sink, appended, promised, ingested, faults>>

-----------------------------------------------------------------------------
(* Appending.                                                              *)

(* append: the number is taken and the record queued under one lock.       *)
AppendEvent(durable) ==
    /\ wal.phase = "up"
    /\ ~wal.failed
    /\ appended < MaxEvents
    /\ appended' = appended + 1
    /\ queue' = Append(queue, [seq |-> wal.next + 1, event |-> appended + 1, durable |-> durable])
    /\ wal' = [wal EXCEPT !.next = @ + 1]
    /\ UNCHANGED <<segments, checkpoint, writer, sink, promised, ingested, renumbered, faults>>

(* The I/O lock: the writer holds it for a batch, the sink while it reads  *)
(* and from its checkpoint until it has reclaimed.                         *)
Unlocked == writer = Waiting /\ sink.pc # "reclaim"

(* The writer's loop: what has come in the meantime is one batch.          *)
TakeBatch(n) ==
    /\ wal.phase = "up" /\ ~wal.failed /\ Unlocked
    /\ n <= Len(queue)
    /\ writer' = [taken |-> n, written |-> 0]
    /\ UNCHANGED <<segments, checkpoint, wal, queue, sink, appended, promised, ingested,
                   renumbered, faults>>

(* A bug: a full segment is written on.                                    *)
WrittenUnrotated(files, command) ==
    [files EXCEPT ![Len(files)].records =
        Append(@, [seq |-> command.seq, event |-> command.event])]

Full(files) == Len(Last(files).records) = SegmentSize

(* A full segment is followed by a new one.                                *)
Written(files, command) ==
    LET record == [seq |-> command.seq, event |-> command.event]
        active == IF Full(files) THEN Append(files, Segment) ELSE files
    IN  [active EXCEPT ![Len(active)].records = Append(@, record)]

(* append_batch, record by record.                                         *)
WriteRecord ==
    /\ writer.written < writer.taken
    /\ segments' = Written(segments, queue[writer.written + 1])
    /\ writer' = [writer EXCEPT !.written = @ + 1]
    /\ UNCHANGED <<checkpoint, wal, queue, sink, appended, promised, ingested, renumbered,
                   faults>>

(* The batch is synchronised and confirmed.                                *)
SyncBatch ==
    LET batch == SubSeq(queue, 1, writer.taken) IN
    /\ writer.taken > 0 /\ writer.written = writer.taken
    /\ wal' = [wal EXCEPT !.durable = queue[writer.taken].seq]
    /\ promised' = promised \cup {c.event : c \in {d \in ToSet(batch) : d.durable}}
    /\ queue' = SubSeq(queue, writer.taken + 1, Len(queue))
    /\ writer' = Waiting
    /\ UNCHANGED <<segments, checkpoint, sink, appended, ingested, renumbered, faults>>

(* What an interruption leaves: perhaps part of the next record or, where  *)
(* it begins a segment, that segment with or without its header.           *)
Interrupted ==
    LET torn  == [Segment EXCEPT !.torn = TRUE]
        blank == [Segment EXCEPT !.header = FALSE]
    IN  {segments} \cup
        CASE writer.written = writer.taken -> {}
          [] writer.written < writer.taken /\ ~Full(segments) ->
                {[segments EXCEPT ![Len(segments)].torn = TRUE]}
          [] writer.written < writer.taken /\ Full(segments) ->
                {Append(segments, new) : new \in {Segment, torn, blank}}

(* The disk is full or fails: the writer gives up for good, those who wait *)
(* are told so, later appends fail.                                        *)
WriteFails ==
    /\ faults < MaxFaults
    /\ writer.taken > 0
    /\ segments' \in Interrupted
    /\ wal' = [wal EXCEPT !.failed = TRUE]
    /\ queue' = <<>>
    /\ writer' = Waiting
    /\ faults' = faults + 1
    /\ UNCHANGED <<checkpoint, sink, appended, promised, ingested, renumbered>>

(* The process is killed, perhaps in the middle of a batch, and with it    *)
(* the sink; a process that is restarting may be killed after it has       *)
(* created its segment.                                                    *)
Kill ==
    /\ faults < MaxFaults
    /\ \/ wal.phase = "up" /\ segments' \in Interrupted
       \/ wal.phase = "down" /\ Recoverable
            /\ segments' = Append(Truncated, [Segment EXCEPT !.header = FALSE])
    /\ wal' = Down
    /\ queue' = <<>>
    /\ writer' = Waiting
    /\ sink' = Idle
    /\ faults' = faults + 1
    /\ UNCHANGED <<checkpoint, appended, promised, ingested, renumbered>>

-----------------------------------------------------------------------------
(* PostgresAuditSink: replay_batch, ingest_batch, acknowledge, over and    *)
(* over.  A database that does not answer only delays it.                  *)

Unacknowledged == {r \in Records(segments) : r.seq > wal.acked}

(* The next batch, bounded in records and bytes, is all up to some record; *)
(* a sink that meets a segment it cannot read ends.                        *)
SinkRead ==
    /\ wal.phase = "up" /\ Unlocked
    /\ sink.pc = "read"
    /\ \/ \E last \in Unacknowledged :
             LET batch == {r \in Unacknowledged : r.seq <= last.seq} IN
             /\ Increasing(segments)
             /\ Cardinality(batch) <= SinkSize
             /\ sink' = [pc |-> "ingest", batch |-> batch, last |-> last.seq]
       \/ /\ ~Recoverable
          /\ sink' = [Idle EXCEPT !.pc = "stopped"]
    /\ UNCHANGED <<segments, checkpoint, wal, queue, writer, appended, promised, ingested,
                   renumbered, faults>>

(* One transaction; an event that is there already is left alone.          *)
SinkIngest ==
    /\ sink.pc = "ingest"
    /\ ingested' = ingested \cup {r.event : r \in sink.batch}
    /\ sink' = [sink EXCEPT !.pc = "ack"]
    /\ UNCHANGED <<segments, checkpoint, wal, queue, writer, appended, promised, renumbered,
                   faults>>

(* A bug: the last durable record cannot be acknowledged.                  *)
SinkAckStrictly ==
    /\ sink.pc = "ack" /\ Unlocked
    /\ IF sink.last < wal.acked \/ sink.last >= wal.durable
       THEN /\ sink' = [Idle EXCEPT !.pc = "stopped"]
            /\ UNCHANGED <<checkpoint, wal>>
       ELSE /\ checkpoint' = sink.last
            /\ wal' = [wal EXCEPT !.acked = sink.last]
            /\ sink' = [sink EXCEPT !.pc = "reclaim"]
    /\ UNCHANGED <<segments, queue, writer, appended, promised, ingested, renumbered, faults>>

(* acknowledge up to the checkpoint; a number beyond the durable one is    *)
(* refused, and then the sink ends.                                        *)
SinkAck ==
    /\ sink.pc = "ack" /\ Unlocked
    /\ IF sink.last < wal.acked \/ sink.last > wal.durable
       THEN /\ sink' = [Idle EXCEPT !.pc = "stopped"]
            /\ UNCHANGED <<checkpoint, wal>>
       ELSE /\ checkpoint' = sink.last
            /\ wal' = [wal EXCEPT !.acked = sink.last]
            /\ sink' = [sink EXCEPT !.pc = "reclaim"]
    /\ UNCHANGED <<segments, queue, writer, appended, promised, ingested, renumbered, faults>>

(* A bug: a segment goes when its first record is acknowledged.            *)
ReclaimableByFirst ==
    {i \in 1..(Len(segments) - 1) :
        segments[i].records # <<>> /\ Head(segments[i].records).seq <= wal.acked}

(* All but the newest segment whose last record is acknowledged.           *)
Reclaimable ==
    {i \in 1..(Len(segments) - 1) :
        segments[i].records # <<>> /\ Last(segments[i].records).seq <= wal.acked}

(* reclaim_segments, file by file.                                         *)
SinkReclaim ==
    /\ sink.pc = "reclaim"
    /\ IF Reclaimable = {}
       THEN /\ sink' = Idle
            /\ UNCHANGED segments
       ELSE /\ \E i \in Reclaimable :
                  /\ \A j \in Reclaimable : i <= j
                  /\ segments' = RemoveAt(segments, i)
            /\ UNCHANGED sink
    /\ UNCHANGED <<checkpoint, wal, queue, writer, appended, promised, ingested, renumbered,
                   faults>>

(* An I/O error of the sink's own ends it until the gateway is started     *)
(* again, however sound the log: replay_batch cannot read, persist-        *)
(* _checkpoint fails before its rename or after it, with the memory        *)
(* not yet told, or reclaim_segments fails between two files.              *)
SinkFails ==
    /\ faults < MaxFaults
    /\ wal.phase = "up"
    /\ \/ sink.pc = "read" /\ Unlocked /\ UNCHANGED checkpoint
       \/ /\ sink.pc = "ack" /\ Unlocked
          /\ wal.acked <= sink.last /\ sink.last <= wal.durable
          /\ checkpoint' \in {checkpoint, sink.last}
       \/ sink.pc = "reclaim" /\ UNCHANGED checkpoint
    /\ sink' = [Idle EXCEPT !.pc = "failed"]
    /\ faults' = faults + 1
    /\ UNCHANGED <<segments, wal, queue, writer, appended, promised, ingested, renumbered>>

-----------------------------------------------------------------------------

Write == (\E n \in 1..BatchSize : TakeBatch(n)) \/ WriteRecord \/ SyncBatch

Sink == SinkRead \/ SinkIngest \/ SinkAck \/ SinkReclaim

Next ==
    \/ Open
    \/ \E durable \in BOOLEAN : AppendEvent(durable)
    \/ Write
    \/ WriteFails
    \/ Kill
    \/ Sink
    \/ SinkFails

Spec == Init /\ [][Next]_vars

(* The gateway is started again; its writer thread and its sink run for as *)
(* long as it does, and the audit database answers in the end.             *)
FairSpec == Spec /\ WF_vars(Open) /\ WF_vars(Write) /\ WF_vars(Sink)

-----------------------------------------------------------------------------
(* The log, the memory and the sink keep their types, and the memory's     *)
(* numbers their order: nothing is durable that was not numbered.          *)
WalTypeOK ==
    /\ \A i \in DOMAIN segments :
          /\ segments[i].header \in BOOLEAN
          /\ segments[i].torn \in BOOLEAN
          /\ Len(segments[i].records) <= SegmentSize
          /\ \A r \in ToSet(segments[i].records) :
                r.seq \in 1..MaxEvents /\ r.event \in 1..appended
    /\ checkpoint \in 0..MaxEvents
    /\ wal.phase \in {"down", "up", "refused"}
    /\ wal.durable <= wal.next
    /\ sink.pc \in {"read", "ingest", "ack", "reclaim", "stopped", "failed"}
    /\ promised \subseteq 1..appended
    /\ ingested \subseteq 1..appended
    /\ faults \in 0..MaxFaults

(* An event whose durable append was confirmed is in the audit database or *)
(* on disk where the sink will come to it, through kills, failed writes,   *)
(* rotation and reclamation - as long as the numbering has not begun again *)
(* below the checkpoint.                                                   *)
PromisedKept ==
    ~renumbered =>
        \A e \in promised :
            \/ e \in ingested
            \/ \E r \in Records(segments) : r.event = e /\ r.seq > checkpoint

(* A directory is refused for one reason only: a segment was created and   *)
(* its header not written.  No other moment to be killed, no failed write  *)
(* and no removed segment leaves a log that recover() takes for corrupt.   *)
RefusedOnlyHeaderless ==
    wal.phase = "refused" => \E i \in DOMAIN segments : ~segments[i].header

(* A confirmed event reaches the audit database, unless the directory was  *)
(* refused, the numbering began again, or the sink has ended and nobody    *)
(* restarts the gateway: over records that a failed write left behind, or  *)
(* over an I/O error of its own.  A restart ships what such a sink owes.   *)
Shipped ==
    \A e \in 1..MaxEvents :
        (e \in promised) ~> \/ e \in ingested
                            \/ wal.phase = "refused"
                            \/ renumbered
                            \/ [](sink.pc = "stopped" /\ wal.failed)
                            \/ [](sink.pc = "failed")

=============================================================================
