--------------------------- MODULE AuditWalProofs ---------------------------
(***************************************************************************)
(* The audit log keeps what it has promised: the inductive invariant of    *)
(* AuditWal, in layers, and its theorems.                                  *)
(***************************************************************************)
EXTENDS AuditWal, SequenceTheorems, TLAPS

RecordType  == [seq : Nat, event : Nat]
SegmentType == [records : Seq(RecordType), header : BOOLEAN, torn : BOOLEAN]
CommandType == [seq : Nat, event : Nat, durable : BOOLEAN]

Typed ==
    /\ segments \in Seq(SegmentType)
    /\ checkpoint \in 0..appended
    /\ wal \in [phase : {"down", "up", "refused"}, next : Nat, durable : Nat, acked : Nat,
                failed : BOOLEAN]
    /\ queue \in Seq(CommandType)
    /\ writer \in [taken : Nat, written : Nat]
    /\ sink \in [pc : {"read", "ingest", "ack", "reclaim", "stopped", "failed"},
                 batch : SUBSET RecordType, last : Nat]
    /\ appended \in 0..MaxEvents
    /\ promised \in SUBSET (1..appended)
    /\ ingested \in SUBSET (1..appended)
    /\ renumbered \in BOOLEAN
    /\ faults \in 0..MaxFaults

(* What is true of the directory at any moment: the numbers increase, and  *)
(* only the newest segment may be incomplete.                              *)
Sound(files) ==
    /\ Increasing(files)
    /\ \A i \in DOMAIN files :
          /\ files[i].torn \/ ~files[i].header => i = Len(files)
          /\ Len(files[i].records) <= SegmentSize

Disk ==
    /\ Sound(segments)
    /\ \A r \in Records(segments) : r.seq \in 1..appended /\ r.event \in 1..appended

(* The writer at work: its newest segment is complete but for the records  *)
(* to come, which bear the numbers after the last durable one.             *)
Working == wal.phase = "up" /\ ~wal.failed

Whole(files) ==
    files # <<>> /\ \A i \in DOMAIN files : files[i].header /\ ~files[i].torn

OnDisk(k) == [seq |-> queue[k].seq, event |-> queue[k].event] \in Records(segments)

AtWork ==
    /\ Whole(segments)
    /\ wal.next = wal.durable + Len(queue)
    /\ \A k \in DOMAIN queue : queue[k].seq = wal.durable + k /\ queue[k].event \in 1..appended
    /\ writer.written <= writer.taken /\ writer.taken <= Len(queue)
    /\ \A r \in Records(segments) : r.seq <= wal.durable + writer.written
    /\ \A k \in 1..writer.written : OnDisk(k)

(* What the memory knows of the disk.                                      *)
Memory ==
    /\ IF Working THEN AtWork ELSE queue = <<>> /\ writer = Waiting
    /\ wal.durable <= wal.next /\ wal.next <= appended
    /\ wal.phase = "up" /\ sink.pc # "failed" => wal.acked = checkpoint
    /\ wal.phase = "up" /\ ~renumbered => checkpoint <= wal.durable
    /\ wal.phase # "up" => sink = Idle

(* A batch on its way is all there is between the checkpoint and its last  *)
(* record, whatever has been written since it was read.                    *)
Batch ==
    /\ sink.pc = "reclaim" => writer = Waiting
    /\ sink.pc \in {"ingest", "ack"} =>
          /\ Working => sink.last <= wal.durable
          /\ \A r \in sink.batch : r.event \in 1..appended
          /\ \A r \in Records(segments) :
                r.seq > checkpoint /\ r.seq <= sink.last => r \in sink.batch
    /\ sink.pc = "ack" => \A r \in sink.batch : r.event \in ingested

WalInvariant == Typed /\ Disk /\ Memory /\ Batch /\ RefusedOnlyHeaderless /\ PromisedKept

-----------------------------------------------------------------------------
(* Files and records.                                                      *)

(* A record is in the log when it is at some place of some segment.        *)
LEMMA InRecords ==
    ASSUME NEW files, NEW r
    PROVE  r \in Records(files) <=>
              \E i \in DOMAIN files : \E k \in DOMAIN files[i].records : r = files[i].records[k]
BY DEF Records, ToSet

(* Marks on the segments do not touch the records.                         *)
LEMMA SameRecords ==
    ASSUME NEW a, NEW b, DOMAIN a = DOMAIN b,
           \A i \in DOMAIN a : a[i].records = b[i].records
    PROVE  Records(a) = Records(b) /\ (Increasing(a) <=> Increasing(b))
<1>1. ASSUME NEW r PROVE r \in Records(a) <=> r \in Records(b)
  <2>1. r \in Records(a) <=>
           \E i \in DOMAIN a : \E k \in DOMAIN a[i].records : r = a[i].records[k]
    BY InRecords
  <2>2. r \in Records(b) <=>
           \E i \in DOMAIN b : \E k \in DOMAIN b[i].records : r = b[i].records[k]
    BY InRecords
  <2> QED BY <2>1, <2>2
<1>2. Increasing(a) <=> Increasing(b)
  BY Zenon DEF Increasing
<1> QED BY <1>1, <1>2

(* A segment and its places are of their types.                            *)
LEMMA SegmentPlaces ==
    ASSUME NEW s \in Seq(SegmentType), NEW i \in 1..Len(s)
    PROVE  /\ DOMAIN s = 1..Len(s) /\ Len(s) \in Nat
           /\ s[i] \in SegmentType /\ s[i].records \in Seq(RecordType)
           /\ Len(s[i].records) \in Nat
           /\ DOMAIN s[i].records = 1..Len(s[i].records)
           /\ \A k \in DOMAIN s[i].records : s[i].records[k] \in RecordType
<1>1. s[i] \in SegmentType
  BY ElementOfSeq
<1>2. s[i].records \in Seq(RecordType)
  BY <1>1 DEF SegmentType
<1>3. /\ Len(s[i].records) \in Nat
      /\ DOMAIN s[i].records = 1..Len(s[i].records)
  BY <1>2, LenProperties
<1>4. \A k \in DOMAIN s[i].records : s[i].records[k] \in RecordType
  BY <1>2, <1>3, ElementOfSeq
<1> QED BY <1>1, <1>2, <1>3, <1>4, LenProperties

(* The records of the log are of their type.                               *)
LEMMA RecordsTyped ==
    ASSUME NEW s \in Seq(SegmentType)
    PROVE  \A r \in Records(s) : r \in RecordType /\ r.seq \in Nat /\ r.event \in Nat
<1> SUFFICES ASSUME NEW r \in Records(s)
             PROVE  r \in RecordType
  BY DEF RecordType
<1>1. PICK i \in DOMAIN s : \E k \in DOMAIN s[i].records : r = s[i].records[k]
  BY InRecords
<1>2. i \in 1..Len(s)
  BY <1>1, LenProperties
<1> QED BY <1>1, <1>2, SegmentPlaces

(* An empty segment at the end.                                            *)
LEMMA AddSegment ==
    ASSUME NEW s \in Seq(SegmentType), NEW g \in SegmentType, g.records = <<>>
    PROVE  /\ Append(s, g) \in Seq(SegmentType)
           /\ Len(Append(s, g)) = Len(s) + 1
           /\ Append(s, g)[Len(s) + 1] = g
           /\ \A i \in 1..Len(s) : Append(s, g)[i] = s[i]
           /\ Records(Append(s, g)) = Records(s)
           /\ Increasing(s) => Increasing(Append(s, g))
<1> DEFINE t == Append(s, g)
<1>1. /\ t \in Seq(SegmentType)
      /\ Len(t) = Len(s) + 1
      /\ t[Len(s) + 1] = g
      /\ \A i \in 1..Len(s) : t[i] = s[i]
  BY AppendProperties
<1>2. DOMAIN t = 1..(Len(s) + 1) /\ DOMAIN s = 1..Len(s) /\ Len(s) \in Nat
  BY <1>1, LenProperties
<1>3. DOMAIN g.records = {}
  OBVIOUS
<1> HIDE DEF t
<1>4. \A i \in DOMAIN t : i \in DOMAIN s \/ DOMAIN t[i].records = {}
  BY <1>1, <1>2, <1>3
<1>5. \A i \in DOMAIN s : i \in DOMAIN t /\ t[i] = s[i]
  BY <1>1, <1>2
<1>6. ASSUME NEW r PROVE r \in Records(t) <=> r \in Records(s)
  <2>1. r \in Records(t) <=>
           \E i \in DOMAIN t : \E k \in DOMAIN t[i].records : r = t[i].records[k]
    BY InRecords
  <2>2. r \in Records(s) <=>
           \E i \in DOMAIN s : \E k \in DOMAIN s[i].records : r = s[i].records[k]
    BY InRecords
  <2> QED BY <2>1, <2>2, <1>4, <1>5, Zenon
<1>7. Increasing(s) => Increasing(t)
  BY <1>4, <1>5, Zenon DEF Increasing
<1> QED BY <1>1, <1>6, <1>7 DEF t

(* A record at the end of the last segment, numbered above all others.     *)
LEMMA PutRecord ==
    ASSUME NEW s \in Seq(SegmentType), s # <<>>, NEW r \in RecordType
    PROVE  LET t == [s EXCEPT ![Len(s)].records = Append(@, r)] IN
           /\ t \in Seq(SegmentType)
           /\ Len(t) = Len(s)
           /\ \A i \in 1..Len(s) :
                 /\ t[i].header = s[i].header /\ t[i].torn = s[i].torn
                 /\ i # Len(s) => t[i] = s[i]
           /\ Len(t[Len(s)].records) = Len(s[Len(s)].records) + 1
           /\ Records(t) = Records(s) \cup {r}
           /\ Increasing(s) /\ (\A q \in Records(s) : q.seq < r.seq) => Increasing(t)
<1> DEFINE n == Len(s)
           t == [s EXCEPT ![n].records = Append(@, r)]
           old == s[n].records
           new == Append(old, r)
<1>1. n \in Nat \ {0} /\ DOMAIN s = 1..n /\ n \in 1..n
  BY EmptySeq, LenProperties
<1>2. s[n] \in SegmentType /\ old \in Seq(RecordType) /\ Len(old) \in Nat
  BY <1>1, SegmentPlaces
<1>3. /\ new \in Seq(RecordType) /\ Len(new) = Len(old) + 1
      /\ DOMAIN new = 1..(Len(old) + 1) /\ DOMAIN old = 1..Len(old)
      /\ new[Len(old) + 1] = r
      /\ \A k \in 1..Len(old) : new[k] = old[k]
  BY <1>2, AppendProperties, LenProperties
<1>4. t = [s EXCEPT ![n] = [s[n] EXCEPT !.records = new]]
  OBVIOUS
<1>5. [s[n] EXCEPT !.records = new] \in SegmentType
  BY <1>2, <1>3 DEF SegmentType
<1>6. t \in Seq(SegmentType) /\ Len(t) = n
  BY <1>1, <1>4, <1>5, ExceptSeq
<1>7. /\ DOMAIN t = DOMAIN s
      /\ \A i \in DOMAIN s : t[i] = IF i = n THEN [s[n] EXCEPT !.records = new] ELSE s[i]
  BY <1>4
<1>8. /\ t[n].records = new /\ t[n].header = s[n].header /\ t[n].torn = s[n].torn
      /\ \A i \in DOMAIN s : i # n => t[i] = s[i]
  BY <1>1, <1>2, <1>7 DEF SegmentType
<1> HIDE DEF t, new, old, n
<1>9. Records(t) = Records(s) \cup {r}
  <2>1. \A q \in Records(t) : q \in Records(s) \/ q = r
    <3> SUFFICES ASSUME NEW q \in Records(t), q # r PROVE q \in Records(s)
      OBVIOUS
    <3>0. PICK i \in DOMAIN t : \E k \in DOMAIN t[i].records : q = t[i].records[k]
      BY InRecords
    <3>1. PICK k \in DOMAIN t[i].records : q = t[i].records[k]
      BY <3>0
    <3>2. CASE i = n
      <4>1. k \in DOMAIN new /\ q = new[k]
        BY <3>1, <3>2, <1>8
      <4>2. k \in DOMAIN old /\ q = old[k]
        BY <4>1, <1>2, <1>3
      <4> QED BY <4>2, <1>1, InRecords DEF old
    <3>3. CASE i # n
      BY <3>1, <3>3, <1>7, <1>8, InRecords
    <3> QED BY <3>2, <3>3
  <2>2. \A q \in Records(s) : q \in Records(t)
    <3> SUFFICES ASSUME NEW q \in Records(s) PROVE q \in Records(t)
      OBVIOUS
    <3>0. PICK i \in DOMAIN s : \E k \in DOMAIN s[i].records : q = s[i].records[k]
      BY InRecords
    <3>1. PICK k \in DOMAIN s[i].records : q = s[i].records[k]
      BY <3>0
    <3>2. k \in DOMAIN t[i].records /\ q = t[i].records[k]
      <4>1. CASE i = n
        <5>1. k \in DOMAIN old /\ q = old[k]
          BY <3>1, <4>1 DEF old
        <5>2. k \in DOMAIN new /\ q = new[k]
          BY <5>1, <1>2, <1>3
        <5> QED BY <5>2, <4>1, <1>8
      <4>2. CASE i # n
        BY <3>1, <4>2, <1>8
      <4> QED BY <4>1, <4>2
    <3> QED BY <3>1, <3>2, <1>7, InRecords
  <2>3. r \in Records(t)
    <3>1. Len(old) + 1 \in DOMAIN t[n].records /\ r = t[n].records[Len(old) + 1]
      BY <1>2, <1>3, <1>8
    <3> QED BY <3>1, <1>1, <1>7, InRecords
  <2> QED BY <2>1, <2>2, <2>3
<1>10. ASSUME Increasing(s), \A q \in Records(s) : q.seq < r.seq
       PROVE  Increasing(t)
  <2> SUFFICES ASSUME NEW i \in DOMAIN t, NEW j \in DOMAIN t,
                      NEW k \in DOMAIN t[i].records, NEW l \in DOMAIN t[j].records,
                      i < j \/ (i = j /\ k < l)
               PROVE  t[i].records[k].seq < t[j].records[l].seq
    BY DEF Increasing
  <2>1. i \in 1..n /\ j \in 1..n /\ n \in Nat
    BY <1>1, <1>7
  <2>2. k \in DOMAIN s[i].records /\ t[i].records[k] = s[i].records[k]
    <3>1. CASE i # n
      BY <3>1, <1>7, <1>8
    <3>2. CASE i = n
      <4>1. j = n /\ k < l
        BY <2>1, <3>2
      <4>2. k \in 1..(Len(old) + 1) /\ l \in 1..(Len(old) + 1)
        BY <4>1, <3>2, <1>3, <1>8
      <4>3. k \in DOMAIN old /\ new[k] = old[k]
        BY <4>1, <4>2, <1>2, <1>3
      <4> QED BY <4>3, <3>2, <1>8 DEF old
    <3> QED BY <3>1, <3>2
  <2>3. CASE j # n \/ l \in DOMAIN old
    <3>1. l \in DOMAIN s[j].records /\ t[j].records[l] = s[j].records[l]
      BY <2>3, <1>3, <1>7, <1>8 DEF old
    <3> QED BY <3>1, <2>2, <1>7, <1>10 DEF Increasing
  <2>4. CASE j = n /\ l \notin DOMAIN old
    <3>1. l = Len(old) + 1
      BY <2>4, <1>2, <1>3, <1>8
    <3>2. t[j].records[l] = r
      BY <3>1, <2>4, <1>3, <1>8
    <3>3. s[i].records[k] \in Records(s)
      BY <2>2, <1>7, InRecords
    <3> QED BY <3>2, <3>3, <2>2, <1>10
  <2> QED BY <2>3, <2>4
<1> QED
  <2>1. Len(t[n].records) = Len(old) + 1
    BY <1>3, <1>8
  <2> QED BY <1>1, <1>6, <1>8, <1>9, <1>10, <2>1 DEF t, n, old

(* What the writer does with one command: the record is there, the log as  *)
(* sound and as complete as before, whether or not a segment was begun.    *)
LEMMA WrittenEffect ==
    ASSUME NEW s \in Seq(SegmentType), Whole(s), Sound(s), NEW c \in CommandType,
           \A q \in Records(s) : q.seq < c.seq
    PROVE  /\ Written(s, c) \in Seq(SegmentType)
           /\ Whole(Written(s, c)) /\ Sound(Written(s, c))
           /\ Records(Written(s, c)) = Records(s) \cup {[seq |-> c.seq, event |-> c.event]}
<1> DEFINE r == [seq |-> c.seq, event |-> c.event]
           a == IF Full(s) THEN Append(s, Segment) ELSE s
           t == [a EXCEPT ![Len(a)].records = Append(@, r)]
<1>1. Written(s, c) = t
  BY DEF Written
<1>2. r \in RecordType /\ r.seq = c.seq
  BY DEF RecordType, CommandType
<1>3. SegmentSize \in Nat \ {0}
  BY WalAssumption
<1>4. Len(s) \in Nat \ {0} /\ DOMAIN s = 1..Len(s)
  BY EmptySeq, LenProperties DEF Whole
<1>5. /\ a \in Seq(SegmentType) /\ Len(a) \in Nat \ {0}
      /\ Records(a) = Records(s) /\ Increasing(a)
      /\ \A i \in 1..Len(a) : a[i].header /\ ~a[i].torn
      /\ \A i \in 1..Len(a) : Len(a[i].records) <= SegmentSize
      /\ Len(a[Len(a)].records) < SegmentSize
  <2>1. CASE Full(s)
    <3>1. Segment \in SegmentType /\ Segment.records = <<>>
          /\ Segment.header = TRUE /\ Segment.torn = FALSE
      BY DEF Segment, SegmentType
    <3>2. /\ a \in Seq(SegmentType) /\ Len(a) = Len(s) + 1
          /\ a[Len(s) + 1] = Segment
          /\ \A i \in 1..Len(s) : a[i] = s[i]
          /\ Records(a) = Records(s) /\ Increasing(a)
      BY <2>1, <3>1, AddSegment DEF Sound
    <3>3. \A i \in 1..Len(a) : i \in 1..Len(s) \/ i = Len(s) + 1
      BY <3>2, <1>4
    <3>4. Len(Segment.records) = 0
      BY <3>1
    <3> HIDE DEF a
    <3>5. Len(a) \in Nat \ {0}
      BY <3>2, <1>4
    <3>6. \A i \in 1..Len(s) :
             s[i].header /\ ~s[i].torn /\ Len(s[i].records) <= SegmentSize
      BY <1>4, Zenon DEF Whole, Sound
    <3>7. \A i \in 1..Len(a) : a[i].header /\ ~a[i].torn
      BY <3>1, <3>2, <3>3, <3>6, Zenon
    <3>8. \A i \in 1..Len(a) : Len(a[i].records) <= SegmentSize
      BY <3>2, <3>3, <3>4, <3>6, <1>3
    <3>9. Len(a[Len(a)].records) < SegmentSize
      BY <3>2, <3>4, <1>3
    <3> QED BY <3>2, <3>5, <3>7, <3>8, <3>9
  <2>2. CASE ~Full(s)
    <3>1. Len(s[Len(s)].records) # SegmentSize
      BY <2>2 DEF Full, Last
    <3>2. Len(s[Len(s)].records) \in Nat /\ Len(s[Len(s)].records) <= SegmentSize
      BY <1>4, SegmentPlaces DEF Sound
    <3> QED BY <2>2, <3>1, <3>2, <1>3, <1>4 DEF Whole, Sound
  <2> QED BY <2>1, <2>2
<1> HIDE DEF a, r
<1>6. a # <<>>
  BY <1>5, EmptySeq
<1>7. /\ t \in Seq(SegmentType)
      /\ Len(t) = Len(a)
      /\ \A i \in 1..Len(a) :
            /\ t[i].header = a[i].header /\ t[i].torn = a[i].torn
            /\ i # Len(a) => t[i] = a[i]
      /\ Len(t[Len(a)].records) = Len(a[Len(a)].records) + 1
      /\ Records(t) = Records(a) \cup {r}
      /\ Increasing(t)
  BY <1>2, <1>5, <1>6, PutRecord
<1> HIDE DEF t
<1>8. DOMAIN t = 1..Len(t) /\ t # <<>>
  BY <1>5, <1>7, LenProperties, EmptySeq
<1>9. Len(a[Len(a)].records) \in Nat
  BY <1>5, SegmentPlaces
<1>10. \A i \in 1..Len(a) : Len(t[i].records) <= SegmentSize
  BY <1>3, <1>5, <1>7, <1>9
<1>11. Whole(t)
  BY <1>5, <1>7, <1>8 DEF Whole
<1>12. Sound(t)
  BY <1>5, <1>7, <1>8, <1>10 DEF Sound
<1> QED BY <1>1, <1>5, <1>7, <1>11, <1>12 DEF r

(* Recovery cuts the partial record off and leaves the others.             *)
LEMMA TruncatedEffect ==
    ASSUME segments \in Seq(SegmentType)
    PROVE  /\ Truncated \in Seq(SegmentType)
           /\ Len(Truncated) = Len(segments)
           /\ \A i \in 1..Len(segments) :
                 /\ Truncated[i].records = segments[i].records
                 /\ Truncated[i].header = segments[i].header
                 /\ Truncated[i].torn = FALSE
           /\ Records(Truncated) = Records(segments)
           /\ Increasing(segments) => Increasing(Truncated)
<1>1. Len(segments) \in Nat /\ DOMAIN segments = 1..Len(segments)
  BY LenProperties
<1>2. \A i \in 1..Len(segments) :
         /\ [segments[i] EXCEPT !.torn = FALSE] \in SegmentType
         /\ [segments[i] EXCEPT !.torn = FALSE].records = segments[i].records
         /\ [segments[i] EXCEPT !.torn = FALSE].header = segments[i].header
         /\ [segments[i] EXCEPT !.torn = FALSE].torn = FALSE
  <2>1. \A i \in 1..Len(segments) : segments[i] \in SegmentType
    BY ElementOfSeq
  <2> QED BY <2>1 DEF SegmentType
<1>3. Truncated = [i \in 1..Len(segments) |-> [segments[i] EXCEPT !.torn = FALSE]]
  BY <1>1 DEF Truncated
<1>4. Truncated \in [1..Len(segments) -> SegmentType]
  BY <1>2, <1>3
<1>5. Truncated \in Seq(SegmentType)
  BY <1>1, <1>4, SeqDef
<1>6. Len(Truncated) = Len(segments) /\ DOMAIN Truncated = DOMAIN segments
  BY <1>1, <1>4, <1>5, LenProperties
<1>7. \A i \in 1..Len(segments) :
         /\ Truncated[i].records = segments[i].records
         /\ Truncated[i].header = segments[i].header
         /\ Truncated[i].torn = FALSE
  BY <1>2, <1>3
<1>8. Records(Truncated) = Records(segments) /\ (Increasing(segments) => Increasing(Truncated))
  BY <1>1, <1>6, <1>7, SameRecords
<1> QED BY <1>5, <1>6, <1>7, <1>8

(* A segment just begun, whatever has reached the disk of it.              *)
LEMMA NewSegments ==
    \A g \in {Segment, [Segment EXCEPT !.torn = TRUE], [Segment EXCEPT !.header = FALSE]} :
        g \in SegmentType /\ g.records = <<>>
<1>1. Segment \in SegmentType /\ Segment.records = <<>>
  BY DEF Segment, SegmentType
<1>2. /\ [Segment EXCEPT !.torn = TRUE] \in SegmentType
      /\ [Segment EXCEPT !.torn = TRUE].records = Segment.records
  BY <1>1 DEF SegmentType
<1>3. /\ [Segment EXCEPT !.header = FALSE] \in SegmentType
      /\ [Segment EXCEPT !.header = FALSE].records = Segment.records
  BY <1>1 DEF SegmentType
<1> QED BY <1>1, <1>2, <1>3

(* An empty segment after complete ones, itself perhaps incomplete.        *)
LEMMA BegunSound ==
    ASSUME NEW s \in Seq(SegmentType), Increasing(s), NEW g \in SegmentType, g.records = <<>>,
           \A i \in 1..Len(s) : s[i].header /\ ~s[i].torn /\ Len(s[i].records) <= SegmentSize
    PROVE  /\ Append(s, g) \in Seq(SegmentType) /\ Sound(Append(s, g))
           /\ Records(Append(s, g)) = Records(s)
           /\ g.header /\ ~g.torn => Whole(Append(s, g))
<1> DEFINE t == Append(s, g)
<1>1. /\ t \in Seq(SegmentType) /\ Len(t) = Len(s) + 1 /\ t[Len(s) + 1] = g
      /\ \A i \in 1..Len(s) : t[i] = s[i]
      /\ Records(t) = Records(s) /\ Increasing(t)
  BY AddSegment
<1> HIDE DEF t
<1>2. DOMAIN t = 1..(Len(s) + 1) /\ Len(s) \in Nat
  BY <1>1, LenProperties
<1>3. \A i \in DOMAIN t : i \in 1..Len(s) \/ i = Len(s) + 1
  BY <1>2
<1>4. Len(g.records) = 0 /\ SegmentSize \in Nat
  BY WalAssumption
<1>5. Sound(t)
  BY <1>1, <1>2, <1>3, <1>4 DEF Sound
<1>6. t # <<>>
  BY <1>1, <1>2
<1>7. g.header /\ ~g.torn => Whole(t)
  BY <1>1, <1>3, <1>6 DEF Whole
<1> QED BY <1>1, <1>5, <1>7 DEF t

(* An interruption leaves a sound log with the same records.               *)
LEMMA InterruptedEffect ==
    ASSUME segments \in Seq(SegmentType), Sound(segments),
           writer \in [taken : Nat, written : Nat], writer.written <= writer.taken,
           writer.written < writer.taken => Whole(segments),
           NEW s \in Interrupted
    PROVE  s \in Seq(SegmentType) /\ Sound(s) /\ Records(s) = Records(segments)
<1> DEFINE torn  == [Segment EXCEPT !.torn = TRUE]
           blank == [Segment EXCEPT !.header = FALSE]
<1>0. writer.written \in Nat /\ writer.taken \in Nat
  OBVIOUS
<1>1. CASE s = segments
  BY <1>1
<1>2. CASE writer.written < writer.taken /\ ~Full(segments)
           /\ s = [segments EXCEPT ![Len(segments)].torn = TRUE]
  <2>1. Len(segments) \in Nat \ {0} /\ DOMAIN segments = 1..Len(segments)
    BY <1>2, EmptySeq, LenProperties DEF Whole
  <2>2. segments[Len(segments)] \in SegmentType
    BY <2>1, SegmentPlaces
  <2>3. [segments[Len(segments)] EXCEPT !.torn = TRUE] \in SegmentType
    BY <2>2 DEF SegmentType
  <2>4. s = [segments EXCEPT ![Len(segments)] = [segments[Len(segments)] EXCEPT !.torn = TRUE]]
    BY <1>2
  <2>5. s \in Seq(SegmentType) /\ Len(s) = Len(segments) /\ DOMAIN s = DOMAIN segments
    BY <2>1, <2>3, <2>4, ExceptSeq
  <2>6. \A i \in DOMAIN segments :
           /\ s[i].records = segments[i].records /\ s[i].header = segments[i].header
           /\ i # Len(segments) => s[i].torn = segments[i].torn
    BY <2>1, <2>2, <2>4 DEF SegmentType
  <2>7. Records(s) = Records(segments) /\ Increasing(s)
    BY <2>5, <2>6, SameRecords DEF Sound
  <2>8. Sound(s)
    BY <2>5, <2>6, <2>7 DEF Sound
  <2> QED BY <2>5, <2>7, <2>8
<1>3. CASE writer.written < writer.taken /\ Full(segments)
           /\ \E new \in {Segment, torn, blank} : s = Append(segments, new)
  <2>1. PICK new \in {Segment, torn, blank} : s = Append(segments, new)
    BY <1>3
  <2>2. new \in SegmentType /\ new.records = <<>>
    BY <2>1, NewSegments
  <2>3. DOMAIN segments = 1..Len(segments)
    BY LenProperties
  <2>4. \A i \in 1..Len(segments) :
           segments[i].header /\ ~segments[i].torn /\ Len(segments[i].records) <= SegmentSize
    BY <1>3, <2>3 DEF Whole, Sound
  <2> HIDE DEF torn, blank
  <2> QED BY <2>1, <2>2, <2>4, BegunSound DEF Sound
<1>4. \/ s = segments
      \/ writer.written < writer.taken /\ ~Full(segments)
           /\ s = [segments EXCEPT ![Len(segments)].torn = TRUE]
      \/ writer.written < writer.taken /\ Full(segments)
           /\ \E new \in {Segment, torn, blank} : s = Append(segments, new)
  <2>1. CASE writer.written = writer.taken
    BY <2>1, <1>0 DEF Interrupted
  <2>2. CASE writer.written < writer.taken /\ ~Full(segments)
    BY <2>2, <1>0 DEF Interrupted
  <2>3. CASE writer.written < writer.taken /\ Full(segments)
    BY <2>3, <1>0 DEF Interrupted
  <2> QED BY <1>0, <2>1, <2>2, <2>3
<1> QED BY <1>1, <1>2, <1>3, <1>4

(* A segment other than the newest is removed: the later ones move up.     *)
LEMMA RemovedPlaces ==
    ASSUME NEW s \in Seq(SegmentType), NEW i \in 1..(Len(s) - 1)
    PROVE  /\ RemoveAt(s, i) \in Seq(SegmentType)
           /\ Len(RemoveAt(s, i)) = Len(s) - 1
           /\ \A k \in 1..(Len(s) - 1) :
                 RemoveAt(s, i)[k] = IF k < i THEN s[k] ELSE s[k + 1]
<1> DEFINE n == Len(s)
           a == SubSeq(s, 1, i - 1)
           b == SubSeq(s, i + 1, n)
<1>1. n \in Nat /\ i \in 1..n /\ i < n
  BY LenProperties
<1>2. /\ a \in Seq(SegmentType) /\ Len(a) = i - 1
      /\ \A k \in 1..(i - 1) : a[k] = s[k]
  <2>1. \A k \in 1..(i - 1) : k \in 1..n
    BY <1>1
  <2> QED BY <1>1, <2>1
<1>3. /\ b \in Seq(SegmentType) /\ Len(b) = n - i
      /\ \A k \in 1..(n - i) : b[k] = s[k + i]
  <2>1. \A k \in (i + 1)..n : k \in 1..n
    BY <1>1
  <2> QED BY <1>1, <2>1
<1> HIDE DEF a, b
<1>4. /\ a \o b \in Seq(SegmentType) /\ Len(a \o b) = n - 1
      /\ \A k \in 1..(n - 1) : (a \o b)[k] = IF k <= i - 1 THEN a[k] ELSE b[k - (i - 1)]
  <2>1. /\ a \o b \in Seq(SegmentType) /\ Len(a \o b) = Len(a) + Len(b)
        /\ \A k \in 1..(Len(a) + Len(b)) :
              (a \o b)[k] = IF k <= Len(a) THEN a[k] ELSE b[k - Len(a)]
    BY <1>2, <1>3, ConcatProperties
  <2>2. Len(a) + Len(b) = n - 1
    BY <1>1, <1>2, <1>3
  <2> QED BY <2>1, <2>2, <1>2
<1>5. ASSUME NEW k \in 1..(n - 1)
      PROVE  (a \o b)[k] = IF k < i THEN s[k] ELSE s[k + 1]
  <2>1. CASE k < i
    BY <2>1, <1>1, <1>2, <1>4
  <2>2. CASE ~(k < i)
    <3>1. k - (i - 1) \in 1..(n - i) /\ (k - (i - 1)) + i = k + 1
      BY <2>2, <1>1
    <3> QED BY <2>2, <3>1, <1>1, <1>3, <1>4
  <2> QED BY <2>1, <2>2
<1>6. RemoveAt(s, i) = a \o b
  BY DEF RemoveAt, a, b
<1> QED BY <1>4, <1>5, <1>6

(* The log stays sound and complete, and only the records of that segment  *)
(* are gone.                                                               *)
LEMMA RemovedEffect ==
    ASSUME NEW s \in Seq(SegmentType), Sound(s), NEW i \in 1..(Len(s) - 1)
    PROVE  LET t == RemoveAt(s, i) IN
           /\ t \in Seq(SegmentType) /\ Sound(t)
           /\ Whole(s) => Whole(t)
           /\ Records(t) \subseteq Records(s)
           /\ \A r \in Records(s) :
                 r \in Records(t) \/ \E k \in DOMAIN s[i].records : r = s[i].records[k]
<1> DEFINE t == RemoveAt(s, i)
           n == Len(s)
           from(k) == IF k < i THEN k ELSE k + 1
<1>1. /\ n \in Nat /\ DOMAIN s = 1..n /\ i \in 1..(n - 1)
      /\ t \in Seq(SegmentType) /\ Len(t) = n - 1 /\ DOMAIN t = 1..(n - 1)
      /\ \A k \in 1..(n - 1) : t[k] = IF k < i THEN s[k] ELSE s[k + 1]
  BY RemovedPlaces, LenProperties
<1> HIDE DEF t, n
<1>2. \A k \in DOMAIN t : from(k) \in DOMAIN s /\ t[k] = s[from(k)]
  BY <1>1
<1>3. \A k, l \in DOMAIN t : k < l => from(k) < from(l)
  BY <1>1
<1>4. \A k \in DOMAIN t : from(k) = n <=> k = n - 1
  BY <1>1
<1>5. \A j \in DOMAIN s : j # i => \E k \in DOMAIN t : t[k] = s[j]
  <2> SUFFICES ASSUME NEW j \in DOMAIN s, j # i
               PROVE  \E k \in DOMAIN t : t[k] = s[j]
    OBVIOUS
  <2>1. CASE j < i
    BY <2>1, <1>1
  <2>2. CASE ~(j < i)
    <3>1. j - 1 \in DOMAIN t /\ ~(j - 1 < i) /\ (j - 1) + 1 = j
      BY <2>2, <1>1
    <3> QED BY <3>1, <1>1
  <2> QED BY <2>1, <2>2
<1> HIDE DEF from
<1>6. Increasing(t)
  <2> SUFFICES ASSUME NEW x \in DOMAIN t, NEW y \in DOMAIN t,
                      NEW k \in DOMAIN t[x].records, NEW l \in DOMAIN t[y].records,
                      x < y \/ (x = y /\ k < l)
               PROVE  t[x].records[k].seq < t[y].records[l].seq
    BY DEF Increasing
  <2>1. /\ from(x) \in DOMAIN s /\ t[x] = s[from(x)]
        /\ from(y) \in DOMAIN s /\ t[y] = s[from(y)]
        /\ from(x) < from(y) \/ (from(x) = from(y) /\ k < l)
    BY <1>2, <1>3
  <2>2. Increasing(s)
    BY DEF Sound
  <2> QED BY <2>1, <2>2 DEF Increasing
<1>7. Sound(t)
  BY <1>1, <1>2, <1>4, <1>6 DEF Sound, n
<1>8. Whole(s) => Whole(t)
  <2>1. t # <<>>
    BY <1>1
  <2> QED BY <2>1, <1>2, Zenon DEF Whole
<1>9. ASSUME NEW r \in Records(t) PROVE r \in Records(s)
  <2>1. PICK k \in DOMAIN t : \E l \in DOMAIN t[k].records : r = t[k].records[l]
    BY InRecords
  <2>2. from(k) \in DOMAIN s /\ \E l \in DOMAIN s[from(k)].records : r = s[from(k)].records[l]
    BY <2>1, <1>2
  <2> QED BY <2>2, InRecords
<1>10. ASSUME NEW r \in Records(s)
       PROVE  r \in Records(t) \/ \E k \in DOMAIN s[i].records : r = s[i].records[k]
  <2>1. PICK j \in DOMAIN s : \E l \in DOMAIN s[j].records : r = s[j].records[l]
    BY InRecords
  <2>2. CASE j = i
    BY <2>1, <2>2
  <2>3. CASE j # i
    <3>1. PICK k \in DOMAIN t : t[k] = s[j]
      BY <2>3, <1>5
    <3>2. \E l \in DOMAIN t[k].records : r = t[k].records[l]
      BY <2>1, <3>1
    <3> QED BY <3>1, <3>2, InRecords
  <2> QED BY <2>2, <2>3
<1> QED BY <1>1, <1>7, <1>8, <1>9, <1>10 DEF t

-----------------------------------------------------------------------------
(* The invariant, action by action.                                        *)

(* An empty directory.                                                     *)
LEMMA InitWal == Init => WalInvariant
<1> SUFFICES ASSUME Init PROVE WalInvariant
  OBVIOUS
<1> USE DEF Init, Down, Idle, Waiting
<1>1. Typed
  <2>1. MaxEvents \in Nat /\ MaxFaults \in Nat
    BY WalAssumption
  <2>2. segments \in Seq(SegmentType) /\ queue \in Seq(CommandType)
    OBVIOUS
  <2>3. wal \in [phase : {"down", "up", "refused"}, next : Nat, durable : Nat, acked : Nat,
                 failed : BOOLEAN]
    OBVIOUS
  <2>4. writer \in [taken : Nat, written : Nat]
    OBVIOUS
  <2>5. sink \in [pc : {"read", "ingest", "ack", "reclaim", "stopped", "failed"},
                  batch : SUBSET RecordType, last : Nat]
    OBVIOUS
  <2>6. /\ checkpoint \in 0..appended /\ appended \in 0..MaxEvents /\ faults \in 0..MaxFaults
    BY <2>1
  <2>7. /\ promised \in SUBSET (1..appended) /\ ingested \in SUBSET (1..appended)
        /\ renumbered \in BOOLEAN
    OBVIOUS
  <2> QED BY <2>2, <2>3, <2>4, <2>5, <2>6, <2>7 DEF Typed
<1>2. DOMAIN segments = {}
  OBVIOUS
<1>3. \A r : r \notin Records(segments)
  BY <1>2, InRecords
<1>4. Disk
  <2>1. Increasing(segments)
    BY <1>2 DEF Increasing
  <2> QED BY <1>2, <1>3, <2>1 DEF Disk, Sound
<1>5. Memory
  BY DEF Memory, Working
<1>6. Batch
  BY DEF Batch
<1>7. RefusedOnlyHeaderless /\ PromisedKept
  BY DEF RefusedOnlyHeaderless, PromisedKept
<1> QED BY <1>1, <1>4, <1>5, <1>6, <1>7 DEF WalInvariant

(* A step that changes no variable.                                        *)
LEMMA StutterWal == ASSUME WalInvariant, UNCHANGED vars PROVE WalInvariant'
<1> USE DEF WalInvariant, vars
<1>1. Typed' /\ Disk'
  BY DEF Typed, Disk
<1>2. Memory'
  BY DEF Memory, Working, AtWork, OnDisk
<1>3. Batch'
  BY DEF Batch, Working
<1>4. RefusedOnlyHeaderless' /\ PromisedKept'
  BY DEF RefusedOnlyHeaderless, PromisedKept
<1> QED BY <1>1, <1>2, <1>3, <1>4

(* An event takes the next number and queues behind the others.            *)
LEMMA AppendWal ==
    ASSUME WalInvariant, NEW durable \in BOOLEAN, AppendEvent(durable) PROVE WalInvariant'
<1> DEFINE c == [seq |-> wal.next + 1, event |-> appended + 1, durable |-> durable]
<1>1. /\ Typed /\ Disk /\ Memory /\ Batch /\ RefusedOnlyHeaderless /\ PromisedKept
      /\ Working /\ AtWork
  BY DEF WalInvariant, AppendEvent, Memory, Working
<1>2. /\ queue' = Append(queue, c) /\ appended' = appended + 1 /\ appended < MaxEvents
      /\ wal' = [wal EXCEPT !.next = @ + 1]
      /\ UNCHANGED <<segments, checkpoint, writer, sink, promised, ingested, renumbered, faults>>
  BY DEF AppendEvent
<1>3. /\ MaxEvents \in Nat /\ appended \in Nat /\ wal.next \in Nat /\ wal.durable \in Nat
      /\ queue \in Seq(CommandType) /\ c \in CommandType
      /\ c.seq = wal.next + 1 /\ c.event = appended + 1
      /\ writer.taken \in Nat /\ writer.written \in Nat
  <2>1. /\ appended \in Nat /\ wal.next \in Nat /\ wal.durable \in Nat
        /\ queue \in Seq(CommandType) /\ writer.taken \in Nat /\ writer.written \in Nat
    BY <1>1 DEF Typed
  <2>2. c \in CommandType /\ c.seq = wal.next + 1 /\ c.event = appended + 1
    BY <2>1 DEF CommandType
  <2>3. MaxEvents \in Nat
    BY WalAssumption
  <2> QED BY <2>1, <2>2, <2>3
<1> HIDE DEF c
<1>4. /\ wal'.phase = wal.phase /\ wal'.durable = wal.durable /\ wal'.acked = wal.acked
      /\ wal'.failed = wal.failed /\ wal'.next = wal.next + 1
  BY <1>1, <1>2 DEF Typed
<1>5. /\ queue' \in Seq(CommandType) /\ Len(queue') = Len(queue) + 1
      /\ DOMAIN queue' = 1..(Len(queue) + 1) /\ DOMAIN queue = 1..Len(queue)
      /\ Len(queue) \in Nat
      /\ queue'[Len(queue) + 1] = c
      /\ \A k \in 1..Len(queue) : queue'[k] = queue[k]
  BY <1>2, <1>3, AppendProperties, LenProperties
<1>6. Typed'
  <2>0. /\ checkpoint \in 0..appended
        /\ promised \in SUBSET (1..appended) /\ ingested \in SUBSET (1..appended)
    BY <1>1 DEF Typed
  <2>1. checkpoint' \in 0..appended' /\ appended' \in 0..MaxEvents
    BY <2>0, <1>2, <1>3
  <2>2. promised' \in SUBSET (1..appended') /\ ingested' \in SUBSET (1..appended')
    <3>1. 1..appended \subseteq 1..appended'
      BY <1>2, <1>3
    <3> QED BY <2>0, <3>1, <1>2
  <2>3. wal' \in [phase : {"down", "up", "refused"}, next : Nat, durable : Nat, acked : Nat,
                  failed : BOOLEAN]
    <3>1. wal \in [phase : {"down", "up", "refused"}, next : Nat, durable : Nat, acked : Nat,
                   failed : BOOLEAN]
      BY <1>1 DEF Typed
    <3>2. wal.next + 1 \in Nat /\ wal' = [wal EXCEPT !.next = wal.next + 1]
      BY <1>2, <1>3
    <3> QED BY <3>1, <3>2
  <2> QED BY <1>1, <1>2, <1>5, <2>1, <2>2, <2>3 DEF Typed
<1>7. Disk'
  BY <1>1, <1>2, <1>3 DEF Disk
<1>8. AtWork'
  <2>0. wal.next = wal.durable + Len(queue)
    BY <1>1 DEF AtWork
  <2>1. Whole(segments') /\ wal'.next = wal'.durable + Len(queue')
    <3>1. Whole(segments')
      BY <1>1, <1>2 DEF AtWork
    <3>2. Len(queue') = Len(queue) + 1 /\ Len(queue) \in Nat
      BY <1>5
    <3>3. wal'.next = wal.next + 1 /\ wal'.durable = wal.durable
          /\ wal.next \in Nat /\ wal.durable \in Nat
      BY <1>3, <1>4
    <3> QED BY <2>0, <3>1, <3>2, <3>3
  <2>2. \A k \in DOMAIN queue' :
           queue'[k].seq = wal'.durable + k /\ queue'[k].event \in 1..appended'
    <3> SUFFICES ASSUME NEW k \in DOMAIN queue'
                 PROVE  queue'[k].seq = wal'.durable + k /\ queue'[k].event \in 1..appended'
      OBVIOUS
    <3>1. CASE k \in 1..Len(queue)
      <4>1. queue[k].seq = wal.durable + k /\ queue[k].event \in 1..appended
        BY <3>1, <1>1, <1>5 DEF AtWork
      <4>2. queue'[k] = queue[k] /\ wal'.durable = wal.durable
        BY <3>1, <1>4, <1>5
      <4>3. 1..appended \subseteq 1..appended'
        BY <1>2, <1>3
      <4> QED BY <4>1, <4>2, <4>3
    <3>2. CASE k = Len(queue) + 1
      <4>1. queue'[k] = c /\ c.seq = wal.next + 1 /\ c.event = appended + 1
        BY <3>2, <1>3, <1>5
      <4>2. /\ appended' = appended + 1 /\ appended \in Nat /\ wal'.durable = wal.durable
            /\ wal.durable \in Nat /\ Len(queue) \in Nat
        BY <1>2, <1>3, <1>4, <1>5
      <4> QED BY <3>2, <4>1, <4>2, <2>0
    <3> QED BY <3>1, <3>2, <1>5
  <2>3. /\ writer'.written <= writer'.taken /\ writer'.taken <= Len(queue')
        /\ \A r \in Records(segments') : r.seq <= wal'.durable + writer'.written
    BY <1>1, <1>2, <1>3, <1>4, <1>5 DEF AtWork
  <2>4. ASSUME NEW k \in 1..writer'.written
        PROVE  [seq |-> queue'[k].seq, event |-> queue'[k].event] \in Records(segments')
    <3>1. k \in 1..Len(queue) /\ k \in 1..writer.written
      BY <1>1, <1>2, <1>3, <1>5 DEF AtWork
    <3> QED BY <3>1, <1>1, <1>2, <1>5 DEF AtWork, OnDisk
  <2> QED BY <2>1, <2>2, <2>3, <2>4 DEF AtWork, OnDisk
<1>9. Memory'
  BY <1>1, <1>2, <1>3, <1>4, <1>8 DEF Memory, Working
<1>10. Batch'
  BY <1>1, <1>2, <1>3, <1>4 DEF Batch, Working
<1>11. RefusedOnlyHeaderless' /\ PromisedKept'
  BY <1>1, <1>2, <1>4 DEF RefusedOnlyHeaderless, PromisedKept, Working
<1> QED BY <1>6, <1>7, <1>9, <1>10, <1>11 DEF WalInvariant

(* The writer takes a batch.                                               *)
LEMMA TakeWal ==
    ASSUME WalInvariant, NEW n \in 1..BatchSize, TakeBatch(n) PROVE WalInvariant'
<1>1. /\ Typed /\ Disk /\ Memory /\ Batch /\ RefusedOnlyHeaderless /\ PromisedKept
      /\ Working /\ AtWork
  BY DEF WalInvariant, TakeBatch, Memory, Working
<1>2. /\ n <= Len(queue) /\ writer = Waiting /\ sink.pc # "reclaim"
      /\ writer' = [taken |-> n, written |-> 0]
      /\ UNCHANGED <<segments, checkpoint, wal, queue, sink, appended, promised, ingested,
                     renumbered, faults>>
  BY DEF TakeBatch, Unlocked
<1>3. n \in Nat /\ writer'.taken = n /\ writer'.written = 0 /\ writer.written = 0
  BY <1>2 DEF Waiting
<1>4. Typed'
  BY <1>1, <1>2, <1>3 DEF Typed
<1>5. Disk'
  BY <1>1, <1>2 DEF Disk
<1>6. AtWork'
  <2>1. \A k : k \notin 1..writer'.written
    BY <1>3
  <2> QED BY <1>1, <1>2, <1>3, <2>1 DEF AtWork
<1>7. Memory'
  BY <1>1, <1>2, <1>6 DEF Memory, Working
<1>8. Batch'
  BY <1>1, <1>2 DEF Batch, Working
<1>9. RefusedOnlyHeaderless' /\ PromisedKept'
  BY <1>1, <1>2 DEF RefusedOnlyHeaderless, PromisedKept
<1> QED BY <1>4, <1>5, <1>7, <1>8, <1>9 DEF WalInvariant

(* One more record of the batch is on disk.                                *)
LEMMA WriteWal == ASSUME WalInvariant, WriteRecord PROVE WalInvariant'
<1> DEFINE n == writer.written + 1
           c == queue[n]
           r == [seq |-> c.seq, event |-> c.event]
<1>1. Typed /\ Disk /\ Memory /\ Batch /\ RefusedOnlyHeaderless /\ PromisedKept
  BY DEF WalInvariant
<1>2. /\ writer.written < writer.taken
      /\ segments' = Written(segments, c)
      /\ writer' = [writer EXCEPT !.written = @ + 1]
      /\ UNCHANGED <<checkpoint, wal, queue, sink, appended, promised, ingested, renumbered,
                     faults>>
  BY DEF WriteRecord
<1>3. writer \in [taken : Nat, written : Nat] /\ writer.taken \in Nat /\ writer.written \in Nat
  BY <1>1 DEF Typed
<1>4. writer # Waiting
  BY <1>2, <1>3 DEF Waiting
<1>5. Working /\ AtWork /\ sink.pc # "reclaim"
  BY <1>1, <1>4 DEF Memory, Batch
<1>6. /\ writer' \in [taken : Nat, written : Nat]
      /\ writer'.taken = writer.taken /\ writer'.written = n
  BY <1>2, <1>3
<1>7. /\ segments \in Seq(SegmentType) /\ queue \in Seq(CommandType)
      /\ wal.durable \in Nat /\ wal.next \in Nat /\ appended \in Nat
      /\ DOMAIN queue = 1..Len(queue) /\ Len(queue) \in Nat
  BY <1>1, LenProperties DEF Typed
<1>8. writer.taken <= Len(queue) /\ wal.next = wal.durable + Len(queue) /\ wal.next <= appended
  BY <1>1, <1>5 DEF AtWork, Memory
<1>9. n \in 1..Len(queue) /\ n \in Nat
  BY <1>2, <1>3, <1>7, <1>8
<1>10. c \in CommandType /\ c.seq = wal.durable + n /\ c.event \in 1..appended
  BY <1>5, <1>7, <1>9, ElementOfSeq DEF AtWork
<1>11. \A q \in Records(segments) : q.seq <= wal.durable + writer.written /\ q.seq \in Nat
  BY <1>5, <1>7, RecordsTyped DEF AtWork
<1>12. \A q \in Records(segments) : q.seq < c.seq
  BY <1>3, <1>7, <1>10, <1>11
<1>13. Whole(segments) /\ Sound(segments)
  BY <1>1, <1>5 DEF AtWork, Disk
<1>14. /\ segments' \in Seq(SegmentType) /\ Whole(segments') /\ Sound(segments')
       /\ Records(segments') = Records(segments) \cup {r}
  BY <1>2, <1>7, <1>10, <1>12, <1>13, WrittenEffect
<1>15. r.seq = wal.durable + n /\ r.event \in 1..appended
  BY <1>10
<1> HIDE DEF r, c
<1>16. Typed'
  BY <1>1, <1>2, <1>6, <1>14 DEF Typed
<1>17. Disk'
  <2>1. r.seq \in 1..appended
    BY <1>7, <1>8, <1>9, <1>15
  <2> QED BY <1>1, <1>2, <1>14, <1>15, <2>1 DEF Disk
<1>18. AtWork'
  <2>1. \A q \in Records(segments') : q.seq <= wal'.durable + writer'.written
    <3>1. wal'.durable + writer'.written = wal.durable + n
      BY <1>2, <1>6
    <3>2. \A q \in Records(segments) : q.seq <= wal.durable + n
      BY <1>3, <1>7, <1>11
    <3>3. r.seq <= wal.durable + n
      BY <1>7, <1>9, <1>15
    <3> HIDE DEF n
    <3> QED BY <3>1, <3>2, <3>3, <1>14
  <2>2. ASSUME NEW k \in 1..writer'.written
        PROVE  [seq |-> queue'[k].seq, event |-> queue'[k].event] \in Records(segments')
    <3>1. CASE k \in 1..writer.written
      BY <3>1, <1>2, <1>5, <1>14 DEF AtWork, OnDisk
    <3>2. CASE k = n
      BY <3>2, <1>2, <1>14 DEF r, c
    <3> QED BY <3>1, <3>2, <1>3, <1>6
  <2>3. writer'.written <= writer'.taken
    BY <1>2, <1>3, <1>6
  <2> QED BY <1>2, <1>5, <1>6, <1>14, <2>1, <2>2, <2>3 DEF AtWork, OnDisk
<1>19. Memory'
  BY <1>1, <1>2, <1>5, <1>18 DEF Memory, Working
<1>20. Batch'
  <2>1. ASSUME sink.pc \in {"ingest", "ack"}
        PROVE  \A q \in Records(segments') :
                  q.seq > checkpoint /\ q.seq <= sink.last => q \in sink.batch
    <3>1. sink.last <= wal.durable /\ sink.last \in Nat
      BY <1>1, <1>5, <2>1 DEF Batch, Typed
    <3>2. ~(r.seq <= sink.last)
      BY <3>1, <1>7, <1>9, <1>15
    <3> QED BY <1>1, <1>14, <2>1, <3>2 DEF Batch
  <2> QED BY <1>1, <1>2, <1>5, <2>1 DEF Batch, Working
<1>21. PromisedKept'
  BY <1>1, <1>2, <1>14 DEF PromisedKept
<1>22. RefusedOnlyHeaderless'
  BY <1>2, <1>5 DEF RefusedOnlyHeaderless, Working
<1> QED BY <1>16, <1>17, <1>19, <1>20, <1>21, <1>22 DEF WalInvariant

(* The queue without its first m commands.                                 *)
LEMMA Dropped ==
    ASSUME NEW q \in Seq(CommandType), NEW m \in 0..Len(q)
    PROVE  /\ SubSeq(q, m + 1, Len(q)) \in Seq(CommandType)
           /\ Len(SubSeq(q, m + 1, Len(q))) = Len(q) - m
           /\ \A k \in 1..(Len(q) - m) : SubSeq(q, m + 1, Len(q))[k] = q[m + k]
<1>1. Len(q) \in Nat
  BY LenProperties
<1>2. \A k \in (m + 1)..Len(q) : q[k] \in CommandType
  <2> SUFFICES ASSUME NEW k \in (m + 1)..Len(q) PROVE k \in 1..Len(q)
    BY ElementOfSeq
  <2> QED BY <1>1
<1>3. /\ SubSeq(q, m + 1, Len(q)) \in Seq(CommandType)
      /\ Len(SubSeq(q, m + 1, Len(q))) = IF m + 1 <= Len(q) THEN Len(q) - (m + 1) + 1 ELSE 0
      /\ \A k \in 1..(Len(q) - (m + 1) + 1) :
            SubSeq(q, m + 1, Len(q))[k] = q[(m + 1) + k - 1]
  BY <1>1, <1>2, SubSeqProperties
<1>4. Len(q) - (m + 1) + 1 = Len(q) - m
  BY <1>1
<1>5. \A k \in 1..(Len(q) - m) : (m + 1) + k - 1 = m + k
  BY <1>1
<1>6. Len(SubSeq(q, m + 1, Len(q))) = Len(q) - m
  <2>1. (IF m + 1 <= Len(q) THEN Len(q) - (m + 1) + 1 ELSE 0) = Len(q) - m
    BY <1>1
  <2> QED BY <2>1, <1>3
<1>7. \A k \in 1..(Len(q) - m) : SubSeq(q, m + 1, Len(q))[k] = q[m + k]
  <2>1. \A k \in 1..(Len(q) - m) : SubSeq(q, m + 1, Len(q))[k] = q[(m + 1) + k - 1]
    BY <1>3, <1>4
  <2> QED BY <2>1, <1>5
<1> QED BY <1>3, <1>6, <1>7

(* The batch is durable: what is confirmed is on disk, above the           *)
(* checkpoint.                                                             *)
LEMMA SyncWal == ASSUME WalInvariant, SyncBatch PROVE WalInvariant'
<1> DEFINE m == writer.taken
           batch == SubSeq(queue, 1, m)
<1>1. Typed /\ Disk /\ Memory /\ Batch /\ RefusedOnlyHeaderless /\ PromisedKept
  BY DEF WalInvariant
<1>2. /\ m > 0 /\ writer.written = m
      /\ wal' = [wal EXCEPT !.durable = queue[m].seq]
      /\ promised' = promised \cup {d.event : d \in {d \in ToSet(batch) : d.durable}}
      /\ queue' = SubSeq(queue, m + 1, Len(queue))
      /\ writer' = Waiting
      /\ UNCHANGED <<segments, checkpoint, sink, appended, ingested, renumbered, faults>>
  BY DEF SyncBatch
<1>3. m \in Nat /\ m # 0
  BY <1>1, <1>2 DEF Typed
<1>4. writer # Waiting
  BY <1>2, <1>3 DEF Waiting
<1>5. Working /\ AtWork /\ sink.pc # "reclaim"
  BY <1>1, <1>4 DEF Memory, Batch
<1>6. /\ queue \in Seq(CommandType) /\ DOMAIN queue = 1..Len(queue) /\ Len(queue) \in Nat
      /\ wal.durable \in Nat /\ wal.next \in Nat /\ appended \in Nat /\ checkpoint \in Nat
      /\ segments \in Seq(SegmentType)
  BY <1>1, LenProperties DEF Typed
<1>7. m <= Len(queue) /\ wal.next = wal.durable + Len(queue) /\ wal.next <= appended
  BY <1>1, <1>5 DEF AtWork, Memory
<1>8. m \in 1..Len(queue) /\ m \in 0..Len(queue) /\ queue[m].seq = wal.durable + m
  <2>1. m \in 1..Len(queue) /\ m \in 0..Len(queue)
    BY <1>3, <1>6, <1>7
  <2> QED BY <2>1, <1>5, <1>6 DEF AtWork
<1>9. /\ wal'.durable = wal.durable + m /\ wal'.next = wal.next /\ wal'.phase = wal.phase
      /\ wal'.acked = wal.acked /\ wal'.failed = wal.failed
      /\ wal' \in [phase : {"down", "up", "refused"}, next : Nat, durable : Nat, acked : Nat,
                   failed : BOOLEAN]
  <2>1. wal \in [phase : {"down", "up", "refused"}, next : Nat, durable : Nat, acked : Nat,
                 failed : BOOLEAN]
    BY <1>1 DEF Typed
  <2>2. wal.durable + m \in Nat
    BY <1>3, <1>6
  <2> QED BY <1>2, <1>8, <2>1, <2>2
<1>10. /\ queue' \in Seq(CommandType) /\ Len(queue') = Len(queue) - m
       /\ DOMAIN queue' = 1..(Len(queue) - m)
       /\ \A k \in 1..(Len(queue) - m) : queue'[k] = queue[m + k]
  <2>1. /\ queue' \in Seq(CommandType) /\ Len(queue') = Len(queue) - m
        /\ \A k \in 1..(Len(queue) - m) : queue'[k] = queue[m + k]
    BY <1>2, <1>6, <1>8, Dropped
  <2>2. DOMAIN queue' = 1..Len(queue')
    BY <2>1, LenProperties
  <2> QED BY <2>1, <2>2
<1>11. \A e \in promised' : e \in promised \/ \E k \in 1..m : e = queue[k].event
  <2>1. \A k \in 1..m : k \in 1..Len(queue)
    BY <1>3, <1>6, <1>7
  <2>2. \A k \in 1..m : queue[k] \in CommandType
    BY <2>1, <1>6, ElementOfSeq
  <2>3. /\ batch \in Seq(CommandType) /\ Len(batch) = m
        /\ \A k \in 1..m : batch[k] = queue[k]
    <3>1. /\ batch \in Seq(CommandType)
          /\ Len(batch) = IF 1 <= m THEN m - 1 + 1 ELSE 0
          /\ \A k \in 1..(m - 1 + 1) : batch[k] = queue[1 + k - 1]
      BY <1>3, <2>2, SubSeqProperties
    <3>2. m - 1 + 1 = m /\ 1 <= m /\ \A k \in 1..m : 1 + k - 1 = k
      BY <1>3
    <3> QED BY <3>1, <3>2
  <2>4. DOMAIN batch = 1..m
    BY <2>3, LenProperties
  <2> HIDE DEF batch, m
  <2> QED BY <1>2, <2>3, <2>4 DEF ToSet
<1>12. ASSUME NEW k \in 1..m
       PROVE  /\ queue[k].seq = wal.durable + k /\ queue[k].event \in 1..appended
              /\ [seq |-> queue[k].seq, event |-> queue[k].event] \in Records(segments)
  <2>1. k \in 1..Len(queue)
    BY <1>3, <1>6, <1>7
  <2> QED BY <2>1, <1>2, <1>5, <1>6 DEF AtWork, OnDisk
<1> HIDE DEF m
<1>13. Typed'
  <2>1. writer' \in [taken : Nat, written : Nat]
    BY <1>2 DEF Waiting
  <2>2. promised' \in SUBSET (1..appended')
    <3>1. \A e \in promised : e \in 1..appended
      BY <1>1 DEF Typed
    <3>2. \A e \in promised' : e \in 1..appended
      BY <1>11, <1>12, <3>1, Zenon
    <3>3. appended' = appended
      BY <1>2
    <3> QED BY <3>2, <3>3
  <2> QED BY <1>1, <1>2, <1>9, <1>10, <2>1, <2>2 DEF Typed
<1>14. Disk'
  BY <1>1, <1>2 DEF Disk
<1>15. AtWork'
  <2>1. Whole(segments') /\ wal'.next = wal'.durable + Len(queue')
    <3>1. Whole(segments')
      BY <1>2, <1>5 DEF AtWork
    <3>2. Len(queue') = Len(queue) - m
      BY <1>10
    <3> QED BY <3>1, <3>2, <1>3, <1>6, <1>7, <1>9
  <2>2. ASSUME NEW k \in DOMAIN queue'
        PROVE  queue'[k].seq = wal'.durable + k /\ queue'[k].event \in 1..appended'
    <3>1. m + k \in 1..Len(queue) /\ queue'[k] = queue[m + k] /\ k \in Int
      BY <1>3, <1>6, <1>7, <1>10
    <3>2. queue[m + k].seq = wal.durable + (m + k) /\ queue[m + k].event \in 1..appended
      BY <3>1, <1>5, <1>6 DEF AtWork
    <3>3. wal.durable + (m + k) = wal.durable + m + k
      BY <3>1, <1>3, <1>6
    <3> QED BY <3>1, <3>2, <3>3, <1>2, <1>9
  <2>3. writer'.written = 0 /\ writer'.taken = 0
    BY <1>2 DEF Waiting
  <2>4. 0 <= Len(queue')
    BY <1>10, LenProperties
  <2>5. \A q \in Records(segments') : q.seq <= wal'.durable + writer'.written
    BY <1>2, <1>3, <1>5, <1>6, <1>9, <2>3 DEF AtWork
  <2>6. \A k : k \notin 1..writer'.written
    BY <2>3
  <2> QED BY <2>1, <2>2, <2>3, <2>4, <2>5, <2>6 DEF AtWork
<1>16. wal'.durable <= wal'.next /\ wal.durable <= wal'.durable
  BY <1>3, <1>6, <1>7, <1>9
<1>17. Memory'
  <2>1. Working' /\ wal'.next <= appended'
    BY <1>2, <1>5, <1>7, <1>9 DEF Working
  <2>2. /\ sink.pc # "failed" => wal.acked = checkpoint
        /\ ~renumbered => checkpoint <= wal.durable
    BY <1>1, <1>5 DEF Memory, Working
  <2>3. wal'.durable \in Nat
    BY <1>9
  <2>4. ~renumbered => checkpoint <= wal'.durable
    BY <2>2, <2>3, <1>6, <1>16
  <2> QED BY <1>2, <1>9, <1>15, <1>16, <2>1, <2>2, <2>4 DEF Memory, Working
<1>18. Batch'
  <2>1. sink.last \in Nat /\ wal'.durable \in Nat
    BY <1>1, <1>9 DEF Typed
  <2>2. sink.pc \in {"ingest", "ack"} => sink.last <= wal'.durable
    <3>1. sink.pc \in {"ingest", "ack"} => sink.last <= wal.durable
      BY <1>1, <1>5 DEF Batch
    <3> QED BY <3>1, <2>1, <1>6, <1>16
  <2> QED BY <1>1, <1>2, <1>5, <2>2 DEF Batch
<1>19. PromisedKept'
  <2> SUFFICES ASSUME ~renumbered, NEW e \in promised'
               PROVE  \/ e \in ingested
                      \/ \E r \in Records(segments) : r.event = e /\ r.seq > checkpoint
    BY <1>2 DEF PromisedKept
  <2>1. CASE e \in promised
    BY <1>1, <2>1 DEF PromisedKept
  <2>2. CASE \E k \in 1..m : e = queue[k].event
    <3>1. PICK k \in 1..m : e = queue[k].event
      BY <2>2
    <3> DEFINE r == [seq |-> queue[k].seq, event |-> queue[k].event]
    <3>2. r \in Records(segments) /\ r.event = e /\ r.seq = wal.durable + k
      BY <3>1, <1>12
    <3>3. checkpoint <= wal.durable
      BY <1>1, <1>5 DEF Memory, Working
    <3> HIDE DEF r
    <3>4. r.seq > checkpoint
      BY <3>2, <3>3, <1>3, <1>6
    <3> QED BY <3>2, <3>4
  <2> QED BY <2>1, <2>2, <1>11
<1>20. RefusedOnlyHeaderless'
  BY <1>5, <1>9 DEF RefusedOnlyHeaderless, Working
<1> QED BY <1>13, <1>14, <1>17, <1>18, <1>19, <1>20 DEF WalInvariant

(* The types of the memory and the sink as they are set.                   *)
LEMMA MemoryTyped ==
    /\ Down \in [phase : {"down", "up", "refused"}, next : Nat, durable : Nat, acked : Nat,
                 failed : BOOLEAN]
    /\ Down.phase = "down" /\ Down.next = 0 /\ Down.durable = 0
    /\ Waiting \in [taken : Nat, written : Nat]
    /\ Waiting.taken = 0 /\ Waiting.written = 0
    /\ Idle \in [pc : {"read", "ingest", "ack", "reclaim", "stopped", "failed"},
                 batch : SUBSET RecordType, last : Nat]
    /\ Idle.pc = "read"
BY DEF Down, Waiting, Idle

(* What an interruption leaves, from any state of the invariant.           *)
LEMMA InterruptedKeeps ==
    ASSUME WalInvariant, segments' \in Interrupted
    PROVE  /\ segments' \in Seq(SegmentType) /\ Sound(segments')
           /\ Records(segments') = Records(segments)
<1>1. /\ segments \in Seq(SegmentType) /\ Sound(segments)
      /\ writer \in [taken : Nat, written : Nat]
  BY DEF WalInvariant, Typed, Disk
<1>2. writer.written <= writer.taken /\ (writer.written < writer.taken => Whole(segments))
  <2>1. CASE Working
    BY <2>1 DEF WalInvariant, Memory, AtWork
  <2>2. CASE ~Working
    <3>1. writer = Waiting
      BY <2>2 DEF WalInvariant, Memory
    <3> QED BY <3>1, MemoryTyped
  <2> QED BY <2>1, <2>2
<1> QED BY <1>1, <1>2, InterruptedEffect

(* A failed write ends the writer; the records stay.                       *)
LEMMA FailWal == ASSUME WalInvariant, WriteFails PROVE WalInvariant'
<1>1. Typed /\ Disk /\ Memory /\ Batch /\ RefusedOnlyHeaderless /\ PromisedKept
  BY DEF WalInvariant
<1>2. /\ faults < MaxFaults /\ writer.taken > 0
      /\ wal' = [wal EXCEPT !.failed = TRUE]
      /\ queue' = <<>> /\ writer' = Waiting /\ faults' = faults + 1
      /\ UNCHANGED <<checkpoint, sink, appended, promised, ingested, renumbered>>
      /\ segments' \in Interrupted
  BY DEF WriteFails
<1>3. /\ segments' \in Seq(SegmentType) /\ Sound(segments')
      /\ Records(segments') = Records(segments)
  BY <1>2, InterruptedKeeps
<1>4. Working
  <2>1. writer # Waiting
    BY <1>2, MemoryTyped
  <2> QED BY <2>1, <1>1 DEF Memory
<1>5. /\ wal' \in [phase : {"down", "up", "refused"}, next : Nat, durable : Nat, acked : Nat,
                   failed : BOOLEAN]
      /\ wal'.phase = "up" /\ wal'.failed = TRUE /\ wal'.next = wal.next
      /\ wal'.durable = wal.durable /\ wal'.acked = wal.acked
  <2>1. wal \in [phase : {"down", "up", "refused"}, next : Nat, durable : Nat, acked : Nat,
                 failed : BOOLEAN]
    BY <1>1 DEF Typed
  <2> QED BY <1>2, <1>4, <2>1 DEF Working
<1>6. Typed'
  <2>1. faults' \in 0..MaxFaults
    <3>1. MaxFaults \in Nat
      BY WalAssumption
    <3>2. faults \in 0..MaxFaults
      BY <1>1 DEF Typed
    <3> QED BY <1>2, <3>1, <3>2
  <2>2. queue' \in Seq(CommandType) /\ writer' \in [taken : Nat, written : Nat]
    BY <1>2, MemoryTyped
  <2> QED BY <1>1, <1>2, <1>3, <1>5, <2>1, <2>2 DEF Typed
<1>7. Disk'
  BY <1>1, <1>2, <1>3 DEF Disk
<1>8. Memory'
  BY <1>1, <1>2, <1>4, <1>5 DEF Memory, Working
<1>9. Batch'
  BY <1>1, <1>2, <1>3, <1>4, <1>5 DEF Batch, Working
<1>10. RefusedOnlyHeaderless'
  BY <1>5 DEF RefusedOnlyHeaderless
<1>11. PromisedKept'
  BY <1>1, <1>2, <1>3 DEF PromisedKept
<1> QED BY <1>6, <1>7, <1>8, <1>9, <1>10, <1>11 DEF WalInvariant

(* A directory that recovery accepts, cut and with a segment begun.        *)
LEMMA Recovered ==
    ASSUME WalInvariant, Recoverable,
           NEW g \in {Segment, [Segment EXCEPT !.header = FALSE]}
    PROVE  /\ Append(Truncated, g) \in Seq(SegmentType) /\ Sound(Append(Truncated, g))
           /\ Records(Append(Truncated, g)) = Records(segments)
           /\ g = Segment => Whole(Append(Truncated, g))
<1>1. segments \in Seq(SegmentType) /\ Sound(segments) /\ DOMAIN segments = 1..Len(segments)
  BY LenProperties DEF WalInvariant, Typed, Disk
<1>2. /\ Truncated \in Seq(SegmentType) /\ Len(Truncated) = Len(segments)
      /\ \A i \in 1..Len(segments) :
            /\ Truncated[i].records = segments[i].records
            /\ Truncated[i].header = segments[i].header
            /\ Truncated[i].torn = FALSE
      /\ Records(Truncated) = Records(segments)
      /\ Increasing(Truncated)
  BY <1>1, TruncatedEffect DEF Sound
<1>3. \A i \in 1..Len(Truncated) :
         Truncated[i].header /\ ~Truncated[i].torn /\ Len(Truncated[i].records) <= SegmentSize
  BY <1>1, <1>2 DEF Recoverable, Sound
<1>4. g \in SegmentType /\ g.records = <<>>
  BY NewSegments
<1>5. g = Segment => g.header /\ ~g.torn
  BY DEF Segment
<1> QED BY <1>2, <1>3, <1>4, <1>5, BegunSound

(* A kill takes the memory, the queue and the sink, never a record.        *)
LEMMA KillWal == ASSUME WalInvariant, Kill PROVE WalInvariant'
<1>1. Typed /\ Disk /\ Memory /\ Batch /\ RefusedOnlyHeaderless /\ PromisedKept
  BY DEF WalInvariant
<1>2. /\ faults < MaxFaults
      /\ wal' = Down /\ queue' = <<>> /\ writer' = Waiting /\ sink' = Idle
      /\ faults' = faults + 1
      /\ UNCHANGED <<checkpoint, appended, promised, ingested, renumbered>>
  BY DEF Kill
<1>3. /\ segments' \in Seq(SegmentType) /\ Sound(segments')
      /\ Records(segments') = Records(segments)
  <2>1. CASE segments' \in Interrupted
    BY <2>1, InterruptedKeeps
  <2>2. CASE Recoverable /\ segments' = Append(Truncated, [Segment EXCEPT !.header = FALSE])
    BY <2>2, Recovered
  <2> QED BY <2>1, <2>2 DEF Kill
<1>4. Typed'
  <2>1. faults' \in 0..MaxFaults
    <3>1. MaxFaults \in Nat
      BY WalAssumption
    <3>2. faults \in 0..MaxFaults
      BY <1>1 DEF Typed
    <3> QED BY <1>2, <3>1, <3>2
  <2>2. /\ wal' \in [phase : {"down", "up", "refused"}, next : Nat, durable : Nat, acked : Nat,
                     failed : BOOLEAN]
        /\ queue' \in Seq(CommandType) /\ writer' \in [taken : Nat, written : Nat]
        /\ sink' \in [pc : {"read", "ingest", "ack", "reclaim", "stopped", "failed"},
                      batch : SUBSET RecordType, last : Nat]
    BY <1>2, MemoryTyped
  <2> QED BY <1>1, <1>2, <1>3, <2>1, <2>2 DEF Typed
<1>5. Disk'
  BY <1>1, <1>2, <1>3 DEF Disk
<1>6. Memory'
  <2>1. appended \in Nat
    BY <1>1 DEF Typed
  <2> QED BY <1>2, <2>1, MemoryTyped DEF Memory, Working
<1>7. Batch'
  BY <1>2, MemoryTyped DEF Batch
<1>8. RefusedOnlyHeaderless'
  BY <1>2, MemoryTyped DEF RefusedOnlyHeaderless
<1>9. PromisedKept'
  BY <1>1, <1>2, <1>3 DEF PromisedKept
<1> QED BY <1>4, <1>5, <1>6, <1>7, <1>8, <1>9 DEF WalInvariant

(* Recovery goes on after the last record, or refuses a directory with a   *)
(* segment that has no header.                                             *)
LEMMA OpenWal == ASSUME WalInvariant, Open PROVE WalInvariant'
<1>1. Typed /\ Disk /\ Memory /\ Batch /\ RefusedOnlyHeaderless /\ PromisedKept
  BY DEF WalInvariant
<1>2. /\ wal.phase = "down"
      /\ UNCHANGED <<checkpoint, queue, writer, sink, appended, promised, ingested, faults>>
  BY DEF Open
<1>3. queue = <<>> /\ writer = Waiting /\ sink = Idle
  BY <1>1, <1>2 DEF Memory, Working
<1>4. appended \in Nat /\ checkpoint \in Nat
  BY <1>1 DEF Typed
<1>5. Batch'
  BY <1>2, <1>3, MemoryTyped DEF Batch
<1>6. CASE Recoverable /\ segments' = Append(Truncated, Segment)
           /\ \E last \in LastSequence(segments) :
                /\ wal' = [phase |-> "up", next |-> last, durable |-> last,
                           acked |-> checkpoint, failed |-> FALSE]
                /\ renumbered' = (renumbered \/ last < checkpoint)
  <2>1. /\ segments' \in Seq(SegmentType) /\ Sound(segments') /\ Whole(segments')
        /\ Records(segments') = Records(segments)
    BY <1>6, Recovered
  <2>2. PICK last \in LastSequence(segments) :
           /\ wal' = [phase |-> "up", next |-> last, durable |-> last,
                      acked |-> checkpoint, failed |-> FALSE]
           /\ renumbered' = (renumbered \/ last < checkpoint)
    BY <1>6
  <2>3. last \in Nat /\ last <= appended /\ \A r \in Records(segments) : r.seq <= last
    BY <1>1, <1>4 DEF LastSequence, Disk
  <2>4. /\ wal' \in [phase : {"down", "up", "refused"}, next : Nat, durable : Nat, acked : Nat,
                     failed : BOOLEAN]
        /\ wal'.phase = "up" /\ wal'.next = last /\ wal'.durable = last
        /\ wal'.acked = checkpoint /\ wal'.failed = FALSE
    BY <2>2, <2>3, <1>4
  <2>5. renumbered' \in BOOLEAN
    BY <2>2
  <2>6. Typed'
    BY <1>1, <1>2, <2>1, <2>4, <2>5 DEF Typed
  <2>7. Disk'
    BY <1>1, <1>2, <2>1 DEF Disk
  <2>8. AtWork'
    <3>1. /\ queue' = <<>> /\ Len(queue') = 0 /\ DOMAIN queue' = {}
          /\ writer'.taken = 0 /\ writer'.written = 0
      BY <1>2, <1>3, MemoryTyped
    <3>2. wal'.next = wal'.durable + Len(queue')
      BY <3>1, <2>3, <2>4
    <3>3. \A r \in Records(segments') : r.seq <= wal'.durable + writer'.written
      BY <3>1, <2>1, <2>3, <2>4
    <3>4. writer'.written <= writer'.taken /\ writer'.taken <= Len(queue')
      BY <3>1
    <3>5. \A k : k \notin 1..writer'.written
      BY <3>1
    <3> QED BY <2>1, <3>1, <3>2, <3>3, <3>4, <3>5 DEF AtWork
  <2>9. Memory'
    <3>1. ~renumbered' => checkpoint <= last
      <4>1. ~renumbered' => ~(last < checkpoint)
        BY <2>2, Zenon
      <4>2. ~(last < checkpoint) => checkpoint <= last
        BY <2>3, <1>4
      <4> QED BY <4>1, <4>2, Zenon
    <3>2. Working'
      BY <2>4 DEF Working
    <3>3. wal'.durable <= wal'.next /\ wal'.next <= appended'
      BY <1>2, <2>3, <2>4
    <3> QED BY <1>2, <2>4, <2>8, <3>1, <3>2, <3>3 DEF Memory
  <2>10. RefusedOnlyHeaderless'
    BY <2>4 DEF RefusedOnlyHeaderless
  <2>11. PromisedKept'
    BY <1>1, <1>2, <2>1, <2>2 DEF PromisedKept
  <2> QED BY <1>5, <2>6, <2>7, <2>9, <2>10, <2>11 DEF WalInvariant
<1>7. CASE ~Recoverable /\ wal' = [wal EXCEPT !.phase = "refused"]
           /\ UNCHANGED <<segments, renumbered>>
  <2>1. /\ wal' \in [phase : {"down", "up", "refused"}, next : Nat, durable : Nat, acked : Nat,
                     failed : BOOLEAN]
        /\ wal'.phase = "refused" /\ wal'.next = wal.next /\ wal'.durable = wal.durable
    <3>1. wal \in [phase : {"down", "up", "refused"}, next : Nat, durable : Nat, acked : Nat,
                   failed : BOOLEAN]
      BY <1>1 DEF Typed
    <3> QED BY <1>7, <3>1
  <2>2. Typed'
    BY <1>1, <1>2, <1>7, <2>1 DEF Typed
  <2>3. Disk'
    BY <1>1, <1>2, <1>7 DEF Disk
  <2>4. Memory'
    BY <1>1, <1>2, <1>3, <2>1 DEF Memory, Working
  <2>5. RefusedOnlyHeaderless'
    <3>1. \E i \in DOMAIN segments : ~segments[i].header
      BY <1>1, <1>7, Zenon DEF Recoverable, Disk, Sound
    <3> QED BY <3>1, <1>7 DEF RefusedOnlyHeaderless
  <2>6. PromisedKept'
    BY <1>1, <1>2, <1>7 DEF PromisedKept
  <2> QED BY <1>5, <2>2, <2>3, <2>4, <2>5, <2>6 DEF WalInvariant
<1> QED BY <1>6, <1>7 DEF Open

(* The sink reads all there is from the checkpoint to some durable record. *)
LEMMA ReadWal == ASSUME WalInvariant, SinkRead PROVE WalInvariant'
<1>1. Typed /\ Disk /\ Memory /\ Batch /\ RefusedOnlyHeaderless /\ PromisedKept
  BY DEF WalInvariant
<1>2. /\ wal.phase = "up" /\ writer = Waiting /\ sink.pc = "read"
      /\ UNCHANGED <<segments, checkpoint, wal, queue, writer, appended, promised, ingested,
                     renumbered, faults>>
  BY DEF SinkRead, Unlocked
<1>3. segments \in Seq(SegmentType)
  BY <1>1 DEF Typed
<1>4. Disk'
  BY <1>1, <1>2 DEF Disk
<1>5. Memory'
  BY <1>1, <1>2 DEF Memory, Working, AtWork, OnDisk
<1>6. RefusedOnlyHeaderless' /\ PromisedKept'
  BY <1>1, <1>2 DEF RefusedOnlyHeaderless, PromisedKept
<1>7. CASE \E last \in Unacknowledged :
              sink' = [pc |-> "ingest", batch |-> {r \in Unacknowledged : r.seq <= last.seq},
                       last |-> last.seq]
  <2>1. PICK last \in Unacknowledged :
           sink' = [pc |-> "ingest", batch |-> {r \in Unacknowledged : r.seq <= last.seq},
                    last |-> last.seq]
    BY <1>7
  <2> DEFINE batch == {r \in Unacknowledged : r.seq <= last.seq}
  <2>2. /\ Unacknowledged \subseteq Records(segments) /\ last \in Records(segments)
        /\ \A r \in Records(segments) : r.seq > wal.acked => r \in Unacknowledged
    BY <2>1 DEF Unacknowledged
  <2>3. batch \in SUBSET RecordType /\ last.seq \in Nat
    BY <2>2, <1>3, RecordsTyped
  <2>4. /\ sink'.pc = "ingest" /\ sink'.batch = batch /\ sink'.last = last.seq
        /\ sink' \in [pc : {"read", "ingest", "ack", "reclaim", "stopped", "failed"},
                      batch : SUBSET RecordType, last : Nat]
    BY <2>1, <2>3
  <2>5. Typed'
    BY <1>1, <1>2, <2>4 DEF Typed
  <2>6. Batch'
    <3>1. Working => last.seq <= wal.durable
      <4>1. wal.durable \in Nat /\ writer.written = 0
        BY <1>1, <1>2, MemoryTyped DEF Typed
      <4> QED BY <4>1, <1>1, <2>2 DEF Memory, AtWork
    <3>2. \A r \in batch : r.event \in 1..appended
      BY <1>1, <2>2 DEF Disk
    <3>3. wal.acked = checkpoint
      BY <1>1, <1>2 DEF Memory
    <3>4. \A r \in Records(segments) : r.seq > checkpoint /\ r.seq <= last.seq => r \in batch
      BY <2>2, <3>3
    <3> HIDE DEF batch
    <3> QED BY <1>2, <2>4, <3>1, <3>2, <3>4 DEF Batch, Working
  <2> QED BY <1>4, <1>5, <1>6, <2>5, <2>6 DEF WalInvariant
<1>8. CASE sink' = [Idle EXCEPT !.pc = "stopped"]
  <2>1. /\ sink'.pc = "stopped"
        /\ sink' \in [pc : {"read", "ingest", "ack", "reclaim", "stopped", "failed"},
                      batch : SUBSET RecordType, last : Nat]
    BY <1>8, MemoryTyped
  <2>2. Typed'
    BY <1>1, <1>2, <2>1 DEF Typed
  <2>3. Batch'
    BY <2>1 DEF Batch
  <2> QED BY <1>4, <1>5, <1>6, <2>2, <2>3 DEF WalInvariant
<1> QED BY <1>7, <1>8 DEF SinkRead

(* The batch is in the database.                                           *)
LEMMA IngestWal == ASSUME WalInvariant, SinkIngest PROVE WalInvariant'
<1>1. Typed /\ Disk /\ Memory /\ Batch /\ RefusedOnlyHeaderless /\ PromisedKept
  BY DEF WalInvariant
<1>2. /\ sink.pc = "ingest"
      /\ ingested' = ingested \cup {r.event : r \in sink.batch}
      /\ sink' = [sink EXCEPT !.pc = "ack"]
      /\ UNCHANGED <<segments, checkpoint, wal, queue, writer, appended, promised, renumbered,
                     faults>>
  BY DEF SinkIngest
<1>3. /\ sink'.pc = "ack" /\ sink'.batch = sink.batch /\ sink'.last = sink.last
      /\ sink' \in [pc : {"read", "ingest", "ack", "reclaim", "stopped", "failed"},
                    batch : SUBSET RecordType, last : Nat]
  <2>1. sink \in [pc : {"read", "ingest", "ack", "reclaim", "stopped", "failed"},
                  batch : SUBSET RecordType, last : Nat]
    BY <1>1 DEF Typed
  <2> QED BY <1>2, <2>1
<1>4. wal.phase = "up"
  BY <1>1, <1>2, MemoryTyped DEF Memory
<1>5. \A r \in sink.batch : r.event \in 1..appended
  BY <1>1, <1>2 DEF Batch
<1>6. Typed'
  <2>1. ingested' \in SUBSET (1..appended')
    BY <1>1, <1>2, <1>5 DEF Typed
  <2> QED BY <1>1, <1>2, <1>3, <2>1 DEF Typed
<1>7. Disk'
  BY <1>1, <1>2 DEF Disk
<1>8. Memory'
  BY <1>1, <1>2, <1>4 DEF Memory, Working, AtWork, OnDisk
<1>9. Batch'
  <2>1. \A r \in sink.batch : r.event \in ingested'
    BY <1>2
  <2> QED BY <1>1, <1>2, <1>3, <2>1 DEF Batch, Working
<1>10. RefusedOnlyHeaderless'
  BY <1>1, <1>2 DEF RefusedOnlyHeaderless
<1>11. PromisedKept'
  <2>1. \A e \in ingested : e \in ingested'
    BY <1>2
  <2> QED BY <1>1, <1>2, <2>1 DEF PromisedKept
<1> QED BY <1>6, <1>7, <1>8, <1>9, <1>10, <1>11 DEF WalInvariant

(* The checkpoint moves over records that are all in the database.         *)
LEMMA AckWal == ASSUME WalInvariant, SinkAck PROVE WalInvariant'
<1>1. Typed /\ Disk /\ Memory /\ Batch /\ RefusedOnlyHeaderless /\ PromisedKept
  BY DEF WalInvariant
<1>2. /\ sink.pc = "ack" /\ writer = Waiting
      /\ UNCHANGED <<segments, queue, writer, appended, promised, ingested, renumbered, faults>>
  BY DEF SinkAck, Unlocked
<1>3. wal.phase = "up"
  BY <1>1, <1>2, MemoryTyped DEF Memory
<1>4. Disk'
  BY <1>1, <1>2 DEF Disk
<1>5. CASE sink' = [Idle EXCEPT !.pc = "stopped"] /\ UNCHANGED <<checkpoint, wal>>
  <2>1. /\ sink'.pc = "stopped"
        /\ sink' \in [pc : {"read", "ingest", "ack", "reclaim", "stopped", "failed"},
                      batch : SUBSET RecordType, last : Nat]
    BY <1>5, MemoryTyped
  <2>2. Typed'
    BY <1>1, <1>2, <1>5, <2>1 DEF Typed
  <2>3. Memory'
    BY <1>1, <1>2, <1>3, <1>5 DEF Memory, Working, AtWork, OnDisk
  <2>4. Batch'
    BY <2>1 DEF Batch
  <2>5. RefusedOnlyHeaderless' /\ PromisedKept'
    BY <1>1, <1>2, <1>5 DEF RefusedOnlyHeaderless, PromisedKept
  <2> QED BY <1>4, <2>2, <2>3, <2>4, <2>5 DEF WalInvariant
<1>6. CASE /\ ~(sink.last < wal.acked \/ sink.last > wal.durable)
           /\ checkpoint' = sink.last
           /\ wal' = [wal EXCEPT !.acked = sink.last]
           /\ sink' = [sink EXCEPT !.pc = "reclaim"]
  <2>1. /\ wal \in [phase : {"down", "up", "refused"}, next : Nat, durable : Nat, acked : Nat,
                    failed : BOOLEAN]
        /\ sink \in [pc : {"read", "ingest", "ack", "reclaim", "stopped", "failed"},
                     batch : SUBSET RecordType, last : Nat]
        /\ appended \in Nat /\ checkpoint \in Nat
    BY <1>1 DEF Typed
  <2>2. /\ wal' \in [phase : {"down", "up", "refused"}, next : Nat, durable : Nat, acked : Nat,
                     failed : BOOLEAN]
        /\ wal'.phase = wal.phase /\ wal'.next = wal.next /\ wal'.durable = wal.durable
        /\ wal'.acked = sink.last /\ wal'.failed = wal.failed
    BY <1>6, <2>1
  <2>3. /\ sink'.pc = "reclaim"
        /\ sink' \in [pc : {"read", "ingest", "ack", "reclaim", "stopped", "failed"},
                      batch : SUBSET RecordType, last : Nat]
    BY <1>6, <2>1
  <2>4. sink.last <= wal.durable /\ sink.last \in Nat
    BY <1>6, <2>1
  <2>5. wal.durable <= wal.next /\ wal.next <= appended
    BY <1>1 DEF Memory
  <2>6. checkpoint' \in 0..appended
    BY <1>6, <2>1, <2>4, <2>5
  <2>7. Typed'
    BY <1>1, <1>2, <2>2, <2>3, <2>6 DEF Typed
  <2>8. Working => AtWork'
    BY <1>1, <1>2, <2>2 DEF Memory, AtWork, OnDisk
  <2>9. Memory'
    BY <1>1, <1>2, <1>3, <1>6, <2>2, <2>4, <2>8 DEF Memory, Working
  <2>10. Batch'
    BY <1>2, <2>3 DEF Batch
  <2>11. RefusedOnlyHeaderless'
    BY <1>3, <2>2 DEF RefusedOnlyHeaderless
  <2>12. PromisedKept'
    <3> SUFFICES ASSUME ~renumbered, NEW e \in promised, e \notin ingested
                 PROVE  \E r \in Records(segments) : r.event = e /\ r.seq > sink.last
      BY <1>2, <1>6 DEF PromisedKept
    <3>1. PICK r \in Records(segments) : r.event = e /\ r.seq > checkpoint
      BY <1>1 DEF PromisedKept
    <3>2. ~(r.seq <= sink.last)
      BY <1>1, <1>2, <3>1 DEF Batch
    <3>3. r.seq \in Nat
      BY <1>1, <3>1, RecordsTyped DEF Typed
    <3> QED BY <3>1, <3>2, <3>3, <2>4
  <2> QED BY <1>4, <2>7, <2>9, <2>10, <2>11, <2>12 DEF WalInvariant
<1> QED BY <1>5, <1>6 DEF SinkAck

(* A segment that goes has no record above the checkpoint.                 *)
LEMMA ReclaimWal == ASSUME WalInvariant, SinkReclaim PROVE WalInvariant'
<1>1. Typed /\ Disk /\ Memory /\ Batch /\ RefusedOnlyHeaderless /\ PromisedKept
  BY DEF WalInvariant
<1>2. /\ sink.pc = "reclaim"
      /\ UNCHANGED <<checkpoint, wal, queue, writer, appended, promised, ingested, renumbered,
                     faults>>
  BY DEF SinkReclaim
<1>3. wal.phase = "up" /\ writer = Waiting
  BY <1>1, <1>2, MemoryTyped DEF Memory, Batch
<1>4. CASE sink' = Idle /\ UNCHANGED segments
  <2>1. Typed'
    BY <1>1, <1>2, <1>4, MemoryTyped DEF Typed
  <2>2. Disk'
    BY <1>1, <1>2, <1>4 DEF Disk
  <2>3. Memory'
    BY <1>1, <1>2, <1>3, <1>4 DEF Memory, Working, AtWork, OnDisk
  <2>4. Batch'
    BY <1>4, MemoryTyped DEF Batch
  <2>5. RefusedOnlyHeaderless' /\ PromisedKept'
    BY <1>1, <1>2, <1>4 DEF RefusedOnlyHeaderless, PromisedKept
  <2> QED BY <2>1, <2>2, <2>3, <2>4, <2>5 DEF WalInvariant
<1>5. CASE (\E i \in Reclaimable : segments' = RemoveAt(segments, i)) /\ UNCHANGED sink
  <2>1. PICK i \in Reclaimable : segments' = RemoveAt(segments, i)
    BY <1>5
  <2>2. segments \in Seq(SegmentType) /\ Sound(segments) /\ Len(segments) \in Nat
    BY <1>1, LenProperties DEF Typed, Disk
  <2>3. /\ i \in 1..(Len(segments) - 1) /\ segments[i].records # <<>>
        /\ segments[i].records[Len(segments[i].records)].seq <= wal.acked
    BY <2>1 DEF Reclaimable, Last
  <2>4. /\ segments' \in Seq(SegmentType) /\ Sound(segments')
        /\ Whole(segments) => Whole(segments')
        /\ Records(segments') \subseteq Records(segments)
        /\ \A r \in Records(segments) :
              \/ r \in Records(segments')
              \/ \E k \in DOMAIN segments[i].records : r = segments[i].records[k]
    BY <2>1, <2>2, <2>3, RemovedEffect
  <2>5. Typed'
    BY <1>1, <1>2, <1>5, <2>4 DEF Typed
  <2>6. Disk'
    BY <1>1, <1>2, <2>4 DEF Disk
  <2>7. Memory'
    <3>1. writer.written = 0
      BY <1>3, MemoryTyped
    <3>2. \A k : k \notin 1..writer.written
      BY <3>1
    <3>3. Working => AtWork'
      BY <1>1, <1>2, <2>4, <3>2 DEF Memory, AtWork
    <3> QED BY <1>1, <1>2, <1>3, <3>3 DEF Memory, Working
  <2>8. Batch'
    BY <1>2, <1>3, <1>5 DEF Batch
  <2>9. RefusedOnlyHeaderless'
    BY <1>2, <1>3 DEF RefusedOnlyHeaderless
  <2>10. ASSUME NEW k \in DOMAIN segments[i].records
         PROVE  ~(segments[i].records[k].seq > checkpoint)
    <3> DEFINE n == Len(segments[i].records)
    <3>1. i \in 1..Len(segments)
      BY <2>2, <2>3
    <3>2. /\ i \in DOMAIN segments /\ n \in Nat /\ DOMAIN segments[i].records = 1..n
          /\ \A l \in 1..n : segments[i].records[l].seq \in Nat
      BY <2>2, <3>1, SegmentPlaces DEF RecordType
    <3>3. n \in 1..n /\ k \in 1..n
      BY <3>2
    <3>4. segments[i].records[k].seq <= segments[i].records[n].seq
      <4>1. CASE k = n
        BY <4>1, <3>2, <3>3
      <4>2. CASE k < n
        <5>1. Increasing(segments)
          BY <2>2 DEF Sound
        <5>2. segments[i].records[k].seq < segments[i].records[n].seq
          BY <4>2, <5>1, <3>2, <3>3 DEF Increasing
        <5> QED BY <5>2, <3>2, <3>3
      <4> QED BY <4>1, <4>2, <3>2, <3>3
    <3>5. wal.acked = checkpoint /\ checkpoint \in Nat
      BY <1>1, <1>2, <1>3 DEF Memory, Typed
    <3> QED BY <2>3, <3>2, <3>3, <3>4, <3>5
  <2>11. PromisedKept'
    <3> SUFFICES ASSUME ~renumbered, NEW e \in promised, e \notin ingested
                 PROVE  \E r \in Records(segments') : r.event = e /\ r.seq > checkpoint
      BY <1>2 DEF PromisedKept
    <3>1. PICK r \in Records(segments) : r.event = e /\ r.seq > checkpoint
      BY <1>1 DEF PromisedKept
    <3>2. r \in Records(segments')
      BY <2>4, <2>10, <3>1
    <3> QED BY <3>1, <3>2
  <2> QED BY <2>5, <2>6, <2>7, <2>8, <2>9, <2>11 DEF WalInvariant
<1> QED BY <1>4, <1>5 DEF SinkReclaim

(* A sink that fails leaves the log as it was; the checkpoint may have     *)
(* moved, over records that are all in the database.                       *)
LEMMA SinkFailsWal == ASSUME WalInvariant, SinkFails PROVE WalInvariant'
<1>1. Typed /\ Disk /\ Memory /\ Batch /\ RefusedOnlyHeaderless /\ PromisedKept
  BY DEF WalInvariant
<1>2. /\ faults < MaxFaults /\ faults' = faults + 1 /\ wal.phase = "up"
      /\ sink' = [Idle EXCEPT !.pc = "failed"]
      /\ UNCHANGED <<segments, wal, queue, writer, appended, promised, ingested, renumbered>>
  BY DEF SinkFails
<1>3. /\ sink'.pc = "failed"
      /\ sink' \in [pc : {"read", "ingest", "ack", "reclaim", "stopped", "failed"},
                    batch : SUBSET RecordType, last : Nat]
  BY <1>2, MemoryTyped
<1>4. \/ checkpoint' = checkpoint
      \/ sink.pc = "ack" /\ sink.last <= wal.durable /\ checkpoint' = sink.last
  BY DEF SinkFails
<1>5. /\ wal.durable \in Nat /\ wal.next \in Nat /\ appended \in Nat /\ sink.last \in Nat
      /\ checkpoint \in 0..appended
      /\ wal.durable <= wal.next /\ wal.next <= appended
  BY <1>1 DEF Typed, Memory
<1>6. checkpoint' \in 0..appended
  BY <1>4, <1>5
<1>7. faults' \in 0..MaxFaults
  BY <1>1, <1>2, WalAssumption DEF Typed
<1>8. Typed'
  BY <1>1, <1>2, <1>3, <1>6, <1>7 DEF Typed
<1>9. Disk'
  BY <1>1, <1>2 DEF Disk
<1>10. Memory'
  <2>1. Working => AtWork'
    BY <1>1, <1>2 DEF Memory, AtWork, OnDisk
  <2>2. ~renumbered => checkpoint' <= wal.durable
    BY <1>1, <1>2, <1>4 DEF Memory
  <2> QED BY <1>1, <1>2, <1>3, <2>1, <2>2 DEF Memory, Working
<1>11. Batch'
  BY <1>3 DEF Batch
<1>12. RefusedOnlyHeaderless'
  BY <1>2 DEF RefusedOnlyHeaderless
<1>13. PromisedKept'
  <2> SUFFICES ASSUME ~renumbered, NEW e \in promised, e \notin ingested
               PROVE  \E r \in Records(segments) : r.event = e /\ r.seq > checkpoint'
    BY <1>2 DEF PromisedKept
  <2>1. PICK r \in Records(segments) : r.event = e /\ r.seq > checkpoint
    BY <1>1 DEF PromisedKept
  <2>2. CASE checkpoint' = checkpoint
    BY <2>1, <2>2
  <2>3. CASE sink.pc = "ack" /\ checkpoint' = sink.last
    <3>1. ~(r.seq <= sink.last)
      BY <1>1, <2>1, <2>3 DEF Batch
    <3>2. r.seq \in Nat
      BY <1>1, <2>1, RecordsTyped DEF Typed
    <3> QED BY <1>5, <2>1, <2>3, <3>1, <3>2
  <2> QED BY <1>4, <2>2, <2>3
<1> QED BY <1>8, <1>9, <1>10, <1>11, <1>12, <1>13 DEF WalInvariant

-----------------------------------------------------------------------------
(* The theorems.                                                           *)

(* The invariant holds throughout.                                         *)
LEMMA WalInvariantHolds == Spec => []WalInvariant
<1>1. Init => WalInvariant
  BY InitWal
<1>2. WalInvariant /\ [Next]_vars => WalInvariant'
  <2> SUFFICES ASSUME WalInvariant, [Next]_vars PROVE WalInvariant'
    OBVIOUS
  <2>1. CASE Open
    BY <2>1, OpenWal
  <2>2. CASE \E durable \in BOOLEAN : AppendEvent(durable)
    BY <2>2, AppendWal
  <2>3. CASE \E n \in 1..BatchSize : TakeBatch(n)
    BY <2>3, TakeWal
  <2>4. CASE WriteRecord
    BY <2>4, WriteWal
  <2>5. CASE SyncBatch
    BY <2>5, SyncWal
  <2>6. CASE WriteFails
    BY <2>6, FailWal
  <2>7. CASE Kill
    BY <2>7, KillWal
  <2>8. CASE SinkRead
    BY <2>8, ReadWal
  <2>9. CASE SinkIngest
    BY <2>9, IngestWal
  <2>10. CASE SinkAck
    BY <2>10, AckWal
  <2>11. CASE SinkReclaim
    BY <2>11, ReclaimWal
  <2>12. CASE SinkFails
    BY <2>12, SinkFailsWal
  <2>13. CASE UNCHANGED vars
    BY <2>13, StutterWal
  <2> QED BY <2>1, <2>2, <2>3, <2>4, <2>5, <2>6, <2>7, <2>8, <2>9, <2>10, <2>11, <2>12,
             <2>13
          DEF Next, Write, Sink
<1> QED BY <1>1, <1>2, PTL DEF Spec

(* The log, the memory and the sink keep their types: no segment outgrows  *)
(* max_segment_bytes, every record bears a number and an event that were   *)
(* handed out, and nothing is durable that was not numbered (audit/wal.rs, *)
(* append_batch and open).                                                 *)
THEOREM WalTypesHold == Spec => []WalTypeOK
<1>1. WalInvariant => WalTypeOK
  <2> SUFFICES ASSUME WalInvariant PROVE WalTypeOK
    OBVIOUS
  <2>1. /\ segments \in Seq(SegmentType) /\ DOMAIN segments = 1..Len(segments)
        /\ appended \in 0..MaxEvents /\ MaxEvents \in Nat
    BY LenProperties, WalAssumption DEF WalInvariant, Typed
  <2>2. ASSUME NEW i \in DOMAIN segments
        PROVE  /\ segments[i].header \in BOOLEAN /\ segments[i].torn \in BOOLEAN
               /\ Len(segments[i].records) <= SegmentSize
    BY <2>1, SegmentPlaces DEF WalInvariant, Disk, Sound, SegmentType
  <2>3. ASSUME NEW i \in DOMAIN segments, NEW r \in ToSet(segments[i].records)
        PROVE  r.seq \in 1..MaxEvents /\ r.event \in 1..appended
    <3>1. r \in Records(segments)
      BY DEF Records
    <3>2. r.seq \in 1..appended /\ r.event \in 1..appended
      BY <3>1 DEF WalInvariant, Disk
    <3> QED BY <2>1, <3>2
  <2>4. checkpoint \in 0..MaxEvents
    BY <2>1 DEF WalInvariant, Typed
  <2>5. wal.phase \in {"down", "up", "refused"} /\ wal.durable <= wal.next
    BY DEF WalInvariant, Typed, Memory
  <2>6. /\ sink.pc \in {"read", "ingest", "ack", "reclaim", "stopped", "failed"}
        /\ promised \subseteq 1..appended /\ ingested \subseteq 1..appended
        /\ faults \in 0..MaxFaults
    BY DEF WalInvariant, Typed
  <2> QED BY <2>2, <2>3, <2>4, <2>5, <2>6 DEF WalTypeOK
<1> QED BY <1>1, WalInvariantHolds, PTL

(* An event whose durable append was confirmed is in the audit database or *)
(* on disk above the checkpoint, whatever is killed, fails, rotates or is  *)
(* reclaimed, until the numbering begins again below the checkpoint        *)
(* (audit/wal.rs, acknowledge and reclaim_segments).                       *)
THEOREM PromisesAreKept == Spec => []PromisedKept
<1>1. WalInvariant => PromisedKept
  BY DEF WalInvariant
<1> QED BY <1>1, WalInvariantHolds, PTL

(* recover() refuses a directory for a segment without its header and for  *)
(* nothing else: no kill, failed write or removed segment leaves numbers   *)
(* out of order or a partial record before the newest segment.             *)
THEOREM RefusalIsHeaderless == Spec => []RefusedOnlyHeaderless
<1>1. WalInvariant => RefusedOnlyHeaderless
  BY DEF WalInvariant
<1> QED BY <1>1, WalInvariantHolds, PTL
=============================================================================
