--------------------------- MODULE RecorderProofs ---------------------------
(***************************************************************************)
(* What the run of Recorder checks with a queue of two blocks, proved for  *)
(* every number of receivers and every size of queue and segment: types,   *)
(* the handshake of GTK thread and writer, the files, and that the         *)
(* recorder implements RecordingLog.                                       *)
(***************************************************************************)
EXTENDS Recorder, SequenceTheorems, TLAPS

-----------------------------------------------------------------------------
(* The inductive invariant *)

\* The GTK thread and the writer thread: while a recording is on the GTK thread
\* is not joining, a join waits for a thread that was told to leave, and a
\* thread that has left has emptied the queue.
Handshake ==
    /\ rec_writer =>
          gtk = "free" /\ rec_writer_run /\ rec_rx # NULL /\ writer \in {"take", "write"}
    /\ ~rec_writer => ~rec_writer_run /\ rec_rx = NULL
    /\ gtk = "free" /\ ~rec_writer => writer = "none"
    /\ gtk # "free" => ~rec_writer /\ writer # "none"
    /\ block # NULL <=> writer = "write"
    /\ writer \in {"none", "exit"} => rec_q = << >>

\* An open file is the newest segment of its stream and bytes is what was asked of
\* it; its header is the placeholder.
OpenFiles ==
    \A s \in Stream : path[s] # NULL =>
        /\ path[s] = NameOf(s, seg[s])
        /\ path[s] \in DOMAIN disk
        /\ bytes[s] = Len(disk[path[s]].asked)
        /\ disk[path[s]].real = 0 /\ disk[path[s]].hdr = NULL

\* A stream has a file for as long as it has not been given up.
GivenUp ==
    /\ \A s \in Stream : lost[s] # "no" => path[s] = NULL
    /\ writer \in {"take", "write"} => \A s \in Stream : lost[s] = "no" => path[s] # NULL
    /\ writer \in {"none", "exit"} => \A s \in Stream : path[s] = NULL

\* The queue is the end of the log, and the block in the writer's hands is the
\* one before it.
QueueIsTail ==
    /\ \A i \in 1..Len(log) : log[i].n = i
    /\ Settled \in Nat
    /\ \A i \in 1..Len(rec_q) : rec_q[i] = log[Len(log) - Len(rec_q) + i]
    /\ block # NULL => block = log[Settled + 1]

IInv ==
    /\ TypeOK
    /\ Handshake
    /\ OpenFiles
    /\ GivenUp
    /\ FilesArePlayable
    /\ ButtonTellsRecording
    /\ QueueIsTail

-----------------------------------------------------------------------------
(* Files *)

Disk(d) == DOMAIN d \subseteq Name /\ d \in [DOMAIN d -> File]

\* Opening a file adds it, empty, and leaves the others.
LEMMA OpenedFile ==
    ASSUME NEW d, Disk(d), NEW n \in Name
    PROVE  /\ Disk(Opened(d, n))
           /\ DOMAIN Opened(d, n) = DOMAIN d \cup {n}
           /\ Opened(d, n)[n] = Empty
           /\ \A m \in DOMAIN d : m # n => Opened(d, n)[m] = d[m]
<1>1. Empty \in File
  BY DEF Empty, File
<1> QED
  BY <1>1 DEF Opened, Disk

\* Closing one finds out how much of it landed, and touches nothing else.
LEMMA ClosedFile ==
    ASSUME NEW d, Disk(d), NEW n \in DOMAIN d \cup {NULL}, NEW c \in Closings(d, n)
    PROVE  /\ Disk(c)
           /\ DOMAIN c = DOMAIN d
           /\ \A m \in DOMAIN d : c[m].asked = d[m].asked
           /\ \A m \in DOMAIN d : m # n => c[m] = d[m]
           /\ n # NULL /\ d[n].real = 0 /\ d[n].hdr = NULL =>
                 Playable(c[n]) /\ c[n].real \in 0..Len(d[n].asked)
<1>1. CASE n = NULL
  <2>1. c = d
    BY <1>1 DEF Closings
  <2> QED
    BY <1>1, <2>1
<1>2. CASE n # NULL
  <2>1. n \in DOMAIN d /\ d[n] \in File
    BY <1>2 DEF Disk
  <2>2. PICK f \in Leavings(d[n]) : c = [d EXCEPT ![n] = f]
    BY <1>2 DEF Closings
  <2>3. Len(d[n].asked) \in Nat
    BY <2>1 DEF File
  <2>4. /\ f \in File /\ f.asked = d[n].asked
        /\ d[n].real = 0 /\ d[n].hdr = NULL => Playable(f) /\ f.real \in 0..Len(d[n].asked)
    <3>1. CASE f = d[n]
      BY <2>1, <2>3, <3>1 DEF Playable
    <3>2. ASSUME NEW k \in 0..Len(d[n].asked), f = [d[n] EXCEPT !.real = k, !.hdr = k]
          PROVE  f \in File /\ f.asked = d[n].asked /\ f.real = k /\ f.hdr = k
      <4>1. f = [asked |-> d[n].asked, real |-> k, hdr |-> k]
        BY <2>1, <3>2 DEF File
      <4>2. d[n].asked \in Seq(Block) /\ k \in Nat
        BY <2>1, <2>3 DEF File
      <4> QED
        BY <4>1, <4>2 DEF File
    <3> QED
      BY <2>2, <3>1, <3>2 DEF Leavings, Playable
  <2> QED
    BY <1>2, <2>1, <2>2, <2>4 DEF Disk
<1> QED
  BY <1>1, <1>2

\* The files of a start are empty and disagree with no header.
LEMMA FirstFilesOpen ==
    ASSUME NEW S \in SUBSET Stream
    PROVE  /\ Disk(FirstFiles(S))
           /\ DOMAIN FirstFiles(S) = {NameOf(s, 1) : s \in S}
           /\ \A n \in DOMAIN FirstFiles(S) : FirstFiles(S)[n] = Empty
<1>1. Empty \in File
  BY DEF Empty, File
<1>2. \A s \in S : NameOf(s, 1) \in Name
  BY DEF NameOf, Name
<1> QED
  BY <1>1, <1>2 DEF FirstFiles, Disk

\* The two streams never write one file.
LEMMA DistinctPaths ==
    ASSUME OpenFiles, NEW s \in Stream, NEW t \in Stream, s # t, path[s] # NULL
    PROVE  path[s] # path[t]
<1>1. path[s] = NameOf(s, seg[s])
  BY DEF OpenFiles
<1>2. CASE path[t] = NULL
  BY <1>2
<1>3. CASE path[t] # NULL
  <2>1. path[t] = NameOf(t, seg[t])
    BY <1>3 DEF OpenFiles
  <2> QED
    BY <1>1, <2>1 DEF NameOf
<1> QED
  BY <1>2, <1>3

-----------------------------------------------------------------------------
(* The steps *)

\* Every step is one of these.
LEMMA Steps ==
    ASSUME TypeOK, [Next]_vars
    PROVE  \/ \E rx \in alive, want \in SUBSET Stream : 
                 Start(rx, want) /\ gtk = "free" /\ UNCHANGED <<alive, tap>>
           \/ \E want \in SUBSET Stream : \E opened \in SUBSET want :
                 StartFails(want, opened) /\ gtk = "free" /\ UNCHANGED <<alive, tap>>
           \/ \E c \in {"toggle", "idle", "delete"} :
                 /\ StopBegin(c) /\ gtk = "free"
                 /\ tap' = tap /\ alive' \in SUBSET alive /\ stops' \in {stops, stops - 1}
                 /\ stops' \in Nat
           \/ StopJoin
           \/ \E rx \in Rx : TapTaken(rx)
           \/ WriterTakes \/ WriterLeaves \/ WriteSkipped \/ WriteDone \/ WriteFails
           \/ RollSegment \/ RollFails
           \/ /\ UNCHANGED <<gtk, shared, files, writer, block>>
              /\ label' = label \/ (label' = Synced(rec_rx) /\ ~rec_writer)
              /\ alive' \in SUBSET alive /\ stops' \in Nat
              /\ tap' \in [Rx -> Stream \cup {NULL}]
<1> USE DEF ui, shared, files, vars
<1>1. CASE Toggle
  <2>1. CASE rec_rx # NULL /\ StopBegin("toggle") /\ UNCHANGED stops
    BY <1>1, <2>1 DEF Toggle, TypeOK
  <2>2. CASE \E rx \in alive, want \in SUBSET Stream : Start(rx, want)
    BY <1>1, <2>2 DEF Toggle
  <2>3. CASE \E want \in SUBSET Stream : \E opened \in SUBSET want : StartFails(want, opened)
    BY <1>1, <2>3 DEF Toggle
  <2> QED
    BY <1>1, <2>1, <2>2, <2>3 DEF Toggle
<1>2. CASE StopIdle
  <2>1. stops' = stops - 1 /\ stops' \in Nat
    BY <1>2 DEF StopIdle, TypeOK
  <2>2. CASE StopBegin("idle")
    BY <1>2, <2>1, <2>2 DEF StopIdle
  <2>3. CASE ~StopBegin("idle")
    BY <1>2, <2>1, <2>3 DEF StopIdle, TypeOK
  <2> QED
    BY <2>2, <2>3
<1>3. CASE Delete
  <2>1. PICK rx \in alive : DeleteRecorded(rx) \/ DeleteOther(rx)
    BY <1>3 DEF Delete
  <2>2. CASE DeleteRecorded(rx)
    BY <2>2 DEF DeleteRecorded, TypeOK
  <2>3. CASE DeleteOther(rx)
    BY <2>3 DEF DeleteOther, TypeOK
  <2> QED
    BY <2>1, <2>2, <2>3
<1>4. CASE TapStep
  <2>1. CASE \E rx \in Rx : TapRefused(rx)
    BY <2>1 DEF TapRefused, TypeOK
  <2>2. CASE \E rx \in Rx : \E s \in Stream : TapCheck(rx, s)
    BY <2>2 DEF TapCheck, TypeOK
  <2> QED
    BY <1>4, <2>1, <2>2 DEF TapStep
<1>5. CASE UNCHANGED vars
  BY <1>5 DEF TypeOK
<1> QED
  BY <1>1, <1>2, <1>3, <1>4, <1>5 DEF Next, GtkStep, WriterStep

\* Who waits for whom.
LEMMA HandshakeStep ==
    ASSUME TypeOK, Handshake, [Next]_vars
    PROVE  Handshake'
<1> USE RecorderConstants DEF Handshake, ui, shared, files, Freed
<1>1. CASE \E rx \in alive, want \in SUBSET Stream :
                     Start(rx, want) /\ gtk = "free" /\ UNCHANGED <<alive, tap>>
  BY <1>1 DEF Start, TypeOK
<1>2. CASE \E want \in SUBSET Stream : \E opened \in SUBSET want :
                     StartFails(want, opened) /\ gtk = "free" /\ UNCHANGED <<alive, tap>>
  BY <1>2 DEF StartFails
<1>3. CASE \E c \in {"toggle", "idle", "delete"} :
                     /\ StopBegin(c) /\ gtk = "free"
                     /\ tap' = tap /\ alive' \in SUBSET alive /\ stops' \in {stops, stops - 1}
                     /\ stops' \in Nat
  BY <1>3 DEF StopBegin
<1>4. CASE StopJoin
  BY <1>4 DEF StopJoin
<1>5. CASE \E rx \in Rx : TapTaken(rx)
  BY <1>5 DEF TapTaken
<1>6. CASE WriterTakes
  BY <1>6 DEF WriterTakes, TypeOK
<1>7. CASE WriterLeaves
  BY <1>7 DEF WriterLeaves
<1>8. CASE WriteSkipped
  BY <1>8 DEF WriteSkipped
<1>9. CASE WriteDone
  BY <1>9 DEF WriteDone
<1>10. CASE WriteFails
  BY <1>10 DEF WriteFails
<1>11. CASE RollSegment
  BY <1>11 DEF RollSegment
<1>12. CASE RollFails
  BY <1>12 DEF RollFails
<1>13. CASE /\ UNCHANGED <<gtk, shared, files, writer, block>>
            /\ label' = label \/ (label' = Synced(rec_rx) /\ ~rec_writer)
            /\ alive' \in SUBSET alive /\ stops' \in Nat
            /\ tap' \in [Rx -> Stream \cup {NULL}]
  BY <1>13
<1> QED
  BY <1>1, <1>2, <1>3, <1>4, <1>5, <1>6, <1>7, <1>8, <1>9, <1>10, <1>11, <1>12, <1>13, Steps

\* Types.
LEMMA TypeStep ==
    ASSUME TypeOK, Handshake, OpenFiles, [Next]_vars
    PROVE  TypeOK'
<1> USE RecorderConstants DEF TypeOK, ui, shared, files, Freed
<1>1. CASE \E rx \in alive, want \in SUBSET Stream :
                     Start(rx, want) /\ gtk = "free" /\ UNCHANGED <<alive, tap>>
  <2>1. PICK want \in SUBSET Stream :
           \E rx \in alive : Start(rx, want) /\ UNCHANGED <<alive, tap>>
    BY <1>1
  <2>2. Disk(disk')
    BY <2>1, FirstFilesOpen DEF Start
  <2>3. \A s \in Stream : NameOf(s, 1) \in Name
    BY DEF NameOf, Name
  <2> QED
    BY <2>1, <2>2, <2>3 DEF Start, Disk, Synced
<1>2. CASE \E want \in SUBSET Stream : \E opened \in SUBSET want :
                     StartFails(want, opened) /\ gtk = "free" /\ UNCHANGED <<alive, tap>>
  <2>1. PICK want \in SUBSET Stream, opened \in SUBSET Stream :
           StartFails(want, opened) /\ UNCHANGED <<alive, tap>>
    BY <1>2
  <2>2. Disk(disk')
    BY <2>1, FirstFilesOpen DEF StartFails
  <2> QED
    BY <2>1, <2>2 DEF StartFails, Disk, Synced
<1>3. CASE \E c \in {"toggle", "idle", "delete"} :
                     /\ StopBegin(c) /\ gtk = "free"
                     /\ tap' = tap /\ alive' \in SUBSET alive /\ stops' \in {stops, stops - 1}
                     /\ stops' \in Nat
  BY <1>3 DEF StopBegin
<1>4. CASE StopJoin
  BY <1>4 DEF StopJoin, Synced
<1>5. CASE \E rx \in Rx : TapTaken(rx)
  <2>1. PICK rx \in Rx : TapTaken(rx)
    BY <1>5
  <2>2. tap[rx] \in Stream /\ Len(log) \in Nat /\ Len(rec_q) \in Nat
    BY <2>1 DEF TapTaken
  <2>3. [stream |-> tap[rx], n |-> Len(log) + 1] \in Block
    BY <2>1, <2>2 DEF TapTaken, Block
  <2>4. rec_q' \in Seq(Block) /\ log' \in Seq(Block) /\ Len(rec_q') = Len(rec_q) + 1
    BY <2>1, <2>3, AppendProperties DEF TapTaken
  <2>5. Len(rec_q') <= QueueMax
    BY <2>1, <2>2, <2>4 DEF TapTaken
  <2> QED
    BY <2>1, <2>2, <2>4, <2>5 DEF TapTaken
<1>6. CASE WriterTakes
  <2>1. Head(rec_q) \in Block /\ Tail(rec_q) \in Seq(Block) /\ Len(Tail(rec_q)) = Len(rec_q) - 1
    BY <1>6, HeadTailProperties DEF WriterTakes
  <2>2. Len(Tail(rec_q)) <= QueueMax
    BY <2>1
  <2> QED
    BY <2>1, <2>2, <1>6 DEF WriterTakes
<1>7. CASE WriterLeaves
  <2>0. /\ path["iq"] \in DOMAIN disk \cup {NULL} /\ path["af"] \in DOMAIN disk \cup {NULL}
        /\ Disk(disk)
    BY DEF Disk, OpenFiles, Stream
  <2>1. PICK d \in Closings(disk, path["iq"]) : disk' \in Closings(d, path["af"])
    BY <1>7 DEF WriterLeaves
  <2>2. Disk(d) /\ DOMAIN d = DOMAIN disk
    BY <2>0, ClosedFile
  <2>3. Disk(disk')
    BY <2>0, <2>1, <2>2, ClosedFile
  <2> QED
    BY <2>3, <1>7 DEF WriterLeaves, Disk
<1>8. CASE WriteSkipped
  BY <1>8 DEF WriteSkipped
<1>9. CASE WriteDone
  <2>b. block \in Block
    BY <1>9 DEF WriteDone, Handshake
  <2> DEFINE s == block.stream
  <2>s. s \in Stream /\ block.n \in 1..MaxTaken
    BY <2>b DEF Block
  <2>1. path[s] \in DOMAIN disk /\ disk[path[s]] \in File
    BY <2>s, <1>9 DEF WriteDone, OpenFiles
  <2> DEFINE f == disk[path[s]]
  <2>f. f.asked \in Seq(Block) /\ Append(f.asked, block) \in Seq(Block)
    BY <2>1, <2>b, AppendProperties DEF File
  <2>2. [f EXCEPT !.asked = Append(f.asked, block)] \in File
    BY <2>1, <2>f DEF File
  <2>3. disk' = [disk EXCEPT ![path[s]] = [f EXCEPT !.asked = Append(f.asked, block)]]
    BY <1>9 DEF WriteDone
  <2> HIDE DEF f
  <2>4. Disk(disk')
    BY <2>1, <2>2, <2>3 DEF Disk
  <2>5. bytes' \in [Stream -> Nat]
    <3>1. bytes[s] + 1 \in Nat
      BY <2>s
    <3>2. bytes' = [bytes EXCEPT ![s] = bytes[s] + 1]
      BY <1>9 DEF WriteDone
    <3> HIDE DEF s
    <3> QED
      BY <3>1, <3>2
  <2>6. written' \in [Stream -> Seq(1..MaxTaken)]
    <3>1. written[s] \in Seq(1..MaxTaken)
      BY <2>s
    <3>2. Append(written[s], block.n) \in Seq(1..MaxTaken)
      BY <2>s, <3>1, AppendProperties
    <3>3. written' = [written EXCEPT ![s] = Append(written[s], block.n)]
      BY <1>9 DEF WriteDone
    <3> HIDE DEF s
    <3> QED
      BY <3>2, <3>3
  <2> QED
    BY <2>4, <2>5, <2>6, <1>9 DEF WriteDone, Disk
<1>10. CASE WriteFails
  <2>b. block \in Block
    BY <1>10 DEF WriteFails, Handshake
  <2> DEFINE s == block.stream
  <2>s. s \in Stream /\ block.n \in 1..MaxTaken
    BY <2>b DEF Block
  <2>1. path[s] \in DOMAIN disk
    BY <2>s, <1>10 DEF WriteFails, OpenFiles
  <2>2. disk' \in Closings(disk, path[s]) /\ Disk(disk)
    BY <1>10 DEF WriteFails, Disk
  <2>3. Disk(disk')
    BY <2>1, <2>2, ClosedFile
  <2>4. path' \in [Stream -> Name \cup {NULL}]
    BY <2>s, <1>10 DEF WriteFails
  <2>5. lost' \in [Stream -> {"no", "unwanted", "failed", "rolled"}]
    BY <2>s, <1>10 DEF WriteFails
  <2>6. stops' \in Nat
    BY <1>10 DEF WriteFails
  <2> QED
    BY <2>3, <2>4, <2>5, <2>6, <1>10 DEF WriteFails, Disk
<1>11. CASE RollSegment
  <2>b. block \in Block
    BY <1>11 DEF RollSegment, Handshake
  <2> DEFINE s == block.stream
  <2>s. s \in Stream /\ block.n \in 1..MaxTaken
    BY <2>b DEF Block
  <2>1. path[s] \in DOMAIN disk
    BY <2>s, <1>11 DEF RollSegment, OpenFiles
  <2>d. PICK d \in Closings(disk, path[s]) : disk' = Opened(d, NameOf(s, seg[s] + 1))
    BY <1>11 DEF RollSegment
  <2>2. Disk(disk) /\ Disk(d)
    BY <2>1, ClosedFile DEF Disk
  <2>3. NameOf(s, seg[s] + 1) \in Name
    BY <2>s DEF NameOf, Name
  <2>4. Disk(disk')
    BY <2>2, <2>3, <2>d, OpenedFile
  <2>5. path' \in [Stream -> Name \cup {NULL}]
    BY <2>s, <2>3, <1>11 DEF RollSegment
  <2>6. bytes' \in [Stream -> Nat] /\ seg' \in [Stream -> Nat]
    BY <2>s, <1>11 DEF RollSegment
  <2> QED
    BY <2>4, <2>5, <2>6, <1>11 DEF RollSegment, Disk
<1>12. CASE RollFails
  <2>b. block \in Block
    BY <1>12 DEF RollFails, Handshake
  <2> DEFINE s == block.stream
  <2>s. s \in Stream /\ block.n \in 1..MaxTaken
    BY <2>b DEF Block
  <2>1. path[s] \in DOMAIN disk
    BY <2>s, <1>12 DEF RollFails, OpenFiles
  <2>2. disk' \in Closings(disk, path[s]) /\ Disk(disk)
    BY <1>12 DEF RollFails, Disk
  <2>3. Disk(disk')
    BY <2>1, <2>2, ClosedFile
  <2>4. path' \in [Stream -> Name \cup {NULL}]
    BY <2>s, <1>12 DEF RollFails
  <2>5. lost' \in [Stream -> {"no", "unwanted", "failed", "rolled"}]
    BY <2>s, <1>12 DEF RollFails
  <2>6. bytes' \in [Stream -> Nat]
    BY <2>s, <1>12 DEF RollFails
  <2>7. seg' \in [Stream -> Nat]
    BY <2>s, <1>12 DEF RollFails
  <2> QED
    BY <2>3, <2>4, <2>5, <2>6, <2>7, <1>12 DEF RollFails, Disk
<1>13. CASE /\ UNCHANGED <<gtk, shared, files, writer, block>>
            /\ label' = label \/ (label' = Synced(rec_rx) /\ ~rec_writer)
            /\ alive' \in SUBSET alive /\ stops' \in Nat
            /\ tap' \in [Rx -> Stream \cup {NULL}]
  BY <1>13 DEF Synced
<1> QED
  BY <1>1, <1>2, <1>3, <1>4, <1>5, <1>6, <1>7, <1>8, <1>9, <1>10, <1>11, <1>12, <1>13, Steps

\* Files: what is open is described, what is closed can be played.
LEMMA FilesStep ==
    ASSUME TypeOK, Handshake, OpenFiles, GivenUp, FilesArePlayable, [Next]_vars
    PROVE  OpenFiles' /\ FilesArePlayable'
<1> USE RecorderConstants DEF ui, shared, files, Freed
<1>1. CASE \E rx \in alive, want \in SUBSET Stream :
                     Start(rx, want) /\ gtk = "free" /\ UNCHANGED <<alive, tap>>
  <2>1. PICK want \in SUBSET Stream :
           \E rx \in alive : Start(rx, want) /\ UNCHANGED <<alive, tap>>
    BY <1>1
  <2>2. /\ DOMAIN disk' = {NameOf(t, 1) : t \in want}
        /\ \A n \in DOMAIN disk' : disk'[n] = Empty
    BY <2>1, FirstFilesOpen DEF Start
  <2>3. /\ path' = [t \in Stream |-> IF t \in want THEN NameOf(t, 1) ELSE NULL]
        /\ bytes' = [t \in Stream |-> 0] /\ seg' = [t \in Stream |-> 1]
    BY <2>1 DEF Start
  <2>4. OpenFiles'
    BY <2>2, <2>3 DEF OpenFiles, Empty
  <2> QED
    BY <2>2, <2>4 DEF FilesArePlayable, Playable, Empty
<1>2. CASE \E want \in SUBSET Stream : \E opened \in SUBSET want :
                     StartFails(want, opened) /\ gtk = "free" /\ UNCHANGED <<alive, tap>>
  <2>1. PICK opened \in SUBSET Stream :
           \E want \in SUBSET Stream : StartFails(want, opened) /\ gtk = "free"
    BY <1>2
  <2>2. \A n \in DOMAIN disk' : disk'[n] = Empty
    BY <2>1, FirstFilesOpen DEF StartFails
  <2>3. \A t \in Stream : path'[t] = NULL
    BY <2>1 DEF StartFails, Handshake, GivenUp
  <2>4. OpenFiles'
    BY <2>3 DEF OpenFiles
  <2> QED
    BY <2>2, <2>4 DEF FilesArePlayable, Playable, Empty
<1>3. CASE \E c \in {"toggle", "idle", "delete"} :
                     /\ StopBegin(c) /\ gtk = "free"
                     /\ tap' = tap /\ alive' \in SUBSET alive /\ stops' \in {stops, stops - 1}
                     /\ stops' \in Nat
  <2>1. path' = path /\ seg' = seg /\ bytes' = bytes /\ disk' = disk
    BY <1>3 DEF StopBegin
  <2> QED
    BY <2>1 DEF OpenFiles, FilesArePlayable, Open
<1>4. CASE StopJoin
  <2>1. path' = path /\ seg' = seg /\ bytes' = bytes /\ disk' = disk
    BY <1>4 DEF StopJoin
  <2> QED
    BY <2>1 DEF OpenFiles, FilesArePlayable, Open
<1>5. CASE \E rx \in Rx : TapTaken(rx)
  <2>1. path' = path /\ seg' = seg /\ bytes' = bytes /\ disk' = disk
    BY <1>5 DEF TapTaken
  <2> QED
    BY <2>1 DEF OpenFiles, FilesArePlayable, Open
<1>6. CASE WriterTakes
  <2>1. path' = path /\ seg' = seg /\ bytes' = bytes /\ disk' = disk
    BY <1>6 DEF WriterTakes
  <2> QED
    BY <2>1 DEF OpenFiles, FilesArePlayable, Open
<1>7. CASE WriterLeaves
  <2>0. "iq" \in Stream /\ "af" \in Stream /\ Stream = {"iq", "af"}
    BY DEF Stream
  <2>1. /\ path["iq"] \in DOMAIN disk \cup {NULL} /\ path["af"] \in DOMAIN disk \cup {NULL}
        /\ \A t \in Stream : path[t] # NULL => disk[path[t]].real = 0 /\ disk[path[t]].hdr = NULL
    BY <2>0 DEF OpenFiles
  <2>2. Disk(disk)
    BY DEF Disk, TypeOK
  <2>c. PICK d \in Closings(disk, path["iq"]) : disk' \in Closings(d, path["af"])
    BY <1>7 DEF WriterLeaves
  <2>3. /\ Disk(d)
        /\ DOMAIN d = DOMAIN disk
        /\ \A m \in DOMAIN disk : d[m].asked = disk[m].asked
        /\ \A m \in DOMAIN disk : m # path["iq"] => d[m] = disk[m]
        /\ path["iq"] # NULL => Playable(d[path["iq"]])
    BY <2>0, <2>1, <2>2, ClosedFile
  <2>s. path["iq"] # NULL => path["iq"] # path["af"]
    BY <2>0, DistinctPaths
  <2>4. /\ DOMAIN disk' = DOMAIN d
        /\ \A m \in DOMAIN d : disk'[m].asked = d[m].asked
        /\ \A m \in DOMAIN d : m # path["af"] => disk'[m] = d[m]
        /\ path["af"] # NULL => Playable(disk'[path["af"]])
    <3>1. path["af"] # NULL => d[path["af"]] = disk[path["af"]]
      BY <2>1, <2>3, <2>s
    <3>2. path["af"] \in DOMAIN d \cup {NULL}
      BY <2>1, <2>3
    <3> QED
      BY <2>0, <2>1, <2>3, <2>c, <3>1, <3>2, ClosedFile
  <2>5. OpenFiles'
    BY <1>7 DEF WriterLeaves, OpenFiles
  <2>6. ASSUME NEW n \in DOMAIN disk'
        PROVE  Playable(disk'[n]) /\ Len(disk'[n].asked) <= SplitAt
    <3>0. n \in DOMAIN disk /\ n \in DOMAIN d /\ n # NULL
      BY <2>2, <2>3, <2>4 DEF Disk
    <3>1. disk'[n].asked = disk[n].asked /\ d[n].asked = disk[n].asked
      BY <2>3, <2>4, <3>0
    <3>2. Len(disk[n].asked) <= SplitAt
      BY <3>0 DEF FilesArePlayable
    <3>3. CASE n = path["af"]
      BY <2>4, <3>0, <3>1, <3>2, <3>3
    <3>4. CASE n # path["af"] /\ n = path["iq"]
      BY <2>3, <2>4, <3>0, <3>1, <3>2, <3>4
    <3>5. CASE n # path["af"] /\ n # path["iq"]
      <4>1. n \notin Open
        BY <2>0, <3>5 DEF Open
      <4> QED
        BY <2>3, <2>4, <3>0, <3>1, <3>2, <3>5, <4>1 DEF FilesArePlayable
    <3> QED
      BY <3>3, <3>4, <3>5
  <2> QED
    BY <2>5, <2>6 DEF FilesArePlayable
<1>8. CASE WriteSkipped
  <2>1. path' = path /\ seg' = seg /\ bytes' = bytes /\ disk' = disk
    BY <1>8 DEF WriteSkipped
  <2> QED
    BY <2>1 DEF OpenFiles, FilesArePlayable, Open
<1>9. CASE WriteDone
  <2>b. block \in Block
    BY <1>9 DEF WriteDone, Handshake, TypeOK
  <2> DEFINE s == block.stream
  <2>s. s \in Stream
    BY <2>b DEF Block
  <2>p. path[s] # NULL /\ path[s] \in DOMAIN disk /\ path[s] = NameOf(s, seg[s])
        /\ bytes[s] = Len(disk[path[s]].asked)
        /\ disk[path[s]].real = 0 /\ disk[path[s]].hdr = NULL
    BY <2>s, <1>9 DEF WriteDone, OpenFiles
  <2>d. Disk(disk) /\ seg \in [Stream -> Nat] /\ path \in [Stream -> Name \cup {NULL}]
        /\ bytes \in [Stream -> Nat]
    BY DEF Disk, TypeOK
  <2>t. \A t \in Stream : t # s => path[t] # path[s]
    BY <2>s, <2>p, DistinctPaths
  <2>n. \A t \in Stream : path[t] # NULL =>
              /\ path[t] = NameOf(t, seg[t]) /\ path[t] \in DOMAIN disk
              /\ bytes[t] = Len(disk[path[t]].asked)
              /\ disk[path[t]].real = 0 /\ disk[path[t]].hdr = NULL
    BY DEF OpenFiles
  <2>f. \A n \in DOMAIN disk : /\ n \notin {path[t] : t \in Stream} => Playable(disk[n])
                               /\ Len(disk[n].asked) <= SplitAt
    BY DEF FilesArePlayable, Open
  <2>1. disk[path[s]] \in File /\ disk[path[s]].asked \in Seq(Block)
    BY <2>p, <2>d DEF Disk, File
  <2> DEFINE g == [disk[path[s]] EXCEPT !.asked = Append(disk[path[s]].asked, block)]
  <2>g. /\ g.real = disk[path[s]].real /\ g.hdr = disk[path[s]].hdr
        /\ g.asked = Append(disk[path[s]].asked, block) /\ Len(g.asked) = Len(disk[path[s]].asked) + 1
    BY <2>1, <2>b, AppendProperties DEF File
  <2>2. disk' = [disk EXCEPT ![path[s]] = g]
    BY <1>9 DEF WriteDone
  <2> HIDE DEF g
  <2>3. /\ DOMAIN disk' = DOMAIN disk /\ disk'[path[s]] = g
        /\ \A n \in DOMAIN disk : n # path[s] => disk'[n] = disk[n]
    BY <2>2, <2>p, <2>d DEF Disk
  <2>4. path' = path /\ seg' = seg /\ bytes[s] < SplitAt /\ bytes'[s] = bytes[s] + 1
        /\ \A t \in Stream : t # s => bytes'[t] = bytes[t]
    BY <2>s, <2>d, <1>9 DEF WriteDone
  <2>5. OpenFiles'
    BY <2>s, <2>p, <2>n, <2>t, <2>g, <2>3, <2>4 DEF OpenFiles
  <2>6. Len(g.asked) <= SplitAt
    BY <2>s, <2>p, <2>d, <2>g, <2>4
  <2>7. FilesArePlayable'
    BY <2>s, <2>f, <2>3, <2>4, <2>6 DEF FilesArePlayable, Open
  <2> QED
    BY <2>5, <2>7
<1>10. CASE WriteFails
  <2>b. block \in Block
    BY <1>10 DEF WriteFails, Handshake, TypeOK
  <2> DEFINE s == block.stream
  <2>s. s \in Stream
    BY <2>b DEF Block
  <2>p. path[s] # NULL /\ path[s] \in DOMAIN disk /\ path[s] = NameOf(s, seg[s])
        /\ bytes[s] = Len(disk[path[s]].asked)
        /\ disk[path[s]].real = 0 /\ disk[path[s]].hdr = NULL
    BY <2>s, <1>10 DEF WriteFails, OpenFiles
  <2>d. Disk(disk) /\ seg \in [Stream -> Nat] /\ path \in [Stream -> Name \cup {NULL}]
        /\ bytes \in [Stream -> Nat]
    BY DEF Disk, TypeOK
  <2>t. \A t \in Stream : t # s => path[t] # path[s]
    BY <2>s, <2>p, DistinctPaths
  <2>n. \A t \in Stream : path[t] # NULL =>
              /\ path[t] = NameOf(t, seg[t]) /\ path[t] \in DOMAIN disk
              /\ bytes[t] = Len(disk[path[t]].asked)
              /\ disk[path[t]].real = 0 /\ disk[path[t]].hdr = NULL
    BY DEF OpenFiles
  <2>f. \A n \in DOMAIN disk : /\ n \notin {path[t] : t \in Stream} => Playable(disk[n])
                               /\ Len(disk[n].asked) <= SplitAt
    BY DEF FilesArePlayable, Open
  <2>c. PICK d \in Closings(disk, path[s]) : disk' = d
    BY <1>10 DEF WriteFails
  <2>1. /\ DOMAIN d = DOMAIN disk /\ Disk(d)
        /\ \A m \in DOMAIN disk : d[m].asked = disk[m].asked
        /\ \A m \in DOMAIN disk : m # path[s] => d[m] = disk[m]
        /\ Playable(d[path[s]])
    BY <2>p, <2>d, ClosedFile
  <2>h. \A n \in DOMAIN disk : /\ n \notin {path[t] : t \in Stream \ {s}} => Playable(d[n])
                               /\ Len(d[n].asked) <= SplitAt
    BY <2>1, <2>p, <2>f
  <2>2. disk' = d
    BY <2>c
  <2>3. seg'[s] \in Nat /\ path'[s] = NULL
        /\ \A t \in Stream : t # s => path'[t] = path[t] /\ seg'[t] = seg[t] /\ bytes'[t] = bytes[t]
    BY <2>s, <2>d, <1>10 DEF WriteFails
  <2>4. OpenFiles'
    BY <2>n, <2>t, <2>1, <2>2, <2>3 DEF OpenFiles
  <2>5. FilesArePlayable'
    BY <2>h, <2>1, <2>2, <2>3 DEF FilesArePlayable, Open
  <2> QED
    BY <2>4, <2>5
<1>11. CASE RollSegment
  <2>b. block \in Block
    BY <1>11 DEF RollSegment, Handshake, TypeOK
  <2> DEFINE s == block.stream
  <2>s. s \in Stream
    BY <2>b DEF Block
  <2>p. path[s] # NULL /\ path[s] \in DOMAIN disk /\ path[s] = NameOf(s, seg[s])
        /\ bytes[s] = Len(disk[path[s]].asked)
        /\ disk[path[s]].real = 0 /\ disk[path[s]].hdr = NULL
    BY <2>s, <1>11 DEF RollSegment, OpenFiles
  <2>d. Disk(disk) /\ seg \in [Stream -> Nat] /\ path \in [Stream -> Name \cup {NULL}]
        /\ bytes \in [Stream -> Nat]
    BY DEF Disk, TypeOK
  <2>t. \A t \in Stream : t # s => path[t] # path[s]
    BY <2>s, <2>p, DistinctPaths
  <2>n. \A t \in Stream : path[t] # NULL =>
              /\ path[t] = NameOf(t, seg[t]) /\ path[t] \in DOMAIN disk
              /\ bytes[t] = Len(disk[path[t]].asked)
              /\ disk[path[t]].real = 0 /\ disk[path[t]].hdr = NULL
    BY DEF OpenFiles
  <2>f. \A n \in DOMAIN disk : /\ n \notin {path[t] : t \in Stream} => Playable(disk[n])
                               /\ Len(disk[n].asked) <= SplitAt
    BY DEF FilesArePlayable, Open
  <2>c. PICK d \in Closings(disk, path[s]) : disk' = Opened(d, NameOf(s, seg[s] + 1))
    BY <1>11 DEF RollSegment
  <2>1. /\ DOMAIN d = DOMAIN disk /\ Disk(d)
        /\ \A m \in DOMAIN disk : d[m].asked = disk[m].asked
        /\ \A m \in DOMAIN disk : m # path[s] => d[m] = disk[m]
        /\ Playable(d[path[s]])
    BY <2>p, <2>d, ClosedFile
  <2>h. \A n \in DOMAIN disk : /\ n \notin {path[t] : t \in Stream \ {s}} => Playable(d[n])
                               /\ Len(d[n].asked) <= SplitAt
    BY <2>1, <2>p, <2>f
  <2> DEFINE next == NameOf(s, seg[s] + 1)
  <2>k. next \in Name /\ next # NULL /\ next # path[s] /\ \A t \in Stream : t # s => path[t] # next
    BY <2>s, <2>d, <2>n, <2>p DEF NameOf, Name
  <2>2. disk' = Opened(d, next)
    BY <2>c
  <2> HIDE DEF next
  <2>o. /\ DOMAIN disk' = DOMAIN disk \cup {next}
        /\ disk'[next] = Empty
        /\ \A m \in DOMAIN disk : m # next => disk'[m] = d[m]
    <3>1. Disk(d) /\ next \in Name
      BY <2>1, <2>k
    <3>2. /\ DOMAIN Opened(d, next) = DOMAIN d \cup {next}
          /\ Opened(d, next)[next] = Empty
          /\ \A m \in DOMAIN d : m # next => Opened(d, next)[m] = d[m]
      BY <3>1, OpenedFile
    <3> QED
      BY <2>1, <2>2, <3>2
  <2>3. next = NameOf(s, seg'[s]) /\ path'[s] = next /\ bytes'[s] = 0
        /\ \A t \in Stream : t # s => path'[t] = path[t] /\ seg'[t] = seg[t] /\ bytes'[t] = bytes[t]
    BY <2>s, <2>d, <1>11 DEF RollSegment, next
  <2>4. OpenFiles'
    <3> SUFFICES ASSUME NEW t \in Stream, path'[t] # NULL
                 PROVE  /\ path'[t] = NameOf(t, seg'[t])
                        /\ path'[t] \in DOMAIN disk'
                        /\ bytes'[t] = Len(disk'[path'[t]].asked)
                        /\ disk'[path'[t]].real = 0 /\ disk'[path'[t]].hdr = NULL
      BY DEF OpenFiles
    <3>1. CASE t = s
      BY <3>1, <2>o, <2>3 DEF Empty
    <3>2. CASE t # s
      BY <3>2, <2>n, <2>t, <2>k, <2>o, <2>1, <2>3
    <3> QED
      BY <3>1, <3>2
  <2>5. FilesArePlayable'
    <3> SUFFICES ASSUME NEW n \in DOMAIN disk'
                 PROVE  /\ n \notin {path'[t] : t \in Stream} => Playable(disk'[n])
                        /\ Len(disk'[n].asked) <= SplitAt
      BY DEF FilesArePlayable, Open
    <3>1. CASE n = next
      BY <3>1, <2>o DEF Empty, Playable
    <3>2. CASE n # next
      BY <3>2, <2>h, <2>o, <2>3
    <3> QED
      BY <3>1, <3>2
  <2> QED
    BY <2>4, <2>5
<1>12. CASE RollFails
  <2>b. block \in Block
    BY <1>12 DEF RollFails, Handshake, TypeOK
  <2> DEFINE s == block.stream
  <2>s. s \in Stream
    BY <2>b DEF Block
  <2>p. path[s] # NULL /\ path[s] \in DOMAIN disk /\ path[s] = NameOf(s, seg[s])
        /\ bytes[s] = Len(disk[path[s]].asked)
        /\ disk[path[s]].real = 0 /\ disk[path[s]].hdr = NULL
    BY <2>s, <1>12 DEF RollFails, OpenFiles
  <2>d. Disk(disk) /\ seg \in [Stream -> Nat] /\ path \in [Stream -> Name \cup {NULL}]
        /\ bytes \in [Stream -> Nat]
    BY DEF Disk, TypeOK
  <2>t. \A t \in Stream : t # s => path[t] # path[s]
    BY <2>s, <2>p, DistinctPaths
  <2>n. \A t \in Stream : path[t] # NULL =>
              /\ path[t] = NameOf(t, seg[t]) /\ path[t] \in DOMAIN disk
              /\ bytes[t] = Len(disk[path[t]].asked)
              /\ disk[path[t]].real = 0 /\ disk[path[t]].hdr = NULL
    BY DEF OpenFiles
  <2>f. \A n \in DOMAIN disk : /\ n \notin {path[t] : t \in Stream} => Playable(disk[n])
                               /\ Len(disk[n].asked) <= SplitAt
    BY DEF FilesArePlayable, Open
  <2>c. PICK d \in Closings(disk, path[s]) : disk' = d
    BY <1>12 DEF RollFails
  <2>1. /\ DOMAIN d = DOMAIN disk /\ Disk(d)
        /\ \A m \in DOMAIN disk : d[m].asked = disk[m].asked
        /\ \A m \in DOMAIN disk : m # path[s] => d[m] = disk[m]
        /\ Playable(d[path[s]])
    BY <2>p, <2>d, ClosedFile
  <2>h. \A n \in DOMAIN disk : /\ n \notin {path[t] : t \in Stream \ {s}} => Playable(d[n])
                               /\ Len(d[n].asked) <= SplitAt
    BY <2>1, <2>p, <2>f
  <2>2. disk' = d
    BY <2>c
  <2>3. seg'[s] \in Nat /\ path'[s] = NULL
        /\ \A t \in Stream : t # s => path'[t] = path[t] /\ seg'[t] = seg[t] /\ bytes'[t] = bytes[t]
    BY <2>s, <2>d, <1>12 DEF RollFails
  <2>4. OpenFiles'
    BY <2>n, <2>t, <2>1, <2>2, <2>3 DEF OpenFiles
  <2>5. FilesArePlayable'
    BY <2>h, <2>1, <2>2, <2>3 DEF FilesArePlayable, Open
  <2> QED
    BY <2>4, <2>5
<1>13. CASE /\ UNCHANGED <<gtk, shared, files, writer, block>>
            /\ label' = label \/ (label' = Synced(rec_rx) /\ ~rec_writer)
            /\ alive' \in SUBSET alive /\ stops' \in Nat
            /\ tap' \in [Rx -> Stream \cup {NULL}]
  <2>1. path' = path /\ seg' = seg /\ bytes' = bytes /\ disk' = disk
    BY <1>13
  <2> QED
    BY <2>1 DEF OpenFiles, FilesArePlayable, Open
<1> QED
  BY <1>1, <1>2, <1>3, <1>4, <1>5, <1>6, <1>7, <1>8, <1>9, <1>10, <1>11, <1>12, <1>13, Steps

\* A stream loses its file exactly when it is given up.
LEMMA GivenUpStep ==
    ASSUME TypeOK, Handshake, GivenUp, [Next]_vars
    PROVE  GivenUp'
<1> USE RecorderConstants DEF ui, shared, files, Freed
<1>1. CASE \E rx \in alive, want \in SUBSET Stream :
                     Start(rx, want) /\ gtk = "free" /\ UNCHANGED <<alive, tap>>
  <2>1. PICK want \in SUBSET Stream :
           \E rx \in alive : Start(rx, want) /\ gtk = "free" /\ UNCHANGED <<alive, tap>>
    BY <1>1
  <2>2. \A s \in Stream : NameOf(s, 1) # NULL
    BY DEF NameOf, Name
  <2> QED
    BY <2>1, <2>2 DEF Start, GivenUp
<1>2. CASE \E want \in SUBSET Stream : \E opened \in SUBSET want :
                     StartFails(want, opened) /\ gtk = "free" /\ UNCHANGED <<alive, tap>>
  BY <1>2 DEF StartFails, GivenUp, Handshake
<1>3. CASE \E c \in {"toggle", "idle", "delete"} :
                     /\ StopBegin(c) /\ gtk = "free"
                     /\ tap' = tap /\ alive' \in SUBSET alive /\ stops' \in {stops, stops - 1}
                     /\ stops' \in Nat
  BY <1>3 DEF StopBegin, GivenUp
<1>4. CASE StopJoin
  BY <1>4 DEF StopJoin, GivenUp
<1>5. CASE \E rx \in Rx : TapTaken(rx)
  BY <1>5 DEF TapTaken, GivenUp
<1>6. CASE WriterTakes
  BY <1>6 DEF WriterTakes, GivenUp
<1>7. CASE WriterLeaves
  BY <1>7 DEF WriterLeaves, GivenUp
<1>8. CASE WriteSkipped
  BY <1>8 DEF WriteSkipped, GivenUp
<1>9. CASE WriteDone
  <2>b. block.stream \in Stream
    BY <1>9 DEF WriteDone, Handshake, TypeOK, Block
  <2> QED
    BY <2>b, <1>9 DEF WriteDone, GivenUp, TypeOK
<1>10. CASE WriteFails
  <2>b. block.stream \in Stream
    BY <1>10 DEF WriteFails, Handshake, TypeOK, Block
  <2> QED
    BY <2>b, <1>10 DEF WriteFails, GivenUp, TypeOK
<1>11. CASE RollSegment
  <2>b. block.stream \in Stream
    BY <1>11 DEF RollSegment, Handshake, TypeOK, Block
  <2>1. NameOf(block.stream, seg[block.stream] + 1) # NULL
    BY <2>b DEF NameOf, Name, TypeOK
  <2> QED
    BY <2>b, <2>1, <1>11 DEF RollSegment, GivenUp, TypeOK
<1>12. CASE RollFails
  <2>b. block.stream \in Stream
    BY <1>12 DEF RollFails, Handshake, TypeOK, Block
  <2> QED
    BY <2>b, <1>12 DEF RollFails, GivenUp, TypeOK
<1>13. CASE /\ UNCHANGED <<gtk, shared, files, writer, block>>
            /\ label' = label \/ (label' = Synced(rec_rx) /\ ~rec_writer)
            /\ alive' \in SUBSET alive /\ stops' \in Nat
            /\ tap' \in [Rx -> Stream \cup {NULL}]
  BY <1>13 DEF GivenUp
<1> QED
  BY <1>1, <1>2, <1>3, <1>4, <1>5, <1>6, <1>7, <1>8, <1>9, <1>10, <1>11, <1>12, <1>13, Steps

\* The button follows.
LEMMA ButtonStep ==
    ASSUME TypeOK, Handshake, ButtonTellsRecording, [Next]_vars
    PROVE  ButtonTellsRecording'
<1> USE RecorderConstants DEF ButtonTellsRecording, ui, shared, files, Freed
<1>1. CASE \E rx \in alive, want \in SUBSET Stream :
                     Start(rx, want) /\ gtk = "free" /\ UNCHANGED <<alive, tap>>
  BY <1>1 DEF Start, Synced, TypeOK
<1>2. CASE \E want \in SUBSET Stream : \E opened \in SUBSET want :
                     StartFails(want, opened) /\ gtk = "free" /\ UNCHANGED <<alive, tap>>
  BY <1>2 DEF StartFails, Synced
<1>3. CASE \E c \in {"toggle", "idle", "delete"} :
                     /\ StopBegin(c) /\ gtk = "free"
                     /\ tap' = tap /\ alive' \in SUBSET alive /\ stops' \in {stops, stops - 1}
                     /\ stops' \in Nat
  BY <1>3 DEF StopBegin
<1>4. CASE StopJoin
  BY <1>4 DEF StopJoin, Synced, Handshake
<1>5. CASE \E rx \in Rx : TapTaken(rx)
  BY <1>5 DEF TapTaken, Handshake
<1>6. CASE WriterTakes
  BY <1>6 DEF WriterTakes, Handshake
<1>7. CASE WriterLeaves
  BY <1>7 DEF WriterLeaves, Handshake
<1>8. CASE WriteSkipped
  BY <1>8 DEF WriteSkipped, Handshake
<1>9. CASE WriteDone
  BY <1>9 DEF WriteDone, Handshake
<1>10. CASE WriteFails
  BY <1>10 DEF WriteFails, Handshake
<1>11. CASE RollSegment
  BY <1>11 DEF RollSegment, Handshake
<1>12. CASE RollFails
  BY <1>12 DEF RollFails, Handshake
<1>13. CASE /\ UNCHANGED <<gtk, shared, files, writer, block>>
            /\ label' = label \/ (label' = Synced(rec_rx) /\ ~rec_writer)
            /\ alive' \in SUBSET alive /\ stops' \in Nat
            /\ tap' \in [Rx -> Stream \cup {NULL}]
  BY <1>13 DEF Synced
<1> QED
  BY <1>1, <1>2, <1>3, <1>4, <1>5, <1>6, <1>7, <1>8, <1>9, <1>10, <1>11, <1>12, <1>13, Steps

\* The queue: nothing is taken out of order or lost between the threads.
LEMMA QueueStep ==
    ASSUME TypeOK, Handshake, QueueIsTail, [Next]_vars
    PROVE  QueueIsTail'
<1> USE RecorderConstants DEF ui, shared, files, Freed
<1>1. CASE \E rx \in alive, want \in SUBSET Stream :
                     Start(rx, want) /\ gtk = "free" /\ UNCHANGED <<alive, tap>>
  <2>1. log' = << >> /\ rec_q' = << >> /\ block' = NULL
    BY <1>1 DEF Start, Handshake
  <2> QED
    BY <2>1 DEF QueueIsTail, Settled
<1>2. CASE \E want \in SUBSET Stream : \E opened \in SUBSET want :
                     StartFails(want, opened) /\ gtk = "free" /\ UNCHANGED <<alive, tap>>
  <2>1. log' = << >> /\ rec_q' = << >> /\ block' = NULL
    BY <1>2 DEF StartFails, Handshake
  <2> QED
    BY <2>1 DEF QueueIsTail, Settled
<1>3. CASE \E c \in {"toggle", "idle", "delete"} :
                     /\ StopBegin(c) /\ gtk = "free"
                     /\ tap' = tap /\ alive' \in SUBSET alive /\ stops' \in {stops, stops - 1}
                     /\ stops' \in Nat
  <2>1. log' = log /\ rec_q' = rec_q /\ block' = block
    BY <1>3 DEF StopBegin
  <2> QED
    BY <2>1 DEF QueueIsTail, Settled
<1>4. CASE StopJoin
  <2>1. log' = log /\ rec_q' = rec_q /\ block' = block
    BY <1>4 DEF StopJoin, Handshake
  <2> QED
    BY <2>1 DEF QueueIsTail, Settled
<1>5. CASE \E rx \in Rx : TapTaken(rx)
  <2>1. PICK rx \in Rx : TapTaken(rx)
    BY <1>5
  <2> DEFINE b == [stream |-> tap[rx], n |-> Len(log) + 1]
  <2>2. /\ log \in Seq(Block) /\ rec_q \in Seq(Block)
        /\ Len(log) \in Nat /\ Len(rec_q) \in Nat /\ b.n = Len(log) + 1 /\ b \in Block
    <3>1. log \in Seq(Block) /\ rec_q \in Seq(Block) /\ tap[rx] \in Stream
      BY <2>1 DEF TypeOK, TapTaken
    <3>2. Len(log) \in Nat /\ Len(rec_q) \in Nat /\ Len(log) < MaxTaken
      BY <2>1, <3>1 DEF TapTaken
    <3>3. b \in Block
      BY <3>1, <3>2 DEF Block
    <3> QED
      BY <3>1, <3>2, <3>3
  <2>3. log' = Append(log, b) /\ rec_q' = Append(rec_q, b) /\ block' = block
    BY <2>1 DEF TapTaken
  <2> HIDE DEF b
  <2>4. /\ Len(log') = Len(log) + 1 /\ Len(rec_q') = Len(rec_q) + 1
        /\ \A i \in 1..Len(log) : log'[i] = log[i]
        /\ \A i \in 1..Len(rec_q) : rec_q'[i] = rec_q[i]
        /\ log'[Len(log) + 1] = b /\ rec_q'[Len(rec_q) + 1] = b
    BY <2>2, <2>3, AppendProperties
  <2>5. Settled' = Settled /\ Settled \in Nat
    BY <2>2, <2>3, <2>4 DEF Settled, QueueIsTail
  <2>6. Len(rec_q) <= Len(log)
    BY <2>2, <2>5 DEF Settled
  <2>7. \A i \in 1..Len(log') : log'[i].n = i
    <3>1. \A i \in 1..Len(log') : i \in 1..Len(log) \/ i = Len(log) + 1
      BY <2>2, <2>4
    <3>2. \A i \in 1..Len(log) : log'[i].n = i
      BY <2>4 DEF QueueIsTail
    <3>3. log'[Len(log) + 1].n = Len(log) + 1
      BY <2>2, <2>4
    <3> QED
      BY <3>1, <3>2, <3>3
  <2>8. ASSUME NEW i \in 1..Len(rec_q')
        PROVE  rec_q'[i] = log'[Len(log') - Len(rec_q') + i]
    <3>1. Len(log') - Len(rec_q') = Len(log) - Len(rec_q) /\ Len(log) - Len(rec_q) \in Nat
      BY <2>2, <2>4, <2>6
    <3>2. CASE i = Len(rec_q) + 1
      BY <2>2, <2>4, <3>1, <3>2
    <3>3. CASE i \in 1..Len(rec_q)
      <4>1. Len(log) - Len(rec_q) + i \in 1..Len(log)
        BY <2>2, <3>1, <3>3
      <4> QED
        BY <2>4, <3>1, <3>3, <4>1 DEF QueueIsTail
    <3> QED
      BY <2>2, <2>4, <3>2, <3>3
  <2>9. block' # NULL => block' = log'[Settled' + 1]
    <3>1. CASE block # NULL
      <4>1. Settled + 1 \in 1..Len(log)
        BY <2>2, <2>5, <3>1 DEF Settled
      <4> QED
        BY <2>3, <2>4, <2>5, <3>1, <4>1 DEF QueueIsTail
    <3> QED
      BY <2>3, <3>1
  <2> QED
    BY <2>5, <2>7, <2>8, <2>9 DEF QueueIsTail
<1>6. CASE WriterTakes
  <2>1. /\ rec_q \in Seq(Block) /\ rec_q # << >> /\ Len(log) \in Nat /\ Len(rec_q) \in Nat
        /\ Len(rec_q) > 0
    BY <1>6 DEF TypeOK, WriterTakes
  <2>2. log' = log /\ rec_q' = Tail(rec_q) /\ block' = rec_q[1] /\ block = NULL
    BY <2>1, <1>6 DEF WriterTakes, Handshake
  <2>3. /\ Len(rec_q') = Len(rec_q) - 1
        /\ \A i \in 1..Len(rec_q') : rec_q'[i] = rec_q[i + 1]
    BY <2>1, <2>2, HeadTailProperties
  <2>4. block' # NULL
    BY <2>1, <2>2
  <2>5. Settled = Len(log) - Len(rec_q) /\ Settled' = Settled /\ Settled \in Nat
    BY <2>1, <2>2, <2>3, <2>4 DEF Settled, QueueIsTail
  <2>6. block' = log[Settled + 1]
    BY <2>1, <2>2, <2>5 DEF QueueIsTail
  <2>7. ASSUME NEW i \in 1..Len(rec_q')
        PROVE  rec_q'[i] = log'[Len(log') - Len(rec_q') + i]
    <3>1. i + 1 \in 1..Len(rec_q) /\ Len(log') - Len(rec_q') + i = Len(log) - Len(rec_q) + (i + 1)
      BY <2>1, <2>2, <2>3
    <3> QED
      BY <2>2, <2>3, <3>1 DEF QueueIsTail
  <2>8. \A i \in 1..Len(log') : log'[i].n = i
    BY <2>2 DEF QueueIsTail
  <2> QED
    BY <2>2, <2>5, <2>6, <2>7, <2>8 DEF QueueIsTail
<1>7. CASE WriterLeaves
  <2>1. log' = log /\ rec_q' = rec_q /\ block' = block
    BY <1>7 DEF WriterLeaves
  <2> QED
    BY <2>1 DEF QueueIsTail, Settled
<1>8. CASE WriteSkipped
  <2>1. log' = log /\ rec_q' = rec_q /\ block' = NULL /\ block # NULL
    BY <1>8 DEF WriteSkipped, Handshake
  <2>2. Len(log) \in Nat /\ Len(rec_q) \in Nat
    BY DEF TypeOK
  <2>3. Settled \in Nat /\ Settled' = Settled + 1
    BY <2>1, <2>2 DEF QueueIsTail, Settled
  <2> QED
    BY <2>1, <2>3 DEF QueueIsTail
<1>9. CASE WriteDone
  <2>1. log' = log /\ rec_q' = rec_q /\ block' = NULL /\ block # NULL
    BY <1>9 DEF WriteDone, Handshake
  <2>2. Len(log) \in Nat /\ Len(rec_q) \in Nat
    BY DEF TypeOK
  <2>3. Settled \in Nat /\ Settled' = Settled + 1
    BY <2>1, <2>2 DEF QueueIsTail, Settled
  <2> QED
    BY <2>1, <2>3 DEF QueueIsTail
<1>10. CASE WriteFails
  <2>1. log' = log /\ rec_q' = rec_q /\ block' = NULL /\ block # NULL
    BY <1>10 DEF WriteFails, Handshake
  <2>2. Len(log) \in Nat /\ Len(rec_q) \in Nat
    BY DEF TypeOK
  <2>3. Settled \in Nat /\ Settled' = Settled + 1
    BY <2>1, <2>2 DEF QueueIsTail, Settled
  <2> QED
    BY <2>1, <2>3 DEF QueueIsTail
<1>11. CASE RollSegment
  <2>1. log' = log /\ rec_q' = rec_q /\ block' = block
    BY <1>11 DEF RollSegment
  <2> QED
    BY <2>1 DEF QueueIsTail, Settled
<1>12. CASE RollFails
  <2>1. log' = log /\ rec_q' = rec_q /\ block' = NULL /\ block # NULL
    BY <1>12 DEF RollFails, Handshake
  <2>2. Len(log) \in Nat /\ Len(rec_q) \in Nat
    BY DEF TypeOK
  <2>3. Settled \in Nat /\ Settled' = Settled + 1
    BY <2>1, <2>2 DEF QueueIsTail, Settled
  <2> QED
    BY <2>1, <2>3 DEF QueueIsTail
<1>13. CASE /\ UNCHANGED <<gtk, shared, files, writer, block>>
            /\ label' = label \/ (label' = Synced(rec_rx) /\ ~rec_writer)
            /\ alive' \in SUBSET alive /\ stops' \in Nat
            /\ tap' \in [Rx -> Stream \cup {NULL}]
  <2>1. log' = log /\ rec_q' = rec_q /\ block' = block
    BY <1>13
  <2> QED
    BY <2>1 DEF QueueIsTail, Settled
<1> QED
  BY <1>1, <1>2, <1>3, <1>4, <1>5, <1>6, <1>7, <1>8, <1>9, <1>10, <1>11, <1>12, <1>13, Steps

-----------------------------------------------------------------------------
(* The invariant holds *)

LEMMA InitIInv == Init => IInv
<1> SUFFICES ASSUME Init PROVE IInv
  OBVIOUS
<1>1. TypeOK
  <2>1. DOMAIN disk = {} /\ disk \in [DOMAIN disk -> File]
    <3>1. disk = << >> /\ << >> \in Seq(File)
      BY DEF Init
    <3>2. DOMAIN disk = 1..0
      BY <3>1
    <3> QED
      BY <3>1, <3>2
  <2>2. rec_q \in Seq(Block) /\ log \in Seq(Block) /\ Len(rec_q) = 0
    BY DEF Init
  <2>3. written \in [Stream -> Seq(1..MaxTaken)]
    BY DEF Init
  <2>4. /\ path \in [Stream -> Name \cup {NULL}] /\ bytes \in [Stream -> Nat]
        /\ seg \in [Stream -> Nat] /\ tap \in [Rx -> Stream \cup {NULL}]
        /\ lost \in [Stream -> {"no", "unwanted", "failed", "rolled"}]
    BY DEF Init
  <2>5. /\ alive \subseteq Rx /\ gtk = "free" /\ label = "Record" /\ stops = 0
        /\ rec_rx = NULL /\ rec_writer_run \in BOOLEAN /\ rec_writer \in BOOLEAN
        /\ writer = "none" /\ block = NULL
    BY DEF Init
  <2>6. Len(rec_q) <= QueueMax
    BY <2>2, RecorderConstants
  <2> QED
    BY <2>1, <2>2, <2>3, <2>4, <2>5, <2>6 DEF TypeOK
<1>2. Handshake
  BY DEF Init, Handshake
<1>3. OpenFiles /\ GivenUp /\ FilesArePlayable /\ ButtonTellsRecording
  BY DEF Init, OpenFiles, GivenUp, FilesArePlayable, ButtonTellsRecording
<1>4. QueueIsTail
  BY DEF Init, QueueIsTail, Settled
<1> QED
  BY <1>1, <1>2, <1>3, <1>4 DEF IInv

LEMMA StepIInv == IInv /\ [Next]_vars => IInv'
  BY TypeStep, HandshakeStep, FilesStep, GivenUpStep, ButtonStep, QueueStep DEF IInv

LEMMA AlwaysIInv == Spec => []IInv
  BY InitIInv, StepIInv, PTL DEF Spec

\* Every variable keeps its range, the queue of rec_enqueue its limit.
THEOREM TypesHold == Spec => []TypeOK
<1>1. IInv => TypeOK
  BY DEF IInv
<1> QED
  BY <1>1, AlwaysIInv, PTL

\* close_wav is reached for every file, whoever ends the recording and whatever
\* the disk does, and no file outgrows REC_SPLIT_BYTES.
THEOREM FilesPlay == Spec => []FilesArePlayable
<1>1. IInv => FilesArePlayable
  BY DEF IInv
<1> QED
  BY <1>1, AlwaysIInv, PTL

\* The Record button tells whether there is a recording, whoever ended it.
THEOREM ButtonTells == Spec => []ButtonTellsRecording
<1>1. IInv => ButtonTellsRecording
  BY DEF IInv
<1> QED
  BY <1>1, AlwaysIInv, PTL

-----------------------------------------------------------------------------
(* Every block that was handed over has its place *)

\* The numbers H have each one place in one file of d, and nothing else is there.
PlacedIn(d, H) ==
    /\ \A n \in DOMAIN d : d[n].real \in 0..Len(d[n].asked)
    /\ \A n \in DOMAIN d : \A i \in 1..Len(d[n].asked) : d[n].asked[i].n \in H
    /\ \A n, m \in DOMAIN d :
          \A i \in 1..Len(d[n].asked), j \in 1..Len(d[m].asked) :
             d[n].asked[i].n = d[m].asked[j].n => n = m /\ i = j
    /\ \A x \in H : \E n \in DOMAIN d : \E i \in 1..Len(d[n].asked) : d[n].asked[i].n = x

\* The blocks counted as written are settled, each has its place on the disk, and
\* the segments there are the ones that were begun.
Placed ==
    /\ Handed \subseteq 1..Settled
    /\ PlacedIn(disk, Handed)
    /\ \A n \in DOMAIN disk : n.seg <= seg[n.stream]
    /\ \A s \in Stream : seg[s] >= 1

KeptIn(d)       == UNION {{d[n].asked[i].n : i \in 1..d[n].real} : n \in DOMAIN d}
TornIn(d, open) == UNION {{d[n].asked[i].n : i \in d[n].real + 1..Len(d[n].asked)} :
                          n \in DOMAIN d \ open}

LEMMA KeptIs ==
    ASSUME NEW d, NEW x
    PROVE  x \in KeptIn(d) <=> \E n \in DOMAIN d : \E i \in 1..d[n].real : d[n].asked[i].n = x
BY DEF KeptIn

LEMMA TornIs ==
    ASSUME NEW d, NEW open, NEW x
    PROVE  x \in TornIn(d, open) <=>
              \E n \in DOMAIN d \ open :
                 \E i \in d[n].real + 1..Len(d[n].asked) : d[n].asked[i].n = x
BY DEF TornIn

\* No block is both kept and torn off, and no other block is either.
LEMMA Apart ==
    ASSUME NEW d, NEW H, NEW open, Disk(d), PlacedIn(d, H)
    PROVE  KeptIn(d) \cap TornIn(d, open) = {} /\ KeptIn(d) \cup TornIn(d, open) \subseteq H
<1>1. \A n \in DOMAIN d : Len(d[n].asked) \in Nat /\ d[n].real \in 0..Len(d[n].asked)
  BY DEF Disk, File, PlacedIn
<1>2. ASSUME NEW x, x \in KeptIn(d)
      PROVE  x \in H /\ x \notin TornIn(d, open)
  <2>1. PICK n \in DOMAIN d : \E i \in 1..d[n].real : d[n].asked[i].n = x
    BY <1>2, KeptIs
  <2>2. PICK i \in 1..d[n].real : d[n].asked[i].n = x
    BY <2>1
  <2>3. i \in 1..Len(d[n].asked)
    BY <1>1
  <2>4. ASSUME NEW m \in DOMAIN d \ open, NEW j \in d[m].real + 1..Len(d[m].asked),
               d[m].asked[j].n = x
        PROVE  FALSE
    <3>1. m \in DOMAIN d /\ j \in 1..Len(d[m].asked)
      BY <1>1
    <3>2. n = m /\ i = j
      BY <2>2, <2>3, <2>4, <3>1 DEF PlacedIn
    <3> QED
      BY <1>1, <2>2, <3>2
  <2>5. x \in H
    BY <2>2, <2>3 DEF PlacedIn
  <2> QED
    BY <2>4, <2>5, TornIs
<1>3. ASSUME NEW x, x \in TornIn(d, open)
      PROVE  x \in H
  <2>1. PICK n \in DOMAIN d \ open : \E i \in d[n].real + 1..Len(d[n].asked) : d[n].asked[i].n = x
    BY <1>3, TornIs
  <2>2. PICK i \in d[n].real + 1..Len(d[n].asked) : d[n].asked[i].n = x
    BY <2>1
  <2>3. n \in DOMAIN d /\ i \in 1..Len(d[n].asked)
    BY <1>1
  <2> QED
    BY <2>2, <2>3 DEF PlacedIn
<1> QED
  BY <1>2, <1>3

\* With no file open every block has been found to be one or the other.
LEMMA AllFound ==
    ASSUME NEW d, NEW H, Disk(d), PlacedIn(d, H), NEW open, DOMAIN d \cap open = {}
    PROVE  H = KeptIn(d) \cup TornIn(d, open)
<1>1. \A n \in DOMAIN d : Len(d[n].asked) \in Nat /\ d[n].real \in 0..Len(d[n].asked)
  BY DEF Disk, File, PlacedIn
<1>2. ASSUME NEW x \in H
      PROVE  x \in KeptIn(d) \/ x \in TornIn(d, open)
  <2>1. PICK n \in DOMAIN d : \E i \in 1..Len(d[n].asked) : d[n].asked[i].n = x
    BY <1>2 DEF PlacedIn
  <2>2. PICK i \in 1..Len(d[n].asked) : d[n].asked[i].n = x
    BY <2>1
  <2>3. n \in DOMAIN d \ open /\ (i \in 1..d[n].real \/ i \in d[n].real + 1..Len(d[n].asked))
    BY <1>1
  <2> QED
    BY <2>2, <2>3, KeptIs, TornIs
<1> QED
  BY <1>2, Apart

\* Closing some of the open files, and opening new ones, finds out about the
\* blocks of the closed ones and forgets nothing.
LEMMA ClosingFinds ==
    ASSUME NEW d, NEW e, NEW H, NEW open, NEW left, Disk(d), Disk(e), PlacedIn(d, H),
           DOMAIN d \subseteq DOMAIN e,
           \A n \in DOMAIN d : e[n].asked = d[n].asked /\ e[n].real \in 0..Len(d[n].asked),
           \A n \in DOMAIN d : n \in open => d[n].real = 0,
           \A n \in DOMAIN d : n \notin open => e[n] = d[n] /\ n \notin left,
           \A n \in DOMAIN e : n \notin DOMAIN d => e[n] = Empty
    PROVE  PlacedIn(e, H) /\ KeptIn(d) \subseteq KeptIn(e)
           /\ TornIn(d, open) \subseteq TornIn(e, left)
<1>1. \A n \in DOMAIN d : Len(d[n].asked) \in Nat
  BY DEF Disk, File
<1>2. \A n \in DOMAIN e : n \notin DOMAIN d =>
         e[n].asked = << >> /\ e[n].real = 0 /\ Len(e[n].asked) = 0
  BY DEF Empty
<1>3. \A n \in DOMAIN e : \A i \in 1..Len(e[n].asked) : n \in DOMAIN d
  BY <1>2
<1>4. PlacedIn(e, H)
  <2>1. \A n \in DOMAIN e : e[n].real \in 0..Len(e[n].asked)
    <3>1. \A n \in DOMAIN e : n \in DOMAIN d => e[n].real \in 0..Len(e[n].asked)
      OBVIOUS
    <3>2. \A n \in DOMAIN e : n \notin DOMAIN d => e[n].real \in 0..Len(e[n].asked)
      BY <1>2
    <3> QED
      BY <3>1, <3>2
  <2>2. \A n \in DOMAIN e : \A i \in 1..Len(e[n].asked) : e[n].asked[i].n \in H
    BY <1>3 DEF PlacedIn
  <2>3. \A n, m \in DOMAIN e :
           \A i \in 1..Len(e[n].asked), j \in 1..Len(e[m].asked) :
              e[n].asked[i].n = e[m].asked[j].n => n = m /\ i = j
    BY <1>3 DEF PlacedIn
  <2>4. \A x \in H : \E n \in DOMAIN e : \E i \in 1..Len(e[n].asked) : e[n].asked[i].n = x
    <3> SUFFICES ASSUME NEW x \in H
                 PROVE  \E n \in DOMAIN e : \E i \in 1..Len(e[n].asked) : e[n].asked[i].n = x
      OBVIOUS
    <3>1. PICK n \in DOMAIN d : \E i \in 1..Len(d[n].asked) : d[n].asked[i].n = x
      BY DEF PlacedIn
    <3>2. n \in DOMAIN e /\ e[n].asked = d[n].asked
      OBVIOUS
    <3> QED
      BY <3>1, <3>2
  <2> QED
    BY <2>1, <2>2, <2>3, <2>4 DEF PlacedIn
<1>5. ASSUME NEW x, x \in KeptIn(d)
      PROVE  x \in KeptIn(e)
  <2>1. PICK n \in DOMAIN d : \E i \in 1..d[n].real : d[n].asked[i].n = x
    BY <1>5, KeptIs
  <2>2. PICK i \in 1..d[n].real : d[n].asked[i].n = x
    BY <2>1
  <2>3. n \notin open
    BY <2>2
  <2>4. n \in DOMAIN e /\ e[n] = d[n]
    BY <2>3
  <2> QED
    BY <2>2, <2>4, KeptIs
<1>6. ASSUME NEW x, x \in TornIn(d, open)
      PROVE  x \in TornIn(e, left)
  <2>1. PICK n \in DOMAIN d \ open : \E i \in d[n].real + 1..Len(d[n].asked) : d[n].asked[i].n = x
    BY <1>6, TornIs
  <2>2. n \in DOMAIN e \ left /\ e[n] = d[n]
    BY <2>1
  <2> QED
    BY <2>1, <2>2, TornIs
<1> QED
  BY <1>4, <1>5, <1>6

\* A block that fwrite accepts is placed behind the others of an open file, and is
\* not known to have landed.
Adds(d, e, n, b) ==
    /\ n \in DOMAIN d /\ b \in Block
    /\ DOMAIN e = DOMAIN d
    /\ e[n].asked = Append(d[n].asked, b)
    /\ d[n].real = 0 /\ e[n].real = 0
    /\ \A m \in DOMAIN d : m # n => e[m] = d[m]

LEMMA WritingPlaces ==
    ASSUME NEW d, NEW e, NEW H, NEW open, NEW n, NEW b, Adds(d, e, n, b),
           Disk(d), Disk(e), PlacedIn(d, H), b.n \notin H, n \in open
    PROVE  /\ PlacedIn(e, H \cup {b.n})
           /\ KeptIn(e) = KeptIn(d) /\ TornIn(e, open) = TornIn(d, open)
<1>0. /\ n \in DOMAIN d /\ b \in Block /\ DOMAIN e = DOMAIN d
      /\ e[n].asked = Append(d[n].asked, b) /\ d[n].real = 0 /\ e[n].real = 0
      /\ \A m \in DOMAIN d : m # n => e[m] = d[m]
  BY DEF Adds
<1>1. \A m \in DOMAIN d : d[m].asked \in Seq(Block) /\ Len(d[m].asked) \in Nat
  BY <1>0 DEF Disk, File
<1> DEFINE k == Len(d[n].asked)
<1>2. /\ Len(e[n].asked) = k + 1 /\ k \in Nat /\ e[n].asked[k + 1] = b
      /\ \A i \in 1..k : e[n].asked[i] = d[n].asked[i]
  BY <1>0, <1>1, AppendProperties
<1> HIDE DEF k
<1>3. ASSUME NEW m \in DOMAIN e, NEW i \in 1..Len(e[m].asked)
      PROVE  \/ m = n /\ i = k + 1 /\ e[m].asked[i].n = b.n
             \/ /\ i \in 1..Len(d[m].asked) /\ e[m].asked[i].n = d[m].asked[i].n
                /\ e[m].asked[i].n \in H
  <2>1. CASE m # n
    BY <1>0, <1>1, <2>1 DEF PlacedIn
  <2>2. CASE m = n /\ i # k + 1
    <3>1. i \in 1..k /\ e[m].asked[i] = d[m].asked[i]
      BY <1>0, <1>2, <2>2
    <3> QED
      BY <1>0, <2>2, <3>1 DEF PlacedIn, k
  <2>3. CASE m = n /\ i = k + 1
    BY <1>0, <1>2, <2>3
  <2> QED
    BY <1>0, <2>1, <2>2, <2>3
<1>4. ASSUME NEW m \in DOMAIN d, NEW i \in 1..Len(d[m].asked)
      PROVE  i \in 1..Len(e[m].asked) /\ e[m].asked[i].n = d[m].asked[i].n
  <2>1. CASE m # n
    BY <1>0, <2>1
  <2>2. CASE m = n
    BY <1>0, <1>2, <2>2 DEF k
  <2> QED
    BY <1>0, <2>1, <2>2
<1>5. \A m \in DOMAIN e : e[m].real \in 0..Len(e[m].asked)
  <2> SUFFICES ASSUME NEW m \in DOMAIN e PROVE e[m].real \in 0..Len(e[m].asked)
    BY <1>0
  <2>1. CASE m # n
    BY <1>0, <2>1 DEF PlacedIn
  <2>2. CASE m = n
    BY <1>0, <1>2, <2>2
  <2> QED
    BY <1>0, <2>1, <2>2
<1>6. \A m \in DOMAIN e : \A i \in 1..Len(e[m].asked) : e[m].asked[i].n \in H \cup {b.n}
  BY <1>0, <1>3
<1>7. ASSUME NEW m \in DOMAIN e, NEW l \in DOMAIN e,
             NEW i \in 1..Len(e[m].asked), NEW j \in 1..Len(e[l].asked),
             e[m].asked[i].n = e[l].asked[j].n
      PROVE  m = l /\ i = j
  <2>1. CASE e[m].asked[i].n = b.n
    BY <1>0, <1>3, <1>7, <2>1
  <2>2. CASE e[m].asked[i].n # b.n
    <3>1. /\ i \in 1..Len(d[m].asked) /\ j \in 1..Len(d[l].asked)
          /\ d[m].asked[i].n = d[l].asked[j].n
      BY <1>0, <1>3, <1>7, <2>2
    <3> QED
      BY <1>0, <3>1 DEF PlacedIn
  <2> QED
    BY <1>0, <2>1, <2>2
<1>8. ASSUME NEW x \in H \cup {b.n}
      PROVE  \E m \in DOMAIN e : \E i \in 1..Len(e[m].asked) : e[m].asked[i].n = x
  <2>1. CASE x = b.n
    <3>1. k + 1 \in 1..Len(e[n].asked) /\ e[n].asked[k + 1].n = x
      BY <1>0, <1>2, <2>1
    <3> QED
      BY <1>0, <3>1
  <2>2. CASE x \in H
    <3>1. PICK m \in DOMAIN d : \E i \in 1..Len(d[m].asked) : d[m].asked[i].n = x
      BY <1>0, <2>2 DEF PlacedIn
    <3> QED
      BY <1>0, <3>1, <1>4
  <2> QED
    BY <1>0, <2>1, <2>2
<1>9. KeptIn(e) = KeptIn(d)
  <2>1. \A m \in DOMAIN d : \A i \in 1..d[m].real : m # n
    BY <1>0
  <2>2. \A m \in DOMAIN d : \A i \in 1..e[m].real : m # n
    BY <1>0
  <2>3. \A x : x \in KeptIn(e) <=> x \in KeptIn(d)
    BY <1>0, <2>1, <2>2, KeptIs
  <2> QED
    BY <1>0, <2>3
<1>10. TornIn(e, open) = TornIn(d, open)
  <2>1. \A m \in DOMAIN d \ open : e[m] = d[m]
    BY <1>0
  <2>2. \A x : x \in TornIn(e, open) <=> x \in TornIn(d, open)
    BY <1>0, <2>1, TornIs
  <2> QED
    BY <1>0, <2>2
<1> QED
  BY <1>0, <1>5, <1>6, <1>7, <1>8, <1>9, <1>10 DEF PlacedIn

\* The block in the writer's hands is the next one to settle.
LEMMA NextToSettle ==
    ASSUME IInv, writer = "write"
    PROVE  /\ block \in Block /\ block.stream \in Stream
           /\ Settled \in Nat /\ Settled < Len(log)
           /\ block = log[Settled + 1] /\ block.n = Settled + 1
           /\ Phase # "off"
<1>1. block \in Block /\ block # NULL
  BY DEF IInv, TypeOK, Handshake
<1>2. Len(log) \in Nat /\ Len(rec_q) \in Nat
  BY DEF IInv, TypeOK
<1>3. Settled \in Nat /\ Settled < Len(log) /\ block = log[Settled + 1]
  BY <1>1, <1>2 DEF IInv, QueueIsTail, Settled
<1>4. Settled + 1 \in 1..Len(log)
  BY <1>2, <1>3
<1>5. block.n = Settled + 1
  BY <1>3, <1>4 DEF IInv, QueueIsTail
<1> QED
  BY <1>1, <1>3, <1>5 DEF Block, Phase

\* It is settled when the writer is done with it.
LEMMA BlockSettled ==
    ASSUME IInv, writer = "write", log' = log, rec_q' = rec_q, Freed
    PROVE  Settled' = Settled + 1
<1>1. Len(log) \in Nat /\ Len(rec_q) \in Nat /\ block # NULL /\ Settled \in Nat
  BY DEF IInv, TypeOK, Handshake, QueueIsTail
<1> QED
  BY <1>1 DEF Settled, Freed

\* A block that fwrite accepted is handed over.
LEMMA HandedGrows ==
    ASSUME IInv, WriteDone
    PROVE  Handed' = Handed \cup {block.n}
<1> DEFINE s == block.stream
           x == block.n
<1>1. s \in Stream /\ x \in 1..MaxTaken
  BY NextToSettle DEF WriteDone, Block
<1>2. written[s] \in Seq(1..MaxTaken) /\ written \in [Stream -> Seq(1..MaxTaken)]
  BY <1>1 DEF IInv, TypeOK
<1>3. written'[s] = Append(written[s], x) /\ \A t \in Stream : t # s => written'[t] = written[t]
  BY <1>1, <1>2 DEF WriteDone
<1> HIDE DEF s, x
<1> DEFINE old(t) == {written[t][i] : i \in DOMAIN written[t]}
           new(t) == {written'[t][i] : i \in DOMAIN written'[t]}
<1>4. new(s) = old(s) \cup {x}
  <2> DEFINE m == Len(written[s])
  <2>1. /\ Len(written'[s]) = m + 1 /\ written'[s] \in Seq(1..MaxTaken) /\ m \in Nat
        /\ \A i \in 1..m : written'[s][i] = written[s][i]
        /\ written'[s][m + 1] = x
    BY <1>1, <1>2, <1>3, AppendProperties
  <2>2. DOMAIN written'[s] = 1..m + 1 /\ 1..m + 1 = 1..m \cup {m + 1} /\ DOMAIN written[s] = 1..m
    BY <1>2, <2>1
  <2> HIDE DEF m
  <2> QED
    BY <2>1, <2>2
<1>5. \A t \in Stream : t # s => new(t) = old(t)
  BY <1>3
<1>6. Handed = UNION {old(t) : t \in Stream} /\ Handed' = UNION {new(t) : t \in Stream}
  BY DEF Handed
<1> HIDE DEF old, new
<1>7. \A y : y \in Handed' <=> \E t \in Stream : y \in new(t)
  BY <1>6
<1>8. \A y : y \in Handed <=> \E t \in Stream : y \in old(t)
  BY <1>6
<1>9. \A y : y \in Handed' <=> y \in Handed \/ y = x
  BY <1>1, <1>4, <1>5, <1>7, <1>8
<1> QED
  BY <1>9 DEF x

\* Closing the file of a stream.
LEMMA StreamClosed ==
    ASSUME IInv, Placed, NEW s \in Stream, NEW c \in Closings(disk, path[s])
    PROVE  /\ Disk(c) /\ DOMAIN c = DOMAIN disk
           /\ \A n \in DOMAIN disk : /\ c[n].asked = disk[n].asked
                                     /\ c[n].real \in 0..Len(disk[n].asked)
           /\ \A n \in DOMAIN disk : n # path[s] => c[n] = disk[n]
<1>1. Disk(disk) /\ path[s] \in DOMAIN disk \cup {NULL}
  BY DEF IInv, TypeOK, Disk, OpenFiles
<1>2. /\ Disk(c) /\ DOMAIN c = DOMAIN disk
      /\ \A n \in DOMAIN disk : c[n].asked = disk[n].asked
      /\ \A n \in DOMAIN disk : n # path[s] => c[n] = disk[n]
  BY <1>1, ClosedFile
<1>3. \A n \in DOMAIN disk : n # path[s] => c[n].real \in 0..Len(disk[n].asked)
  BY <1>2 DEF Placed, PlacedIn
<1>4. path[s] \in DOMAIN disk => c[path[s]].real \in 0..Len(disk[path[s]].asked)
  <2> SUFFICES ASSUME path[s] \in DOMAIN disk
               PROVE  c[path[s]].real \in 0..Len(disk[path[s]].asked)
    OBVIOUS
  <2>1. path[s] # NULL
    BY <1>1, RecorderConstants DEF Disk
  <2>2. disk[path[s]].real = 0 /\ disk[path[s]].hdr = NULL
    BY <2>1 DEF IInv, OpenFiles
  <2> QED
    BY <1>1, <2>1, <2>2, ClosedFile
<1> QED
  BY <1>2, <1>3, <1>4

\* Closing forgets nothing, whichever of the files it closes.
LEMMA StreamsClosed ==
    ASSUME IInv, Placed, Disk(disk'), DOMAIN disk \subseteq DOMAIN disk', written' = written,
           \A n \in DOMAIN disk : /\ disk'[n].asked = disk[n].asked
                                  /\ disk'[n].real \in 0..Len(disk[n].asked),
           \A n \in DOMAIN disk : n \notin Open => disk'[n] = disk[n] /\ n \notin Open',
           \A n \in DOMAIN disk' : n \notin DOMAIN disk => disk'[n] = Empty
    PROVE  PlacedIn(disk', Handed') /\ Promise!Found
<1>1. Disk(disk) /\ PlacedIn(disk, Handed) /\ Handed' = Handed
  BY DEF IInv, TypeOK, Disk, Placed, Handed
<1>2. \A n \in DOMAIN disk : n \in Open => disk[n].real = 0
  <2> SUFFICES ASSUME NEW s \in Stream, path[s] \in DOMAIN disk
               PROVE  disk[path[s]].real = 0
    BY DEF Open
  <2>1. path[s] # NULL
    BY <1>1, RecorderConstants DEF Disk
  <2> QED
    BY <2>1 DEF IInv, OpenFiles
<1> DEFINE H == Handed
           d == disk
           e == disk'
           o == Open
           l == Open'
<1>3. /\ Disk(d) /\ Disk(e) /\ PlacedIn(d, H) /\ DOMAIN d \subseteq DOMAIN e
      /\ \A n \in DOMAIN d : e[n].asked = d[n].asked /\ e[n].real \in 0..Len(d[n].asked)
      /\ \A n \in DOMAIN d : n \in o => d[n].real = 0
      /\ \A n \in DOMAIN d : n \notin o => e[n] = d[n] /\ n \notin l
      /\ \A n \in DOMAIN e : n \notin DOMAIN d => e[n] = Empty
  BY <1>1, <1>2
<1>4. Kept = KeptIn(d) /\ Kept' = KeptIn(e) /\ Torn = TornIn(d, o) /\ Torn' = TornIn(e, l)
      /\ Handed' = H /\ Handed = H
  BY <1>1 DEF Kept, KeptIn, Torn, TornIn
<1> HIDE DEF H, d, e, o, l
<1>5. /\ PlacedIn(e, H) /\ KeptIn(d) \subseteq KeptIn(e) /\ TornIn(d, o) \subseteq TornIn(e, l)
  BY <1>3, ClosingFinds
<1>6. KeptIn(e) \cap TornIn(e, l) = {} /\ KeptIn(e) \cup TornIn(e, l) \subseteq H
  BY <1>3, <1>5, Apart
<1>7. Promise!Found
  BY <1>4, <1>5, <1>6 DEF Promise!Found
<1> QED
  BY <1>4, <1>5, <1>7 DEF e

\* The four ways a file is closed.
LEMMA LeavesCloses ==
    ASSUME IInv, Placed, WriterLeaves
    PROVE  PlacedIn(disk', Handed') /\ Promise!Found /\ DOMAIN disk' = DOMAIN disk
<1> DEFINE p == path["iq"]
           q == path["af"]
<1>1. PICK d \in Closings(disk, p) : disk' \in Closings(d, q)
  BY DEF WriterLeaves
<1>2. "iq" \in Stream /\ "af" \in Stream /\ Open = {p, q}
  BY DEF Stream, Open
<1>3. /\ Disk(d) /\ DOMAIN d = DOMAIN disk
      /\ \A n \in DOMAIN disk : d[n].asked = disk[n].asked /\ d[n].real \in 0..Len(disk[n].asked)
      /\ \A n \in DOMAIN disk : n # p => d[n] = disk[n]
  BY <1>2, StreamClosed
<1>4. Disk(disk) /\ q \in DOMAIN d \cup {NULL} /\ OpenFiles
  BY <1>2, <1>3 DEF IInv, TypeOK, Disk, OpenFiles
<1>5. /\ Disk(disk') /\ DOMAIN disk' = DOMAIN d
      /\ \A n \in DOMAIN d : disk'[n].asked = d[n].asked
      /\ \A n \in DOMAIN d : n # q => disk'[n] = d[n]
      /\ q # NULL /\ d[q].real = 0 /\ d[q].hdr = NULL => disk'[q].real \in 0..Len(d[q].asked)
  BY <1>1, <1>3, <1>4, ClosedFile
<1>6. q # NULL => q # p /\ d[q] = disk[q] /\ disk[q].real = 0 /\ disk[q].hdr = NULL
  <2> SUFFICES ASSUME q # NULL PROVE q # p /\ d[q] = disk[q] /\ disk[q].real = 0 /\ disk[q].hdr = NULL
    OBVIOUS
  <2>1. q # p
    BY <1>2, <1>4, DistinctPaths
  <2>2. q \in DOMAIN disk /\ disk[q].real = 0 /\ disk[q].hdr = NULL
    BY <1>2, <1>4 DEF OpenFiles
  <2> QED
    BY <1>3, <2>1, <2>2
<1>7. \A n \in DOMAIN disk : /\ disk'[n].asked = disk[n].asked
                             /\ disk'[n].real \in 0..Len(disk[n].asked)
  <2>1. \A n \in DOMAIN disk : disk'[n].asked = disk[n].asked
    BY <1>3, <1>5
  <2>2. \A n \in DOMAIN disk : n # q => disk'[n].real \in 0..Len(disk[n].asked)
    BY <1>3, <1>5
  <2>3. q \in DOMAIN disk => q # NULL
    BY <1>4, RecorderConstants DEF Disk
  <2>4. q \in DOMAIN disk => disk'[q].real \in 0..Len(disk[q].asked)
    BY <1>5, <1>6, <2>3
  <2> QED
    BY <2>1, <2>2, <2>4
<1>8. \A n \in DOMAIN disk : n \notin Open => disk'[n] = disk[n] /\ n \notin Open'
  <2>1. Open' = {NULL}
    BY DEF Open, WriterLeaves, Stream
  <2>2. \A n \in DOMAIN disk : n # NULL
    BY <1>4, RecorderConstants DEF Disk
  <2> QED
    BY <1>2, <1>3, <1>5, <2>1, <2>2
<1>9. written' = written
  BY DEF WriterLeaves
<1> QED
  BY <1>3, <1>5, <1>7, <1>8, <1>9, StreamsClosed

LEMMA FailureCloses ==
    ASSUME IInv, Placed, NEW s \in Stream, disk' \in Closings(disk, path[s]),
           path' = [path EXCEPT ![s] = NULL], written' = written
    PROVE  PlacedIn(disk', Handed') /\ Promise!Found /\ DOMAIN disk' = DOMAIN disk
<1>1. /\ Disk(disk') /\ DOMAIN disk' = DOMAIN disk
      /\ \A n \in DOMAIN disk : /\ disk'[n].asked = disk[n].asked
                                /\ disk'[n].real \in 0..Len(disk[n].asked)
      /\ \A n \in DOMAIN disk : n # path[s] => disk'[n] = disk[n]
  BY StreamClosed
<1>2. path \in [Stream -> Name \cup {NULL}] /\ \A n \in DOMAIN disk : n # NULL
  BY RecorderConstants DEF IInv, TypeOK
<1>3. \A n \in DOMAIN disk : n \notin Open => n # path[s] /\ n \notin Open'
  BY <1>2 DEF Open
<1> QED
  BY <1>1, <1>3, StreamsClosed

LEMMA RollCloses ==
    ASSUME IInv, Placed, RollSegment
    PROVE  /\ PlacedIn(disk', Handed') /\ Promise!Found
           /\ DOMAIN disk' = DOMAIN disk \cup {NameOf(block.stream, seg[block.stream] + 1)}
<1> DEFINE s == block.stream
           next == NameOf(s, seg[s] + 1)
<1>1. s \in Stream
  BY NextToSettle DEF RollSegment
<1>2. seg[s] \in Nat /\ path \in [Stream -> Name \cup {NULL}] /\ Disk(disk)
  BY <1>1 DEF IInv, TypeOK, Disk
<1>3. next \in Name /\ next.stream = s /\ next.seg = seg[s] + 1
  BY <1>1, <1>2 DEF NameOf, Name
<1>4. next \notin DOMAIN disk
  BY <1>1, <1>2, <1>3 DEF Placed
<1>5. /\ path' = [path EXCEPT ![s] = next] /\ written' = written
      /\ \E d \in Closings(disk, path[s]) : disk' = Opened(d, next)
  BY DEF RollSegment
<1> HIDE DEF s, next
<1>6. PICK d \in Closings(disk, path[s]) : disk' = Opened(d, next)
  BY <1>5
<1>7. /\ Disk(d) /\ DOMAIN d = DOMAIN disk
      /\ \A n \in DOMAIN disk : d[n].asked = disk[n].asked /\ d[n].real \in 0..Len(disk[n].asked)
      /\ \A n \in DOMAIN disk : n # path[s] => d[n] = disk[n]
  BY <1>1, StreamClosed
<1>8. /\ Disk(disk') /\ DOMAIN disk' = DOMAIN d \cup {next} /\ disk'[next] = Empty
      /\ \A n \in DOMAIN d : n # next => disk'[n] = d[n]
  BY <1>3, <1>6, <1>7, OpenedFile
<1>9. \A n \in DOMAIN disk : n # next /\ disk'[n] = d[n]
  BY <1>4, <1>7, <1>8
<1>10. \A n \in DOMAIN disk : n \notin Open => disk'[n] = disk[n] /\ n \notin Open'
  BY <1>1, <1>2, <1>5, <1>7, <1>9 DEF Open
<1>11. /\ DOMAIN disk \subseteq DOMAIN disk'
       /\ \A n \in DOMAIN disk : /\ disk'[n].asked = disk[n].asked
                                 /\ disk'[n].real \in 0..Len(disk[n].asked)
       /\ \A n \in DOMAIN disk' : n \notin DOMAIN disk => disk'[n] = Empty
  BY <1>7, <1>8, <1>9
<1>12. PlacedIn(disk', Handed') /\ Promise!Found
  BY <1>5, <1>8, <1>10, <1>11, StreamsClosed
<1> QED
  BY <1>7, <1>8, <1>12 DEF next, s

\* A block is written to a file that is open.
LEMMA DonePlaces ==
    ASSUME IInv, Placed, WriteDone
    PROVE  /\ PlacedIn(disk', Handed') /\ DOMAIN disk' = DOMAIN disk
           /\ Kept' = Kept /\ Torn' = Torn
<1> DEFINE s == block.stream
<1>1. /\ s \in Stream /\ block \in Block /\ block.n = Settled + 1 /\ Settled \in Nat
      /\ path[s] # NULL
  BY NextToSettle DEF WriteDone
<1>2. path[s] \in DOMAIN disk /\ disk[path[s]].real = 0 /\ path[s] \in Open
  BY <1>1 DEF IInv, OpenFiles, Open
<1>3. Disk(disk) /\ TypeOK'
  BY StepIInv DEF IInv, TypeOK, Disk, Next, WriterStep
<1>4. Disk(disk') /\ DOMAIN disk' = DOMAIN disk /\ Open' = Open
  BY <1>3 DEF TypeOK, Disk, WriteDone, Open
<1>5. disk[path[s]] \in File
  BY <1>2, <1>3 DEF Disk
<1>6. /\ disk'[path[s]].asked = Append(disk[path[s]].asked, block)
      /\ disk'[path[s]].real = 0
      /\ \A m \in DOMAIN disk : m # path[s] => disk'[m] = disk[m]
  BY <1>2, <1>3, <1>5 DEF WriteDone, Disk, File
<1>7. block.n \notin Handed
  BY <1>1 DEF Placed
<1>8. Handed' = Handed \cup {block.n}
  BY HandedGrows
<1> DEFINE H == Handed
           d == disk
           e == disk'
           o == Open
           n == path[s]
           b == block
<1>9. /\ Disk(d) /\ Disk(e) /\ PlacedIn(d, H) /\ b.n \notin H /\ b \in Block
      /\ n \in DOMAIN d /\ n \in o /\ d[n].real = 0
      /\ DOMAIN e = DOMAIN d /\ e[n].asked = Append(d[n].asked, b) /\ e[n].real = 0
      /\ \A m \in DOMAIN d : m # n => e[m] = d[m]
  BY <1>1, <1>2, <1>3, <1>4, <1>6, <1>7 DEF Placed
<1>10. /\ Kept = KeptIn(d) /\ Kept' = KeptIn(e) /\ Torn = TornIn(d, o) /\ Torn' = TornIn(e, o)
       /\ Handed' = H \cup {b.n}
  BY <1>4, <1>8 DEF Kept, KeptIn, Torn, TornIn
<1> HIDE DEF H, d, e, o, n, b
<1>11. PlacedIn(e, H \cup {b.n}) /\ KeptIn(e) = KeptIn(d) /\ TornIn(e, o) = TornIn(d, o)
  <2>1. Disk(d) /\ Disk(e) /\ PlacedIn(d, H) /\ b.n \notin H /\ n \in o
    BY <1>9
  <2>2. Adds(d, e, n, b)
    BY <1>9 DEF Adds
  <2> QED
    BY <2>1, <2>2, WritingPlaces
<1> QED
  BY <1>9, <1>10, <1>11 DEF d, e

\* A recording begins, or cannot, with empty files.
LEMMA BeginPlaces ==
    ASSUME NEW S \in SUBSET Stream, disk' = FirstFiles(S), written' = [s \in Stream |-> << >>]
    PROVE  /\ PlacedIn(disk', Handed') /\ Handed' = {} /\ Kept' = {} /\ Torn' = {}
           /\ DOMAIN disk' = {NameOf(s, 1) : s \in S}
<1>1. /\ DOMAIN disk' = {NameOf(s, 1) : s \in S}
      /\ \A n \in DOMAIN disk' :
            disk'[n].real = 0 /\ disk'[n].asked = << >> /\ Len(disk'[n].asked) = 0
  <2>1. /\ DOMAIN disk' = {NameOf(s, 1) : s \in S}
        /\ \A n \in DOMAIN disk' : disk'[n] = Empty
    BY FirstFilesOpen
  <2>2. Empty.real = 0 /\ Empty.asked = << >> /\ Len(<< >>) = 0
    BY DEF Empty
  <2> QED
    BY <2>1, <2>2
<1>2. Handed' = {}
  <2>1. \A s \in Stream : {written'[s][i] : i \in DOMAIN written'[s]} = {}
    OBVIOUS
  <2> QED
    BY <2>1 DEF Handed
<1>3. Kept' = {}
  <2>1. \A n \in DOMAIN disk' : {disk'[n].asked[i].n : i \in 1..disk'[n].real} = {}
    BY <1>1
  <2> QED
    BY <2>1 DEF Kept
<1>4. Torn' = {}
  <2>1. \A n \in DOMAIN disk' :
           {disk'[n].asked[i].n : i \in disk'[n].real + 1..Len(disk'[n].asked)} = {}
    BY <1>1
  <2> QED
    BY <2>1 DEF Torn
<1> QED
  BY <1>1, <1>2, <1>3, <1>4 DEF PlacedIn

\* The places are kept by every step.
LEMMA PlacedStep ==
    ASSUME IInv, Placed, [Next]_vars
    PROVE  Placed'
<1>0. TypeOK /\ Handshake /\ QueueIsTail
  BY DEF IInv
<1>t. Settled \in Nat /\ Settled' \in Nat
  BY StepIInv DEF IInv, QueueIsTail
<1>s. seg \in [Stream -> Nat] /\ \A n \in DOMAIN disk : n.stream \in Stream /\ n.seg \in Nat
  BY <1>0 DEF TypeOK, Name
<1> DEFINE Segs == (\A n \in DOMAIN disk : n.seg <= seg[n.stream]) /\ \A s \in Stream : seg[s] >= 1
<1> USE RecorderConstants DEF ui, shared, files
\* A step that leaves the files alone and settles none back.
<1>k. ASSUME disk' = disk, seg' = seg, written' = written, Settled <= Settled'
      PROVE  Placed'
  <2>1. Handed' = Handed
    BY <1>k DEF Handed
  <2>2. Handed' \subseteq 1..Settled'
    BY <1>t, <1>k, <2>1 DEF Placed
  <2> QED
    BY <1>k, <2>1, <2>2 DEF Placed
<1>b. ASSUME NEW S \in SUBSET Stream, disk' = FirstFiles(S), \A s \in Stream : seg'[s] >= 1,
             written' = [s \in Stream |-> << >>]
      PROVE  Placed'
  <2>1. /\ PlacedIn(disk', Handed') /\ Handed' = {}
        /\ DOMAIN disk' = {NameOf(s, 1) : s \in S}
    BY <1>b, BeginPlaces
  <2>2. \A n \in DOMAIN disk' : n.seg <= seg'[n.stream]
    BY <1>b, <2>1 DEF NameOf
  <2> QED
    BY <1>b, <2>1, <2>2 DEF Placed
\* A step that closes files, or writes to them.
<1>c. ASSUME PlacedIn(disk', Handed'), DOMAIN disk' = DOMAIN disk,
             Handed' \subseteq 1..Settled', seg' \in [Stream -> Nat],
             \A s \in Stream : seg[s] <= seg'[s]
      PROVE  Placed'
  <2>1. \A n \in DOMAIN disk' : n.seg <= seg'[n.stream]
    BY <1>s, <1>c DEF Placed
  <2>2. \A s \in Stream : seg'[s] >= 1
    BY <1>s, <1>c DEF Placed
  <2> QED
    BY <1>c, <2>1, <2>2 DEF Placed
<1>h. ASSUME written' = written, Settled <= Settled'
      PROVE  Handed' \subseteq 1..Settled'
  BY <1>t, <1>h DEF Placed, Handed
<1>1. CASE \E rx \in alive, want \in SUBSET Stream :
                     Start(rx, want) /\ gtk = "free" /\ UNCHANGED <<alive, tap>>
  <2>1. PICK want \in SUBSET Stream : \E rx \in alive : Start(rx, want)
    BY <1>1
  <2>2. /\ disk' = FirstFiles(want) /\ written' = [s \in Stream |-> << >>]
        /\ \A s \in Stream : seg'[s] >= 1
    BY <2>1 DEF Start
  <2> QED
    BY <2>2, <1>b
<1>2. CASE \E want \in SUBSET Stream : \E opened \in SUBSET want :
                     StartFails(want, opened) /\ gtk = "free" /\ UNCHANGED <<alive, tap>>
  <2>1. PICK opened \in SUBSET Stream : \E want \in SUBSET Stream : StartFails(want, opened)
    BY <1>2
  <2>2. disk' = FirstFiles(opened) /\ written' = [s \in Stream |-> << >>] /\ seg' = seg
    BY <2>1 DEF StartFails
  <2> QED
    BY <2>2, <1>b DEF Placed
<1>3. CASE \E c \in {"toggle", "idle", "delete"} :
                     /\ StopBegin(c) /\ gtk = "free"
                     /\ tap' = tap /\ alive' \in SUBSET alive /\ stops' \in {stops, stops - 1}
                     /\ stops' \in Nat
  <2>1. disk' = disk /\ seg' = seg /\ written' = written /\ Settled' = Settled
    BY <1>3 DEF StopBegin, Settled
  <2> QED
    BY <2>1, <1>k, <1>t
<1>4. CASE StopJoin
  <2>1. disk' = disk /\ seg' = seg /\ written' = written
    BY <1>4 DEF StopJoin
  <2>2. rec_q' = rec_q /\ log' = log /\ block' = block
    BY <1>0, <1>4 DEF StopJoin, Handshake
  <2>3. Settled' = Settled
    BY <2>2 DEF Settled
  <2> QED
    BY <2>1, <2>3, <1>k, <1>t
<1>5. CASE \E rx \in Rx : TapTaken(rx)
  <2>1. PICK rx \in Rx : TapTaken(rx)
    BY <1>5
  <2>2. tap[rx] \in Stream /\ Len(log) \in Nat /\ Len(rec_q) \in Nat
        /\ log \in Seq(Block) /\ rec_q \in Seq(Block) /\ Len(log) < MaxTaken
    BY <2>1, <1>0 DEF TypeOK, TapTaken
  <2> DEFINE b == [stream |-> tap[rx], n |-> Len(log) + 1]
  <2>3. b \in Block /\ log' = Append(log, b) /\ rec_q' = Append(rec_q, b)
    BY <2>1, <2>2 DEF Block, TapTaken
  <2> HIDE DEF b
  <2>4. Len(log') = Len(log) + 1 /\ Len(rec_q') = Len(rec_q) + 1
    BY <2>2, <2>3, AppendProperties
  <2>5. block' = block /\ disk' = disk /\ seg' = seg /\ written' = written
    BY <2>1 DEF TapTaken
  <2>6. Settled' = Settled
    BY <2>2, <2>4, <2>5 DEF Settled
  <2> QED
    BY <2>5, <2>6, <1>k, <1>t
<1>6. CASE WriterTakes
  <2>1. rec_q \in Seq(Block) /\ rec_q # << >> /\ Len(log) \in Nat /\ Len(rec_q) \in Nat
    BY <1>0, <1>6 DEF TypeOK, WriterTakes
  <2>2. Len(rec_q') = Len(rec_q) - 1 /\ block = NULL /\ block' \in Block /\ log' = log
    BY <2>1, <1>0, <1>6, HeadTailProperties DEF WriterTakes, Handshake
  <2>3. block' # NULL
    BY <2>2
  <2>4. Settled' = Settled
    BY <2>1, <2>2, <2>3 DEF Settled
  <2>5. disk' = disk /\ seg' = seg /\ written' = written
    BY <1>6 DEF WriterTakes
  <2> QED
    BY <2>4, <2>5, <1>k, <1>t
<1>7. CASE WriterLeaves
  <2>1. PlacedIn(disk', Handed') /\ DOMAIN disk' = DOMAIN disk
    BY <1>7, LeavesCloses
  <2>2. seg' = seg /\ written' = written /\ Settled' = Settled
    BY <1>7 DEF WriterLeaves, Settled
  <2>3. Handed' \subseteq 1..Settled'
    BY <2>2, <1>h, <1>t
  <2> QED
    BY <2>1, <2>2, <2>3, <1>c, <1>s
<1>8. CASE WriteSkipped
  <2>1. disk' = disk /\ seg' = seg /\ written' = written
    BY <1>8 DEF WriteSkipped
  <2>2. Settled' = Settled + 1
    BY <1>8, BlockSettled DEF WriteSkipped
  <2> QED
    BY <2>1, <2>2, <1>k, <1>t
<1>9. CASE WriteDone
  <2>1. PlacedIn(disk', Handed') /\ DOMAIN disk' = DOMAIN disk
    BY <1>9, DonePlaces
  <2>2. Settled' = Settled + 1 /\ seg' = seg
    BY <1>9, BlockSettled DEF WriteDone
  <2>3. Handed' = Handed \cup {Settled + 1}
    BY <1>9, HandedGrows, NextToSettle DEF WriteDone
  <2>4. Handed' \subseteq 1..Settled'
    BY <2>2, <2>3, <1>t DEF Placed
  <2> QED
    BY <2>1, <2>2, <2>4, <1>c, <1>s
<1>10. CASE WriteFails
  <2>1. /\ block.stream \in Stream /\ disk' \in Closings(disk, path[block.stream])
        /\ path' = [path EXCEPT ![block.stream] = NULL] /\ written' = written /\ seg' = seg
    BY <1>10, NextToSettle DEF WriteFails
  <2>2. PlacedIn(disk', Handed') /\ DOMAIN disk' = DOMAIN disk
    BY <2>1, FailureCloses
  <2>3. Settled' = Settled + 1
    BY <1>10, BlockSettled DEF WriteFails
  <2>4. Handed' \subseteq 1..Settled'
    BY <2>1, <2>3, <1>h, <1>t
  <2> QED
    BY <2>1, <2>2, <2>4, <1>c, <1>s
<1>11. CASE RollSegment
  <2> DEFINE s == block.stream
  <2>1. s \in Stream
    BY <1>11, NextToSettle DEF RollSegment
  <2>2. /\ PlacedIn(disk', Handed')
        /\ DOMAIN disk' = DOMAIN disk \cup {NameOf(s, seg[s] + 1)}
    BY <1>11, RollCloses
  <2>3. seg' = [seg EXCEPT ![s] = @ + 1] /\ written' = written /\ Settled' = Settled
    BY <1>11 DEF RollSegment, Settled
  <2>4. Handed' \subseteq 1..Settled'
    BY <2>3, <1>h, <1>t
  <2> HIDE DEF s
  <2>5. seg'[s] = seg[s] + 1 /\ \A t \in Stream : seg'[t] \in Nat /\ seg[t] <= seg'[t]
    BY <2>1, <2>3, <1>s
  <2>6. \A n \in DOMAIN disk' : n.seg <= seg'[n.stream]
    <3>1. \A n \in DOMAIN disk : n.seg <= seg'[n.stream]
      BY <2>5, <1>s DEF Placed
    <3>2. NameOf(s, seg[s] + 1).seg <= seg'[NameOf(s, seg[s] + 1).stream]
      BY <2>1, <2>5, <1>s DEF NameOf
    <3> QED
      BY <2>2, <3>1, <3>2
  <2>7. \A t \in Stream : seg'[t] >= 1
    BY <2>5, <1>s DEF Placed
  <2> QED
    BY <2>2, <2>4, <2>6, <2>7 DEF Placed
<1>12. CASE RollFails
  <2> DEFINE s == block.stream
  <2>1. /\ s \in Stream /\ disk' \in Closings(disk, path[s])
        /\ path' = [path EXCEPT ![s] = NULL] /\ written' = written
        /\ seg' = [seg EXCEPT ![s] = @ + 1]
    BY <1>12, NextToSettle DEF RollFails
  <2>2. PlacedIn(disk', Handed') /\ DOMAIN disk' = DOMAIN disk
    BY <2>1, FailureCloses
  <2>3. Settled' = Settled + 1
    BY <1>12, BlockSettled DEF RollFails
  <2>4. Handed' \subseteq 1..Settled'
    BY <2>1, <2>3, <1>h, <1>t
  <2>5. seg' \in [Stream -> Nat] /\ \A t \in Stream : seg[t] <= seg'[t]
    BY <2>1, <1>s
  <2> QED
    BY <2>2, <2>4, <2>5, <1>c
<1>13. CASE /\ UNCHANGED <<gtk, shared, files, writer, block>>
            /\ label' = label \/ (label' = Synced(rec_rx) /\ ~rec_writer)
            /\ alive' \in SUBSET alive /\ stops' \in Nat
            /\ tap' \in [Rx -> Stream \cup {NULL}]
  <2>1. disk' = disk /\ seg' = seg /\ written' = written /\ Settled' = Settled
    BY <1>13 DEF Settled
  <2> QED
    BY <2>1, <1>k, <1>t
<1> QED
  BY <1>0, <1>1, <1>2, <1>3, <1>4, <1>5, <1>6, <1>7, <1>8, <1>9, <1>10, <1>11, <1>12, <1>13, Steps

LEMMA InitPlaced == Init => Placed
<1> SUFFICES ASSUME Init PROVE Placed
  OBVIOUS
<1>1. Handed = {}
  <2>1. \A s \in Stream : {written[s][i] : i \in DOMAIN written[s]} = {}
    BY DEF Init
  <2> QED
    BY <2>1 DEF Handed
<1>2. DOMAIN disk = {} /\ \A s \in Stream : seg[s] >= 1
  BY DEF Init
<1> QED
  BY <1>1, <1>2 DEF Placed, PlacedIn

LEMMA AlwaysPlaced == Spec => []Placed
<1>1. IInv /\ Placed /\ [Next]_vars => Placed'
  BY PlacedStep
<1> QED
  BY <1>1, InitPlaced, AlwaysIInv, PTL DEF Spec

-----------------------------------------------------------------------------
(* The recorder implements RecordingLog *)

LEMMA InitPromise == Init => Promise!Init
<1> SUFFICES ASSUME Init PROVE Promise!Init
  OBVIOUS
<1>1. Phase = "off" /\ log = << >> /\ Settled = 0
  BY DEF Init, Phase, Settled
<1>2. Handed = {}
  <2>1. \A s \in Stream : {written[s][i] : i \in DOMAIN written[s]} = {}
    BY DEF Init
  <2> QED
    BY <2>1 DEF Handed
<1>3. Kept = {} /\ Torn = {}
  <2>1. DOMAIN disk = {}
    BY DEF Init
  <2> QED
    BY <2>1 DEF Kept, Torn
<1>4. Given = Stream
  BY DEF Init, Given
<1> QED
  BY <1>1, <1>2, <1>3, <1>4 DEF Promise!Init

\* What a step leaves alone when it touches none of these variables.
LEMMA Stutters ==
    ASSUME Phase' = Phase, log' = log, Settled' = Settled, written' = written, lost' = lost,
           disk' = disk, path' = path
    PROVE  UNCHANGED Promise!vars
  BY DEF Promise!vars, Handed, Kept, Torn, Open, Given

\* A recording begins, or cannot.
LEMMA Begins ==
    ASSUME NEW S \in SUBSET Stream, disk' = FirstFiles(S), written' = [s \in Stream |-> << >>],
           Phase = "off", Phase' \in {"on", "off"}, log' = << >>, rec_q' = << >>, block' = NULL
    PROVE  Promise!Begin
<1>1. Handed' = {} /\ Kept' = {} /\ Torn' = {}
  BY BeginPlaces
<1>2. Settled' = 0
  BY DEF Settled
<1>3. Given' \in SUBSET Stream
  BY DEF Given
<1> QED
  BY <1>1, <1>2, <1>3 DEF Promise!Begin

\* What is known of the blocks that were handed over stays known when no file
\* changes.
LEMMA NothingFound ==
    ASSUME IInv, Placed, disk' = disk, path' = path
    PROVE  Promise!Found
<1> DEFINE d == disk
           o == Open
           H == Handed
<1>1. Disk(d) /\ PlacedIn(d, H)
  BY DEF IInv, TypeOK, Disk, Placed
<1>2. Kept = KeptIn(d) /\ Kept' = KeptIn(d) /\ Torn = TornIn(d, o) /\ Torn' = TornIn(d, o)
  BY DEF Kept, KeptIn, Torn, TornIn, Open
<1>3. Handed = H
  OBVIOUS
<1> HIDE DEF d, o, H
<1>4. KeptIn(d) \cap TornIn(d, o) = {} /\ KeptIn(d) \cup TornIn(d, o) \subseteq H
  BY <1>1, Apart
<1> QED
  BY <1>2, <1>3, <1>4 DEF Promise!Found

\* A block of a stream without a file is settled by giving the stream up, which
\* it is already or becomes now.
LEMMA SettleLost ==
    ASSUME IInv, writer = "write", log' = log, rec_q' = rec_q, Freed, written' = written,
           rec_writer_run' = rec_writer_run, Promise!Found,
           Given' = Given \cup {block.stream}
    PROVE  Promise!Settle
<1>1. /\ Settled \in Nat /\ Settled < Len(log) /\ block = log[Settled + 1] /\ Phase # "off"
  BY NextToSettle
<1>2. Settled' = Settled + 1
  BY BlockSettled
<1>3. Phase' = Phase /\ Handed' = Handed
  BY DEF Phase, Freed, Handed
<1> QED
  BY <1>1, <1>2, <1>3 DEF Promise!Settle, StreamOf

\* Every step of the recorder is a step of the log, or none.
LEMMA StepPromise ==
    ASSUME IInv, Placed, [Next]_vars
    PROVE  [Promise!Next]_(Promise!vars)
<1>0. TypeOK
  BY DEF IInv
<1> USE RecorderConstants DEF ui, shared, files
<1>1. CASE \E rx \in alive, want \in SUBSET Stream :
                     Start(rx, want) /\ gtk = "free" /\ UNCHANGED <<alive, tap>>
  <2>1. PICK want \in SUBSET Stream :
           \E rx \in alive : Start(rx, want) /\ gtk = "free" /\ UNCHANGED <<alive, tap>>
    BY <1>1
  <2>2. Phase = "off" /\ Phase' = "on"
    BY <2>1 DEF Start, Phase, IInv, Handshake
  <2>3. log' = << >> /\ rec_q' = << >> /\ block' = NULL
    BY <2>1 DEF Start, IInv, Handshake
  <2>4. disk' = FirstFiles(want) /\ written' = [s \in Stream |-> << >>]
    BY <2>1 DEF Start
  <2> QED
    BY <2>2, <2>3, <2>4, Begins DEF Promise!Next
<1>2. CASE \E want \in SUBSET Stream : \E opened \in SUBSET want :
                     StartFails(want, opened) /\ gtk = "free" /\ UNCHANGED <<alive, tap>>
  <2>1. PICK opened \in SUBSET Stream : \E want \in SUBSET Stream :
           StartFails(want, opened) /\ gtk = "free"
    BY <1>2
  <2>2. Phase = "off" /\ Phase' = "off"
    BY <2>1 DEF StartFails, Phase, IInv, Handshake
  <2>3. log' = << >> /\ rec_q' = << >> /\ block' = NULL
    BY <2>1 DEF StartFails, IInv, Handshake
  <2>4. disk' = FirstFiles(opened) /\ written' = [s \in Stream |-> << >>]
    BY <2>1 DEF StartFails
  <2> QED
    BY <2>2, <2>3, <2>4, Begins DEF Promise!Next
<1>3. CASE \E c \in {"toggle", "idle", "delete"} :
                     /\ StopBegin(c) /\ gtk = "free"
                     /\ tap' = tap /\ alive' \in SUBSET alive /\ stops' \in {stops, stops - 1}
                     /\ stops' \in Nat
  <2>1. Phase = "on" /\ Phase' = "ending"
    BY <1>3 DEF StopBegin, Phase, IInv, Handshake
  <2>2. log' = log /\ Settled' = Settled
    BY <1>3 DEF StopBegin, Settled
  <2>3. Handed' = Handed /\ Kept' = Kept /\ Torn' = Torn /\ Given' = Given
    BY <1>3 DEF StopBegin, Handed, Kept, Torn, Open, Given
  <2> QED
    BY <2>1, <2>2, <2>3 DEF Promise!Next, Promise!End
<1>4. CASE StopJoin
  <2>1. Phase = "ending" /\ Phase' = "off" /\ rec_q = << >> /\ block = NULL
    BY <1>4 DEF StopJoin, Phase, IInv, Handshake
  <2>2. Len(log) \in Nat
    BY DEF IInv, TypeOK
  <2>3. log' = log /\ rec_q' = rec_q /\ block' = block
    BY <2>1, <1>4 DEF StopJoin
  <2>4. Settled = Len(log) /\ Settled' = Settled
    BY <2>1, <2>2, <2>3 DEF Settled
  <2>5. Handed' = Handed /\ Kept' = Kept /\ Torn' = Torn /\ Given' = Given
    BY <1>4 DEF StopJoin, Handed, Kept, Torn, Open, Given
  <2>6. Handed = Kept \cup Torn
    <3>1. Disk(disk) /\ PlacedIn(disk, Handed)
      BY DEF IInv, TypeOK, Disk, Placed
    <3>2. DOMAIN disk \cap Open = {}
      <4>1. \A s \in Stream : path[s] = NULL
        BY <1>4 DEF StopJoin, IInv, GivenUp
      <4>2. \A n \in DOMAIN disk : n # NULL
        BY <3>1 DEF Disk
      <4> QED
        BY <4>1, <4>2 DEF Open
    <3> DEFINE d == disk
               o == Open
               H == Handed
    <3>3. Kept = KeptIn(d) /\ Torn = TornIn(d, o) /\ Handed = H
      BY DEF Kept, KeptIn, Torn, TornIn
    <3>4. Disk(d) /\ PlacedIn(d, H) /\ DOMAIN d \cap o = {}
      BY <3>1, <3>2
    <3> HIDE DEF d, o, H
    <3> QED
      BY <3>3, <3>4, AllFound
  <2> QED
    BY <2>1, <2>3, <2>4, <2>5, <2>6 DEF Promise!Next, Promise!Finish
<1>5. CASE \E rx \in Rx : TapTaken(rx)
  <2>1. PICK rx \in Rx : TapTaken(rx)
    BY <1>5
  <2> DEFINE b == [stream |-> tap[rx], n |-> Len(log) + 1]
  <2>2. Len(log) \in Nat /\ Len(rec_q) \in Nat /\ tap[rx] \in Stream
        /\ log \in Seq(Block) /\ rec_q \in Seq(Block)
    BY <2>1 DEF IInv, TypeOK, TapTaken
  <2>3. Len(log) < MaxTaken
    BY <2>1 DEF TapTaken
  <2>4. b \in Block
    BY <2>2, <2>3 DEF Block
  <2>5. log' = Append(log, b) /\ rec_q' = Append(rec_q, b) /\ block' = block
    BY <2>1 DEF TapTaken
  <2> HIDE DEF b
  <2>6. Len(log') = Len(log) + 1 /\ Len(rec_q') = Len(rec_q) + 1
    BY <2>2, <2>4, <2>5, AppendProperties
  <2>7. Settled' = Settled
    BY <2>2, <2>5, <2>6 DEF Settled
  <2>8. Phase = "on" /\ Phase' = Phase
    BY <2>1 DEF TapTaken, Phase
  <2>9. Handed' = Handed /\ Kept' = Kept /\ Torn' = Torn /\ Given' = Given
    BY <2>1 DEF TapTaken, Handed, Kept, Torn, Open, Given
  <2> QED
    BY <2>4, <2>5, <2>7, <2>8, <2>9 DEF Promise!Next, Promise!Take
<1>6. CASE WriterTakes
  <2>1. rec_q \in Seq(Block) /\ rec_q # << >> /\ Len(log) \in Nat
    BY <1>6 DEF IInv, TypeOK, WriterTakes
  <2>2. Len(rec_q') = Len(rec_q) - 1 /\ block = NULL /\ block' \in Block
    BY <2>1, <1>6, HeadTailProperties DEF WriterTakes, IInv, Handshake
  <2>3. block' # NULL
    BY <2>2
  <2>4. Settled' = Settled
    <3>1. log' = log /\ Len(rec_q) \in Nat
      BY <2>1, <1>6 DEF WriterTakes
    <3> QED
      BY <2>1, <2>2, <2>3, <3>1 DEF Settled
  <2>5. /\ Phase' = Phase /\ log' = log /\ written' = written /\ lost' = lost
        /\ disk' = disk /\ path' = path
    BY <1>6 DEF WriterTakes, Phase
  <2> QED
    BY <2>4, <2>5, Stutters
<1>7. CASE WriterLeaves
  <2>1. /\ Phase # "off" /\ Phase' = Phase /\ log' = log /\ Settled' = Settled
        /\ Handed' = Handed /\ Given' = Given
    BY <1>7 DEF WriterLeaves, Phase, Settled, Handed, Given
  <2> QED
    BY <2>1, <1>7, LeavesCloses DEF Promise!Next, Promise!Find
<1>8. CASE WriteSkipped
  <2>1. block.stream \in Stream /\ lost[block.stream] # "no"
    BY <1>8, NextToSettle DEF WriteSkipped, IInv, GivenUp
  <2>2. Given' = Given \cup {block.stream}
    BY <2>1, <1>8 DEF WriteSkipped, Given
  <2>3. /\ log' = log /\ rec_q' = rec_q /\ Freed /\ written' = written
        /\ rec_writer_run' = rec_writer_run /\ writer = "write"
        /\ disk' = disk /\ path' = path
    BY <1>8 DEF WriteSkipped
  <2> QED
    BY <2>2, <2>3, NothingFound, SettleLost DEF Promise!Next
<1>9. CASE WriteDone
  <2>1. /\ block.stream \in Stream /\ Settled \in Nat /\ Settled < Len(log)
        /\ block = log[Settled + 1] /\ block.n = Settled + 1 /\ Phase # "off"
    BY <1>9, NextToSettle DEF WriteDone
  <2>2. /\ log' = log /\ rec_q' = rec_q /\ Freed /\ Phase' = Phase /\ writer = "write"
        /\ Given' = Given
    BY <1>9 DEF WriteDone, Freed, Phase, Given
  <2>3. Settled' = Settled + 1
    BY <2>2, BlockSettled
  <2>4. block.stream \notin Given
    BY <2>1, <1>9 DEF WriteDone, IInv, GivenUp, Given
  <2>5. Handed' = Handed \cup {Settled + 1}
    BY <1>9, <2>1, HandedGrows
  <2>6. Kept' = Kept /\ Torn' = Torn
    BY <1>9, DonePlaces
  <2> QED
    BY <2>1, <2>2, <2>3, <2>4, <2>5, <2>6 DEF Promise!Next, Promise!Settle, StreamOf
<1>10. CASE WriteFails
  <2>1. /\ block.stream \in Stream /\ disk' \in Closings(disk, path[block.stream])
        /\ path' = [path EXCEPT ![block.stream] = NULL]
    BY <1>10, NextToSettle DEF WriteFails
  <2>2. Given' = Given \cup {block.stream}
    BY <2>1, <1>10 DEF WriteFails, Given, IInv, TypeOK
  <2>3. /\ log' = log /\ rec_q' = rec_q /\ Freed /\ written' = written
        /\ rec_writer_run' = rec_writer_run /\ writer = "write"
    BY <1>10 DEF WriteFails
  <2>4. Promise!Found
    BY <2>1, <2>3, FailureCloses
  <2> QED
    BY <2>2, <2>3, <2>4, SettleLost DEF Promise!Next
<1>11. CASE RollSegment
  <2>1. /\ Phase # "off" /\ Phase' = Phase /\ log' = log /\ Settled' = Settled
        /\ Handed' = Handed /\ Given' = Given
    BY <1>11 DEF RollSegment, Phase, Settled, Handed, Given
  <2> QED
    BY <2>1, <1>11, RollCloses DEF Promise!Next, Promise!Find
<1>12. CASE RollFails
  <2>1. /\ block.stream \in Stream /\ disk' \in Closings(disk, path[block.stream])
        /\ path' = [path EXCEPT ![block.stream] = NULL]
    BY <1>12, NextToSettle DEF RollFails
  <2>2. Given' = Given \cup {block.stream}
    BY <2>1, <1>12 DEF RollFails, Given, IInv, TypeOK
  <2>3. /\ log' = log /\ rec_q' = rec_q /\ Freed /\ written' = written
        /\ rec_writer_run' = rec_writer_run /\ writer = "write"
    BY <1>12 DEF RollFails
  <2>4. Promise!Found
    BY <2>1, <2>3, FailureCloses
  <2> QED
    BY <2>2, <2>3, <2>4, SettleLost DEF Promise!Next
<1>13. CASE /\ UNCHANGED <<gtk, shared, files, writer, block>>
            /\ label' = label \/ (label' = Synced(rec_rx) /\ ~rec_writer)
            /\ alive' \in SUBSET alive /\ stops' \in Nat
            /\ tap' \in [Rx -> Stream \cup {NULL}]
  <2>1. /\ Phase' = Phase /\ log' = log /\ Settled' = Settled /\ written' = written
        /\ lost' = lost /\ disk' = disk /\ path' = path
    BY <1>13 DEF Phase, Settled
  <2> QED
    BY <2>1, Stutters
<1> QED
  BY <1>0, <1>1, <1>2, <1>3, <1>4, <1>5, <1>6, <1>7, <1>8, <1>9, <1>10, <1>11, <1>12, <1>13, Steps

\* The recorder implements the log of RecordingLog: what it took has been given to a
\* file when the stop returns, unless its stream was given up, and whatever was given
\* to a file is there or was found missing when close_wav closed it.
THEOREM RecorderKeepsPromise == Spec => KeepsItsPromise
<1>1. Init => Promise!Init
  BY InitPromise
<1>2. IInv /\ Placed /\ [Next]_vars => [Promise!Next]_(Promise!vars)
  BY StepPromise
<1> QED
  BY <1>1, <1>2, AlwaysIInv, AlwaysPlaced, PTL DEF Spec, KeepsItsPromise, Promise!Spec

=============================================================================
