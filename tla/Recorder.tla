------------------------------ MODULE Recorder ------------------------------
(***************************************************************************)
(* The I/Q and audio recorder (audio/recorder.c): taps on the receiver     *)
(* threads, a bounded queue, a writer thread that owns the files, and the  *)
(* GTK thread that starts, stops and joins it.                             *)
(*                                                                         *)
(* rec_mutex is held for the length of every action except StopBegin ..    *)
(* StopJoin, where stop_locked drops it across the join, and the writer's  *)
(* own steps on its files, which take no lock at all.  A tap is two        *)
(* actions: the unlocked test of rec_rx and the enqueue.                   *)
(*                                                                         *)
(* A block stands for the frames of one call of a tap, all of one size.    *)
(* fwrite hands it to stdio, which counts it; what of it reached the disk  *)
(* shows when close_wav has closed the file and looks at its size.         *)
(***************************************************************************)
EXTENDS Naturals, Sequences

CONSTANTS
    Rx,             \* the receivers
    NULL,           \* no receiver, no file, no block
    QueueMax,       \* REC_QUEUE_MAX_BYTES, in blocks
    SplitAt,        \* REC_SPLIT_BYTES, in blocks
    MaxTaken,       \* bound: blocks taken into one recording
    MaxStops        \* bound: nothing is started with more stops pending

Stream == {"iq", "af"}
Block  == [stream : Stream, n : 1..MaxTaken]
Name   == [stream : Stream, seg : Nat]

\* The blocks fwrite accepted for it; how many of them the file holds, none as
\* long as it is open; and the size in its header, NULL while that is the
\* placeholder, or nothing.
File   == [asked : Seq(Block), real : Nat, hdr : Nat \cup {NULL}]

ASSUME RecorderConstants ==
    /\ NULL \notin Rx
    /\ NULL \notin Block
    /\ NULL \notin Name
    /\ NULL \notin Nat
    /\ QueueMax \in Nat \ {0}
    /\ SplitAt \in Nat \ {0}
    /\ MaxTaken \in Nat
    /\ MaxStops \in Nat

VARIABLES
    alive,          \* the receivers that exist
    gtk,            \* the GTK thread: "free", or in the join of stop_locked on
                    \* behalf of "toggle", "idle" or "delete"
    label,          \* the Record button
    stops,          \* pending rec_stop_idle callbacks
    rec_rx,         \* the receiver being recorded
    rec_writer_run,
    rec_writer,     \* rec_writer # NULL
    rec_q,
    tap,            \* per receiver thread: the stream of a block that passed
                    \* the fast check and is not enqueued yet
    writer,         \* the writer thread: "none", "take", "write", "exit"
    block,          \* the block the writer took
    path,           \* the file each stream is writing now
    bytes,          \* iq_bytes, af_bytes: what is in that segment
    seg,            \* iq_seg, af_seg
    disk,           \* the files of this recording, or of the last one
    log,            \* history: the blocks taken into this recording
    written,        \* history of iq_written, af_written: which blocks were counted
    lost            \* history: streams without a file, "no" for the others

ui     == <<gtk, label, stops>>
shared == <<rec_rx, rec_writer_run, rec_writer, rec_q, log>>
files  == <<path, bytes, seg, disk, written, lost>>
vars   == <<alive, ui, shared, tap, writer, block, files>>

-----------------------------------------------------------------------------
(* Files *)

\* fopen(.., "wb") and write_wav_header: an existing file is emptied.
Empty == [asked |-> << >>, real |-> 0, hdr |-> NULL]

Opened(d, name) == [n \in DOMAIN d \cup {name} |-> IF n = name THEN Empty ELSE d[n]]

\* Seed of a mutant: the header is patched with the byte counter.
BugLeavings(f) == {[f EXCEPT !.real = k, !.hdr = Len(f.asked)] : k \in 0..Len(f.asked)}

\* What close_wav can leave of a file: fclose may fail and lose what stdio could
\* not flush; the header is written from what the file holds then.  Where nothing
\* landed the header may not have either.
Leavings(f) == {f} \cup {[f EXCEPT !.real = k, !.hdr = k] : k \in 0..Len(f.asked)}

Closings(d, name) ==
    IF name = NULL THEN {d} ELSE {[d EXCEPT ![name] = f] : f \in Leavings(d[name])}

NameOf(s, k) == [stream |-> s, seg |-> k]

\* The first file of each of some streams.  The files of earlier recordings
\* are left out of the state.
FirstFiles(streams) == [n \in {NameOf(s, 1) : s \in streams} |-> Empty]

-----------------------------------------------------------------------------
(* The GTK thread *)

\* radio_record_button_sync
Synced(rx) == IF rx # NULL THEN "Stop" ELSE "Record"

\* recorder_toggle, the start: the first file of each selected stream, all or
\* none.
Start(rx, want) ==
    /\ rec_rx = NULL /\ ~rec_writer
    /\ want # {}
    /\ stops <= MaxStops
    /\ disk' = FirstFiles(want)
    /\ path' = [s \in Stream |-> IF s \in want THEN NameOf(s, 1) ELSE NULL]
    /\ bytes' = [s \in Stream |-> 0]
    /\ seg' = [s \in Stream |-> 1]
    /\ written' = [s \in Stream |-> << >>]
    /\ lost' = [s \in Stream |-> IF s \in want THEN "no" ELSE "unwanted"]
    /\ log' = << >>
    /\ rec_writer_run' = TRUE
    /\ rec_writer' = TRUE
    /\ writer' = "take"
    /\ rec_rx' = rx
    /\ label' = Synced(rx)
    /\ UNCHANGED <<rec_q, block, gtk, stops>>

\* recorder_toggle when a file cannot be opened: the ones that were are closed
\* again without a header, zero bytes long.  The histories start again with them.
StartFails(want, opened) ==
    /\ rec_rx = NULL /\ ~rec_writer
    /\ opened \subseteq want /\ opened # want
    /\ disk' = FirstFiles(opened)
    /\ written' = [s \in Stream |-> << >>]
    /\ lost' = [s \in Stream |-> "unwanted"]
    /\ log' = << >>
    /\ label' = Synced(rec_rx)
    /\ UNCHANGED <<rec_rx, rec_writer_run, rec_writer, rec_q, writer, block, path, bytes,
                   seg, gtk, stops>>

\* stop_locked up to the join, where it lets go of rec_mutex.
StopBegin(caller) ==
    /\ rec_writer
    /\ rec_rx' = NULL
    /\ rec_writer_run' = FALSE
    /\ rec_writer' = FALSE
    /\ gtk' = caller
    /\ UNCHANGED <<rec_q, log, label, files, writer, block>>

\* The Record button: recorder_toggle, record_cb.
Toggle ==
    /\ gtk = "free"
    /\ \/ rec_rx # NULL /\ StopBegin("toggle") /\ UNCHANGED stops
       \/ \E rx \in alive, want \in SUBSET Stream : Start(rx, want)
       \/ \E want \in SUBSET Stream : \E opened \in SUBSET want : StartFails(want, opened)
    /\ UNCHANGED <<alive, tap>>

\* rec_stop_idle: recorder_stop and radio_record_button_sync.
StopIdle ==
    /\ gtk = "free"
    /\ stops > 0
    /\ stops' = stops - 1
    /\ \/ StopBegin("idle")
       \/ /\ ~rec_writer
          /\ label' = Synced(rec_rx)
          /\ UNCHANGED <<shared, files, writer, block, gtk>>
    /\ UNCHANGED <<alive, tap>>

\* delete_receiver takes delete_rx_mutex, which every receiver thread holds
\* around the block it delivers.
NoTapRuns == \A rx \in Rx : tap[rx] = NULL

\* delete_receiver of the one that is recorded: recorder_stop_for_receiver.
DeleteRecorded(rx) ==
    /\ gtk = "free" /\ NoTapRuns
    /\ rec_rx = rx
    /\ StopBegin("delete")
    /\ alive' = alive \ {rx}
    /\ UNCHANGED <<stops, tap>>

DeleteOther(rx) ==
    /\ gtk = "free" /\ NoTapRuns
    /\ rec_rx # rx
    /\ alive' = alive \ {rx}
    /\ UNCHANGED <<ui, shared, files, writer, block, tap>>

\* A receiver is closed while another stays.
Delete == \E rx \in alive : alive # {rx} /\ (DeleteRecorded(rx) \/ DeleteOther(rx))

\* Seed of a mutant: only the button's own handler repaints it.
BugStopJoin ==
    /\ gtk # "free"
    /\ writer = "exit"
    /\ writer' = "none"
    /\ rec_q' = << >>
    /\ gtk' = "free"
    /\ label' = IF gtk = "toggle" THEN Synced(rec_rx) ELSE label
    /\ UNCHANGED <<alive, stops, rec_rx, rec_writer_run, rec_writer, log, tap, block,
                   files>>

\* stop_locked after the join; every caller then syncs the button.
StopJoin ==
    /\ gtk # "free"
    /\ writer = "exit"
    /\ writer' = "none"
    /\ rec_q' = << >>
    /\ gtk' = "free"
    /\ label' = Synced(rec_rx)
    /\ UNCHANGED <<alive, stops, rec_rx, rec_writer_run, rec_writer, log, tap,
                   block, files>>

-----------------------------------------------------------------------------
(* The receiver threads *)

\* recorder_iq, recorder_audio: the fast check, and the conversion after it.
TapCheck(rx, s) ==
    /\ rx \in alive /\ tap[rx] = NULL
    /\ gtk # "delete"
    /\ rec_rx = rx
    /\ tap' = [tap EXCEPT ![rx] = s]
    /\ UNCHANGED <<alive, ui, shared, writer, block, files>>

\* rec_enqueue refuses a block after the stop, and drops one that has no room.
TapRefused(rx) ==
    /\ tap[rx] # NULL
    /\ ~rec_writer_run \/ Len(rec_q) >= QueueMax
    /\ tap' = [tap EXCEPT ![rx] = NULL]
    /\ UNCHANGED <<alive, ui, shared, writer, block, files>>

\* Seed of a mutant: the queue has no limit.
BugTapTaken(rx) ==
    /\ tap[rx] # NULL
    /\ rec_writer_run
    /\ Len(log) < MaxTaken
    /\ LET b == [stream |-> tap[rx], n |-> Len(log) + 1]
       IN  /\ rec_q' = Append(rec_q, b)
           /\ log' = Append(log, b)
    /\ tap' = [tap EXCEPT ![rx] = NULL]
    /\ UNCHANGED <<alive, ui, rec_rx, rec_writer_run, rec_writer, writer, block, files>>

TapTaken(rx) ==
    /\ tap[rx] # NULL
    /\ rec_writer_run /\ Len(rec_q) < QueueMax
    /\ Len(log) < MaxTaken
    /\ LET b == [stream |-> tap[rx], n |-> Len(log) + 1]
       IN  /\ rec_q' = Append(rec_q, b)
           /\ log' = Append(log, b)
    /\ tap' = [tap EXCEPT ![rx] = NULL]
    /\ UNCHANGED <<alive, ui, rec_rx, rec_writer_run, rec_writer, writer, block,
                   files>>

-----------------------------------------------------------------------------
(* The writer thread *)

\* rec_writer_thread: the oldest block is taken out of the queue.
WriterTakes ==
    /\ writer = "take"
    /\ rec_q # << >>
    /\ block' = Head(rec_q)
    /\ rec_q' = Tail(rec_q)
    /\ writer' = "write"
    /\ UNCHANGED <<alive, ui, rec_rx, rec_writer_run, rec_writer, log, tap, files>>

\* Seed of a mutant: the writer leaves as soon as it is asked to.
BugWriterLeaves ==
    /\ writer = "take"
    /\ ~rec_writer_run
    /\ \E d \in Closings(disk, path["iq"]) : disk' \in Closings(d, path["af"])
    /\ path' = [s \in Stream |-> NULL]
    /\ writer' = "exit"
    /\ UNCHANGED <<alive, ui, shared, tap, block, bytes, seg, written, lost>>

\* Asked to stop, and drained: both files are closed, whatever comes of it.
WriterLeaves ==
    /\ writer = "take"
    /\ rec_q = << >> /\ ~rec_writer_run
    /\ \E d \in Closings(disk, path["iq"]) : disk' \in Closings(d, path["af"])
    /\ path' = [s \in Stream |-> NULL]
    /\ writer' = "exit"
    /\ UNCHANGED <<alive, ui, shared, tap, block, bytes, seg, written, lost>>

\* Back to the queue with the block freed.
Freed == writer' = "take" /\ block' = NULL

\* Seed of a mutant: the block of a stream without a file is queued again.
BugWriteSkipped ==
    /\ writer = "write"
    /\ path[block.stream] = NULL
    /\ rec_q' = Append(rec_q, block)
    /\ Freed
    /\ UNCHANGED <<alive, ui, rec_rx, rec_writer_run, rec_writer, log, tap, files>>

\* rec_write_block for a stream that has no file.
WriteSkipped ==
    /\ writer = "write"
    /\ path[block.stream] = NULL
    /\ Freed
    /\ UNCHANGED <<alive, ui, shared, tap, files>>

\* rec_write_block: fwrite takes the block for the segment that is open, and it
\* is counted.
WriteDone ==
    /\ writer = "write"
    /\ LET s == block.stream
       IN  /\ path[s] # NULL /\ bytes[s] < SplitAt
           /\ disk' = [disk EXCEPT ![path[s]].asked = Append(@, block)]
           /\ bytes' = [bytes EXCEPT ![s] = @ + 1]
           /\ written' = [written EXCEPT ![s] = Append(@, block.n)]
    /\ Freed
    /\ UNCHANGED <<alive, ui, shared, tap, path, seg, lost>>

\* Seed of a mutant: the stream is given up and nobody is asked to stop.
BugWriteFails ==
    /\ writer = "write"
    /\ LET s == block.stream
       IN  /\ path[s] # NULL /\ bytes[s] < SplitAt
           /\ disk' \in Closings(disk, path[s])
           /\ path' = [path EXCEPT ![s] = NULL]
           /\ lost' = [lost EXCEPT ![s] = "failed"]
    /\ Freed
    /\ UNCHANGED <<alive, ui, shared, tap, bytes, seg, written>>

\* rec_write_block and rec_write_failed: fwrite refuses the block; the stream is
\* closed, with or without what was counted before, and given up, and the GTK
\* thread is asked to stop the recording.
WriteFails ==
    /\ writer = "write"
    /\ LET s == block.stream
       IN  /\ path[s] # NULL /\ bytes[s] < SplitAt
           /\ disk' \in Closings(disk, path[s])
           /\ path' = [path EXCEPT ![s] = NULL]
           /\ lost' = [lost EXCEPT ![s] = "failed"]
    /\ stops' = stops + 1
    /\ Freed
    /\ UNCHANGED <<alive, gtk, label, shared, tap, bytes, seg, written>>

\* Seed of a mutant: the next segment goes over the current one.
BugRollSegment ==
    /\ writer = "write"
    /\ LET s == block.stream
       IN  /\ path[s] # NULL /\ bytes[s] >= SplitAt
           /\ \E d \in Closings(disk, path[s]) : disk' = Opened(d, path[s])
           /\ bytes' = [bytes EXCEPT ![s] = 0]
    /\ UNCHANGED <<alive, ui, shared, tap, writer, block, path, seg, written, lost>>

\* roll_segment before a block that finds its segment full: the rest of
\* rec_write_block goes on in the new one.
RollSegment ==
    /\ writer = "write"
    /\ LET s    == block.stream
           next == NameOf(s, seg[s] + 1)
       IN  /\ path[s] # NULL /\ bytes[s] >= SplitAt
           /\ \E d \in Closings(disk, path[s]) : disk' = Opened(d, next)
           /\ path' = [path EXCEPT ![s] = next]
           /\ bytes' = [bytes EXCEPT ![s] = 0]
           /\ seg' = [seg EXCEPT ![s] = @ + 1]
    /\ UNCHANGED <<alive, ui, shared, tap, writer, block, written, lost>>

\* roll_segment when the continuation cannot be opened: the stream is left
\* without a file, and nobody is told.
RollFails ==
    /\ writer = "write"
    /\ LET s == block.stream
       IN  /\ path[s] # NULL /\ bytes[s] >= SplitAt
           /\ disk' \in Closings(disk, path[s])
           /\ path' = [path EXCEPT ![s] = NULL]
           /\ bytes' = [bytes EXCEPT ![s] = 0]
           /\ seg' = [seg EXCEPT ![s] = @ + 1]
           /\ lost' = [lost EXCEPT ![s] = "rolled"]
    /\ Freed
    /\ UNCHANGED <<alive, ui, shared, tap, written>>

-----------------------------------------------------------------------------
Init ==
    /\ alive = Rx
    /\ gtk = "free" /\ label = "Record" /\ stops = 0
    /\ rec_rx = NULL /\ rec_writer_run = FALSE /\ rec_writer = FALSE
    /\ rec_q = << >> /\ log = << >>
    /\ tap = [rx \in Rx |-> NULL]
    /\ writer = "none" /\ block = NULL
    /\ path = [s \in Stream |-> NULL]
    /\ bytes = [s \in Stream |-> 0]
    /\ seg = [s \in Stream |-> 1]
    /\ disk = << >>
    /\ written = [s \in Stream |-> << >>]
    /\ lost = [s \in Stream |-> "unwanted"]

GtkStep    == Toggle \/ StopIdle \/ Delete \/ StopJoin
TapStep    == \E rx \in Rx : TapRefused(rx) \/ TapTaken(rx) \/ \E s \in Stream : TapCheck(rx, s)
WriterStep == WriterTakes \/ WriterLeaves \/ WriteSkipped \/ WriteDone \/ WriteFails
              \/ RollSegment \/ RollFails

Next == GtkStep \/ TapStep \/ WriterStep

\* The writer thread runs, and the GTK main loop dispatches what is pending;
\* nobody has to press Record, and no disk has to fail.
Fairness ==
    /\ WF_vars(WriterStep)
    /\ WF_vars(StopJoin)
    /\ WF_vars(StopIdle)

Spec == Init /\ [][Next]_vars /\ Fairness

-----------------------------------------------------------------------------
(* Properties *)

\* Every variable keeps its range, and the queue between the receiver threads
\* and the disk its limit.
TypeOK ==
    /\ alive \subseteq Rx
    /\ gtk \in {"free", "toggle", "idle", "delete"}
    /\ label \in {"Stop", "Record"}
    /\ stops \in Nat
    /\ rec_rx \in Rx \cup {NULL}
    /\ rec_writer_run \in BOOLEAN
    /\ rec_writer \in BOOLEAN
    /\ rec_q \in Seq(Block) /\ Len(rec_q) <= QueueMax
    /\ tap \in [Rx -> Stream \cup {NULL}]
    /\ writer \in {"none", "take", "write", "exit"}
    /\ block \in Block \cup {NULL}
    /\ path \in [Stream -> Name \cup {NULL}]
    /\ bytes \in [Stream -> Nat]
    /\ seg \in [Stream -> Nat]
    /\ DOMAIN disk \subseteq Name
    /\ disk \in [DOMAIN disk -> File]
    /\ log \in Seq(Block)
    /\ written \in [Stream -> Seq(1..MaxTaken)]
    /\ lost \in [Stream -> {"no", "unwanted", "failed", "rolled"}]

\* The header of a file that is not being written any more agrees with what the
\* file holds, and none outgrows a segment: whatever ended a recording (the
\* button, a receiver closed under it, a disk that failed), in the middle of
\* whichever block and however little of it landed, close_wav was reached for
\* every file that was opened.  Only a file that holds nothing may lack one.
Open == {path[s] : s \in Stream}

Playable(f) == f.hdr = f.real \/ (f.hdr = NULL /\ f.real = 0)

FilesArePlayable ==
    \A n \in DOMAIN disk :
        /\ n \notin Open => Playable(disk[n])
        /\ Len(disk[n].asked) <= SplitAt

\* The numbers of the blocks that fwrite accepted for one segment of a stream, of
\* those that landed in it, and of its segments one after the other.  A
\* continuation that could not be opened has its number and no file.
Accepted(s, k) ==
    LET f == disk[NameOf(s, k)]
    IN  [i \in 1..Len(f.asked) |-> f.asked[i].n]

Landed(s, k) ==
    LET f == disk[NameOf(s, k)]
    IN  [i \in 1..f.real |-> f.asked[i].n]

Segments(s) ==
    CASE lost[s] = "unwanted" -> 0
      [] lost[s] = "rolled"   -> seg[s] - 1
      [] OTHER                -> seg[s]

Seqs == INSTANCE SequencesExt

Asked(s)  == Seqs!FlattenSeq([k \in 1..Segments(s) |-> Accepted(s, k)])
OnDisk(s) == Seqs!FlattenSeq([k \in 1..Segments(s) |-> Landed(s, k)])

\* No close of the stream fell short: what was asked for is what landed.
Whole(s) == \A k \in 1..Segments(s) : LET f == disk[NameOf(s, k)] IN f.real = Len(f.asked)

\* The frames the recorder counts as written are the ones its segments were
\* given, once each and in the order they came off the air, across every split;
\* and where every segment landed whole, an operator who adds them up has the
\* recording.
SegmentsHoldRecording ==
    writer # "none" =>
        \A s \in Stream :
            /\ Asked(s) = written[s]
            /\ \A i, j \in DOMAIN written[s] : i < j => written[s][i] < written[s][j]
            /\ Whole(s) => OnDisk(s) = written[s]

\* rec_write_block: "so the summary and the file agree about how much of the
\* recording survived".  Where the summary is made, what is counted as written is
\* in the files.
SummaryAgrees == writer = "exit" => \A s \in Stream : OnDisk(s) = written[s]

\* Whenever the GTK thread can be asked, the button says whether there is a
\* recording (radio_record_button_sync), whoever ended it: the operator, the
\* closed receiver or the writer thread.
ButtonTellsRecording ==
    gtk = "free" => (label = "Stop" <=> rec_rx # NULL)

\* rec_stop_idle: "A button still reading "Stop" over a recording that died is
\* how an operator comes to believe a lost recording is still running."  With
\* the button at Stop and nothing pending, some file is being written.
ButtonMeansWriting ==
    gtk = "free" /\ stops = 0 /\ label = "Stop" => \E s \in Stream : path[s] # NULL

\* The recording implements its abstract specification: every block rec_enqueue
\* took has been given to a file when the stop returns, unless its stream was
\* given up, which is for good; and each of those is in its file, or was found
\* missing when close_wav closed it.
StreamOf(b) == b.stream
Phase  == IF rec_writer_run THEN "on" ELSE IF writer = "none" THEN "off" ELSE "ending"
Settled == Len(log) - Len(rec_q) - (IF block = NULL THEN 0 ELSE 1)
Handed == UNION {{written[s][i] : i \in DOMAIN written[s]} : s \in Stream}
Given  == {s \in Stream : lost[s] # "no"}

Kept == UNION {{disk[n].asked[i].n : i \in 1..disk[n].real} : n \in DOMAIN disk}
Torn == UNION {{disk[n].asked[i].n : i \in disk[n].real + 1..Len(disk[n].asked)} :
               n \in DOMAIN disk \ Open}

Promise == INSTANCE RecordingLog WITH
    Blocks <- Block, Streams <- Stream,
    phase <- Phase, settled <- Settled, handed <- Handed, kept <- Kept, torn <- Torn,
    given <- Given

KeepsItsPromise == Promise!Spec

\* stop_locked joins the writer on the GTK thread, with the queue still to be
\* written and, for a closed receiver, with delete_rx_mutex held: it returns.
StopReturns == gtk # "free" ~> gtk = "free"

\* A write that failed ends its recording without anybody pressing Stop.
FailureEndsRecording == (\E s \in Stream : lost[s] = "failed") ~> rec_rx = NULL
=============================================================================
