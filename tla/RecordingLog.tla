---------------------------- MODULE RecordingLog ----------------------------
(***************************************************************************)
(* What the recorder promises, without a queue, a thread or a file: a      *)
(* recording is a log.  It grows while the recording is on, nothing is     *)
(* ever taken back from it, and when the recording has ended everything    *)
(* that was logged has been settled, in order: it was handed over to be    *)
(* kept, or its stream was given up.  What was handed over is found to be  *)
(* kept or to be torn off, once and for all, before the end.  A stream     *)
(* that was given up stays given up until the next recording.              *)
(***************************************************************************)
EXTENDS Naturals, Sequences

CONSTANTS Blocks, Streams, StreamOf(_)

VARIABLES
    phase,      \* "off", "on", or "ending": no more is taken, not yet settled
    log,        \* the blocks taken, in order
    settled,    \* how many of them have been dealt with
    handed,     \* which of those were handed over to be kept
    kept,       \* which of those are known to be on the disk
    torn,       \* which of those are known to be missing there
    given       \* the streams given up (or never asked for)

vars == <<phase, log, settled, handed, kept, torn, given>>

Init ==
    /\ phase = "off"
    /\ log = << >>
    /\ settled = 0
    /\ handed = {} /\ kept = {} /\ torn = {}
    /\ given = Streams

\* A recording begins, or cannot.
Begin ==
    /\ phase = "off"
    /\ phase' \in {"on", "off"}
    /\ log' = << >>
    /\ settled' = 0
    /\ handed' = {} /\ kept' = {} /\ torn' = {}
    /\ given' \in SUBSET Streams

Take ==
    /\ phase = "on"
    /\ \E b \in Blocks : log' = Append(log, b)
    /\ UNCHANGED <<phase, settled, handed, kept, torn, given>>

\* More of what was handed over is found to be kept, or torn off.
Found ==
    /\ kept \subseteq kept' /\ torn \subseteq torn'
    /\ kept' \cap torn' = {}
    /\ kept' \cup torn' \subseteq handed

Find ==
    /\ phase # "off"
    /\ Found
    /\ UNCHANGED <<phase, log, settled, handed, given>>

\* The oldest block that is left is handed over, unless its stream was given up
\* or is given up now.
Settle ==
    /\ phase # "off"
    /\ settled < Len(log)
    /\ settled' = settled + 1
    /\ LET s == StreamOf(log[settled + 1])
       IN  \/ /\ s \notin given
              /\ handed' = handed \cup {settled + 1}
              /\ UNCHANGED <<kept, torn, given>>
           \/ /\ given' = given \cup {s}
              /\ Found
              /\ UNCHANGED handed
    /\ UNCHANGED <<phase, log>>

End ==
    /\ phase = "on"
    /\ phase' = "ending"
    /\ UNCHANGED <<log, settled, handed, kept, torn, given>>

Finish ==
    /\ phase = "ending"
    /\ settled = Len(log)
    /\ handed = kept \cup torn
    /\ phase' = "off"
    /\ UNCHANGED <<log, settled, handed, kept, torn, given>>

Next == Begin \/ Take \/ Find \/ Settle \/ End \/ Finish

Spec == Init /\ [][Next]_vars

=============================================================================
