---------------------------- MODULE LinkWatchdog ----------------------------
(***************************************************************************)
(* The link watchdog: proto/link_state.c (the decision, a LINK record and  *)
(* four functions on it) and proto/reconnect.c (the one-second GTK timer,  *)
(* the two atomics the receive threads write, the banner, and the attempt  *)
(* that blocks the GTK thread).                                            *)
(*                                                                         *)
(* Absolute monotonic seconds become differences from now, which is all    *)
(* the code ever forms: now - state_since is link.stateAge, now - last_data*)
(* is link.dataAge, next_attempt - now (floored at 0) is link.untilAttempt,*)
(* now - last_data_sec is dataAge.  An age stops at a cap above every      *)
(* threshold it is compared with.  The block counter is only ever compared *)
(* for equality, so two Booleans stand for it: newBlock says the atomic    *)
(* data_seq differs from the GTK thread's copy, link.fresh that the copy   *)
(* differs from seq_at_entry.                                              *)
(***************************************************************************)
EXTENDS Integers

CONSTANTS
    FirstData,      \* FIRST_DATA_TIMEOUT_SEC
    Disconnect,     \* DISCONNECT_TIMEOUT_SEC
    BackoffMin,     \* RECONNECT_BACKOFF_MIN_SEC
    BackoffMax,     \* RECONNECT_BACKOFF_MAX_SEC
    MaxLag,         \* clock seconds a free GTK thread lets pass between two
                    \* dispatches of the 1000 ms timer (1, or 2 when it drifts
                    \* over a second boundary)
    HalfDuplex      \* the device delivers no RX blocks while keyed

ASSUME LinkConstants ==
    /\ FirstData \in Nat \ {0}
    /\ Disconnect \in Nat
    /\ BackoffMin \in Nat \ {0}
    /\ BackoffMax \in Nat
    /\ BackoffMin <= BackoffMax
    /\ MaxLag \in Nat \ {0}
    /\ MaxLag < Disconnect
    /\ HalfDuplex \in BOOLEAN

VARIABLES
    link,           \* the_link: the LINK record, written by the GTK thread only
    newBlock,       \* data_seq has moved since the GTK thread copied it
    dataAge,        \* seconds since last_data_sec
    noting,         \* a receive thread is between the two atomics of
                    \* reconnect_note_data
    phase,          \* where the GTK thread is
    bannerShown,    \* the strip with the Retry and Exit buttons is visible
    autoExit,       \* auto_answer == RECONNECT_BTN_EXIT
    owed,           \* seconds since watchdog_cb last ran
    keyed,          \* isTransmitting(radio)
    reachable,      \* the device answers if it is re-opened
    streamOn,       \* its blocks are arriving
    \* History: read by the properties only.
    sinceAttempt,   \* seconds since link_attempted last ran
    asked,          \* the operator pressed Retry since then
    unkeyedFor      \* seconds since the transmitter was last keyed

env     == <<keyed, reachable, streamOn>>
history == <<sinceAttempt, asked, unkeyedFor>>
vars    == <<link, newBlock, dataAge, noting, phase, bannerShown, autoExit,
             owed, env, history>>

-----------------------------------------------------------------------------
LinkStates == {"STARTING", "STREAMING", "LOST", "RETRYING"}

AttemptCap == 2                             \* only attempt = 0 is ever tested
\* Each cap lies above every threshold its age is compared with.
DataCap    == Disconnect + MaxLag
StateCap   == MaxLag + IF FirstData > BackoffMax THEN FirstData ELSE BackoffMax
GapCap     == FirstData + BackoffMax

Atmost(n, cap) == IF n > cap THEN cap ELSE n
Older(age, cap) == Atmost(age + 1, cap)

\* One LINK as the code's struct, with ages for times.
LinkRecord ==
    [state : LinkStates, stateAge : 0..StateCap, dataAge : 0..DataCap,
     fresh : BOOLEAN, untilAttempt : 0..GapCap,
     backoff : BackoffMin..BackoffMax, attempt : 0..AttemptCap]

-----------------------------------------------------------------------------
(* link_state.c *)

\* link_enter: the state, its entry time, and the sequence number at entry.
LinkEnter(l, s) == [l EXCEPT !.state = s, !.stateAge = 0, !.fresh = FALSE]

\* link_reset assigns every field; next_attempt = 0 is a moment already past.
LinkReset ==
    [state |-> "STARTING", stateAge |-> 0, dataAge |-> 0, fresh |-> FALSE,
     untilAttempt |-> 0, backoff |-> BackoffMin, attempt |-> 0]

\* link_retry_now: due now, and out of STARTING, which does not look.
LinkRetryNow(l) ==
    LET due == [l EXCEPT !.untilAttempt = 0]
    IN  IF l.state = "STARTING" THEN LinkEnter(due, "LOST") ELSE due

\* Seed of a mutant: the clamp is applied before the doubling.
BugNextBackoff(b) == IF b >= BackoffMax THEN BackoffMax ELSE b * 2

\* The next rung of the ladder: the doubled value, clamped.
NextBackoff(b) == IF b * 2 > BackoffMax THEN BackoffMax ELSE b * 2

\* Seed of a mutant: the pause does not include the wait for the first block.
BugLinkAttempted(l) ==
    LET b == NextBackoff(l.backoff)
    IN  LinkEnter([l EXCEPT !.attempt = Atmost(@ + 1, AttemptCap), !.dataAge = 0,
                            !.backoff = b, !.untilAttempt = b], "STARTING")

\* link_attempted: count it, climb the ladder, wait for the first block again.
LinkAttempted(l) ==
    LET b == NextBackoff(l.backoff)
    IN  LinkEnter([l EXCEPT !.attempt = Atmost(@ + 1, AttemptCap), !.dataAge = 0,
                            !.backoff = b, !.untilAttempt = FirstData + b],
                  "STARTING")

\* A block arrived in STARTING or LOST: the ladder resets and the link is up.
LinkUp(l) ==
    LinkEnter([l EXCEPT !.backoff = BackoffMin, !.attempt = 0], "STREAMING")

\* link_tick's early return: the link is believed up and the radio is keyed.
HeldByTransmission(l, transmitting) ==
    transmitting /\ l.state \in {"STREAMING", "STARTING"}

\* Seed of a mutant: only an established stream is watched for silence, as in
\* the watchdog this one replaced.
BugTickStarting(l) == IF l.fresh THEN LinkUp(l) ELSE l

\* Seed of a mutant: the pause starts over once the first block did not come.
BugTickStartingPause(l) ==
    IF l.fresh THEN LinkUp(l)
    ELSE IF l.stateAge < FirstData THEN l
    ELSE [LinkEnter(l, "LOST") EXCEPT !.untilAttempt =
             IF l.attempt = 0 THEN 0 ELSE FirstData + l.backoff]

TickStarting(l) ==
    IF l.fresh THEN LinkUp(l)
    ELSE IF l.stateAge < FirstData THEN l
    ELSE IF l.attempt = 0 THEN [LinkEnter(l, "LOST") EXCEPT !.untilAttempt = 0]
    ELSE LinkEnter(l, "LOST")

\* Seed of a mutant: the gap test is strict, and one second late.
BugTickStreaming(l) ==
    IF l.dataAge > Disconnect
    THEN [LinkEnter(l, "LOST") EXCEPT !.untilAttempt = 0]
    ELSE l

TickStreaming(l) ==
    IF l.dataAge >= Disconnect
    THEN [LinkEnter(l, "LOST") EXCEPT !.untilAttempt = 0]
    ELSE l

\* Seed of a mutant: a lost link never heals without an attempt, and the
\* attempt waits for the pause to run below zero.
BugTickLost(l) == l

TickLost(l) ==
    IF l.fresh THEN LinkUp(l)
    ELSE IF l.untilAttempt = 0 THEN LinkEnter(l, "RETRYING")
    ELSE l

\* link_tick.  LINK_ACT_RECONNECT is returned exactly when the result is
\* RETRYING and the argument was not.
LinkTick(l, transmitting) ==
    IF HeldByTransmission(l, transmitting)
    THEN [l EXCEPT !.dataAge = 0, !.stateAge = 0]
    ELSE CASE l.state = "STARTING"  -> TickStarting(l)
           [] l.state = "STREAMING" -> TickStreaming(l)
           [] l.state = "LOST"      -> TickLost(l)
           [] OTHER                 -> l

-----------------------------------------------------------------------------
(* reconnect.c: the receive threads *)

\* The device's blocks reach a receive thread.
Delivering == streamOn /\ ~(HalfDuplex /\ keyed)

\* reconnect_note_data, its first atomic.  A further block of a second in which
\* both atomics are already current changes neither of them.
NoteSeq ==
    /\ phase # "exited"
    /\ Delivering
    /\ ~noting
    /\ ~(newBlock /\ dataAge = 0)
    /\ newBlock' = TRUE
    /\ noting' = TRUE
    /\ UNCHANGED <<link, dataAge, phase, bannerShown, autoExit, owed, env, history>>

\* Its second: last_data_sec is the current second.
NoteTime ==
    /\ phase # "exited"
    /\ noting
    /\ noting' = FALSE
    /\ dataAge' = 0
    /\ UNCHANGED <<link, newBlock, phase, bannerShown, autoExit, owed, env, history>>

-----------------------------------------------------------------------------
(* reconnect.c: the GTK thread *)

\* Seed of a mutant: the first loss is shown only once an attempt has failed.
BugBannerShows(l) == l.attempt > 0 /\ l.state # "STREAMING"

\* banner_update's `show`.
BannerShows(l) ==
    \/ l.state \in {"LOST", "RETRYING"}
    \/ l.state = "STARTING" /\ (l.attempt > 0 \/ l.stateAge >= FirstData \div 2)

\* The copies watchdog_cb takes of the two atomics before it calls link_tick.
Sampled(l) == [l EXCEPT !.fresh = @ \/ newBlock, !.dataAge = dataAge]

\* watchdog_cb up to the nested main loop that paints the banner, or to its end
\* when no attempt is due.
Watchdog ==
    /\ phase = "idle"
    /\ owed > 0
    /\ owed' = 0
    /\ newBlock' = FALSE
    /\ link' = LinkTick(Sampled(link), keyed)
    /\ LET act == link'.state = "RETRYING" /\ link.state # "RETRYING"
       IN  \/ /\ act /\ autoExit
              /\ phase' = "exited"
              /\ UNCHANGED bannerShown
           \/ /\ ~(act /\ autoExit)
              /\ phase' = IF act THEN "painting" ELSE "idle"
              /\ bannerShown' = BannerShows(link')
    /\ UNCHANGED <<dataAge, noting, autoExit, env, history>>

\* The nested loop has run dry: do_reconnect takes the GTK thread.
BeginAttempt ==
    /\ phase = "painting"
    /\ phase' = "attempting"
    /\ UNCHANGED <<link, newBlock, dataAge, noting, bannerShown, autoExit, owed,
                   env, history>>

\* do_reconnect returns; the rest of watchdog_cb.  A device that answers has
\* been made to stream again.
AttemptDone ==
    /\ phase = "attempting"
    /\ phase' = "idle"
    /\ streamOn' = reachable
    /\ link' = LinkAttempted(link)
    /\ dataAge' = 0
    /\ bannerShown' = BannerShows(link')
    /\ sinceAttempt' = 0
    /\ asked' = FALSE
    /\ UNCHANGED <<newBlock, noting, autoExit, owed, keyed, reachable, unkeyedFor>>

\* banner_retry_cb: GTK dispatches it when idle, and from the nested loop.
RetryNow ==
    /\ phase \in {"idle", "painting"}
    /\ bannerShown
    /\ link' = LinkRetryNow(link)
    /\ asked' = TRUE
    /\ UNCHANGED <<newBlock, dataAge, noting, phase, bannerShown, autoExit, owed,
                   env, sinceAttempt, unkeyedFor>>

\* banner_exit_cb: main_delete ends the process.
ExitPressed ==
    /\ phase \in {"idle", "painting"}
    /\ bannerShown
    /\ phase' = "exited"
    /\ UNCHANGED <<link, newBlock, dataAge, noting, bannerShown, autoExit, owed,
                   env, history>>

-----------------------------------------------------------------------------
(* The world: the transmitter, the device and the clock *)

Key ==
    /\ phase # "exited"
    /\ ~keyed
    /\ keyed' = TRUE
    /\ unkeyedFor' = 0
    /\ UNCHANGED <<link, newBlock, dataAge, noting, phase, bannerShown, autoExit,
                   owed, reachable, streamOn, sinceAttempt, asked>>

Unkey ==
    /\ phase # "exited"
    /\ keyed
    /\ keyed' = FALSE
    /\ UNCHANGED <<link, newBlock, dataAge, noting, phase, bannerShown, autoExit,
                   owed, reachable, streamOn, history>>

\* The cable, the power or the network goes.
Vanish ==
    /\ phase # "exited"
    /\ reachable
    /\ reachable' = FALSE
    /\ streamOn' = FALSE
    /\ UNCHANGED <<link, newBlock, dataAge, noting, phase, bannerShown, autoExit,
                   owed, keyed, history>>

\* It comes back: streaming by itself, or only once it is re-opened.
Return ==
    /\ phase # "exited"
    /\ ~reachable
    /\ reachable' = TRUE
    /\ streamOn' \in BOOLEAN
    /\ UNCHANGED <<link, newBlock, dataAge, noting, phase, bannerShown, autoExit,
                   owed, keyed, history>>

\* The monotonic clock moves to its next second.  A free GTK thread dispatches
\* the timer before MaxLag seconds are owed; a running attempt may take any
\* time.  A delivering device sends at least one block a second, and the two
\* atomics of one block fall within a second.
Tick ==
    /\ phase # "exited"
    /\ phase = "attempting" \/ owed < MaxLag
    /\ Delivering => dataAge = 0
    /\ ~noting
    /\ owed' = Atmost(owed + 1, MaxLag)
    /\ dataAge' = Older(dataAge, DataCap)
    /\ link' = [link EXCEPT !.stateAge = Older(@, StateCap),
                            !.dataAge = Older(@, DataCap),
                            !.untilAttempt = IF @ = 0 THEN 0 ELSE @ - 1]
    /\ sinceAttempt' = Older(sinceAttempt, GapCap)
    /\ unkeyedFor' = IF keyed THEN 0 ELSE Older(unkeyedFor, DataCap)
    /\ UNCHANGED <<newBlock, noting, phase, bannerShown, autoExit, env, asked>>

-----------------------------------------------------------------------------
\* reconnect_init: last_data_sec is now, data_seq is copied, link_reset.
Init ==
    /\ link = LinkReset
    /\ newBlock = FALSE
    /\ dataAge = 0
    /\ noting = FALSE
    /\ phase = "idle"
    /\ bannerShown = FALSE
    /\ autoExit \in BOOLEAN
    /\ owed = 0
    /\ keyed = FALSE
    /\ reachable \in BOOLEAN
    /\ streamOn \in BOOLEAN
    /\ streamOn => reachable
    /\ sinceAttempt = 0
    /\ asked = FALSE
    /\ unkeyedFor = 0

Next ==
    \/ NoteSeq \/ NoteTime
    \/ Watchdog \/ BeginAttempt \/ AttemptDone \/ RetryNow \/ ExitPressed
    \/ Key \/ Unkey \/ Vanish \/ Return \/ Tick

\* The clock runs, the receive threads run, and the GTK main loop dispatches a
\* due timer and returns from an attempt.  Nothing is assumed of the operator,
\* of the transmitter or of the device's coming and going.
Fairness ==
    /\ WF_vars(Tick)
    /\ WF_vars(NoteSeq) /\ WF_vars(NoteTime)
    /\ WF_vars(Watchdog) /\ WF_vars(BeginAttempt) /\ WF_vars(AttemptDone)

Safety == Init /\ [][Next]_vars
Spec   == Safety /\ Fairness

-----------------------------------------------------------------------------
(* Properties *)

\* Type invariant: the_link, the atomics and the GTK thread's phase keep their
\* types, and the backoff stays between its two named limits.
TypeOK ==
    /\ link \in LinkRecord
    /\ newBlock \in BOOLEAN
    /\ dataAge \in 0..DataCap
    /\ noting \in BOOLEAN
    /\ phase \in {"idle", "painting", "attempting", "exited"}
    /\ bannerShown \in BOOLEAN
    /\ autoExit \in BOOLEAN
    /\ owed \in 0..MaxLag
    /\ keyed \in BOOLEAN
    /\ reachable \in BOOLEAN
    /\ streamOn \in BOOLEAN
    /\ sinceAttempt \in 0..GapCap
    /\ asked \in BOOLEAN
    /\ unkeyedFor \in 0..DataCap

\* The ladder is honoured (the comment in link_attempted: the wait for the first
\* block must not swallow the pause).  From the second attempt of an outage on,
\* unless the operator pressed Retry, an attempt starts no sooner than
\* FIRST_DATA_TIMEOUT_SEC + backoff after the previous one ended, whatever was
\* keyed and whichever blocks trickled in between.
NoEarlyRetry ==
    [][(link.state = "LOST" /\ link'.state = "RETRYING"
          /\ link.attempt > 0 /\ ~asked)
        => sinceAttempt >= FirstData + link.backoff]_vars

\* Nor late: a lost link is attempted within the rung it stands on plus the
\* timer's lag, however long a transmission held the wait for the first block up
\* and whatever was keyed since (link_enter keeps next_attempt, link_tick's early
\* return restarts the wait and leaves the pause alone).
NoLateRetry == link.state = "LOST" => link.stateAge <= link.backoff + owed

\* The interval between attempts never shrinks within an outage (link_attempted:
\* "the one thing a backoff must never do").
BackoffNeverShrinks ==
    [][(link.attempt > 0 /\ link'.attempt > 0)
        => link'.backoff >= link.backoff]_vars

\* A silent link is noticed in bounded time: a link still believed to stream
\* has had a block, or was keyed, within DISCONNECT_TIMEOUT_SEC plus the timer's
\* lag, and one waiting for its first block has not waited longer than
\* FIRST_DATA_TIMEOUT_SEC plus that lag (the failure the old watchdog could not
\* see).
SilenceNoticed ==
    /\ link.state = "STREAMING" /\ ~noting
        => \/ dataAge < Disconnect + owed
           \/ unkeyedFor < Disconnect + owed
    /\ link.state = "STARTING" => link.stateAge < FirstData + owed

\* The banner tells the truth between dispatches: it is never on the screen
\* while the link streams (so Retry cannot disturb a healthy link), and always
\* on it while the link is lost, whichever button or tick led there.
BannerTruthful ==
    /\ link.state = "STREAMING" => ~bannerShown
    /\ link.state = "LOST" => bannerShown
    /\ link.state = "RETRYING" => phase # "idle"

\* A dead link is retried for as long as it stays dead ("retries BY ITSELF"):
\* the machine never comes to rest waiting for a block or for an answer.
RetriesForever ==
    <>[](~streamOn /\ ~keyed /\ phase # "exited") => []<>(phase = "attempting")

\* A radio that answers again is brought back and stays up: once it stays
\* reachable, the transmitter stays unkeyed and the operator leaves Retry alone,
\* the link ends up streaming for good, with no further attempt.
LinkComesBack ==
    <>[](reachable /\ ~keyed /\ ~asked /\ phase # "exited")
        => <>[](link.state = "STREAMING")

\* What link_tick's comment promises of a transmission: "Keep the clock fresh so
\* the grace period restarts cleanly on return to receive".  A streaming link is
\* not declared lost until DISCONNECT_TIMEOUT_SEC of receiving have passed.
GraceAfterTransmission ==
    [][(link.state = "STREAMING" /\ link'.state = "LOST")
        => unkeyedFor >= Disconnect]_vars
=============================================================================
