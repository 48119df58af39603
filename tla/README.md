# MacHPSDR: a specification of what keys the radio, what keeps it alive and what it leaves on the disk

MacHPSDR is a desktop SDR transceiver program (C, GTK, WDSP).  It talks to
OpenHPSDR radios over UDP (protocols 1 and 2) and to SoapySDR devices, runs a
receiver for each DSP channel and one transmitter, and can be operated from the
desktop, from CAT, TCI, MIDI and hotkeys, from the radio's own PTT and paddle,
and from a browser.

The code that is hard to test is not the signal processing: it is the control
around it.  Several threads raise and drop a handful of unlocked key flags; a
watchdog decides when a radio is gone and when to try it again; two leases
decide which browser may touch the radio and which may transmit; timers decide
when a keying session is over; an automatic FT8 operator decides what to say
next; a writer thread decides what of a recording survives.  These modules specify that control.  They are
translated from the source, line by line as `PROJECT.json` ("map") records it,
checked by TLC on small instances, and in part proved by TLAPS for every value
of their constants.

Paths below are relative to the repository's `src/` directory unless they begin
with `doc/`.

## 1. Inventory

| Component | State it keeps | Operations | What makes it correct |
|---|---|---|---|
| **Link watchdog** `proto/link_state.c`, `proto/reconnect.c` | the `LINK` record (state, entry time, last data, next attempt, backoff, attempt), two atomics `data_seq` / `last_data_sec`, the banner | `reconnect_note_data` from every receive thread; `watchdog_cb` once a second; Retry and Exit buttons; `do_reconnect`, which blocks the GTK thread | silence is noticed in bounded time, the ladder of pauses is honoured and never shrinks, a dead link is retried for ever, a live one ends up streaming, the banner tells the truth |
| **Web remote** `proto/web_server.c`, `web_protocol.c` | connection slots, control lease, TX lease, five `web_remote_*` atomics, microphone clock | requests on a worker per connection, decoded audio on a libdatachannel thread, `web_state_tick` every 50 ms, `web_server_start/stop` | a key from a browser always has a lease or an unkey behind it; leases die with their socket and their heartbeat |
| **TX keying** `core/radio.c`, `core/vox.c`, `core/ext.c`, `proto/protocol1.c` | the four key flags, `local_ptt`, VOX hang and its timer, the channels and the RX stream | `set_mox`, `set_tune`, `rxtx`, `update_vox` (microphone thread), `process_control_bytes` (protocol thread), `ext_*` idles | nothing stays keyed without somebody to release it; receivers resume after an over |
| **CW keyer and sender** `decode/cw_keyer.c`, `decode/cw_encoder.c` | paddle contacts, element, latches, keyer timer; session mode, `we_keyed`, hang, message | paddle events, 2 ms and 100 ms timers, `cw_tx_send_text`, `cw_tx_abort`, the audio thread draining a message | Curtis A/B timing, MOX it raised is dropped, lost key-ups and stalled messages end |
| **FT8 QSO sequencer** `decode/ft8_qso.c` | exchange state, station, Enable Tx and Auto Seq, queued and synthesized message, decodes handled, two watchdogs, the ADIF log | `qso_poll` every 500 ms, the FT8 panel's buttons, decodes of a slot as they appear | an exchange advances by what was heard, logs only what was acknowledged, sends what it says it sends, and does not call for ever |
| **FT8/FT4 sender** `decode/ft8_encoder.c` | armed, parity and anchor slot, waveform, `we_keyed` | arm, disarm, a 100 ms tick, the audio thread | MOX it raised is dropped, a stalled transmission ends |
| **Recorder** `audio/recorder.c` | recorded receiver, bounded queue, writer thread, one open segment per stream, the Record button | `recorder_toggle`, taps on receiver threads, `rec_write_block`, `roll_segment`, stops from the button, a closed receiver, a failed write | every file plays, what was taken was given to a file when the stop returns or its stream was given up, the button tells the truth |
| SSTV sender `decode/sstv_encoder.c` | a session like the FT8 sender's | one picture, samples, abort | MOX it raised is dropped, a stalled transmission ends |
| Audio ring buffers `core/ringbuffer.c` | a ring of one reader and one writer | put, get | nothing read before it is written |
| SoapySDR devices `proto/soapy_protocol.c` | stream, reader thread, pause flag | pause, resume, reconnect | one reader at a time, never on a closed stream |
| Protocol 1 and 2, discovery | sockets, sequence numbers | packets in and out | formats; the PTT edge |
| Receivers `core/receiver.c` | receivers and their delete lock | add, delete, sample callbacks | no callback touches a deleted receiver |
| CAT, TCI, MIDI, key bindings | parsers and tables | commands | each becomes an `ext_` idle |
| Settings, UI, decoders, TX audio and PureSignal, adapters for WebRTC, TLS and the DX cluster | | | data processing and widgets |
| WDSP, ft8_lib, hfdl_lib, sgp4sdp4 | | | vendored |

### How they interact

Everything that keys the radio ends in `set_mox` or `set_tune` on the GTK
thread, followed by `rxtx`.  Other threads get there with `g_idle_add`: CAT, TCI
and the web server with the value in the callback, the radio's PTT with a
callback that reads `local_ptt` when it runs, VOX with a callback that arms a
poll.  `update_vox` and `process_control_bytes` also *store* key flags directly.
`isTransmitting` is the disjunction of the flags, read without a lock by `rxtx`,
by the watchdog (which does not judge the link while the radio is keyed) and by
the protocol threads.  The CW, FT8 and SSTV senders each remember whether they
raised MOX themselves.  The web server's threads share two mutexes and five
atomics with the main loop.

### What is hard

Steps of two threads in an unlucky order (a lease revoked in the middle of a
keying request, VOX taken down while it is being raised); a value sampled and
then used when it is stale (the link's last block, the DUP flag, the paddle
reversal, a slot's owner); timeouts against late answers (heartbeats, the hang,
the microphone gap, the retry ladder); and a long list of things that must
eventually happen because a transmitter that stays keyed is the failure that
matters.  `PROJECT.json` lists 40 such hazards, each at its line, and says which
property would catch it or why none does.  Five more it does not list, as no
comment, document or test says what should happen: `we_keyed` of the CW sender says who raised MOX,
not who holds it now (`decode/cw_encoder.c:301`), and the FT8 sender's likewise drops MOX
an operator dropped and raised again during its transmission; the CW hang and watchdog are measured with the wall
clock (`cw_encoder.c:274`); `set_mox` ends a Tune without giving
`cw_keyer_internal` back (`core/radio.c:976`); a recording started within
the second in which another began truncates the other's files, whose names carry
whole seconds (`audio/recorder.c:411`); and `rec_enqueue` queues a stream nobody
selected, so that I/Q blocks without a file cost an AF recording its room (`audio/recorder.c:551`).

## 2. Modules

### `LinkWatchdog`

`link` is the `LINK` struct with ages in place of absolute times (the code only
forms differences), `newBlock` and `dataAge` are the two atomics,
`phase` is where the GTK thread is: `idle`, `painting` (the nested main loop
that paints the banner before an attempt), `attempting` (`do_reconnect`),
`exited`.  `LinkEnter`, `LinkReset`, `LinkRetryNow`, `LinkAttempted` and
`LinkTick` are the functions of `link_state.c`; `Watchdog`, `BeginAttempt` and
`AttemptDone` are the three parts of `watchdog_cb` between which other events are
dispatched; `RetryNow` and `ExitPressed` are the banner's buttons.  `NoteSeq` and
`NoteTime` are the two atomics of `reconnect_note_data`, so the watchdog may read
one of a block and not the other.  `Key`, `Unkey`, `Vanish`, `Return` and `Tick`
are the transmitter, the device and the clock.

### `WebLease` (and `MCWebLease`, which adds the symmetry of the slots)

Each thread -- a worker and a decoder per slot, and GTK -- is the sequence of
steps it still has to make (`todo[t]`).  A step is one critical section, one run
of stores to the atomics, or one `g_idle_add`; between any two steps every
other thread may run.  `Program` says which steps a request consists of
(`web_request_access` and `dispatch_request`); `HangUp` is `web_client_release`,
`StateTick` is `web_state_tick`, `Stop` and `Start` the server's.  A deadline is
a Boolean that time may clear at any moment and a renewal sets: every timing is
therefore covered, at the price of saying nothing of durations.  `Dispatch` is
the main loop running the oldest idle; here the radio itself is one variable,
`txState`, and `TxKeying` says what is behind it.

### `TxKeying`

`key` holds the flags `ptt`, `mox`, `vox` and `tune`.  A step is what one thread
does between two points where another may see a difference, so `rxtx` reads the
flags in a step after the one that changed them (`gtk = "rxtx"`).  `idles` is the
main loop's queue; `proto` and `mic` are the protocol thread and the microphone
thread, each possibly stopped between its store and its `g_idle_add`.
`process_control_bytes` stores `local_ptt` twice, first the PTT bit alone and then
with the paddle in it (`ControlBytes`, `CombinePaddle`), and any other thread may
run in between.  `by` and `switched` are history, read by the properties only:
who raised MOX last, and which receivers' DUP was switched on while `rxtx` had
them stopped.

### `CwKeyer`

The iambic keyer and the sender together, since the keyer's only effect is
`cw_tx_key`.  Time counts dot units.  `keyer` is the state machine of
`cw_keyer.c`, `AdvanceStraight`, `AdvanceIdle`, `AdvanceMark` and `AdvanceSpace`
are `cw_keyer_advance` by the state it finds, `tx` is the session of
`cw_encoder.c` with the radio's MOX and Tune, `TxTick` its 100 ms timer.
`squeezed`, `trailing` and `turned` are history; `turned` says that the keyer's
settings have changed under a straight key that was closed, and is still down.

### `Recorder` and `RecordingLog`

`gtk` is where the GTK thread is: free, or in the join of `stop_locked` on behalf
of the button, the writer's idle or `delete_receiver`.  `rec_mutex` is held for
the length of every action but that window (`StopBegin` .. `StopJoin`) and the writer's own
steps on its files.  A tap is two actions, the unlocked test of `rec_rx`
(`TapCheck`) and `rec_enqueue` (`TapTaken`, `TapRefused`).  `writer` is the writer
thread's place in its loop; `WriteDone`, `WriteFails`, `WriteSkipped`,
`RollSegment` and `RollFails` are the ways through `rec_write_block`.  A block stands for one
tap call, all of one size.

A file has three parts, because the code has: `asked`, the blocks that `fwrite`
accepted for it and the recorder counted; `real`, how many of them it holds, which
nobody knows before `close_wav` has closed it and looked at its size; and `hdr`, the
length its header claims.  `Closings` is `close_wav`: `fclose` may fail to flush any
part of what stdio still had, and the header is written from what is there.  Every
file that is closed goes through it -- at the stop, at a split, after a write that
failed -- except the ones a failed start opened, which are left empty.
`log`, `written` and `lost` are history; the first two start afresh with each attempt to record.

`RecordingLog` is what the recorder promises without a queue, a thread or a file: a log that
grows, of which every entry is settled, in order, before the recording is off: handed
over to be kept, or its stream given up.  What was handed over is found to be kept, or to be
torn off, and has been found to be one of the two when the recording is off.
`Recorder` implements it under the mapping at the end of
that module (`Phase`, `Settled`, `Handed`, `Kept`, `Torn`, `Given`): checked as the property `KeepsItsPromise` and
proved in `RecorderProofs`.

### `Ft8Qso`

`state`, `dx`, `enabled`, `auto`, `pending`, `prepared`, `needArm`, `handled` are
the statics of `ft8_qso.c`; `armed`, `wave`, `air`, `anchored`, `weKeyed`,
`ticking` those of `ft8_encoder.c`.  `qso_poll` is written as its consecutive
parts -- `PollBegin` (the Tx watchdog and the copy of the list), one
`PollHears` per decode (`handle_decode`), and one of `PollFinishes`, `PollArms`,
`PollCannotEncode`, `PollRests` -- between which no other action is enabled, as
nothing else runs on the main thread.  `TickKeysUp`, `TickStops`, `TickWaits`, `TickRemoved`
are `tx_tick`; `Publish` is what `decode_slot` adds to the list, once the
transmission lies whole in a window: late in its own slot, or at any time in the next as long as
no newer slot has replaced the list; `WithinSlot` and `NextSlot` are the clock.  A slot is two parts, the two
seconds in which a transmission may start and the rest.  A message is whom it is
to and what it says.  `ft8_qso_start_cq` is not an action: nothing calls it,
the panel's CQ button is `ft8_qso_select_tx(6)` (`SelectCq`).

### `LinkWatchdogProofs`, `TxKeyingProofs`, `CwKeyerProofs`, `WebLeaseProofs`, `WebLivenessProofs`, `RecorderProofs`, `RecordingProofs`, `Ft8QsoProofs`

The theorems of section 5.

## 3. What is checked

Definitions named `Bug...` are variants of the definition that follows them:
each breaks the code the way a plausible slip would, and substituting it makes
TLC violate the property it is listed with in `PROJECT.json` ("mutants").

| Run | Instance | Shows |
|---|---|---|
| `link_outage` | FirstData 4, Disconnect 3, backoff 1..6, timer lag up to 2 s, half duplex, radio and transmitter coming and going, Retry and Exit | `TypeOK`, `SilenceNoticed`, `BannerTruthful`, `NoEarlyRetry`, `NoLateRetry`, `BackoffNeverShrinks`, `RetriesForever`, `LinkComesBack` |
| `link_grace` | the same with lag 1 | **violated**: `GraceAfterTransmission` |
| `web_takeover` | two browsers, one pending idle when a request starts, Tune, takeover, expiry, release, hang-up, the desk's MOX off | `TypeOK`, `KeyIsAnsweredFor`, `LeaseDiesWithSocket` |
| `web_liveness` | one browser, MOX with microphone audio, arm withdrawn and granted, stop and start | `LostLeaseUnkeys`, `SilentHolderExpires` |
| `web_window` | two browsers, `WindowIsAtomic = FALSE` | **violated**: `KeyIsAnsweredFor` |
| `cw_safety` | all three keyer modes, messages, aborts, reversal, mode changes, MOX and Tune buttons | `TypeOK`, `NoOrphanMox`, `HangSpansGap`, `TrailingElement`, `SqueezeAlternates` |
| `cw_liveness` | straight and mode B, with reversal, every change of keyer mode and messages | `KeyFollowsPaddles`, `StuckPaddleReleased`, `MessageEnds` |
| `tx_keying` | one receiver, DUP switched at any time, up to two pending idles and one more of the protocol thread's, full duplex | `TypeOK`, `VoxHasARelease`, `AirIsAccountedFor`, `PttLetsGo`, `ReceiversResume`, `VoxLetsGo` |
| `rec_session` | two receivers, two streams, a queue of two blocks, segments of two blocks, four blocks, one stop pending at a start; starts and segments that cannot be opened, writes that fail, closes that fall short | `TypeOK`, `FilesArePlayable`, `SegmentsHoldRecording`, `ButtonTellsRecording`, `KeepsItsPromise`, `StopReturns`, `FailureEndsRecording` |
| `rec_roll` | one receiver, two blocks | **violated**: `ButtonMeansWriting` |
| `ft8_exchange` | two stations, one whose call fits only closing messages; every button, MOX elsewhere, decodes in their own slot or the next: three events in all, any number of slots | `TypeOK`, `NoOrphanMox`, `SilentUnlessEnabled`, `ArmedSaysPending`, `LoggedHaveAcked`, `ForgottenTxStops` |
| `ft8_final` | one station, two events | **violated**: `FinalSentOnce` |

Five further configurations, each a counterexample of a few seconds, accompany the
findings of section 4 that have no run of their own:
`WebLease_control.cfg`, `WebLease_media.cfg`, `CwKeyer_strand.cfg` (`EveryKeyFollows`),
`TxKeying_duplex.cfg` (`EveryReceiverResumes`) and `Recorder_summary.cfg` (`SummaryAgrees`):
`tlc -config CwKeyer_strand.cfg CwKeyer`, and so on.  The three properties named are
what the code's words say; the runs check, and TLAPS proves, what the code
does instead, in every behaviour and with nothing assumed: `KeyFollowsPaddles` and
`ReceiversResume` hold of every key and every receiver but the ones whose settings
were changed at the wrong moment (`turned`, `switched`), and `KeepsItsPromise` says
that what is counted and not on the disk is what a close fell short of.

### The bounds, and why they are enough

* **Link.** The disconnect timeout (3 s) and the first pause (1 s) are the code's
  own; the first-data timeout (10 s there) and the longest pause (60 s) are cut to
  4 and 6, which keeps their relations: a first-data wait longer than the gap, a
  ladder with more than two rungs whose last is clamped (1, 2, 4, 6).  Ages stop at `DataCap`, `StateCap`
  and `GapCap`, each above every threshold the age is compared with (`StateCap` by as much as the timer
  can lag, so that `NoLateRetry` sees a wait that is too long), so a capped
  age behaves as any larger one does; `AttemptCap` is 2 because only `attempt = 0`
  is tested.  The ladder, the banner and the bounded silence are also proved for
  all values.
* **Web.** Two browsers are enough for a takeover; symmetry is used only in the
  run that checks no liveness.  `QueueMax` bounds how many idles may be pending
  when a request *starts*; unkeys are never held back by it.  `Events` names
  what happens in an instance.  Tune rather than MOX keys in `web_takeover`,
  because it needs no audio; MOX and its audio are in `web_liveness`.
* **CW.** Hang 0 makes the two-dot floor the hang that is used, the shortest there
  is; a message of one block is drained by one step or by none; `Stuck` 2 is
  shorter than a dash, so the guard also fires inside an element.  `AgeCap` and
  `StuckCap` are one above their thresholds.
* **TX.** `QueueMax` 1 says that a callback of the network or the microphone is queued
  only while none is pending; the protocol thread may begin a packet with one
  pending, and the microphone thread finish what it has begun, so that
  a release is queued behind its press, and a third callback behind both.
  A second receiver changes nothing but
  `rxOn`, which the proof covers for any number; `TxKeying_duplex.cfg` has two.
* **Recorder.** Segments of two blocks let a close lose both, one or none of
  what was counted, and a third block of a stream is a split; a queue of two fills
  while the writer holds a third; four blocks give a stream two segments, and the
  two streams any interleaving.  `MaxStops`
  lets a recording begin with a stop of the last one still pending.  The files
  of earlier recordings are left out of the state (a second recording in one run
  starts with none), and the theorems hold for every value of the bounds.
* **FT8.** Three events reach every state of the exchange: an answer, its report
  and its RR73; a click in between; MOX taken away.  Slots are not bounded: the
  watchdogs (2 cycles and 3 slots here, 5 and 24 in the code) and the timers run
  their course after the last event.  The age of the last progress stops one above its limit.

### Assumptions that narrow a run

One constant stands for a discipline the code does not enforce: `WindowIsAtomic`
says that a keying request is not interrupted between its ownership check and its
`g_idle_add` by the revocation of that very lease.  It is dropped in `web_window`,
which is finding 2.

`CHECK_DEADLOCK FALSE` appears only in the link's runs: Exit ends the program.

### Fairness

Weak fairness on a thread's next step says that a running thread is scheduled;
on `Tick` and `Clock`, that time passes; on the link's `Watchdog`, that GTK dispatches a due timer.
`StateTick`, `VoxPoll` and `Dispatch` are strongly fair: a main loop serves its sources
in turn, however often it is busy with another when one of them becomes ready.  In `LinkWatchdog` an attempt
may take any time and fairness says only that it returns.
In `CwKeyer`, `Clock` waits for a due keyer dispatch: the 2 ms timer runs many times in a
dot, so it runs at least once.
In `Recorder` the writer thread runs (`WF` of its steps), and the GTK thread
finishes a join and dispatches a pending stop; no disk has to fail and nobody has to press a button.
`Ft8Qso` states no fairness: its clock waits for the two timers, each of
which runs several times in either part of a slot, and `ForgottenTxStops` is a
bound in slots rather than an "eventually".  Nothing is assumed of the operator, the browsers,
the device, the microphone or the audio thread: the liveness properties that
need one of them to settle say so (`<>[]`).

## 4. Where the code and its words disagree

Each was met while a property was written from a comment or a document, and is
shown by the run or configuration in parentheses.

1. *Grace after a transmission* (`link_grace`).  `link_tick` keeps
   `last_data` fresh while a half-duplex radio is keyed "so the grace period
   restarts cleanly on return to receive" (`proto/link_state.c:115-116`), but
   `watchdog_cb` overwrites it with `last_data_sec` on the next tick
   (`proto/reconnect.c:260`).  After an over longer than the disconnect timeout, the link is declared
   lost at once.
2. *A key without a lease* (`web_window`).  Between the ownership check of
   `SET_MOX`/`SET_TUNE` and the `g_idle_add`, the lease can be revoked and the
   unkey be queued first, or find nothing to unkey
   (`proto/web_server.c:1097`, against the comment at 552-553).
3. *A TX lease without control* (`WebLease_control.cfg`).  `lease_acquire` does not look
   at `web_control_owner` again in the section that takes the lease
   (`proto/web_server.c:919`, against 132-133).
4. *A MOX without audio* (`WebLease_media.cfg`).  Asking again for a lease one holds
   resets the audio clock and with it the flag that the gap watchdog looks at
   (`proto/web_server.c:928`, against `doc/web-remote-status.md:189-190`).
5. *A stranded straight key* (`CwKeyer_strand.cfg`).  Which contact is the key is decided
   anew at its release (`decode/cw_keyer.c:240`), so a straight key that is reversed, or
   whose keyer mode is changed, while it is closed may stay down after it is
   opened, though the contacts are recorded "so a later mode/reverse toggle stays
   consistent" (231-232) and 53-56 says that the setting "can never strand a logical flag".
   `KeyFollowsPaddles` says, of every behaviour, that these are the only keys it happens to.
6. *A stranded receiver* (`TxKeying_duplex.cfg`).  `rxtx` stops the receivers that are not
   DUP at the beginning of an over and restarts the ones that are not DUP at its
   end (`core/radio.c:942`), so a receiver whose DUP is switched on during
   the over (`dup_b_cb`, the web page; the MIDI handler refuses it) is not restarted.
   The comment at 956-959 knows of the case, for the stream: "recomputing the condition here
   would strand RX deactivated for good if DUP were switched on during the over".
   `ReceiversResume` says, of every behaviour, that these are the only receivers it happens to.
7. *A recording that writes nothing* (`rec_roll`).  When the next segment cannot be
   opened, `roll_segment` leaves the stream without a file and, unlike a failed
   write, neither alerts nor asks for the stop (`audio/recorder.c:227`, against 267-268).
8. *A summary that counts too much* (`Recorder_summary.cfg`).  `iq_written` and
   `af_written` are "frames that reached a file" (`audio/recorder.c:82`), counted so
   "the summary and the file agree about how much of the recording survived" (494-495), and
   a stop means that "everything captured is on the disk" (527-528).  They count what
   `fwrite` accepted, which may still be in stdio's buffer: what `close_wav` then
   cannot flush (174) stays counted, after a write that failed as well as at a stop
   or a split, where it is only logged, the stream is not given up and no alert is
   shown.  `close_wav` itself says that the two differ (163-165) and puts the header
   right (191-195), which is `FilesArePlayable`.
9. *A 73 that was never sent* (`ft8_final`).  `qso_poll` completes an exchange
   at the end of whichever transmission ends in `ST_ANS_SENT_73`; an RR73 decoded
   late, or Tx5 clicked just before the slot, changes the state while the message before is
   armed or on the air (`decode/ft8_qso.c:461`, against the comment at 462).

Six smaller ones came up in passing and have no configuration: in `ST_CALLING_CQ` any message
addressed to us, even a repeated 73 of the last partner, counts as an answer;
a double click on a row makes the current list be acted on again, so a repeated RR73 logs the
contact twice, though `decode/ft8_qso.c:449` says "Each is acted on exactly once either
way"; Halt and Answer within half a second hide the edge of Enable Tx from
the poll, so the Tx watchdog may run from the earlier click; a stop the writer asked
for may come after the operator has stopped and started again, and ends the new
recording (`audio/recorder.c:291`); a callback for a pressed paddle that is dispatched
while `process_control_bytes` is between its two stores reads `local_ptt` down, and the press is
lost until the paddle is next released and pressed (`proto/protocol1.c:525`; the release never is:
`PttLetsGo`); and protocol 2 compares the combined `local_ptt` with the previous
raw PTT bit (`proto/protocol2.c:1734`), so it does not report the release of a paddle.

## 5. What is proved

TLAPS checks the following for every value of the constants that the named
assumptions of each module (`LinkConstants`, `TxConstants`, `CwConstants`,
`WebConstants`, `RecorderConstants`, `Ft8Constants`) allow.

**`LinkWatchdogProofs`.**  `TypeCorrect`, `SilenceIsNoticed`, `BannerIsTruthful`
(`Safety => []...`) and the action properties `NoRetryIsEarly`,
`LadderNeverShrinks`.  The inductive invariant `IInv` adds three facts the
properties do not say: `PhaseInv`, the GTK thread is in an attempt exactly while the link is
`RETRYING`; `LadderInv`, the time since the last attempt plus the
time until the next is never below the pause that was promised (`NoEarlyRetry`
is its instance at zero); and `BlockInv`, a block not yet
looked at is no older than the ticks the timer owes (without it a late tick
could promote a link on a block older than `SilenceNoticed` allows).  The proof
has one lemma per function of `link_state.c` and one per action.  The only
assumption that relates constants, besides the order of the backoff limits, is
`MaxLag < Disconnect`: the timer runs more often than the gap it measures.
`NoRetryIsLate` is the other half of `NoRetryIsEarly`: a lost link's wait never exceeds the
backoff by more than the timer owes.  Its invariant `Due` follows the pause through the three
places that can start or cut it (a loss, a failed attempt, Retry), and counts what is left of
the wait for a first block as part of it.

**`TxKeyingProofs`.**  `TypeCorrect`, `VoxIsReleased`, `AirIsNeverForgotten`,
`PttIsReleased`, for any set of receivers and any queue bound, and
`ReceiversAlwaysResume`, whatever is done to DUP and when.  The invariant adds `PttIsLocal`
(the raw PTT bit implies `local_ptt`, between its two stores too), without which a packet could clear `local_ptt`
with the radio still keyed and nobody told; `ReceiversResume` is not inductive,
and `StoppedByOver` says why a receiver is stopped: by the over that is on the air, because it
was not DUP, which it still is not; or its DUP was switched on since.  Lemmas on the queue say what `g_idle_add` and a dispatch leave in it.

`VoxAlwaysLetsGo` is `VoxLetsGo`, liveness: once the microphone is quiet the VOX flag comes
down, even if the thread that raised it never runs again.  `VoxIsReleased` gives three places a release can
be (the callback that arms the poll, the poll's timer, the drop in hand); each either
goes on to the next or ends, by the fairness of one action.

**`CwKeyerProofs`.**  The five safety properties of `cw_safety`, for every hang, guard,
message length and set of events.  The records first: `BeginSession`, `EndSession`, `KeySession`
say what the sender's functions leave of a session, `Latched`, `Marked`, `Decided` what the
keyer's leave of the latch.  `IInv` adds `Rhythm` (in a space the keyer's timer is armed, and the time since
the key-up plus the rest of the space is at most one unit: `HangSpansGap` is that plus the floor of two on
the hang), `SqueezeLatched` (an element squeezed from its start has its latch set) and
`TrailingForgets` (an element no paddle began has none).

Two facts that the runs check only as liveness have a safety half.  `ElementsHoldTheKey`: a key that is
down with both paddles up is a sounding element whose timer is armed to end it, in every
keyer mode and through every change of the settings, unless it is a straight key that was re-set while
closed (`turned`).  `NothingRestartsTheWatchdog`: a message only grows older, by every unit
of the clock, until it is past its watchdog.  From the first, `TheKeyFollows` proves `KeyFollowsPaddles`: an element has at most three units left, each taken by one `Clock` and one
`KeyerTick`.  `MessagesAlwaysEnd` proves `MessageEnds` from the fairness of the sender's timer and
`ClockRunsOut` (a message that does not end some other way gets as old as its watchdog), to which `NothingRestartsTheWatchdog` is the
complement: nothing but the end of the message turns that clock back.

**`WebLeaseProofs`.**  The three safety properties of `web_takeover`, for any number of
connections, any choice of requests and any bound on the callbacks; `KeysAreAnsweredFor`
assumes `WindowIsAtomic`, without which it is false (`web_window`).  A thread's remaining
work is a list of steps, so most of the proof is about lists: `Lists` says
which steps a thread's list may hold and which may follow which (`Joins`: the steps of a keying
request only in their order, a release of the flags only before its callback, nothing after the slot is freed), and
`RestGoesOn`, `OneMoreGoesOn`, `FailSafeGoesOn` and `ReleaseGoesOn` say that a step
which shortens or extends its list leaves a legal one.
`Order` joins it to `Sockets` and `Parting` (a connection that is leaving still has its releases
ahead of it).  `Keys` has two parts: `Windows`, what holds while a keying request is between its check and its callback, and
`Answered`, which splits the property in two: the flag answers for what the radio is
headed for by the callbacks in the queue, and a lease or a pending unkey answers for the flag.

**`WebLivenessProofs`** proves `SilentHolderExpires`, with or without `WindowIsAtomic`: a holder that renews no longer, or whose arm
the operator has withdrawn, loses the TX lease, though no browser ever asks for it.  The steps of a thread that shorten its list
and those that extend it alternate, so the argument is a measure, `Rank`: three for every step left, and the weight of
the first.  `ListSteps` says what each of the steps may leave of a list, `Lightens` that the
measure falls with every one of them that does not revoke the lease, and `Short` that it is never above 18 (five steps, or
six of which the first resets the audio), whatever the constants are.  So while the lease is doomed a thread that keeps running
gets through its list (`WorkerRests`, `GtkRests`), and nothing keeps it from running (`WorkerRuns`, `GtkRuns`).  On the other hand a tick that has begun
stays `Ready`, short of the test that ends the lease or of the release it has decided on, and a worker of a
stopping server, once it is in `web_client_release`, stays there while the lease is held (`HangingUp`): both contradict it.  `WindowStaysShut` is the part of the arm check and the
lease check: a doomed holder does not get into the window in which its lease may not be taken.

**`RecorderProofs`.**  `TypesHold`, `FilesPlay`, `ButtonTells` and
`RecorderKeepsPromise`, the refinement `Spec => Promise!Spec`, for any receivers, queue and
segment size.  `IInv` adds `Handshake` (what `rec_rx`,
`rec_writer`, `rec_writer_run`, the writer's place and the GTK thread's say of each other: the
writer outlives the flag only while somebody joins it), `OpenFiles` (the segment a stream
writes is its newest, `bytes` is what was asked of it, and its header is still the placeholder), `GivenUp` (a stream has a file until it is given up) and `QueueIsTail` (queue and block
in hand are the end of the log, which is what makes `Settled` grow one by one).
The refinement needs one thing more, `Placed`: every block that is counted is in a file, either
one still open, where nobody knows yet how much of it landed, or a closed one, where it is
kept or torn off; and no block is in two files.  `ClosedFile` and `ClosingFinds` are what
`close_wav` does to a file and to `Kept` and `Torn`: it decides for each of its blocks, and
takes back nothing decided before.
The step simulation maps `Start` and `StartFails` to `Begin`, `TapTaken` to `Take`, the four ways a block leaves
the writer to `Settle`, a split and the writer's last closes to `Find`, `StopBegin` to `End`,
`StopJoin` to `Finish` (with no file open, what was handed over has been found), and everything else to
a stutter.

**`RecordingProofs`**, on top of it.  `SegmentsHold` proves `SegmentsHoldRecording`: the segments of a
stream, one after the other, were given the blocks that are counted as written, none lost, doubled or torn between two files,
and where every close of the stream was whole they hold them.
`FlattenSeq` is a recursive function, and `Induction` (from the well-foundedness of `<`) gives the one thing needed of it: what it does to a last segment
that grows or is added.  `FailureReaches`: a disk failure always has a stop on its way to the GTK
thread until the recording is over; `FailureEnds` proves `FailureEndsRecording` from it and
the dispatch of that callback.  `OnlyRollsMislead` shows finding 7 to be the only one
of its kind: a button at Stop over a stream without a file means a segment that could not be opened.  `StopGetsOn`: while the GTK thread waits in the join, every step of the writer leaves
the queue, or what remains of the block in hand, smaller.

**`Ft8QsoProofs`.**  The six invariants of `ft8_exchange`, for any stations, watchdogs and
number of events.  `IInv` is `TypeOK` with `Sender` (MOX, `weKeyed`, `air`,
`ticking` and the gates), `Synthesis` (`prepared` is what the waveform says, so a message that
could not be encoded leaves nothing to arm), `Acknowledged` (every
decode still to be acted on, in the list or in the running poll, is from a station already in
`acked`) and `Watchdog`, which
relates the slots since the last click to the age the poll looks at, by whether the edge of
Enable Tx has been seen.  On top of it, `Spoken` (what is queued is what the state of the exchange says, and what
was synthesized is that or something said before) and `Served` (a queued message that no longer waits to be armed is
the one the waveform says) give `NothingLeavesTheQueueUnsaid`, over failed encodings and
retries, and `OnlyWaitingFinalsAreLost`: the 73 of finding 8 is lost only when it still
waited to be armed as another transmission ended.

**How liveness is proved.**  The prover does not reason about `ENABLED`, so a fairness
hypothesis is written with the condition under which the action can be taken in place of it:
`[]<>~Guard \/ []<><<A>>_vars` says of `A` what `WF_vars(A)` does if `Guard` is its
enabling condition, and `SF` has `<>[]~Guard`.  Two hypotheses
are not of that form and say what the fairness of `Spec` is there for:
`IdleIsRun` (a queued VOX callback is dispatched, and no other is left unless the microphone thread is about to
queue one, which `SF_vars(Dispatch)` gives by counting the callbacks ahead of it) and
`ClockRunsOut` (time passes until a watchdog's length is over).  TLC confirms both, and that each guard implies
its action's `ENABLED`, on the instances of `tx_keying`, `cw_liveness`, `rec_session`, `web_liveness` and `web_takeover`.  What the
proofs then show is the code's share: no interleaving takes the work back.

**Only model-checked.**  `RetriesForever`, `LinkComesBack`, `LostLeaseUnkeys`,
`StuckPaddleReleased` and `StopReturns`.  Each needs an induction over a count that only a
constant bounds -- a pause, a queue, a guard, the number of connections -- and
a temporal induction of that kind is out of the prover's reach; `TheKeyFollows` and `SilentHoldersExpire` manage because theirs are bounded
by a number (3 units, 18 steps), through which the propositional prover can count.  Every
safety property of a passing run is proved.

## 6. What is not modelled, and why

* Within the modelled components: the `protocol*_restart` calls behind
  `do_reconnect` (one step that may or may not bring the stream back); the web
  server's login throttle, state and spectrum feeds, and the requests that
  change a setting (each only renews control, as `control_renew` does); the
  creation, settings and windows of `radio.c`; `cw_keyer_reset` and the test
  hook, which only the unit test calls; how text becomes a waveform; the recorder's
  settings page, statistics and dialogs, the part of a block that a failing `fwrite` accepted (it accepts a block or
  refuses it; what `close_wav` then finds missing is counted in blocks), which blocks of an
  open file stdio has flushed already (decided when it is closed), a close whose file cannot be reopened, which leaves
  the header a placeholder and says so in the log (`audio/recorder.c:180-185`); the FT8 sequencer's worked-station and DXCC tables,
  its list's limit of 64 and `ft8_qso_start_cq`, which is dead code.
* The SSTV sender: one session of the FT8 sender's shape, with nothing over it.
* SoapySDR's reader threads and the receivers' delete lock: the recorder and `TxKeying` take
  from them what they need (`NoTapRuns`, the stream flag); the rest is device I/O.
* A slot's TLS session (`web_client_release` marks the slot free before it frees the session).
* Protocol 2: its PTT edge (section 4) is no module; the same comparison in
  `TxKeying` is the mutant `BugPreviousPtt` of `PttLetsGo`.
* Signal processing, file formats, packet layouts, widgets and vendored
  libraries: their data is not what the hazards are about.
