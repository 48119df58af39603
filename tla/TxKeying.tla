------------------------------ MODULE TxKeying ------------------------------
(***************************************************************************)
(* What keys the radio: MOX, Tune, the radio's own PTT and paddle, and VOX *)
(* (core/radio.c, core/vox.c, core/ext.c, the control bytes of             *)
(* proto/protocol1.c), and what rxtx does about it.                        *)
(*                                                                         *)
(* Three threads share the four key flags without a lock: the GTK thread,  *)
(* the microphone thread (update_vox) and the protocol thread              *)
(* (process_control_bytes).  A step is what one thread does between two    *)
(* points where another may see a difference; in particular rxtx reads the *)
(* flags in a step after the one that changed them.                        *)
(***************************************************************************)
EXTENDS Naturals, Sequences

CONSTANTS
    Receivers,      \* the open receivers
    FullDuplex,     \* the device can receive while it transmits
    QueueMax        \* bound: no new idle is queued while so many are pending; the
                    \* protocol thread may go one further, so that it can change
                    \* its mind before its first report is heard

ASSUME TxConstants ==
    /\ FullDuplex \in BOOLEAN
    /\ QueueMax \in Nat \ {0}

VARIABLES
    key,            \* the flags ptt, mox, vox and tune
    localPtt,       \* radio->local_ptt
    cwMode,         \* the transmit mode is CWL or CWU
    keyerOn,        \* radio->cw_keyer_internal
    proto,          \* the protocol thread: idle, about to combine the paddle with
                    \* the PTT bit, or about to queue
    previous,       \* its previous_ptt, while it combines
    paddle,         \* a paddle contact is closed and tx_mode was CW, meanwhile
    voxEnabled,     \* radio->vox_enabled
    hang,           \* now < vox_hang_until_us
    voxTimer,       \* radio->vox_timeout is armed
    mic,            \* the microphone thread
    idles,          \* pending g_idle_add callbacks, FIFO
    gtk,            \* the GTK thread: free, or inside a callback
    duplex,         \* the DUP flag of each receiver
    txOn,           \* the transmitter's channel runs, as rxtx left it
    rxOn,           \* which receivers' channels run
    streamOn,       \* rx_stream_active
    \* History: read by the properties only.
    by,             \* who raised MOX last
    switched        \* the receivers whose DUP went on while rxtx had them
                    \* stopped, until they run again

flags == <<key, by, keyerOn>>
ptt   == <<localPtt, cwMode, proto, previous, paddle>>
voice == <<voxEnabled, hang, voxTimer, mic>>
air   == <<txOn, rxOn, streamOn>>
dup   == <<duplex, switched>>
vars  == <<flags, ptt, voice, idles, gtk, dup, air>>

-----------------------------------------------------------------------------
(* radio.c *)

\* isTransmitting
Transmitting == key.ptt \/ key.mox \/ key.vox \/ key.tune

\* set_mox and set_tune up to rxtx: each drops the other.  In CW, Tune takes the
\* radio's keyer away and gives it back; MOX that ends a Tune does not.
SetMox(on, who) ==
    /\ key' = [key EXCEPT !.tune = FALSE, !.mox = on]
    /\ by' = IF on THEN who ELSE "nobody"
    /\ UNCHANGED keyerOn
    /\ gtk' = "rxtx"

\* Seed of a mutant: Tune is added to MOX.
BugSetTune(on) ==
    /\ key' = [key EXCEPT !.tune = on]
    /\ by' = "nobody"
    /\ keyerOn' = IF cwMode THEN ~on ELSE keyerOn
    /\ gtk' = "rxtx"

SetTune(on) ==
    /\ key' = [key EXCEPT !.mox = FALSE, !.tune = on]
    /\ by' = "nobody"
    /\ keyerOn' = IF cwMode THEN ~on ELSE keyerOn
    /\ gtk' = "rxtx"

\* duplex_wanted
DuplexWanted == \E r \in Receivers : duplex[r]

\* Seed of a mutant: every receiver is stopped, whatever its DUP.
BugGoTransmit ==
    /\ txOn' = TRUE
    /\ rxOn' = [r \in Receivers |-> FALSE]
    /\ streamOn' = (streamOn /\ FullDuplex /\ DuplexWanted)

\* The two branches of rxtx.
GoTransmit ==
    /\ txOn' = TRUE
    /\ rxOn' = [r \in Receivers |-> rxOn[r] /\ duplex[r]]
    /\ streamOn' = (streamOn /\ FullDuplex /\ DuplexWanted)

GoReceive ==
    /\ txOn' = FALSE
    /\ rxOn' = [r \in Receivers |-> rxOn[r] \/ ~duplex[r]]
    /\ streamOn' = TRUE

Rxtx ==
    /\ gtk = "rxtx"
    /\ gtk' = "free"
    /\ IF Transmitting THEN GoTransmit ELSE GoReceive
    /\ switched' = {r \in switched : ~rxOn'[r]}
    /\ UNCHANGED <<flags, ptt, voice, idles, duplex>>

\* The MOX button, the space bar, a hotkey; the Tune button.
OperatorMox ==
    /\ gtk = "free"
    /\ \E on \in BOOLEAN : SetMox(on, "operator")
    /\ UNCHANGED <<ptt, voice, idles, dup, air>>

OperatorTune ==
    /\ gtk = "free"
    /\ \E on \in BOOLEAN : SetTune(on)
    /\ UNCHANGED <<ptt, voice, idles, dup, air>>

\* dup_b_cb and WEB_CTRL_DUPLEX store the flag and nothing else.
ToggleDup ==
    /\ gtk = "free"
    /\ \E r \in Receivers :
          /\ duplex' = [duplex EXCEPT ![r] = ~@]
          /\ switched' = IF rxOn[r] \/ duplex[r] THEN switched ELSE switched \cup {r}
    /\ UNCHANGED <<flags, ptt, voice, idles, gtk, air>>

-----------------------------------------------------------------------------
(* protocol1.c: process_control_bytes, on the protocol thread *)

\* Seed of a mutant: the comparison of protocol2.c's process_high_priority,
\* with the raw PTT bit instead of the value it was combined into.
BugPreviousPtt == key.ptt

PreviousPtt == localPtt

\* A packet reports the PTT line and the paddle contacts.  local_ptt is stored
\* twice: first it is the PTT bit alone.
ControlBytes(pttBit, paddleBit) ==
    /\ proto = "idle"
    /\ Len(idles) <= QueueMax
    /\ previous' = PreviousPtt
    /\ key' = [key EXCEPT !.ptt = pttBit]
    /\ localPtt' = pttBit
    /\ paddle' = (cwMode /\ paddleBit)
    /\ proto' = "combine"
    /\ UNCHANGED <<by, keyerOn, cwMode, voice, idles, gtk, dup, air>>

\* Then the paddle is added to it, and a change is reported.
CombinePaddle ==
    /\ proto = "combine"
    /\ localPtt' = (localPtt \/ (keyerOn /\ paddle))
    /\ proto' = IF previous # localPtt' THEN "queue" ELSE "idle"
    /\ previous' = FALSE /\ paddle' = FALSE
    /\ UNCHANGED <<flags, cwMode, voice, idles, gtk, dup, air>>

QueuePtt ==
    /\ proto = "queue"
    /\ proto' = "idle"
    /\ idles' = Append(idles, "ptt")
    /\ UNCHANGED <<flags, localPtt, cwMode, previous, paddle, voice, gtk, dup, air>>

\* The operator changes the transmit mode to or from CW.
ChangeMode ==
    /\ gtk = "free"
    /\ cwMode' = ~cwMode
    /\ UNCHANGED <<flags, localPtt, proto, previous, paddle, voice, idles, gtk, dup, air>>

-----------------------------------------------------------------------------
(* vox.c: update_vox, on the microphone thread *)

\* A block over the threshold, with VOX seen enabled.
MicLoud ==
    /\ mic = "idle"
    /\ voxEnabled
    /\ Len(idles) < QueueMax
    /\ mic' = "loud"
    /\ UNCHANGED <<flags, ptt, voxEnabled, hang, voxTimer, idles, gtk, dup, air>>

\* Push the deadline; key unless keyed already.
MicKey ==
    /\ mic = "loud"
    /\ hang' = TRUE
    /\ key' = [key EXCEPT !.vox = TRUE]
    /\ mic' = IF key.vox THEN "idle" ELSE "queue"
    /\ UNCHANGED <<by, keyerOn, ptt, voxEnabled, voxTimer, idles, gtk, dup, air>>

MicQueue ==
    /\ mic = "queue"
    /\ mic' = "idle"
    /\ idles' = Append(idles, "vox")
    /\ UNCHANGED <<flags, ptt, voxEnabled, hang, voxTimer, gtk, dup, air>>

HangExpires ==
    /\ hang
    /\ hang' = FALSE
    /\ UNCHANGED <<flags, ptt, voxEnabled, voxTimer, mic, idles, gtk, dup, air>>

-----------------------------------------------------------------------------
(* vox.c: the GTK thread *)

\* Seed of a mutant: the poll watches the switch and not the deadline.
BugVoxOver == ~voxEnabled

VoxOver == ~voxEnabled \/ ~hang

\* vox_poll_cb: its tests, then what it does.
VoxPoll ==
    /\ gtk = "free"
    /\ voxTimer
    /\ \/ /\ ~key.vox
          /\ voxTimer' = FALSE
          /\ UNCHANGED gtk
       \/ /\ key.vox /\ VoxOver
          /\ gtk' = "voxDrop"
          /\ UNCHANGED voxTimer
    /\ UNCHANGED <<flags, ptt, voxEnabled, hang, mic, idles, dup, air>>

\* Seed of a mutant: the flag is cleared and the radio is not told.
BugVoxDrop ==
    /\ gtk = "voxDrop"
    /\ key' = [key EXCEPT !.vox = FALSE]
    /\ voxTimer' = FALSE
    /\ gtk' = "free"
    /\ UNCHANGED <<by, keyerOn, ptt, voxEnabled, hang, mic, idles, dup, air>>

\* vox_release, and the end of vox_poll_cb.
VoxDrop ==
    /\ gtk = "voxDrop"
    /\ key' = [key EXCEPT !.vox = FALSE]
    /\ voxTimer' = FALSE
    /\ gtk' = "rxtx"
    /\ UNCHANGED <<by, keyerOn, ptt, voxEnabled, hang, mic, idles, dup, air>>

\* vox_set_enabled; switching off is vox_cancel.
SetVoxEnabled ==
    /\ gtk = "free"
    /\ voxEnabled' = ~voxEnabled
    /\ gtk' = IF voxEnabled /\ (key.vox \/ voxTimer) THEN "voxDrop" ELSE "free"
    /\ UNCHANGED <<flags, ptt, hang, voxTimer, mic, idles, dup, air>>

\* Seed of a mutant: the poll is armed only while VOX is switched on.
BugVoxKeyIdle ==
    /\ voxTimer' = (voxTimer \/ (key.vox /\ voxEnabled))
    /\ gtk' = "rxtx"
    /\ UNCHANGED flags

\* vox_key_idle
VoxKeyIdle ==
    /\ voxTimer' = (voxTimer \/ key.vox)
    /\ gtk' = "rxtx"
    /\ UNCHANGED flags

-----------------------------------------------------------------------------
(* ext.c: the idle callbacks *)

\* CAT, TCI and the web server queue MOX changes with their value in them.
QueueMox ==
    /\ Len(idles) < QueueMax
    /\ \E m \in {"moxOn", "moxOff"} : idles' = Append(idles, m)
    /\ UNCHANGED <<flags, ptt, voice, gtk, dup, air>>

\* The main loop runs the oldest.  ext_ptt_changed reads local_ptt only now.
Dispatch ==
    /\ gtk = "free"
    /\ idles # << >>
    /\ idles' = Tail(idles)
    /\ \/ Head(idles) = "ptt" /\ SetMox(localPtt, "ptt") /\ UNCHANGED voxTimer
       \/ Head(idles) = "moxOn" /\ SetMox(TRUE, "network") /\ UNCHANGED voxTimer
       \/ Head(idles) = "moxOff" /\ SetMox(FALSE, "network") /\ UNCHANGED voxTimer
       \/ Head(idles) = "vox" /\ VoxKeyIdle
    /\ UNCHANGED <<ptt, voxEnabled, hang, mic, dup, air>>

-----------------------------------------------------------------------------
Init ==
    /\ key = [ptt |-> FALSE, mox |-> FALSE, vox |-> FALSE, tune |-> FALSE]
    /\ by = "nobody"
    /\ localPtt = FALSE /\ cwMode \in BOOLEAN
    /\ proto = "idle" /\ previous = FALSE /\ paddle = FALSE
    /\ keyerOn \in BOOLEAN
    /\ voxEnabled = FALSE /\ hang = FALSE /\ voxTimer = FALSE /\ mic = "idle"
    /\ idles = << >>
    /\ gtk = "free"
    /\ duplex \in [Receivers -> BOOLEAN] /\ switched = {}
    /\ txOn = FALSE
    /\ rxOn = [r \in Receivers |-> TRUE]
    /\ streamOn = TRUE

Next ==
    \/ Rxtx \/ OperatorMox \/ OperatorTune \/ ToggleDup
    \/ \E p, d \in BOOLEAN : ControlBytes(p, d)
    \/ CombinePaddle \/ QueuePtt \/ ChangeMode
    \/ MicLoud \/ MicKey \/ MicQueue \/ HangExpires
    \/ VoxPoll \/ VoxDrop \/ SetVoxEnabled
    \/ QueueMox \/ Dispatch

\* The main loop finishes a callback, dispatches its idles and its poll, however
\* busy it is kept; a thread finishes the call it is in; a deadline passes.
\* Nothing is assumed of the operator, the network or the microphone.
Fairness ==
    /\ WF_vars(Rxtx) /\ WF_vars(VoxDrop)
    /\ SF_vars(Dispatch) /\ SF_vars(VoxPoll)
    /\ WF_vars(CombinePaddle) /\ WF_vars(QueuePtt) /\ WF_vars(MicKey) /\ WF_vars(MicQueue)
    /\ WF_vars(HangExpires)

Safety == Init /\ [][Next]_vars
Spec   == Safety /\ Fairness

-----------------------------------------------------------------------------
(* Properties *)

\* Type invariant; MOX and Tune exclude each other.
TypeOK ==
    /\ key \in [ptt : BOOLEAN, mox : BOOLEAN, vox : BOOLEAN, tune : BOOLEAN]
    /\ ~(key.mox /\ key.tune)
    /\ by \in {"nobody", "operator", "ptt", "network"}
    /\ localPtt \in BOOLEAN /\ cwMode \in BOOLEAN /\ keyerOn \in BOOLEAN
    /\ proto \in {"idle", "combine", "queue"} /\ previous \in BOOLEAN /\ paddle \in BOOLEAN
    /\ voxEnabled \in BOOLEAN /\ hang \in BOOLEAN /\ voxTimer \in BOOLEAN
    /\ mic \in {"idle", "loud", "queue"}
    /\ idles \in Seq({"ptt", "moxOn", "moxOff", "vox"})
    /\ gtk \in {"free", "rxtx", "voxDrop"}
    /\ duplex \in [Receivers -> BOOLEAN] /\ switched \subseteq Receivers
    /\ txOn \in BOOLEAN /\ rxOn \in [Receivers -> BOOLEAN] /\ streamOn \in BOOLEAN

Queued(m) == \E i \in 1..Len(idles) : idles[i] = m

\* VOX never keys without something that will release it: the poll is armed, or
\* the callback that arms it is on its way -- whatever the microphone thread, the
\* poll and the VOX switch do to each other in between.
VoxHasARelease == key.vox => voxTimer \/ Queued("vox") \/ mic = "queue"

\* The protocol thread has yet to report that the radio's own key came up, unless
\* it finds the key down after all.
KeyUpUnreported == proto = "queue" \/ (proto = "combine" /\ previous)

\* Somebody is still going to call rxtx.
RxtxPending == gtk # "free" \/ idles # << >> \/ mic = "queue" \/ KeyUpUnreported

\* The radio is never left on the air with no flag asking for it: once every
\* flag is down and the radio's own key is up, a call of rxtx is on its way.
AirIsAccountedFor == txOn /\ ~Transmitting /\ ~localPtt => RxtxPending

\* The radio's PTT and paddle let go of what they keyed: MOX that ext_ptt_changed
\* raised is followed by another one as soon as the line is released.
PttLetsGo == by = "ptt" /\ ~localPtt => Queued("ptt") \/ KeyUpUnreported

\* After an over the stream runs again and so does every receiver, except those,
\* and only those, whose DUP was switched on while the over had them stopped.
ReceiversResume == ~txOn => streamOn /\ \A r \in Receivers : rxOn[r] \/ r \in switched

\* What the comment in rxtx is written for has no exception: "recomputing the
\* condition here would strand RX deactivated for good if DUP were switched on
\* during the over".
EveryReceiverResumes == ~txOn => streamOn /\ \A r \in Receivers : rxOn[r]

\* "The un-key MUST NOT depend on the mic thread coming back": a microphone that
\* has stopped delivering does not keep the transmitter.
VoxLetsGo == <>[](mic = "idle") => <>[](~key.vox)
=============================================================================
