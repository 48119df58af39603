------------------------------- MODULE Ft8Qso -------------------------------
(***************************************************************************)
(* The FT8/FT4 auto-QSO sequencer (decode/ft8_qso.c) over the slot         *)
(* scheduler of the FT8 sender (decode/ft8_encoder.c).  Everything but the *)
(* decoder's list, the audio thread and the clock runs on the GTK main     *)
(* thread: qso_poll every 500 ms, tx_tick every 100 ms while it is         *)
(* scheduled, and the operator's clicks.  qso_poll is written as its       *)
(* consecutive parts (PollBegin, one PollHears per decode, PollEnds),      *)
(* during which nothing else runs: no main-thread action can, and what the *)
(* decoder and the audio thread do meanwhile commutes with the parts, which*)
(* work on a copy of the list and never look at tx_idx.                    *)
(*                                                                         *)
(* A slot is an "open" part, the two seconds in which a transmission may   *)
(* start, and a "late" part, in which a waveform comes to its end and its  *)
(* decodes come out.  Only decodes addressed to us are in the list:        *)
(* handle_decode ignores the others.  Callsign and grid are configured.    *)
(***************************************************************************)
EXTENDS Naturals, Sequences

CONSTANTS
  Dx,               \* the other stations
  Plain,            \* those of them whose callsign fits every message
  NULL,             \* no station, no message
  WATCHDOG_CYCLES,  \* transmissions without an answer before giving up (5)
  TX_WATCHDOG,      \* slots without progress before Tx is disabled (6 minutes)
  MaxEvents         \* bound: operator actions and decodes together

Message ==
  [to : Dx \cup {NULL},
   says : {"CQ", "grid", "report", "rreport", "RR73", "73", "free"}]

ASSUME Ft8Constants ==
  /\ Plain \subseteq Dx
  /\ NULL \notin Dx
  /\ NULL \notin Message
  /\ WATCHDOG_CYCLES \in Nat \ {0, 1}
  /\ TX_WATCHDOG \in Nat
  /\ MaxEvents \in Nat

VARIABLES
  state, dx, txEven, enabled, auto,  \* ft8_qso.c: the exchange and its gates
  pending, prepared, needArm,        \* the message to send, the one synthesized
  handled,                           \* decodes of the list already acted on
  prevActive, prevEnabled, cycles, since,
  logged, log,                       \* the ADIF log, as the stations in it
  armed, armEven, wave, air, anchored, weKeyed, ticking,
                                     \* ft8_encoder.c: the scheduler
  mox,                               \* who holds MOX: "off", "ft8", "other"
  list, listSlot,                    \* the decoder's list and its slot label
  todo, inPoll, due,                 \* the running poll; timers still to run
  even, phase,                       \* the clock
  acked, quiet,                      \* history: who has acknowledged us, slots
                                     \* without a click or progress
  events                             \* bound

exchange == <<state, dx, txEven, auto, logged, log>>
queue == <<pending, prepared, needArm>>
guards == <<prevActive, prevEnabled, cycles, since>>
sender == <<armed, air, weKeyed, mox>>
scheduler == <<armEven, wave, anchored, ticking>>
decodes == <<list, listSlot, acked>>
main == <<todo, inPoll>>
clock == <<even, phase>>
vars == <<exchange, enabled, queue, handled, guards, sender, scheduler,
          decodes, main, due, clock, quiet, events>>

States == {"IDLE", "CALLING_CQ", "CQ_SENT_REPORT", "CQ_SENT_RR73",
           "ANS_SENT_GRID", "ANS_SENT_RREPORT", "ANS_SENT_73", "FREE"}
Heard == [from : Dx, says : {"grid", "report", "rreport", "RR73", "73"}]
Slots == {"cur", "prev", "old"}   \* a slot, by its age

Msg(to, says) == [to |-> to, says |-> says]
RemoteAcks == {"report", "rreport", "RR73", "73"}

(* ftx_message_encode: a non-standard call fits only the closing messages. *)
Encodable(m) ==
  \/ m.to = NULL
  \/ m.to \in Plain
  \/ m.says \in {"RR73", "73"}

Init ==
  /\ state = "IDLE" /\ dx = NULL /\ txEven = TRUE
  /\ enabled = FALSE /\ auto = TRUE
  /\ pending = NULL /\ prepared = NULL /\ needArm = FALSE
  /\ handled = 0
  /\ prevActive = FALSE /\ prevEnabled = FALSE /\ cycles = 0 /\ since = 0
  /\ logged = FALSE /\ log = {}
  /\ armed = FALSE /\ armEven = FALSE /\ wave = NULL /\ air = "silent"
  /\ anchored = FALSE /\ weKeyed = FALSE /\ ticking = FALSE
  /\ mox = "off"
  /\ list = <<>> /\ listSlot = "old"
  /\ todo = <<>> /\ inPoll = FALSE /\ due = {}
  /\ even = TRUE /\ phase = "open"
  /\ acked = {} /\ quiet = 0 /\ events = 0

-----------------------------------------------------------------------------
(* tx_active, and tx_idx against wave_len: silent, sending or sent.         *)
active == air # "silent"

(* A disarm that leaves MOX to the tick it has just made remove itself.     *)
BugDisarm ==
  /\ armed' = FALSE
  /\ air' = "silent"
  /\ weKeyed' = FALSE
  /\ UNCHANGED mox

(* ft8_tx_disarm: an unfinished transmission ends with the MOX we raised.   *)
Disarm ==
  /\ armed' = FALSE
  /\ air' = "silent"
  /\ weKeyed' = FALSE
  /\ mox' = IF weKeyed THEN "off" ELSE mox

GoIdle ==
  /\ state' = "IDLE"
  /\ pending' = NULL /\ prepared' = NULL /\ needArm' = FALSE
  /\ enabled' = FALSE
  /\ cycles' = 0
  /\ Disarm

(* set_pending; the callers also clear the synthesized message or not.      *)
Queue(m) ==
  /\ pending' = m
  /\ needArm' = TRUE

-----------------------------------------------------------------------------
(* The operator: every entry of the FT8 panel, and MOX elsewhere.           *)
OperatorActs ==
  /\ ~inPoll
  /\ events < MaxEvents
  /\ events' = events + 1
  /\ quiet' = 0
  /\ UNCHANGED <<decodes, main, due, clock>>

(* A new contact or message: what answer, select_tx and send_free share.    *)
Begins(s, m) ==
  /\ state' = s
  /\ logged' = FALSE
  /\ prepared' = NULL
  /\ cycles' = 0
  /\ Queue(m)
  /\ UNCHANGED <<auto, log, prevActive, prevEnabled, since, sender, scheduler>>

(* ft8_qso_answer: the parity is the opposite of the row's slot, and rows of*)
(* either parity are on the panel.                                          *)
Answer(x) ==
  /\ OperatorActs
  /\ Begins("ANS_SENT_GRID", Msg(x, "grid"))
  /\ dx' = x
  /\ txEven' \in BOOLEAN
  /\ enabled' = TRUE
  /\ handled' = 0

(* ft8_qso_select_tx, Tx6: the parity is a setting.                         *)
SelectCq ==
  /\ OperatorActs
  /\ Begins("CALLING_CQ", Msg(NULL, "CQ"))
  /\ dx' = NULL
  /\ txEven' \in BOOLEAN
  /\ UNCHANGED <<enabled, handled>>

(* ft8_qso_select_tx, Tx1 to Tx5.                                           *)
SelectTx(s, says) ==
  /\ OperatorActs
  /\ dx # NULL
  /\ Begins(s, Msg(dx, says))
  /\ UNCHANGED <<dx, txEven, enabled, handled>>

SendFree ==
  /\ OperatorActs
  /\ Begins("FREE", Msg(NULL, "free"))
  /\ enabled' = TRUE
  /\ UNCHANGED <<dx, txEven, handled>>

Halt ==
  /\ OperatorActs
  /\ GoIdle
  /\ UNCHANGED <<dx, txEven, auto, logged, log, handled,
                 prevActive, prevEnabled, since, scheduler>>

EnableTx ==
  /\ OperatorActs
  /\ enabled' = TRUE
  /\ needArm' = (needArm \/ pending # NULL)
  /\ UNCHANGED <<exchange, pending, prepared, handled, guards, sender,
                 scheduler>>

(* Enable Tx as a gate of the sequencer only.                               *)
BugDisableTx ==
  /\ OperatorActs
  /\ enabled' = FALSE
  /\ UNCHANGED <<exchange, queue, handled, guards, sender, scheduler>>

DisableTx ==
  /\ OperatorActs
  /\ enabled' = FALSE
  /\ Disarm
  /\ UNCHANGED <<exchange, queue, handled, guards, scheduler>>

SetAuto ==
  /\ OperatorActs
  /\ auto' = ~auto
  /\ UNCHANGED <<state, dx, txEven, logged, log, enabled, queue, handled,
                 guards, sender, scheduler>>

(* MOX raised or dropped by anyone but the FT8 sender.                      *)
OtherMox ==
  /\ OperatorActs
  /\ mox' = IF mox = "off" THEN "other" ELSE "off"
  /\ UNCHANGED <<exchange, enabled, queue, handled, guards, armed, air,
                 weKeyed, scheduler>>

-----------------------------------------------------------------------------
(* qso_poll, first part: the Tx watchdog, and a copy of the decodes past    *)
(* the count last handled.  The poll of an idle sequencer does nothing else.*)
PollIsDue ==     \* the tick, five times as frequent, is not overdue
  /\ ~inPoll
  /\ due # {"tick"}

PollIdle ==
  /\ PollIsDue
  /\ state = "IDLE"
  /\ prevActive' = FALSE
  /\ prevEnabled' = FALSE
  /\ due' = due \ {"poll"}
  /\ UNCHANGED <<exchange, enabled, queue, handled, cycles, since, sender,
                 scheduler, decodes, main, clock, quiet, events>>

(* The watchdog restarted by every poll that finds Tx enabled.              *)
BugSince == IF enabled THEN 0 ELSE since

Since == IF enabled /\ ~prevEnabled THEN 0 ELSE since

(* The count last handled grown by the whole list instead of set to it.     *)
BugPollBegin ==
  /\ PollIsDue
  /\ state # "IDLE"
  /\ since' = Since
  /\ prevEnabled' = enabled
  /\ IF enabled /\ Since > TX_WATCHDOG
       THEN enabled' = FALSE /\ Disarm
       ELSE UNCHANGED <<enabled, sender>>
  /\ todo' = SubSeq(list, handled + 1, Len(list))
  /\ handled' = handled + Len(list)
  /\ inPoll' = TRUE
  /\ UNCHANGED <<exchange, queue, prevActive, cycles, scheduler, decodes, due,
                 clock, quiet, events>>

PollBegin ==
  /\ PollIsDue
  /\ state # "IDLE"
  /\ since' = Since
  /\ prevEnabled' = enabled
  /\ IF enabled /\ Since > TX_WATCHDOG
       THEN enabled' = FALSE /\ Disarm
       ELSE UNCHANGED <<enabled, sender>>
  /\ todo' = SubSeq(list, handled + 1, Len(list))
  /\ handled' = Len(list)
  /\ inPoll' = TRUE
  /\ UNCHANGED <<exchange, queue, prevActive, cycles, scheduler, decodes, due,
                 clock, quiet, events>>

(* handle_decode: one decode against the state of the exchange.             *)
Advances(s, m) ==
  /\ state' = s
  /\ Queue(m)
  /\ cycles' = 0
  /\ since' = 0
  /\ quiet' = 0
  /\ UNCHANGED <<enabled, prepared, sender>>

Logs ==
  /\ log' = IF logged THEN log ELSE log \cup {dx}
  /\ logged' = TRUE
  /\ UNCHANGED dx

LogsNothing == UNCHANGED <<dx, log, logged>>

AnsweredCq(d) ==
  /\ state = "CALLING_CQ"
  /\ dx' = d.from
  /\ Advances("CQ_SENT_REPORT", Msg(d.from, "report"))
  /\ UNCHANGED <<log, logged>>

(* same_dx forgotten.                                                       *)
BugReportAcked(d) ==
  /\ state = "CQ_SENT_REPORT"
  /\ d.says \in {"rreport", "report", "RR73"}
  /\ Advances("CQ_SENT_RR73", Msg(dx, "RR73"))
  /\ Logs

ReportAcked(d) ==
  /\ state = "CQ_SENT_REPORT"
  /\ d.from = dx
  /\ d.says \in {"rreport", "report", "RR73"}
  /\ Advances("CQ_SENT_RR73", Msg(dx, "RR73"))
  /\ Logs

Rr73Acked(d) ==
  /\ state = "CQ_SENT_RR73"
  /\ d.from = dx
  /\ d.says \in {"73", "RR73"}
  /\ GoIdle
  /\ UNCHANGED <<since, quiet>>
  /\ LogsNothing

GridReported(d) ==
  /\ state = "ANS_SENT_GRID"
  /\ d.from = dx
  /\ d.says = "report"
  /\ Advances("ANS_SENT_RREPORT", Msg(dx, "rreport"))
  /\ LogsNothing

(* RR73 or 73, and to an R-report also another R-report, ends the exchange. *)
AnswerAcked(d) ==
  /\ d.from = dx
  /\ \/ state = "ANS_SENT_GRID" /\ d.says \in {"RR73", "73"}
     \/ state = "ANS_SENT_RREPORT" /\ d.says \in {"RR73", "73", "rreport"}
  /\ Advances("ANS_SENT_73", Msg(dx, "73"))
  /\ Logs

Matters(d) ==
  \/ state = "CALLING_CQ"
  \/ /\ d.from = dx
     /\ \/ state = "CQ_SENT_REPORT" /\ d.says \in {"rreport", "report", "RR73"}
        \/ state = "CQ_SENT_RR73" /\ d.says \in {"73", "RR73"}
        \/ state = "ANS_SENT_GRID" /\ d.says \in {"report", "RR73", "73"}
        \/ state = "ANS_SENT_RREPORT" /\ d.says \in {"RR73", "73", "rreport"}

HandleDecode(d) ==
  \/ /\ auto
     /\ AnsweredCq(d) \/ ReportAcked(d) \/ Rr73Acked(d) \/ GridReported(d)
          \/ AnswerAcked(d)
  \/ /\ ~auto \/ ~Matters(d)
     /\ UNCHANGED <<state, dx, log, logged, enabled, queue, cycles, since,
                    quiet, sender>>

PollHears ==
  /\ inPoll
  /\ todo # <<>>
  /\ state # "IDLE"
  /\ HandleDecode(Head(todo))
  /\ todo' = Tail(todo)
  /\ UNCHANGED <<txEven, auto, handled, prevActive, prevEnabled, scheduler,
                 decodes, inPoll, due, clock, events>>

(* Last part: the end of one of our transmissions, and the next one.        *)
Ended == prevActive /\ ~active
Cycles ==
  IF Ended /\ cycles < WATCHDOG_CYCLES THEN cycles + 1 ELSE cycles
GivesUp ==
  auto /\ state \notin {"CALLING_CQ", "FREE"} /\ Cycles >= WATCHDOG_CYCLES
Finishes == Ended /\ (state = "ANS_SENT_73" \/ GivesUp)
WantsArm ==
  /\ needArm \/ Ended
  /\ pending # NULL
  /\ enabled
  /\ ~active
  /\ state # "IDLE"

PollEnds ==
  /\ inPoll
  /\ todo = <<>> \/ state = "IDLE"
  /\ inPoll' = FALSE
  /\ todo' = <<>>
  /\ due' = due \ {"poll"}
  /\ prevActive' = active
  /\ UNCHANGED <<dx, txEven, auto, logged, log, handled, prevEnabled, since,
                 decodes, clock, quiet, events>>

PollFinishes ==
  /\ PollEnds
  /\ Finishes
  /\ GoIdle
  /\ UNCHANGED scheduler

(* ft8_tx_prepare when the message changed, then ft8_tx_arm, which anchors  *)
(* the scheduler on the current slot.                                       *)
PollArms ==
  /\ PollEnds
  /\ ~Finishes
  /\ WantsArm
  /\ pending = prepared \/ Encodable(pending)
  /\ prepared' = pending
  /\ wave' = IF pending = prepared THEN wave ELSE pending
  /\ needArm' = FALSE
  /\ IF wave' = NULL
       THEN UNCHANGED <<armed, armEven, anchored, ticking>>
       ELSE armed' = TRUE /\ armEven' = txEven /\ anchored' = TRUE
              /\ ticking' = TRUE
  /\ cycles' = Cycles
  /\ UNCHANGED <<state, enabled, pending, air, weKeyed, mox>>

(* An encoding failure that keeps the waveform of the message before.       *)
BugPollCannotEncode ==
  /\ PollEnds
  /\ ~Finishes
  /\ WantsArm
  /\ pending # prepared
  /\ ~Encodable(pending)
  /\ needArm' = TRUE
  /\ cycles' = Cycles
  /\ UNCHANGED <<state, enabled, pending, prepared, sender, scheduler>>

PollCannotEncode ==
  /\ PollEnds
  /\ ~Finishes
  /\ WantsArm
  /\ pending # prepared
  /\ ~Encodable(pending)
  /\ wave' = NULL
  /\ needArm' = TRUE
  /\ cycles' = Cycles
  /\ UNCHANGED <<state, enabled, pending, prepared, sender, armEven, anchored,
                 ticking>>

PollRests ==
  /\ PollEnds
  /\ ~Finishes
  /\ ~WantsArm
  /\ needArm' = (needArm \/ (Ended /\ pending # NULL))
  /\ cycles' = Cycles
  /\ UNCHANGED <<state, enabled, pending, prepared, sender, scheduler>>

Poll ==
  \/ PollIdle \/ PollBegin \/ PollHears
  \/ PollFinishes \/ PollArms \/ PollCannotEncode \/ PollRests

-----------------------------------------------------------------------------
(* tx_tick, while it is scheduled.                                          *)
Ticks ==
  /\ ~inPoll
  /\ ticking
  /\ due' = due \ {"tick"}
  /\ UNCHANGED <<exchange, enabled, queue, handled, guards, decodes, main,
                 even, phase, armEven, wave, quiet, events>>

TickRemoved ==
  /\ Ticks
  /\ ~armed /\ ~active
  /\ ticking' = FALSE
  /\ UNCHANGED <<sender, anchored>>

(* The MOX watchdog: waveform length plus two seconds after a key-up in the *)
(* open part of the slot is late in that slot or early in the next one.     *)
MayExpire == weKeyed /\ (~anchored \/ phase = "late")
MustExpire == weKeyed /\ ~anchored /\ phase = "late"

TickStops ==
  /\ Ticks
  /\ active
  /\ MayExpire \/ air = "sent"
  /\ Disarm
  /\ ticking' = FALSE
  /\ UNCHANGED <<anchored>>

CanKeyUp ==
  /\ wave # NULL
  /\ phase = "open"
  /\ ~anchored
  /\ even = armEven

TickWaits ==
  /\ Ticks
  /\ \/ air = "sending" /\ ~MustExpire
     \/ ~active /\ armed /\ ~CanKeyUp
  /\ UNCHANGED <<sender, anchored, ticking>>

(* MOX is ours only when nobody had raised it; set_mox may refuse.          *)
TickKeysUp ==
  /\ Ticks
  /\ armed /\ ~active
  /\ CanKeyUp
  /\ anchored' = TRUE
  /\ air' = "sending"
  /\ IF mox = "off"
       THEN weKeyed' = TRUE /\ mox' \in {"ft8", "off"}
       ELSE UNCHANGED <<weKeyed, mox>>
  /\ UNCHANGED <<armed, ticking>>

TxTick == TickRemoved \/ TickStops \/ TickWaits \/ TickKeysUp

-----------------------------------------------------------------------------
(* The audio thread has clocked the waveform out, if MOX is up and the TX   *)
(* chain runs.                                                              *)
Played ==
  /\ ~inPoll
  /\ air = "sending"
  /\ mox # "off"
  /\ ~anchored \/ phase = "late"
  /\ air' = "sent"
  /\ UNCHANGED <<exchange, enabled, queue, handled, guards, armed, weKeyed,
                 mox, scheduler, decodes, main, due, clock, quiet, events>>

(* decode_slot publishes: into the list of that slot, or a newer slot       *)
(* replaces the list; what is older than the list is dropped.  A            *)
(* transmission is published once it lies whole in a window, so in the late *)
(* part of its own slot or at any time in the next.                         *)
Publish(d, slot) ==
  /\ ~inPoll
  /\ events < MaxEvents
  /\ events' = events + 1
  /\ slot = "cur" => phase = "late"
  /\ slot = "prev" => listSlot # "cur"
  /\ IF listSlot = slot
       THEN list' = Append(list, d) /\ UNCHANGED <<listSlot, handled>>
       ELSE list' = <<d>> /\ listSlot' = slot /\ handled' = 0
  /\ acked' = IF d.says \in RemoteAcks THEN acked \cup {d.from} ELSE acked
  /\ UNCHANGED <<exchange, enabled, queue, guards, sender, scheduler, main,
                 due, clock, quiet>>

(* The clock.  The main loop is alive: each timer runs in every part of a   *)
(* slot.                                                                    *)
Older(slot) == IF slot = "cur" THEN "prev" ELSE "old"
(* An age above the limit needs no telling apart, nor the age of a time     *)
(* that the next poll sets anew before it looks at it.                      *)
Aged ==
  IF ~prevEnabled THEN 0
  ELSE IF since > TX_WATCHDOG THEN since ELSE since + 1

OnTheJob == enabled /\ state # "IDLE"

Timers == {"poll"} \cup (IF ticking THEN {"tick"} ELSE {})

WithinSlot ==
  /\ ~inPoll
  /\ due = {}
  /\ phase = "open"
  /\ phase' = "late"
  /\ due' = Timers
  /\ UNCHANGED <<exchange, enabled, queue, handled, guards, sender, scheduler,
                 decodes, main, even, quiet, events>>

NextSlot ==
  /\ ~inPoll
  /\ due = {}
  /\ phase = "late"
  /\ phase' = "open"
  /\ even' = ~even
  /\ due' = Timers
  /\ anchored' = FALSE
  /\ listSlot' = Older(listSlot)
  /\ since' = Aged
  /\ quiet' = IF OnTheJob THEN quiet + 1 ELSE 0
  /\ UNCHANGED <<exchange, enabled, queue, handled, prevActive, prevEnabled,
                 cycles, sender, armEven, wave, ticking, list, acked, main,
                 events>>

Clock == WithinSlot \/ NextSlot

Operator ==
  \/ \E x \in Dx : Answer(x)
  \/ SelectCq
  \/ SelectTx("ANS_SENT_GRID", "grid")
  \/ SelectTx("CQ_SENT_REPORT", "report")
  \/ SelectTx("ANS_SENT_RREPORT", "rreport")
  \/ SelectTx("CQ_SENT_RR73", "RR73")
  \/ SelectTx("ANS_SENT_73", "73")
  \/ SendFree \/ Halt \/ EnableTx \/ DisableTx \/ SetAuto \/ OtherMox

Decoder == \E d \in Heard, slot \in {"cur", "prev"} : Publish(d, slot)

Next == Operator \/ Poll \/ TxTick \/ Played \/ Decoder \/ Clock

Spec == Init /\ [][Next]_vars

-----------------------------------------------------------------------------
TypeOK ==
  /\ state \in States /\ dx \in Dx \cup {NULL}
  /\ txEven \in BOOLEAN /\ enabled \in BOOLEAN /\ auto \in BOOLEAN
  /\ pending \in Message \cup {NULL}
  /\ prepared \in Message \cup {NULL}
  /\ needArm \in BOOLEAN
  /\ list \in Seq(Heard) /\ handled \in 0..Len(list)
  /\ listSlot \in Slots
  /\ prevActive \in BOOLEAN /\ prevEnabled \in BOOLEAN
  /\ cycles \in 0..WATCHDOG_CYCLES /\ since \in 0..(TX_WATCHDOG + 1)
  /\ logged \in BOOLEAN /\ log \subseteq Dx
  /\ armed \in BOOLEAN /\ armEven \in BOOLEAN
  /\ wave \in Message \cup {NULL}
  /\ air \in {"silent", "sending", "sent"} /\ anchored \in BOOLEAN
  /\ weKeyed \in BOOLEAN /\ ticking \in BOOLEAN
  /\ mox \in {"off", "ft8", "other"}
  /\ todo \in Seq(Heard) /\ inPoll \in BOOLEAN
  /\ due \subseteq {"poll", "tick"}
  /\ even \in BOOLEAN /\ phase \in {"open", "late"}
  /\ acked \subseteq Dx
  /\ quiet \in Nat /\ events \in 0..MaxEvents

(* MOX that the FT8 sender raised and nobody has dropped since is known to  *)
(* be its own, belongs to a running transmission, and has a scheduled tick  *)
(* that will drop it: whatever path ends the transmission drops it too.     *)
NoOrphanMox == mox = "ft8" => weKeyed /\ active /\ ticking

(* Nothing is on the air, or waiting for a slot, unless an exchange is open *)
(* and Enable Tx is on: every path that closes the one or the other also    *)
(* silences the scheduler, which looks at neither.                          *)
SilentUnlessEnabled == armed \/ active => enabled /\ state # "IDLE"

(* The waveform waiting for a slot says the queued message, whatever the    *)
(* decodes and failed encodings in between, unless the operator picked      *)
(* another one (which clears prepared_msg) since the last poll.             *)
ArmedSaysPending ==
  armed /\ ~active /\ wave # NULL /\ prepared # NULL /\ ~inPoll
    => wave = pending

(* Only a station that has acknowledged us goes into the ADIF log.          *)
LoggedHaveAcked == log \subseteq acked

(* ft8_qso.c's Tx watchdog: a call nobody answers and nobody touches is off *)
(* the air within the limit, repeated or stuck, however MOX came up and     *)
(* whatever the MOX watchdog makes of it.  The two slots on top are the one *)
(* the limit ends in and a boundary between the click and the next poll.    *)
ForgottenTxStops == OnTheJob => quiet <= TX_WATCHDOG + 2

(* "final 73 sent once" (ft8_qso.c, the end of a transmission): the poll    *)
(* that completes an exchange in ANS_SENT_73 follows a transmission of 73.  *)
FinalSentOnce ==
  [][PollFinishes /\ state = "ANS_SENT_73" => wave = Msg(dx, "73")]_vars
=============================================================================
