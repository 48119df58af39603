------------------------------ MODULE CwKeyer ------------------------------
(***************************************************************************)
(* Software CW: the iambic keyer of decode/cw_keyer.c and the live sender  *)
(* of decode/cw_encoder.c, which raises and drops MOX for the paddle and   *)
(* for memory messages.  Every operation is one callback of the GTK thread,*)
(* except Sample, with which the audio thread drains a message.            *)
(*                                                                         *)
(* Time is counted in dot units.  The keyer's 2 ms timer is dispatched at  *)
(* least once a unit, so an element ends on its boundary; the sender's     *)
(* 100 ms timer may be dispatched at any moment.  `active` of the source is*)
(* tx.mode # "IDLE": the two atomics are always written together.          *)
(***************************************************************************)
EXTENDS Integers

CONSTANTS
    Hang,               \* cw_keyer_hang_time in dot units, before its floor
    Stuck,              \* CW_KEYER_STUCK_S in dot units
    MsgLen,             \* blocks of samples in a memory message
    Margin,             \* CW_TX_MAX_MARGIN_MS in dot units
    KeyerModes,         \* the keyer modes the operator chooses from
    Events              \* what else happens in this instance

ASSUME CwConstants ==
    /\ Hang \in Nat
    /\ Stuck \in Nat
    /\ MsgLen \in Nat \ {0}
    /\ Margin \in Nat
    /\ KeyerModes \subseteq {"STRAIGHT", "A", "B"}
    /\ KeyerModes # {}

VARIABLES
    paddle,         \* phys_dot and phys_dash
    sinceChange,    \* units since last_change_s
    keyer,          \* state, current_elem, units to elem_end_s, the two latches
    keyerTimer,     \* tick_id of cw_keyer.c is armed
    due,            \* the keyer's timer is owed a dispatch in this unit
    keyerMode,      \* radio->cw_keyer_mode
    reversed,       \* radio->cw_keys_reversed
    cwMode,         \* the transmitter is in CWL or CWU
    tx,             \* the sender, and the radio's MOX and Tune; tx.age counts
                    \* from last_key_ms in a KEYER session, from key_time_ms in
                    \* a MESSAGE, the only places where the two are read
    \* History: read by the properties only.
    squeezed,       \* both paddles have been down since the element began
    trailing,       \* elements begun since the last paddle came up
    turned          \* the keyer's settings have changed under a closed straight
                    \* key, which is still down

settings == <<keyerMode, reversed, cwMode>>
history  == <<squeezed, trailing, turned>>
vars == <<paddle, sinceChange, keyer, keyerTimer, due, settings, tx, history>>

\* The sender keeps the carrier on for a paddle.
OnAir == tx.mode = "KEYER" /\ tx.keyOn

-----------------------------------------------------------------------------
(* radio.c: MOX and Tune exclude each other.  `by` is history: who raised MOX. *)

SetMox(x, on, who) ==
    [x EXCEPT !.tune = FALSE, !.mox = on, !.by = IF on THEN who ELSE "nobody"]

SetTune(x, on) == [x EXCEPT !.mox = FALSE, !.tune = on, !.by = "nobody"]

-----------------------------------------------------------------------------
(* cw_encoder.c *)

\* Seed of a mutant: the configured hang has no floor.
BugHangUnits == Hang

\* The hang is never shorter than two dot units.
HangUnits == IF Hang > 2 THEN Hang ELSE 2

WatchdogUnits == MsgLen + Margin

\* Ages stop just above the threshold they are compared with.
AgeCap   == (IF HangUnits > WatchdogUnits THEN HangUnits ELSE WatchdogUnits) + 1
StuckCap == Stuck + 1

Aged(n, cap) == IF n >= cap THEN cap ELSE n + 1

\* A session starts: raise MOX unless it is up already, and arm the tick.
Begin(x, mode) ==
    LET s == [x EXCEPT !.mode = mode, !.timer = TRUE, !.weKeyed = ~x.mox]
    IN  IF x.mox THEN s ELSE SetMox(s, TRUE, "cw")

\* A session ends: drop MOX if it was this session that raised it.
End(x) ==
    LET s == [x EXCEPT !.mode = "IDLE", !.weKeyed = FALSE, !.left = 0, !.age = 0]
    IN  IF x.weKeyed THEN SetMox(s, FALSE, "cw") ELSE s

\* Seed of a mutant: MOX is raised at every key-down, not once a session.
BugCwTxKey(x, down) ==
    IF x.mode = "MESSAGE" \/ (down /\ ~cwMode) THEN x
    ELSE [(IF down THEN Begin(x, "KEYER") ELSE x) EXCEPT !.keyOn = down, !.age = 0]

\* cw_tx_key: a paddle edge.  A message owns the transmitter; a key-down needs
\* a CW mode, a key-up is always honoured.
CwTxKey(x, down) ==
    IF x.mode = "MESSAGE" \/ (down /\ ~cwMode) THEN x
    ELSE [(IF down /\ x.mode # "KEYER" THEN Begin(x, "KEYER") ELSE x)
            EXCEPT !.keyOn = down, !.age = 0]

\* Seed of a mutant: the watchdog looks only at MOX raised here, as the FT8 and
\* SSTV senders' do.
BugFinished(x) ==
    \/ x.mode = "KEYER" /\ ~x.keyOn /\ x.age > HangUnits
    \/ x.mode = "MESSAGE" /\ (x.left = 0 \/ (x.weKeyed /\ x.age > WatchdogUnits))

\* What tx_tick finds finished: a paddle past its hang, a message sent or stalled.
Finished(x) ==
    \/ x.mode = "KEYER" /\ ~x.keyOn /\ x.age > HangUnits
    \/ x.mode = "MESSAGE" /\ (x.left = 0 \/ x.age > WatchdogUnits)

TxTick ==
    /\ tx.timer
    /\ tx' = CASE tx.mode = "IDLE" -> [tx EXCEPT !.timer = FALSE]
               [] Finished(tx)     -> [End(tx) EXCEPT !.timer = FALSE]
               [] OTHER            -> tx
    /\ turned' = (turned /\ OnAir')
    /\ UNCHANGED <<paddle, sinceChange, keyer, keyerTimer, due, settings, squeezed,
                   trailing>>

\* cw_tx_send_text
SendText ==
    /\ "message" \in Events
    /\ tx.mode = "IDLE"
    /\ ~tx.tune
    /\ cwMode
    /\ tx' = Begin([tx EXCEPT !.left = MsgLen, !.age = 0], "MESSAGE")
    /\ UNCHANGED <<paddle, sinceChange, keyer, keyerTimer, due, settings, history>>

\* cw_tx_abort
Abort ==
    /\ "abort" \in Events
    /\ tx' = End(tx)
    /\ turned' = FALSE
    /\ UNCHANGED <<paddle, sinceChange, keyer, keyerTimer, due, settings, squeezed,
                   trailing>>

\* cw_tx_next_sample in a message, on the audio thread.  The stream may stall.
Sample ==
    /\ tx.mode = "MESSAGE" /\ cwMode /\ tx.left > 0
    /\ tx' = [tx EXCEPT !.left = @ - 1]
    /\ UNCHANGED <<paddle, sinceChange, keyer, keyerTimer, due, settings, history>>

-----------------------------------------------------------------------------
(* cw_keyer.c *)

Elements == {"DIT", "DAH"}
Opposite(e) == IF e = "DAH" THEN "DIT" ELSE "DAH"
Length(e) == IF e = "DIT" THEN 1 ELSE 3

\* dot_down and dash_down: the contact that keys element e, reversal applied.
Down(p, e) == IF (e = "DIT") # reversed THEN p.dot ELSE p.dash

AnyDown(p) == p.dot \/ p.dash

\* sample_latch: a squeeze of the paddle opposite the sounding element.
SampleLatch(k, p) ==
    IF k.elem \in Elements /\ Down(p, Opposite(k.elem))
    THEN [k EXCEPT !.latch = TRUE] ELSE k

\* start_mark.  Only the latch of the opposite element is ever set or read, so
\* one Boolean stands for the two.
StartMark(p, e) ==
    SampleLatch([state |-> "MARK", elem |-> e, left |-> Length(e), latch |-> FALSE], p)

\* The third choice of decide_next: whichever paddle is held.
AnyHeld(p) ==
    IF Down(p, "DIT") THEN "DIT" ELSE IF Down(p, "DAH") THEN "DAH" ELSE "none"

\* Seed of a mutant: mode A honours the latch of a paddle that came up.
BugDecideNext(k, p) ==
    IF k.latch THEN Opposite(k.elem)
    ELSE IF Down(p, k.elem) THEN k.elem ELSE AnyHeld(p)

\* Seed of a mutant: the same paddle is looked at before the latch.
BugDecideSameFirst(k, p) ==
    IF Down(p, k.elem) THEN k.elem
    ELSE IF k.latch /\ (keyerMode = "B" \/ Down(p, Opposite(k.elem)))
    THEN Opposite(k.elem) ELSE AnyHeld(p)

\* decide_next: the Curtis A/B rule at the end of an element's space.
DecideNext(k, p) ==
    IF k.latch /\ (keyerMode = "B" \/ Down(p, Opposite(k.elem)))
    THEN Opposite(k.elem)
    ELSE IF Down(p, k.elem) THEN k.elem ELSE AnyHeld(p)

Rest == [state |-> "IDLE", elem |-> "none", left |-> 0, latch |-> FALSE]

\* An element begins: the key goes down.
BeginElement(e) ==
    /\ keyer' = StartMark(paddle', e)
    /\ tx' = CwTxKey(tx, TRUE)
    /\ squeezed' = (paddle'.dot /\ paddle'.dash)
    /\ trailing' = IF AnyDown(paddle') THEN 0 ELSE trailing + 1

\* Seed of a mutant: only the state is reset; the key is not released.
BugAdvanceStraight ==
    /\ keyerMode = "STRAIGHT"
    /\ keyer' = [keyer EXCEPT !.state = "IDLE"]
    /\ UNCHANGED <<paddle, tx, squeezed, trailing>>

\* cw_keyer_advance, by the state it finds.
AdvanceStraight ==
    /\ keyerMode = "STRAIGHT"
    /\ keyer' = IF keyer.state = "IDLE" THEN keyer ELSE Rest
    /\ tx' = IF keyer.state = "MARK" THEN CwTxKey(tx, FALSE) ELSE tx
    /\ UNCHANGED <<paddle, squeezed, trailing>>

\* Seed of a mutant: there is no guard.
BugLostKeyUp == UNCHANGED paddle

\* The stuck-paddle guard releases both contacts before the state is looked at.
LostKeyUp ==
    paddle' = IF AnyDown(paddle) /\ sinceChange > Stuck
              THEN [dot |-> FALSE, dash |-> FALSE] ELSE paddle

AdvanceIdle ==
    /\ keyer.state = "IDLE"
    /\ IF AnyDown(paddle')
       THEN BeginElement(IF Down(paddle', "DIT") THEN "DIT" ELSE "DAH")
       ELSE UNCHANGED <<keyer, tx, squeezed, trailing>>

AdvanceMark ==
    /\ keyer.state = "MARK"
    /\ LET k == SampleLatch(keyer, paddle')
       IN  IF keyer.left > 0 THEN keyer' = k /\ UNCHANGED tx
           ELSE /\ keyer' = [k EXCEPT !.state = "SPACE", !.left = 1]
                /\ tx' = CwTxKey(tx, FALSE)
    /\ squeezed' = (squeezed /\ paddle'.dot /\ paddle'.dash)
    /\ UNCHANGED trailing

AdvanceSpace ==
    /\ keyer.state = "SPACE"
    /\ LET k == SampleLatch(keyer, paddle')
           next == DecideNext(k, paddle')
       IN  \/ /\ keyer.left > 0
              /\ keyer' = k
              /\ squeezed' = (squeezed /\ paddle'.dot /\ paddle'.dash)
              /\ UNCHANGED <<tx, trailing>>
           \/ /\ keyer.left = 0 /\ next \in Elements
              /\ BeginElement(next)
           \/ /\ keyer.left = 0 /\ next = "none"
              /\ keyer' = Rest
              /\ UNCHANGED <<tx, squeezed, trailing>>

\* keyer_tick
KeyerTick ==
    /\ keyerTimer
    /\ due' = FALSE
    /\ \/ AdvanceStraight
       \/ /\ keyerMode # "STRAIGHT"
          /\ LostKeyUp
          /\ AdvanceIdle \/ AdvanceMark \/ AdvanceSpace
    /\ keyerTimer' = (keyer'.state # "IDLE" \/ AnyDown(paddle'))
    /\ turned' = (turned /\ OnAir' /\ keyer'.state # "MARK")
    /\ UNCHANGED <<sinceChange, settings>>

\* cw_keyer_paddle: a press, an auto-repeated press, or a release of a contact.
\* Straight, the dot contact (or the dash, reversed) is the key itself.
Paddle(which, pressed) ==
    /\ paddle' = [paddle EXCEPT ![which] = pressed]
    /\ sinceChange' = 0
    /\ IF keyerMode = "STRAIGHT"
       THEN /\ tx' = IF (which = "dash") = reversed THEN CwTxKey(tx, pressed) ELSE tx
            /\ turned' = (turned /\ (which = "dash") # reversed)
            /\ UNCHANGED <<keyer, keyerTimer>>
       ELSE /\ keyer' = IF pressed THEN SampleLatch(keyer, paddle') ELSE keyer
            /\ keyerTimer' = TRUE
            /\ UNCHANGED <<tx, turned>>
    /\ squeezed' = (squeezed /\ paddle'.dot /\ paddle'.dash)
    /\ trailing' = IF AnyDown(paddle') THEN 0 ELSE trailing
    /\ UNCHANGED <<due, settings>>

-----------------------------------------------------------------------------
(* The operator and the clock *)

\* The straight key is closed, and no element sounds that would end by itself.
StraightKeyDown == keyerMode = "STRAIGHT" /\ OnAir /\ keyer.state # "MARK"

\* The keyer page of the CW dialog, and the mode of the transmit VFO.
SetKeyerMode ==
    /\ keyerMode' \in KeyerModes
    /\ turned' = (turned \/ (StraightKeyDown /\ keyerMode' # keyerMode))
    /\ UNCHANGED <<paddle, sinceChange, keyer, keyerTimer, due, reversed, cwMode, tx,
                   squeezed, trailing>>

Reverse ==
    /\ "reverse" \in Events
    /\ reversed' = ~reversed
    /\ turned' = (turned \/ StraightKeyDown)
    /\ UNCHANGED <<paddle, sinceChange, keyer, keyerTimer, due, keyerMode, cwMode, tx,
                   squeezed, trailing>>

ChangeMode ==
    /\ "mode" \in Events
    /\ cwMode' = ~cwMode
    /\ UNCHANGED <<paddle, sinceChange, keyer, keyerTimer, due, keyerMode, reversed, tx,
                   history>>

\* MOX and Tune from anywhere else: buttons, hotkeys, CAT, TCI, the footswitch.
OperatorMox ==
    /\ "mox" \in Events
    /\ \E on \in BOOLEAN : tx' = SetMox(tx, on, "operator")
    /\ UNCHANGED <<paddle, sinceChange, keyer, keyerTimer, due, settings, history>>

OperatorTune ==
    /\ "tune" \in Events
    /\ \E on \in BOOLEAN : tx' = SetTune(tx, on)
    /\ UNCHANGED <<paddle, sinceChange, keyer, keyerTimer, due, settings, history>>

\* One dot unit passes.  The keyer's timer, while armed, runs in every unit.
Clock ==
    /\ ~(keyerTimer /\ due)
    /\ due' = keyerTimer
    /\ sinceChange' = Aged(sinceChange, StuckCap)
    /\ keyer' = [keyer EXCEPT !.left = IF @ = 0 THEN 0 ELSE @ - 1]
    /\ tx' = IF tx.mode = "IDLE" THEN tx ELSE [tx EXCEPT !.age = Aged(@, AgeCap)]
    /\ UNCHANGED <<paddle, keyerTimer, settings, history>>

-----------------------------------------------------------------------------
Init ==
    /\ paddle = [dot |-> FALSE, dash |-> FALSE]
    /\ sinceChange = StuckCap
    /\ keyer = Rest
    /\ keyerTimer = FALSE
    /\ due = FALSE
    /\ keyerMode \in KeyerModes
    /\ reversed \in BOOLEAN
    /\ cwMode = TRUE
    /\ tx = [mode |-> "IDLE", keyOn |-> FALSE, weKeyed |-> FALSE, timer |-> FALSE,
             left |-> 0, age |-> 0, mox |-> FALSE, tune |-> FALSE, by |-> "nobody"]
    /\ squeezed = FALSE
    /\ trailing = 0
    /\ turned = FALSE

Next ==
    \/ KeyerTick \/ TxTick \/ Sample \/ Clock
    \/ \E which \in {"dot", "dash"}, pressed \in BOOLEAN : Paddle(which, pressed)
    \/ SendText \/ Abort
    \/ SetKeyerMode \/ Reverse \/ ChangeMode \/ OperatorMox \/ OperatorTune

\* The clock runs and the main loop dispatches both timers.  Nothing is assumed
\* of the operator, and nothing of the audio thread.
Fairness == WF_vars(Clock) /\ WF_vars(KeyerTick) /\ WF_vars(TxTick)

Safety == Init /\ [][Next]_vars
Spec   == Safety /\ Fairness

-----------------------------------------------------------------------------
(* Properties *)

\* Type invariant.
TypeOK ==
    /\ paddle \in [dot : BOOLEAN, dash : BOOLEAN]
    /\ sinceChange \in 0..StuckCap
    /\ keyer \in [state : {"IDLE", "MARK", "SPACE"}, elem : Elements \cup {"none"},
                  left : 0..3, latch : BOOLEAN]
    /\ keyer.state = "IDLE" <=> keyer.elem = "none"
    /\ keyerTimer \in BOOLEAN /\ due \in BOOLEAN
    /\ keyerMode \in KeyerModes /\ reversed \in BOOLEAN /\ cwMode \in BOOLEAN
    /\ tx \in [mode : {"IDLE", "KEYER", "MESSAGE"}, keyOn : BOOLEAN,
               weKeyed : BOOLEAN, timer : BOOLEAN,
               left : 0..MsgLen, age : 0..AgeCap, mox : BOOLEAN, tune : BOOLEAN,
               by : {"nobody", "cw", "operator"}]
    /\ squeezed \in BOOLEAN /\ trailing \in Nat /\ turned \in BOOLEAN

\* MOX raised by the sender is never orphaned: as long as it is up, the session
\* remembers that it raised it and its timer is armed to drop it -- over any
\* number of elements, through an abort, a message and a new session before the
\* old timer has run.
NoOrphanMox ==
    tx.by = "cw" => tx.weKeyed /\ tx.timer /\ tx.mode # "IDLE"

\* The hang spans the gap between two elements: tx_tick never drops the key in
\* the space of a character ("so it always spans a 1-unit inter-element gap").
HangSpansGap ==
    [][TxTick /\ tx.mode = "KEYER" /\ keyer.state = "SPACE" => tx'.mode = "KEYER"]_vars

Begins == keyer.state # "MARK" /\ keyer'.state = "MARK"

\* Curtis A and B: an element begins without a paddle only in mode B, and only
\* one after the paddles came up.
TrailingElement ==
    [][Begins /\ ~AnyDown(paddle') => keyerMode = "B" /\ trailing = 0]_vars

\* Iambic alternation: a squeeze held through an element is followed by the
\* other element, whatever is reversed in between.
SqueezeAlternates ==
    [][Begins /\ squeezed /\ keyer.state = "SPACE" /\ AnyDown(paddle')
        => keyer'.elem # keyer.elem]_vars

\* The key follows the paddles: with both of them up it does not stay down.
\* ("Always record it, even in straight mode, so a later mode/reverse toggle
\* stays consistent".)  The one key this is not true of is named, and it is the
\* behaviour that says so, not an assumption: a straight key whose settings were
\* changed while it was closed.
KeyFollowsPaddles ==
    (OnAir /\ ~AnyDown(paddle) /\ ~turned) ~> (~OnAir \/ AnyDown(paddle))

\* What the comment says of every key.
EveryKeyFollows == (OnAir /\ ~AnyDown(paddle)) ~> (~OnAir \/ AnyDown(paddle))

\* A lost key-up does not key an iambic transmitter for ever: when no contact
\* changes any more, the session ends, whatever the contacts last said -- unless
\* the key was a straight key as it closed, for which there is no guard.
StuckPaddleReleased ==
    <>[](keyerMode # "STRAIGHT" /\ sinceChange > 0 /\ ~turned) => <>[](tx.mode # "KEYER")

\* A message never wedges the sender: it ends even when the audio thread stops
\* pulling samples or somebody else took MOX away.
MessageEnds == (tx.mode = "MESSAGE") ~> (tx.mode # "MESSAGE")
=============================================================================
