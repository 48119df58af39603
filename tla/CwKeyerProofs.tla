--------------------------- MODULE CwKeyerProofs ---------------------------
(***************************************************************************)
(* What the safety run of CwKeyer checks with a stuck guard of two units,  *)
(* proved for every hang, guard, message length and choice of events.      *)
(***************************************************************************)
EXTENDS CwKeyer, TLAPS

USE DEF settings, history

-----------------------------------------------------------------------------
(* The sender's record *)

Sessions == [mode : {"IDLE", "KEYER", "MESSAGE"}, keyOn : BOOLEAN,
             weKeyed : BOOLEAN, timer : BOOLEAN,
             left : 0..MsgLen, age : 0..AgeCap, mox : BOOLEAN, tune : BOOLEAN,
             by : {"nobody", "cw", "operator"}]

\* MOX the sender raised belongs to a session whose timer is armed.
Owned(x) == x.by = "cw" => x.weKeyed /\ x.timer /\ x.mode # "IDLE"

\* The thresholds are numbers, and the hang is two dots at least.
LEMMA Thresholds ==
    /\ HangUnits \in Nat /\ HangUnits >= 2
    /\ WatchdogUnits \in Nat
    /\ AgeCap \in Nat /\ AgeCap > HangUnits
    /\ StuckCap \in Nat
BY CwConstants DEF HangUnits, WatchdogUnits, AgeCap, StuckCap

\* set_mox and set_tune by anybody else leave no MOX of the sender's.
LEMMA SetMoxSession ==
    ASSUME NEW x \in Sessions, NEW on \in BOOLEAN
    PROVE  /\ SetMox(x, on, "operator") \in Sessions
           /\ Owned(SetMox(x, on, "operator"))
           /\ SetMox(x, on, "operator").mode = x.mode
           /\ SetMox(x, on, "operator").age = x.age
           /\ SetTune(x, on) \in Sessions
           /\ Owned(SetTune(x, on))
           /\ SetTune(x, on).mode = x.mode
           /\ SetTune(x, on).age = x.age
BY DEF Sessions, SetMox, SetTune, Owned

\* A session begins with MOX its own, or with MOX somebody else's.
LEMMA BeginSession ==
    ASSUME NEW x \in Sessions, Owned(x), x.mode = "IDLE",
           NEW mode \in {"KEYER", "MESSAGE"}
    PROVE  /\ Begin(x, mode) \in Sessions
           /\ Owned(Begin(x, mode))
           /\ Begin(x, mode).mode = mode
BY DEF Sessions, Begin, SetMox, Owned

\* A session ends without MOX of its own.
LEMMA EndSession ==
    ASSUME NEW x \in Sessions, Owned(x)
    PROVE  /\ End(x) \in Sessions
           /\ End(x).by # "cw"
           /\ End(x).mode = "IDLE"
<1>1. 0 \in 0..MsgLen /\ 0 \in 0..AgeCap
  BY CwConstants, Thresholds
<1> QED
  BY <1>1 DEF Sessions, End, SetMox, Owned

\* A paddle edge keeps, begins or ignores; a keyer session it touches is fresh.
LEMMA KeySession ==
    ASSUME NEW x \in Sessions, Owned(x), NEW down \in BOOLEAN
    PROVE  /\ CwTxKey(x, down) \in Sessions
           /\ Owned(CwTxKey(x, down))
           /\ CwTxKey(x, down).mode = "KEYER" /\ x.mode # "KEYER" => CwTxKey(x, down).age = 0
           /\ CwTxKey(x, FALSE).mode = "KEYER" => CwTxKey(x, FALSE).age = 0
           /\ CwTxKey(x, down).age \in {0, x.age}
<1>1. 0 \in 0..AgeCap
  BY Thresholds
<1>2. CASE x.mode = "MESSAGE" \/ (down /\ ~cwMode)
  <2>1. CwTxKey(x, down) = x
    BY <1>2 DEF CwTxKey
  <2>2. x.mode # "MESSAGE" => CwTxKey(x, FALSE) = [x EXCEPT !.keyOn = FALSE, !.age = 0]
    BY DEF CwTxKey
  <2>3. x.mode = "MESSAGE" => CwTxKey(x, FALSE) = x
    BY DEF CwTxKey
  <2> QED
    BY <1>1, <2>1, <2>2, <2>3 DEF Sessions
<1>3. CASE ~(x.mode = "MESSAGE" \/ (down /\ ~cwMode))
  <2>1. CASE down /\ x.mode # "KEYER"
    <3>1. x.mode = "IDLE"
      BY <1>3, <2>1 DEF Sessions
    <3>2. Begin(x, "KEYER") \in Sessions /\ Owned(Begin(x, "KEYER"))
      BY <3>1, BeginSession
    <3>3. CwTxKey(x, down) = [Begin(x, "KEYER") EXCEPT !.keyOn = down, !.age = 0]
      BY <1>3, <2>1 DEF CwTxKey
    <3>4. CwTxKey(x, FALSE) = [x EXCEPT !.keyOn = FALSE, !.age = 0]
      BY <3>1 DEF CwTxKey
    <3> HIDE DEF Begin
    <3> QED
      BY <1>1, <3>2, <3>3, <3>4 DEF Sessions, Owned
  <2>2. CASE ~(down /\ x.mode # "KEYER")
    <3>1. CwTxKey(x, down) = [x EXCEPT !.keyOn = down, !.age = 0]
      BY <1>3, <2>2 DEF CwTxKey
    <3>2. CwTxKey(x, FALSE) = [x EXCEPT !.keyOn = FALSE, !.age = 0]
      BY <1>3 DEF CwTxKey
    <3> QED
      BY <1>1, <3>1, <3>2 DEF Sessions, Owned
  <2> QED
    BY <2>1, <2>2
<1> QED
  BY <1>2, <1>3

-----------------------------------------------------------------------------
(* The keyer's record *)

Paddles == [dot : BOOLEAN, dash : BOOLEAN]
Keyers  == [state : {"IDLE", "MARK", "SPACE"}, elem : Elements \cup {"none"},
            left : 0..3, latch : BOOLEAN]

\* sample_latch only ever sets the latch, and only for a contact that is down.
LEMMA Latched ==
    ASSUME reversed \in BOOLEAN, NEW k \in Keyers, NEW p \in Paddles
    PROVE  /\ SampleLatch(k, p) \in Keyers
           /\ SampleLatch(k, p).state = k.state
           /\ SampleLatch(k, p).elem = k.elem
           /\ SampleLatch(k, p).left = k.left
           /\ k.latch => SampleLatch(k, p).latch
           /\ ~AnyDown(p) => SampleLatch(k, p) = k
           /\ p.dot /\ p.dash /\ k.elem \in Elements => SampleLatch(k, p).latch
BY DEF Keyers, Paddles, Elements, SampleLatch, Opposite, Down, AnyDown

\* A new element has its own length, and remembers a squeeze that it begins in.
LEMMA Marked ==
    ASSUME reversed \in BOOLEAN, NEW p \in Paddles, NEW e \in Elements
    PROVE  /\ StartMark(p, e) \in Keyers
           /\ StartMark(p, e).state = "MARK"
           /\ StartMark(p, e).elem = e
           /\ p.dot /\ p.dash => StartMark(p, e).latch
           /\ ~AnyDown(p) => ~StartMark(p, e).latch
<1> DEFINE k == [state |-> "MARK", elem |-> e, left |-> Length(e), latch |-> FALSE]
<1>1. Length(e) \in 0..3
  BY DEF Length
<1>2. k \in Keyers
  BY <1>1 DEF Keyers
<1>3. k.state = "MARK" /\ k.elem = e /\ ~k.latch
  OBVIOUS
<1>4. StartMark(p, e) = SampleLatch(k, p)
  BY DEF StartMark
<1> HIDE DEF k
<1> QED
  BY <1>2, <1>3, <1>4, Latched

\* decide_next chooses an element or none; a latch with both contacts down
\* alternates, and with neither it is mode B's trailing element.
LEMMA Decided ==
    ASSUME reversed \in BOOLEAN, NEW k \in Keyers, k.elem \in Elements, NEW p \in Paddles
    PROVE  /\ DecideNext(k, p) \in Elements \cup {"none"}
           /\ k.latch /\ p.dot /\ p.dash => DecideNext(k, p) # k.elem
           /\ ~AnyDown(p) /\ DecideNext(k, p) # "none" => k.latch /\ keyerMode = "B"
BY DEF Keyers, Paddles, Elements, DecideNext, AnyHeld, Opposite, Down, AnyDown

-----------------------------------------------------------------------------
(* The inductive invariant *)

\* TypeOK in two parts.
RecordType ==
    /\ paddle \in Paddles
    /\ keyer \in Keyers
    /\ tx \in Sessions
    /\ keyer.state = "IDLE" <=> keyer.elem = "none"

FlagType ==
    /\ sinceChange \in 0..StuckCap
    /\ keyerTimer \in BOOLEAN /\ due \in BOOLEAN
    /\ keyerMode \in KeyerModes /\ reversed \in BOOLEAN /\ cwMode \in BOOLEAN
    /\ squeezed \in BOOLEAN /\ trailing \in Nat

LEMMA TypeParts == TypeOK <=> RecordType /\ FlagType /\ turned \in BOOLEAN
BY DEF TypeOK, RecordType, FlagType, Paddles, Keyers, Sessions

\* In the space after an element the keyer's timer is armed, and the paddle has
\* rested for no longer than the space has lasted.
Rhythm ==
    keyer.state = "SPACE" =>
        /\ keyerTimer
        /\ keyer.left <= 1
        /\ keyer.left = 0 => due
        /\ tx.mode = "KEYER" => tx.age + keyer.left <= 1

\* An element squeezed all along has its latch set.
SqueezeLatched ==
    squeezed /\ keyer.state # "IDLE" => keyer.latch /\ paddle.dot /\ paddle.dash

\* An element that no paddle began leaves no memory of its own.
TrailingForgets == trailing > 0 => ~AnyDown(paddle) /\ ~keyer.latch

IInv == RecordType /\ FlagType /\ Owned(tx) /\ Rhythm /\ SqueezeLatched /\ TrailingForgets

LEMMA InitIInv == Init => IInv
<1> SUFFICES ASSUME Init PROVE IInv
  OBVIOUS
<1> USE DEF Init
<1>1. RecordType
  <2>1. tx \in Sessions
    BY CwConstants, Thresholds DEF Sessions
  <2>2. keyer \in Keyers
    BY DEF Keyers, Rest
  <2> QED
    BY <2>1, <2>2 DEF RecordType, Paddles, Rest, Elements
<1>2. FlagType
  <2>1. StuckCap \in 0..StuckCap
    BY Thresholds
  <2> QED
    BY <2>1 DEF FlagType
<1>3. Owned(tx) /\ Rhythm /\ SqueezeLatched /\ TrailingForgets
  BY DEF Owned, Rhythm, SqueezeLatched, TrailingForgets, Rest
<1> QED
  BY <1>1, <1>2, <1>3 DEF IInv

-----------------------------------------------------------------------------
(* The sender's own steps leave the keyer alone. *)

LEMMA SenderStep ==
    ASSUME IInv, TxTick \/ SendText \/ Abort \/ Sample \/ OperatorMox \/ OperatorTune
    PROVE  IInv'
<1> USE DEF IInv
<1>0. UNCHANGED <<paddle, sinceChange, keyer, keyerTimer, due, settings, squeezed, trailing>>
  BY DEF TxTick, SendText, Abort, Sample, OperatorMox, OperatorTune
<1>1. tx \in Sessions /\ Owned(tx)
  BY DEF RecordType
<1>2. SUFFICES /\ tx' \in Sessions
               /\ Owned(tx')
               /\ tx'.mode = "KEYER" => tx.mode = "KEYER" /\ tx'.age = tx.age
  <2>1. RecordType' /\ FlagType'
    BY <1>0, <1>2 DEF RecordType, FlagType
  <2>2. SqueezeLatched' /\ TrailingForgets'
    BY <1>0 DEF SqueezeLatched, TrailingForgets, AnyDown
  <2>3. Rhythm'
    BY <1>0, <1>2 DEF Rhythm
  <2> QED
    BY <1>2, <2>1, <2>2, <2>3
<1>3. CASE TxTick
  <2>1. CASE tx.mode # "IDLE" /\ Finished(tx)
    <3>1. tx' = [End(tx) EXCEPT !.timer = FALSE]
      BY <1>3, <2>1 DEF TxTick
    <3>2. End(tx) \in Sessions /\ End(tx).by # "cw" /\ End(tx).mode = "IDLE"
      BY <1>1, EndSession
    <3> QED
      BY <3>1, <3>2 DEF Sessions, Owned
  <2>2. CASE ~(tx.mode # "IDLE" /\ Finished(tx))
    <3>1. CASE tx.mode = "IDLE"
      <4>0. ~Finished(tx)
        BY <3>1 DEF Finished
      <4>1. tx' = [tx EXCEPT !.timer = FALSE]
        BY <1>3, <3>1, <4>0 DEF TxTick
      <4> QED
        BY <1>1, <3>1, <4>1 DEF Sessions, Owned
    <3>2. CASE tx.mode # "IDLE"
      <4>1. tx' = tx
        BY <1>3, <2>2, <3>2 DEF TxTick
      <4> QED
        BY <1>1, <4>1
    <3> QED
      BY <3>1, <3>2
  <2> QED
    BY <2>1, <2>2
<1>4. CASE SendText
  <2> DEFINE x == [tx EXCEPT !.left = MsgLen, !.age = 0]
  <2>0. MsgLen \in 0..MsgLen /\ 0 \in 0..AgeCap /\ tx.mode = "IDLE"
    BY <1>4, CwConstants, Thresholds DEF SendText
  <2>1. x \in Sessions /\ Owned(x) /\ x.mode = "IDLE"
    BY <1>1, <2>0 DEF Sessions, Owned
  <2>2. tx' = Begin(x, "MESSAGE")
    BY <1>4 DEF SendText
  <2> HIDE DEF x
  <2> QED
    BY <2>1, <2>2, BeginSession
<1>5. CASE Abort
  BY <1>1, <1>5, EndSession DEF Abort, Owned
<1>6. CASE Sample
  <2>1. tx.mode = "MESSAGE" /\ tx.left > 0 /\ tx' = [tx EXCEPT !.left = tx.left - 1]
    BY <1>6 DEF Sample
  <2> QED
    BY <1>1, <2>1, CwConstants DEF Sessions, Owned
<1>7. CASE OperatorMox
  <2>1. PICK on \in BOOLEAN : tx' = SetMox(tx, on, "operator")
    BY <1>7 DEF OperatorMox
  <2> QED
    BY <1>1, <2>1, SetMoxSession
<1>8. CASE OperatorTune
  BY <1>1, <1>8, SetMoxSession DEF OperatorTune
<1> QED
  BY <1>3, <1>4, <1>5, <1>6, <1>7, <1>8

-----------------------------------------------------------------------------
(* The keyer's dispatch *)

\* An element begins, over an invariant whose paddles may just have been let go.
LEMMA BeginStep ==
    ASSUME IInv, paddle' \in Paddles, NEW e \in Elements, BeginElement(e)
    PROVE  /\ keyer' \in Keyers /\ keyer'.state = "MARK" /\ keyer'.elem = e
           /\ tx' \in Sessions /\ Owned(tx')
           /\ squeezed' \in BOOLEAN /\ trailing' \in Nat
           /\ squeezed' => keyer'.latch /\ paddle'.dot /\ paddle'.dash
           /\ trailing' > 0 => ~AnyDown(paddle') /\ ~keyer'.latch
<1> USE DEF IInv
<1>1. keyer' = StartMark(paddle', e) /\ reversed \in BOOLEAN
  BY DEF BeginElement, FlagType
<1>2. tx' \in Sessions /\ Owned(tx')
  BY KeySession DEF BeginElement, RecordType
<1>3. squeezed' = (paddle'.dot /\ paddle'.dash)
  BY DEF BeginElement
<1>4. trailing' = IF AnyDown(paddle') THEN 0 ELSE trailing + 1
  BY DEF BeginElement
<1>5. squeezed' \in BOOLEAN /\ trailing' \in Nat
  BY <1>3, <1>4 DEF FlagType, Paddles
<1>6. trailing' > 0 => ~AnyDown(paddle')
  BY <1>4
<1>7. /\ StartMark(paddle', e) \in Keyers
      /\ StartMark(paddle', e).state = "MARK"
      /\ StartMark(paddle', e).elem = e
      /\ paddle'.dot /\ paddle'.dash => StartMark(paddle', e).latch
      /\ ~AnyDown(paddle') => ~StartMark(paddle', e).latch
  BY <1>1, Marked
<1> QED
  BY <1>1, <1>2, <1>3, <1>5, <1>6, <1>7

\* What each branch of cw_keyer_advance leaves, before keyer_tick re-arms.
Advanced ==
    /\ paddle' \in Paddles
    /\ keyer' \in Keyers /\ (keyer'.state = "IDLE" <=> keyer'.elem = "none")
    /\ tx' \in Sessions /\ Owned(tx')
    /\ squeezed' \in BOOLEAN /\ trailing' \in Nat
    /\ SqueezeLatched' /\ TrailingForgets'
    /\ keyer'.state = "SPACE" =>
          keyer'.left = 1 /\ (tx'.mode = "KEYER" => tx'.age = 0)

LEMMA RestKeyer == Rest \in Keyers /\ Rest.state = "IDLE" /\ Rest.elem = "none" /\ ~Rest.latch
BY DEF Rest, Keyers

LEMMA AdvanceStep ==
    ASSUME IInv, keyerTimer,
           \/ AdvanceStraight
           \/ LostKeyUp /\ (AdvanceIdle \/ AdvanceMark \/ AdvanceSpace)
    PROVE  Advanced
<1> USE DEF IInv
<1>0. /\ keyer \in Keyers /\ tx \in Sessions /\ Owned(tx) /\ reversed \in BOOLEAN
      /\ squeezed \in BOOLEAN /\ trailing \in Nat
      /\ keyer.state = "IDLE" <=> keyer.elem = "none"
  BY DEF RecordType, FlagType
<1>1. CASE AdvanceStraight
  <2>1. paddle' = paddle /\ squeezed' = squeezed /\ trailing' = trailing
    BY <1>1 DEF AdvanceStraight
  <2>2. keyer' = Rest \/ (keyer' = keyer /\ keyer.state = "IDLE")
    BY <1>1 DEF AdvanceStraight
  <2>3. tx' \in Sessions /\ Owned(tx')
    BY <1>0, <1>1, KeySession DEF AdvanceStraight
  <2>4. keyer'.state = "IDLE" /\ keyer' \in Keyers /\ keyer'.elem = "none"
    BY <1>0, <2>2, RestKeyer
  <2>5. keyer'.latch => keyer.latch
    BY <2>2, RestKeyer
  <2>6. SqueezeLatched' /\ TrailingForgets'
    BY <2>1, <2>4, <2>5 DEF SqueezeLatched, TrailingForgets, AnyDown
  <2> QED
    BY <1>0, <2>1, <2>3, <2>4, <2>6 DEF Advanced, RecordType
<1>2. ASSUME LostKeyUp
      PROVE  /\ paddle' \in Paddles
             /\ trailing > 0 => ~AnyDown(paddle')
  BY <1>2 DEF LostKeyUp, RecordType, Paddles, TrailingForgets, AnyDown
<1>3. CASE LostKeyUp /\ AdvanceIdle
  <2>1. CASE AnyDown(paddle')
    <3>1. PICK e \in Elements : BeginElement(e)
      BY <1>3, <2>1 DEF AdvanceIdle, Elements
    <3> QED
      BY <1>2, <1>3, <3>1, BeginStep DEF Advanced, SqueezeLatched, TrailingForgets, Elements
  <2>2. CASE ~AnyDown(paddle')
    <3>1. UNCHANGED <<keyer, tx, squeezed, trailing>> /\ keyer.state = "IDLE"
      BY <1>3, <2>2 DEF AdvanceIdle
    <3> QED
      BY <1>0, <1>2, <1>3, <3>1 DEF Advanced, SqueezeLatched, TrailingForgets
  <2> QED
    BY <2>1, <2>2
<1>4. CASE LostKeyUp /\ AdvanceMark
  <2> DEFINE k == SampleLatch(keyer, paddle')
  <2>1. keyer.state = "MARK" /\ keyer.elem \in Elements
    BY <1>0, <1>4 DEF AdvanceMark, Keyers
  <2>2. /\ k \in Keyers /\ k.state = "MARK" /\ k.elem = keyer.elem /\ k.left = keyer.left
        /\ keyer.latch => k.latch
        /\ ~AnyDown(paddle') => k = keyer
    BY <1>0, <1>2, <1>4, <2>1, Latched
  <2>3. squeezed' = (squeezed /\ paddle'.dot /\ paddle'.dash) /\ trailing' = trailing
    BY <1>4 DEF AdvanceMark
  <2>4. CASE keyer.left > 0
    <3>1. keyer' = k /\ tx' = tx
      BY <1>4, <2>4 DEF AdvanceMark
    <3> QED
      BY <1>0, <1>2, <1>4, <2>1, <2>2, <2>3, <3>1
      DEF Advanced, SqueezeLatched, TrailingForgets, Elements
  <2>5. CASE ~(keyer.left > 0)
    <3>1. keyer' = [k EXCEPT !.state = "SPACE", !.left = 1] /\ tx' = CwTxKey(tx, FALSE)
      BY <1>4, <2>5 DEF AdvanceMark
    <3> HIDE DEF k
    <3>2. /\ keyer' \in Keyers /\ keyer'.state = "SPACE" /\ keyer'.left = 1
          /\ keyer'.elem = k.elem /\ keyer'.latch = k.latch
      <4>1. 1 \in 0..3
        OBVIOUS
      <4>2. [k EXCEPT !.state = "SPACE", !.left = 1] \in Keyers
        BY <2>2, <4>1 DEF Keyers
      <4>3. /\ [k EXCEPT !.state = "SPACE", !.left = 1].state = "SPACE"
            /\ [k EXCEPT !.state = "SPACE", !.left = 1].left = 1
            /\ [k EXCEPT !.state = "SPACE", !.left = 1].elem = k.elem
            /\ [k EXCEPT !.state = "SPACE", !.left = 1].latch = k.latch
        BY <2>2 DEF Keyers
      <4> QED
        BY <3>1, <4>2, <4>3
    <3>3. tx' \in Sessions /\ Owned(tx') /\ (tx'.mode = "KEYER" => tx'.age = 0)
      BY <1>0, <3>1, KeySession
    <3> QED
      BY <1>0, <1>2, <1>4, <2>1, <2>2, <2>3, <3>2, <3>3
      DEF Advanced, SqueezeLatched, TrailingForgets, Elements
  <2> QED
    BY <2>4, <2>5
<1>5. CASE LostKeyUp /\ AdvanceSpace
  <2> DEFINE k == SampleLatch(keyer, paddle')
             next == DecideNext(k, paddle')
  <2>1. keyer.state = "SPACE" /\ keyer.elem \in Elements
    BY <1>0, <1>5 DEF AdvanceSpace, Keyers
  <2>2. /\ k \in Keyers /\ k.state = "SPACE" /\ k.elem = keyer.elem /\ k.left = keyer.left
        /\ keyer.latch => k.latch
        /\ ~AnyDown(paddle') => k = keyer
    BY <1>0, <1>2, <1>5, <2>1, Latched
  <2>3. CASE keyer.left > 0
    <3>1. keyer' = k /\ tx' = tx /\ trailing' = trailing
          /\ squeezed' = (squeezed /\ paddle'.dot /\ paddle'.dash)
      BY <1>5, <2>3 DEF AdvanceSpace
    <3>2. keyer'.left = 1 /\ (tx'.mode = "KEYER" => tx'.age = 0)
      <4>1. keyer.left \in 0..3 /\ tx.age \in 0..AgeCap
        BY <1>0 DEF Keyers, Sessions
      <4>2. keyer.left <= 1 /\ (tx.mode = "KEYER" => tx.age + keyer.left <= 1)
        BY <2>1 DEF Rhythm
      <4>3. keyer.left = 1
        BY <2>3, <4>1, <4>2
      <4> QED
        BY <2>2, <3>1, <4>1, <4>2, <4>3, Thresholds
    <3> HIDE DEF k
    <3> QED
      BY <1>0, <1>2, <1>5, <2>1, <2>2, <3>1, <3>2
      DEF Advanced, SqueezeLatched, TrailingForgets, Elements
  <2>4. CASE keyer.left = 0 /\ next \in Elements /\ BeginElement(next)
    BY <1>2, <1>5, <2>4, BeginStep DEF Advanced, SqueezeLatched, TrailingForgets, Elements
  <2>5. CASE keyer.left = 0 /\ keyer' = Rest /\ UNCHANGED <<tx, squeezed, trailing>>
    BY <1>0, <1>2, <1>5, <2>5, RestKeyer DEF Advanced, SqueezeLatched, TrailingForgets
  <2> QED
    BY <1>5, <2>3, <2>4, <2>5, <1>0 DEF AdvanceSpace, Keyers
<1> QED
  BY <1>1, <1>3, <1>4, <1>5

LEMMA KeyerTickStep ==
    ASSUME IInv, KeyerTick
    PROVE  IInv'
<1> USE DEF IInv
<1>1. Advanced
  BY AdvanceStep DEF KeyerTick
<1>2. /\ due' = FALSE /\ keyerTimer' = (keyer'.state # "IDLE" \/ AnyDown(paddle'))
      /\ UNCHANGED <<sinceChange, keyerMode, reversed, cwMode>>
  BY DEF KeyerTick
<1>3. RecordType'
  BY <1>1 DEF Advanced, RecordType
<1>4. FlagType'
  BY <1>1, <1>2 DEF Advanced, FlagType, Paddles, AnyDown
<1>5. Rhythm'
  <2> SUFFICES ASSUME keyer'.state = "SPACE"
               PROVE  /\ keyerTimer'
                      /\ keyer'.left <= 1
                      /\ keyer'.left = 0 => due'
                      /\ tx'.mode = "KEYER" => tx'.age + keyer'.left <= 1
    BY DEF Rhythm
  <2>1. keyer'.left = 1 /\ (tx'.mode = "KEYER" => tx'.age = 0)
    BY <1>1 DEF Advanced
  <2>2. keyerTimer'
    BY <1>2
  <2> QED
    BY <2>1, <2>2
<1> QED
  BY <1>1, <1>3, <1>4, <1>5 DEF Advanced

-----------------------------------------------------------------------------
(* The paddle, the clock and the operator *)

LEMMA PaddleStep ==
    ASSUME IInv, NEW which \in {"dot", "dash"}, NEW pressed \in BOOLEAN,
           Paddle(which, pressed)
    PROVE  IInv'
<1> USE DEF IInv
<1>0. /\ keyer \in Keyers /\ tx \in Sessions /\ Owned(tx) /\ paddle \in Paddles
      /\ reversed \in BOOLEAN /\ squeezed \in BOOLEAN /\ trailing \in Nat
      /\ keyer.state = "IDLE" <=> keyer.elem = "none"
  BY DEF RecordType, FlagType
<1>1. /\ paddle' = [paddle EXCEPT ![which] = pressed]
      /\ sinceChange' = 0
      /\ squeezed' = (squeezed /\ paddle'.dot /\ paddle'.dash)
      /\ trailing' = IF AnyDown(paddle') THEN 0 ELSE trailing
      /\ UNCHANGED <<due, keyerMode, reversed, cwMode>>
  BY DEF Paddle
<1>2. paddle' \in Paddles
  BY <1>0, <1>1 DEF Paddles
<1>3. keyerTimer' = keyerTimer \/ keyerTimer' = TRUE
  BY DEF Paddle
<1>4. FlagType'
  <2>1. 0 \in 0..StuckCap
    BY Thresholds
  <2>2. squeezed' \in BOOLEAN /\ trailing' \in Nat
    BY <1>0, <1>1, <1>2 DEF Paddles
  <2> QED
    BY <1>1, <1>3, <2>1, <2>2 DEF FlagType
<1>5. /\ keyer' \in Keyers
      /\ keyer'.state = keyer.state /\ keyer'.elem = keyer.elem /\ keyer'.left = keyer.left
      /\ keyer.latch => keyer'.latch
      /\ ~AnyDown(paddle') => keyer' = keyer
  <2>1. keyer' = keyer \/ keyer' = SampleLatch(keyer, paddle')
    BY DEF Paddle
  <2> QED
    BY <1>0, <1>2, <2>1, Latched
<1>6. /\ tx' \in Sessions /\ Owned(tx')
      /\ tx'.mode = "KEYER" => tx'.age = 0 \/ (tx.mode = "KEYER" /\ tx'.age = tx.age)
  <2>1. tx' = tx \/ tx' = CwTxKey(tx, pressed)
    BY DEF Paddle
  <2> QED
    BY <1>0, <2>1, KeySession
<1>7. RecordType'
  BY <1>0, <1>2, <1>5, <1>6 DEF RecordType
<1>8. Rhythm'
  <2> SUFFICES ASSUME keyer'.state = "SPACE"
               PROVE  /\ keyerTimer'
                      /\ keyer'.left <= 1
                      /\ keyer'.left = 0 => due'
                      /\ tx'.mode = "KEYER" => tx'.age + keyer'.left <= 1
    BY DEF Rhythm
  <2>1. /\ keyerTimer /\ keyer.left <= 1 /\ (keyer.left = 0 => due)
        /\ tx.mode = "KEYER" => tx.age + keyer.left <= 1
    BY <1>5 DEF Rhythm
  <2>2. keyer.left \in 0..3
    BY <1>0 DEF Keyers
  <2>3. tx'.mode = "KEYER" => tx'.age + keyer'.left <= 1
    BY <1>5, <1>6, <2>1, <2>2
  <2>4. keyerTimer'
    BY <1>3, <2>1
  <2> QED
    BY <1>1, <1>5, <2>1, <2>3, <2>4
<1>9. SqueezeLatched'
  BY <1>1, <1>5 DEF SqueezeLatched
<1>10. TrailingForgets'
  BY <1>1, <1>5 DEF TrailingForgets
<1> QED
  BY <1>4, <1>6, <1>7, <1>8, <1>9, <1>10

\* A unit passes only when the keyer's timer is owed nothing, so a space that
\* has run out cannot also grow old.
LEMMA ClockStep ==
    ASSUME IInv, Clock
    PROVE  IInv'
<1> USE DEF IInv
<1>0. /\ keyer \in Keyers /\ tx \in Sessions /\ Owned(tx)
      /\ sinceChange \in 0..StuckCap /\ keyerTimer \in BOOLEAN
      /\ keyer.state = "IDLE" <=> keyer.elem = "none"
  BY DEF RecordType, FlagType
<1>1. /\ ~(keyerTimer /\ due) /\ due' = keyerTimer
      /\ sinceChange' = Aged(sinceChange, StuckCap)
      /\ UNCHANGED <<paddle, keyerTimer, keyerMode, reversed, cwMode, squeezed, trailing>>
  BY DEF Clock
<1>2. /\ keyer' \in Keyers
      /\ keyer'.state = keyer.state /\ keyer'.elem = keyer.elem
      /\ keyer'.latch = keyer.latch
      /\ keyer'.left = IF keyer.left = 0 THEN 0 ELSE keyer.left - 1
  <2>1. keyer' = [keyer EXCEPT !.left = IF keyer.left = 0 THEN 0 ELSE keyer.left - 1]
    BY DEF Clock
  <2>2. (IF keyer.left = 0 THEN 0 ELSE keyer.left - 1) \in 0..3
    BY <1>0 DEF Keyers
  <2> QED
    BY <1>0, <2>1, <2>2 DEF Keyers
<1>3. /\ tx' \in Sessions /\ Owned(tx') /\ tx'.mode = tx.mode
      /\ tx'.age = tx.age \/ tx'.age = tx.age + 1
  <2>1. CASE tx.mode = "IDLE"
    BY <1>0, <2>1 DEF Clock
  <2>2. CASE tx.mode # "IDLE"
    <3>1. tx' = [tx EXCEPT !.age = Aged(tx.age, AgeCap)]
      BY <2>2 DEF Clock
    <3>2. tx.age \in 0..AgeCap
      BY <1>0 DEF Sessions
    <3>3. /\ Aged(tx.age, AgeCap) \in 0..AgeCap
          /\ Aged(tx.age, AgeCap) = tx.age \/ Aged(tx.age, AgeCap) = tx.age + 1
      BY <3>2, Thresholds DEF Aged
    <3> QED
      BY <1>0, <3>1, <3>3 DEF Sessions, Owned
  <2> QED
    BY <2>1, <2>2
<1>4. RecordType'
  BY <1>0, <1>1, <1>2, <1>3 DEF RecordType
<1>5. FlagType'
  <2>1. Aged(sinceChange, StuckCap) \in 0..StuckCap
    BY <1>0, Thresholds DEF Aged
  <2> QED
    BY <1>1, <2>1 DEF FlagType
<1>6. Rhythm'
  <2> SUFFICES ASSUME keyer'.state = "SPACE"
               PROVE  /\ keyerTimer'
                      /\ keyer'.left <= 1
                      /\ keyer'.left = 0 => due'
                      /\ tx'.mode = "KEYER" => tx'.age + keyer'.left <= 1
    BY DEF Rhythm
  <2>1. /\ keyerTimer /\ keyer.left <= 1 /\ (keyer.left = 0 => due)
        /\ tx.mode = "KEYER" => tx.age + keyer.left <= 1
    BY <1>2 DEF Rhythm
  <2>2. keyer.left \in 0..3 /\ tx.age \in 0..AgeCap
    BY <1>0 DEF Keyers, Sessions
  <2>3. keyer.left = 1
    BY <1>1, <2>1, <2>2
  <2>4. keyer'.left = 0
    BY <1>2, <2>3
  <2>5. keyerTimer' /\ due'
    BY <1>1, <2>1
  <2> QED
    BY <1>3, <2>1, <2>2, <2>3, <2>4, <2>5, Thresholds
<1>7. SqueezeLatched' /\ TrailingForgets'
  BY <1>1, <1>2 DEF SqueezeLatched, TrailingForgets, AnyDown
<1> QED
  BY <1>3, <1>4, <1>5, <1>6, <1>7

LEMMA SettingsStep ==
    ASSUME IInv, SetKeyerMode \/ Reverse \/ ChangeMode \/ UNCHANGED vars
    PROVE  IInv'
<1>1. UNCHANGED <<paddle, sinceChange, keyer, keyerTimer, due, tx, squeezed, trailing>>
  BY DEF SetKeyerMode, Reverse, ChangeMode, vars
<1>2. FlagType
  BY DEF IInv
<1>3. keyerMode' \in KeyerModes /\ reversed' \in BOOLEAN /\ cwMode' \in BOOLEAN
  BY <1>2 DEF SetKeyerMode, Reverse, ChangeMode, vars, FlagType
<1>4. RecordType' /\ FlagType'
  BY <1>1, <1>3 DEF IInv, RecordType, FlagType
<1>5. Owned(tx)' /\ Rhythm' /\ SqueezeLatched' /\ TrailingForgets'
  BY <1>1 DEF IInv, Owned, Rhythm, SqueezeLatched, TrailingForgets, AnyDown
<1> QED
  BY <1>4, <1>5 DEF IInv

LEMMA StepIInv == IInv /\ [Next]_vars => IInv'
<1> SUFFICES ASSUME IInv, [Next]_vars PROVE IInv'
  OBVIOUS
<1>1. CASE KeyerTick
  BY <1>1, KeyerTickStep
<1>2. CASE TxTick \/ SendText \/ Abort \/ Sample \/ OperatorMox \/ OperatorTune
  BY <1>2, SenderStep
<1>3. CASE Clock
  BY <1>3, ClockStep
<1>4. ASSUME NEW which \in {"dot", "dash"}, NEW pressed \in BOOLEAN, Paddle(which, pressed)
      PROVE  IInv'
  BY <1>4, PaddleStep
<1>5. CASE SetKeyerMode \/ Reverse \/ ChangeMode \/ UNCHANGED vars
  BY <1>5, SettingsStep
<1> QED
  BY <1>1, <1>2, <1>3, <1>4, <1>5 DEF Next

LEMMA AlwaysIInv == Safety => []IInv
BY InitIInv, StepIInv, PTL DEF Safety

-----------------------------------------------------------------------------
(* The theorems *)

\* Every reachable state is well typed: no element is longer than a dash, and
\* no age passes its cap.
THEOREM TypesHold == Safety => []TypeOK
<1> DEFINE T == turned \in BOOLEAN
<1>1. IInv /\ T => TypeOK
  BY TypeParts DEF IInv
<1>2. Init => T
  BY DEF Init
<1>3. T /\ [Next]_vars => T'
  BY DEF Next, KeyerTick, TxTick, Sample, Clock, Paddle, SendText, Abort, SetKeyerMode,
         Reverse, ChangeMode, OperatorMox, OperatorTune, vars
<1> HIDE DEF T
<1> QED
  BY <1>1, <1>2, <1>3, AlwaysIInv, PTL DEF Safety

\* tx_begin and tx_end: MOX the sender raised always belongs to a session whose
\* timer is armed to drop it.
THEOREM MoxIsNeverOrphaned == Safety => []NoOrphanMox
<1>1. IInv => NoOrphanMox
  BY DEF IInv, Owned, NoOrphanMox
<1> QED
  BY <1>1, AlwaysIInv, PTL

\* tx_tick: the hang of a keyer session never ends in the space between two
\* elements, however late the sender's own timer is dispatched.
THEOREM TheHangSpansTheGap == Safety => HangSpansGap
<1>1. IInv /\ [Next]_vars =>
        [TxTick /\ tx.mode = "KEYER" /\ keyer.state = "SPACE" => tx'.mode = "KEYER"]_vars
  <2> SUFFICES ASSUME IInv, TxTick, tx.mode = "KEYER", keyer.state = "SPACE"
               PROVE  tx'.mode = "KEYER"
    OBVIOUS
  <2>1. keyer.left \in 0..3 /\ tx.age \in 0..AgeCap
    BY DEF IInv, RecordType, Keyers, Sessions
  <2>2. tx.age + keyer.left <= 1
    BY DEF IInv, Rhythm
  <2>3. ~(tx.age > HangUnits)
    BY <2>1, <2>2, Thresholds
  <2>4. ~Finished(tx)
    BY <2>3 DEF Finished
  <2>5. tx' = tx
    BY <2>4 DEF TxTick
  <2> QED
    BY <2>5
<1> QED
  BY <1>1, AlwaysIInv, PTL DEF Safety, HangSpansGap

\* Only the keyer's dispatch begins an element, after decide_next or at rest.
LEMMA Beginnings ==
    ASSUME IInv, [Next]_vars, Begins
    PROVE  /\ paddle' \in Paddles
           /\ reversed \in BOOLEAN /\ keyer \in Keyers
           /\ paddle' = paddle \/ ~AnyDown(paddle')
           /\ \/ keyer.state = "IDLE" /\ AnyDown(paddle')
              \/ /\ keyer.state = "SPACE" /\ keyer.elem \in Elements
                 /\ DecideNext(SampleLatch(keyer, paddle'), paddle') \in Elements
                 /\ keyer'.elem = DecideNext(SampleLatch(keyer, paddle'), paddle')
<1>0. /\ keyer \in Keyers /\ reversed \in BOOLEAN /\ keyerMode \in KeyerModes
      /\ keyer.state = "IDLE" <=> keyer.elem = "none"
  BY DEF IInv, RecordType, FlagType
<1>1. KeyerTick
  <2>1. keyer'.state # keyer.state
    BY DEF Begins
  <2>2. ASSUME NEW which \in {"dot", "dash"}, NEW pressed \in BOOLEAN, Paddle(which, pressed)
        PROVE  keyer'.state = keyer.state
    <3>1. paddle \in Paddles
      BY DEF IInv, RecordType
    <3>2. paddle' \in Paddles
      BY <2>2, <3>1 DEF Paddle, Paddles
    <3>3. keyer' = keyer \/ keyer' = SampleLatch(keyer, paddle')
      BY <2>2 DEF Paddle
    <3> QED
      BY <1>0, <3>2, <3>3, Latched
  <2>3. Clock => keyer'.state = keyer.state
    BY <1>0 DEF Clock, Keyers
  <2>4. TxTick \/ SendText \/ Abort \/ Sample \/ OperatorMox \/ OperatorTune
        \/ SetKeyerMode \/ Reverse \/ ChangeMode \/ UNCHANGED vars => keyer' = keyer
    BY DEF TxTick, SendText, Abort, Sample, OperatorMox, OperatorTune, SetKeyerMode,
           Reverse, ChangeMode, vars
  <2> QED
    BY <2>1, <2>2, <2>3, <2>4 DEF Next
<1>2. Advanced
  BY <1>1, AdvanceStep DEF KeyerTick
<1>3. paddle' \in Paddles /\ (paddle' = paddle \/ ~AnyDown(paddle'))
  <2>1. AdvanceStraight => paddle' = paddle
    BY DEF AdvanceStraight
  <2>2. LostKeyUp => paddle' = paddle \/ ~AnyDown(paddle')
    BY DEF LostKeyUp, AnyDown
  <2> QED
    BY <1>1, <1>2, <2>1, <2>2 DEF Advanced, KeyerTick
<1>4. CASE AdvanceStraight
  BY <1>4, RestKeyer DEF AdvanceStraight, Begins
<1>5. CASE AdvanceIdle
  BY <1>0, <1>3, <1>5 DEF AdvanceIdle, Begins
<1>6. CASE AdvanceMark
  BY <1>6 DEF AdvanceMark, Begins
<1>7. CASE AdvanceSpace
  <2> DEFINE next == DecideNext(SampleLatch(keyer, paddle'), paddle')
  <2>1. keyer.state = "SPACE" /\ keyer.elem \in Elements
    BY <1>0, <1>7 DEF AdvanceSpace, Keyers
  <2>2. SampleLatch(keyer, paddle').state = "SPACE"
    BY <1>0, <1>3, <2>1, Latched
  <2>3. next \in Elements /\ BeginElement(next)
    BY <1>7, <2>2, RestKeyer DEF AdvanceSpace, Begins
  <2>4. keyer'.elem = next
    BY <1>0, <1>3, <2>3, Marked DEF BeginElement
  <2> QED
    BY <1>0, <1>3, <2>1, <2>3, <2>4
<1> QED
  BY <1>1, <1>4, <1>5, <1>6, <1>7 DEF KeyerTick

\* decide_next, Curtis A and B: an element nobody holds a paddle for begins only
\* in mode B, and only one after the paddles came up.
THEOREM OneTrailingElement == Safety => TrailingElement
<1>1. IInv /\ [Next]_vars =>
        [Begins /\ ~AnyDown(paddle') => keyerMode = "B" /\ trailing = 0]_vars
  <2> SUFFICES ASSUME IInv, [Next]_vars, Begins, ~AnyDown(paddle')
               PROVE  keyerMode = "B" /\ trailing = 0
    OBVIOUS
  <2> DEFINE k == SampleLatch(keyer, paddle')
  <2>1. /\ paddle' \in Paddles /\ reversed \in BOOLEAN /\ keyer \in Keyers
        /\ keyer.elem \in Elements /\ DecideNext(k, paddle') \in Elements
    BY Beginnings
  <2>2. k = keyer
    BY <2>1, Latched
  <2>3. DecideNext(k, paddle') # "none"
    BY <2>1 DEF Elements
  <2>4. keyer.latch /\ keyerMode = "B"
    BY <2>1, <2>2, <2>3, Decided
  <2>5. trailing \in Nat /\ (trailing > 0 => ~keyer.latch)
    BY DEF IInv, FlagType, TrailingForgets
  <2> QED
    BY <2>4, <2>5
<1> QED
  BY <1>1, AlwaysIInv, PTL DEF Safety, TrailingElement

\* sample_latch and decide_next: a squeeze held through an element is followed
\* by the other element, in mode A and in mode B, whatever is reversed.
THEOREM SqueezesAlternate == Safety => SqueezeAlternates
<1>1. IInv /\ [Next]_vars =>
        [Begins /\ squeezed /\ keyer.state = "SPACE" /\ AnyDown(paddle')
            => keyer'.elem # keyer.elem]_vars
  <2> SUFFICES ASSUME IInv, [Next]_vars, Begins, squeezed, keyer.state = "SPACE",
                      AnyDown(paddle')
               PROVE  keyer'.elem # keyer.elem
    OBVIOUS
  <2> DEFINE k == SampleLatch(keyer, paddle')
  <2>1. /\ paddle' \in Paddles /\ reversed \in BOOLEAN /\ keyer \in Keyers
        /\ keyer.elem \in Elements /\ DecideNext(k, paddle') \in Elements
        /\ keyer'.elem = DecideNext(k, paddle')
    BY Beginnings
  <2>2. /\ k \in Keyers /\ k.elem = keyer.elem
        /\ keyer.latch => k.latch
    BY <2>1, Latched
  <2>3. keyer.latch /\ paddle.dot /\ paddle.dash
    BY DEF IInv, SqueezeLatched
  <2>4. paddle'.dot /\ paddle'.dash
    <3>1. paddle' = paddle \/ ~AnyDown(paddle')
      BY Beginnings
    <3> QED
      BY <2>3, <3>1
  <2> HIDE DEF k
  <2> QED
    BY <2>1, <2>2, <2>3, <2>4, Decided
<1> QED
  BY <1>1, AlwaysIInv, PTL DEF Safety, SqueezeAlternates

-----------------------------------------------------------------------------
(* Who holds the key *)

\* The contact that is the straight key.
KeyContact == IF reversed THEN paddle.dash ELSE paddle.dot

\* While the paddle keys the transmitter, an element sounds or the straight key
\* is closed, unless its settings were turned under it.
KeyIsHeld ==
    OnAir /\ ~turned =>
        keyer.state = "MARK" \/ (keyerMode = "STRAIGHT" /\ KeyContact)

\* The keyer's timer is armed until it has seen the keyer at rest.
TimerRuns == keyer.state # "IDLE" => keyerTimer

HInv == KeyIsHeld /\ TimerRuns

LEMMA InitHInv == Init => HInv
BY DEF Init, HInv, KeyIsHeld, TimerRuns, OnAir, Rest

\* A key-up leaves no paddle on the air; a message keeps the transmitter.
LEMMA KeyUp ==
    ASSUME NEW x \in Sessions
    PROVE  CwTxKey(x, FALSE).mode = "KEYER" => ~CwTxKey(x, FALSE).keyOn
<1>1. CASE x.mode = "MESSAGE"
  BY <1>1 DEF CwTxKey
<1>2. CASE x.mode # "MESSAGE"
  <2>1. CwTxKey(x, FALSE) = [x EXCEPT !.keyOn = FALSE, !.age = 0]
    BY <1>2 DEF CwTxKey
  <2> QED
    BY <2>1 DEF Sessions
<1> QED
  BY <1>1, <1>2

\* The sender's own steps put no paddle on the air.
LEMMA SenderHolds ==
    ASSUME IInv, HInv, TxTick \/ SendText \/ Abort \/ Sample \/ OperatorMox \/ OperatorTune
    PROVE  HInv'
<1>0. tx \in Sessions /\ Owned(tx)
  BY DEF IInv, RecordType
<1>1. UNCHANGED <<paddle, keyer, keyerTimer, keyerMode, reversed>>
  BY DEF TxTick, SendText, Abort, Sample, OperatorMox, OperatorTune
<1>2. OnAir' => OnAir
  <2>1. CASE TxTick
    <3>1. tx' = tx \/ tx' = [tx EXCEPT !.timer = FALSE] \/ tx' = [End(tx) EXCEPT !.timer = FALSE]
      BY <2>1 DEF TxTick
    <3>2. End(tx) \in Sessions /\ End(tx).mode = "IDLE"
      BY <1>0, EndSession
    <3> QED
      BY <1>0, <3>1, <3>2 DEF OnAir, Sessions
  <2>2. CASE SendText
    <3> DEFINE x == [tx EXCEPT !.left = MsgLen, !.age = 0]
    <3>1. MsgLen \in 0..MsgLen /\ 0 \in 0..AgeCap /\ tx.mode = "IDLE"
      BY <2>2, CwConstants, Thresholds DEF SendText
    <3>2. x \in Sessions /\ Owned(x) /\ x.mode = "IDLE"
      BY <1>0, <3>1 DEF Sessions, Owned
    <3>3. tx' = Begin(x, "MESSAGE")
      BY <2>2 DEF SendText
    <3> HIDE DEF x
    <3> QED
      BY <3>2, <3>3, BeginSession DEF OnAir
  <2>3. CASE Abort
    BY <1>0, <2>3, EndSession DEF Abort, OnAir
  <2>4. CASE Sample
    BY <1>0, <2>4 DEF Sample, OnAir, Sessions
  <2>5. CASE OperatorMox \/ OperatorTune
    BY <1>0, <2>5 DEF OperatorMox, OperatorTune, SetMox, SetTune, OnAir, Sessions
  <2> QED
    BY <2>1, <2>2, <2>3, <2>4, <2>5
<1>3. OnAir' /\ ~turned' => ~turned
  <2>1. Abort => ~OnAir'
    BY <1>0, EndSession DEF Abort, OnAir
  <2>2. ~Abort => turned' = turned \/ turned' = (turned /\ OnAir')
    BY DEF TxTick, SendText, Sample, OperatorMox, OperatorTune
  <2> QED
    BY <2>1, <2>2
<1> QED
  BY <1>1, <1>2, <1>3 DEF HInv, KeyIsHeld, TimerRuns, KeyContact

\* cw_keyer_advance lets the key go with the element, and takes it up with one.
LEMMA KeyerTickHolds ==
    ASSUME IInv, HInv, KeyerTick
    PROVE  HInv'
<1>0. /\ keyer \in Keyers /\ tx \in Sessions /\ reversed \in BOOLEAN /\ paddle \in Paddles
      /\ Advanced
  BY AdvanceStep DEF IInv, RecordType, FlagType, KeyerTick
<1>1. /\ keyerTimer' = (keyer'.state # "IDLE" \/ AnyDown(paddle'))
      /\ UNCHANGED <<keyerMode, reversed>>
  BY DEF KeyerTick
<1>2. TimerRuns'
  BY <1>1 DEF TimerRuns
<1>3. KeyIsHeld'
  <2> SUFFICES ASSUME ~turned, OnAir'
               PROVE  keyer'.state = "MARK" \/ (keyerMode = "STRAIGHT" /\ KeyContact')
    BY <1>1 DEF KeyIsHeld, KeyerTick
  <2>1. tx' # CwTxKey(tx, FALSE)
    BY <1>0, KeyUp DEF OnAir
  <2>2. CASE AdvanceStraight
    <3>1. keyer.state # "MARK" /\ tx' = tx /\ paddle' = paddle /\ keyerMode = "STRAIGHT"
      BY <2>1, <2>2 DEF AdvanceStraight
    <3>2. OnAir
      BY <3>1 DEF OnAir
    <3>3. KeyContact
      BY <3>1, <3>2 DEF HInv, KeyIsHeld
    <3> QED
      BY <1>1, <3>1, <3>3 DEF KeyContact
  <2>3. CASE keyerMode # "STRAIGHT" /\ LostKeyUp /\ (AdvanceIdle \/ AdvanceMark \/ AdvanceSpace)
    <3>1. OnAir => keyer.state = "MARK"
      BY <2>3 DEF HInv, KeyIsHeld
    <3>2. ASSUME NEW e \in Elements, BeginElement(e)
          PROVE  keyer'.state = "MARK"
      BY <1>0, <3>2, Marked DEF BeginElement, Advanced
    <3>3. tx' = tx => keyer.state = "MARK"
      BY <3>1 DEF OnAir
    <3>4. CASE AdvanceIdle
      BY <3>2, <3>3, <3>4 DEF AdvanceIdle, Elements
    <3>5. CASE AdvanceMark
      <4>1. keyer' = SampleLatch(keyer, paddle') /\ keyer.state = "MARK"
        BY <2>1, <3>5 DEF AdvanceMark
      <4> QED
        BY <1>0, <4>1, Latched DEF Advanced
    <3>6. CASE AdvanceSpace
      BY <3>2, <3>3, <3>6 DEF AdvanceSpace
    <3> QED
      BY <2>3, <3>4, <3>5, <3>6
  <2> QED
    BY <2>2, <2>3 DEF KeyerTick
<1> QED
  BY <1>2, <1>3 DEF HInv

\* A straight key is on the air by its contact.
LEMMA PaddleHolds ==
    ASSUME IInv, HInv, NEW which \in {"dot", "dash"}, NEW pressed \in BOOLEAN,
           Paddle(which, pressed)
    PROVE  HInv'
<1>0. /\ keyer \in Keyers /\ tx \in Sessions /\ reversed \in BOOLEAN /\ paddle \in Paddles
  BY DEF IInv, RecordType, FlagType
<1>1. paddle' = [paddle EXCEPT ![which] = pressed] /\ UNCHANGED <<keyerMode, reversed>>
  BY DEF Paddle
<1>2. paddle' \in Paddles /\ paddle'[which] = pressed
      /\ \A c \in {"dot", "dash"} : c # which => paddle'[c] = paddle[c]
  BY <1>0, <1>1 DEF Paddles
<1>3. CASE keyerMode = "STRAIGHT"
  <2>1. UNCHANGED <<keyer, keyerTimer>>
    BY <1>3 DEF Paddle
  <2>2. CASE (which = "dash") = reversed
    <3>1. tx' = CwTxKey(tx, pressed)
      BY <1>3, <2>2 DEF Paddle
    <3>2. KeyContact' = pressed
      BY <1>1, <1>2, <2>2 DEF KeyContact
    <3>3. ~pressed => ~OnAir'
      BY <1>0, <3>1, KeyUp DEF OnAir
    <3> QED
      BY <1>1, <1>3, <2>1, <3>2, <3>3 DEF HInv, KeyIsHeld, TimerRuns
  <2>3. CASE (which = "dash") # reversed
    <3>1. tx' = tx
      BY <1>3, <2>3 DEF Paddle
    <3>2. KeyContact' = KeyContact
      BY <1>0, <1>1, <1>2, <2>3 DEF KeyContact
    <3>3. ~turned' => ~turned
      BY <1>3, <2>3 DEF Paddle
    <3>4. OnAir' => OnAir
      BY <3>1 DEF OnAir
    <3> QED
      BY <1>1, <2>1, <3>2, <3>3, <3>4 DEF HInv, KeyIsHeld, TimerRuns
  <2> QED
    BY <2>2, <2>3
<1>4. CASE keyerMode # "STRAIGHT"
  <2>1. tx' = tx /\ keyerTimer' /\ (keyer' = keyer \/ keyer' = SampleLatch(keyer, paddle'))
    BY <1>4 DEF Paddle
  <2>2. keyer'.state = keyer.state
    BY <1>0, <1>2, <2>1, Latched
  <2>3. (OnAir' => OnAir) /\ (~turned' => ~turned)
    BY <1>4, <2>1 DEF Paddle, OnAir
  <2> QED
    BY <1>1, <1>4, <2>1, <2>2, <2>3 DEF HInv, KeyIsHeld, TimerRuns
<1> QED
  BY <1>3, <1>4

LEMMA StepHInv == IInv /\ HInv /\ [Next]_vars => HInv'
<1> SUFFICES ASSUME IInv, HInv, [Next]_vars PROVE HInv'
  OBVIOUS
<1>0. keyer \in Keyers /\ tx \in Sessions
  BY DEF IInv, RecordType
<1>1. CASE KeyerTick
  BY <1>1, KeyerTickHolds
<1>2. CASE TxTick \/ SendText \/ Abort \/ Sample \/ OperatorMox \/ OperatorTune
  BY <1>2, SenderHolds
<1>3. CASE Clock
  <2>1. keyer'.state = keyer.state
    BY <1>0, <1>3 DEF Clock, Keyers
  <2>2. tx'.mode = tx.mode /\ tx'.keyOn = tx.keyOn
    BY <1>0, <1>3 DEF Clock, Sessions
  <2>3. UNCHANGED <<paddle, keyerTimer, keyerMode, reversed, turned>>
    BY <1>3 DEF Clock
  <2>4. OnAir' => OnAir
    BY <2>2 DEF OnAir
  <2> QED
    BY <2>1, <2>3, <2>4 DEF HInv, KeyIsHeld, TimerRuns, KeyContact
<1>4. ASSUME NEW which \in {"dot", "dash"}, NEW pressed \in BOOLEAN, Paddle(which, pressed)
      PROVE  HInv'
  BY <1>4, PaddleHolds
<1>5. CASE SetKeyerMode \/ Reverse \/ ChangeMode \/ UNCHANGED vars
  <2>1. UNCHANGED <<paddle, keyer, keyerTimer, tx>>
    BY <1>5 DEF SetKeyerMode, Reverse, ChangeMode, vars
  <2>2. \/ UNCHANGED <<keyerMode, reversed>>
        \/ ~turned' => ~StraightKeyDown
    BY <1>5 DEF SetKeyerMode, Reverse, ChangeMode, vars
  <2>3. ~turned' => ~turned
    BY <1>5 DEF SetKeyerMode, Reverse, ChangeMode, vars
  <2>4. OnAir' => OnAir
    BY <2>1 DEF OnAir
  <2>5. TimerRuns'
    BY <2>1 DEF HInv, TimerRuns
  <2>6. CASE UNCHANGED <<keyerMode, reversed>>
    BY <2>1, <2>3, <2>4, <2>5, <2>6 DEF HInv, KeyIsHeld, KeyContact
  <2>7. CASE ~turned' => ~StraightKeyDown
    BY <2>1, <2>3, <2>4, <2>5, <2>7 DEF HInv, KeyIsHeld, StraightKeyDown
  <2> QED
    BY <2>2, <2>6, <2>7
<1> QED
  BY <1>1, <1>2, <1>3, <1>4, <1>5 DEF Next

LEMMA AlwaysHInv == Safety => [](IInv /\ HInv)
<1>1. Init => IInv /\ HInv
  BY InitIInv, InitHInv
<1>2. IInv /\ HInv /\ [Next]_vars => (IInv /\ HInv)'
  BY StepIInv, StepHInv
<1> QED
  BY <1>1, <1>2, PTL DEF Safety

\* With both paddles up the key is down only while an element sounds, and the
\* timer that ends the element is armed: cw_keyer_paddle and cw_keyer_advance,
\* in every keyer mode and through every change of mode the operator may make.
KeyDownIsAnElement ==
    OnAir /\ ~AnyDown(paddle) /\ ~turned => keyer.state = "MARK" /\ keyerTimer

LEMMA HeldByElement == HInv /\ IInv => KeyDownIsAnElement
BY DEF HInv, IInv, RecordType, Paddles, KeyIsHeld, TimerRuns, KeyDownIsAnElement,
       KeyContact, AnyDown

THEOREM ElementsHoldTheKey == Safety => []KeyDownIsAnElement
BY HeldByElement, AlwaysHInv, PTL

-----------------------------------------------------------------------------
(* The element ends *)

\* The clock and the keyer's timer are as fair as Spec says, with a condition
\* under which each can take a step written out: while the timer is armed, a
\* unit passes when it is owed nothing, and it is dispatched when it is.
ClockIsFair == []<>~(keyerTimer /\ ~due) \/ []<><<Clock>>_vars
TickIsFair  == []<>~(keyerTimer /\ due) \/ []<><<KeyerTick>>_vars

\* The key is down and no paddle is, and how far the element has got.
Loose      == OnAir /\ ~AnyDown(paddle) /\ ~turned
Sounds(n)  == Loose /\ keyer.left = n /\ ~due
Due(n)     == Loose /\ keyer.left = n /\ due

\* The settings of a sounding element may be turned: it ends by itself.
LEMMA NothingTurns == IInv /\ HInv /\ Loose /\ [Next]_vars => ~turned'
<1> SUFFICES ASSUME IInv, HInv, Loose, [Next]_vars PROVE ~turned'
  OBVIOUS
<1>1. keyer.state = "MARK" /\ ~turned
  BY HeldByElement DEF KeyDownIsAnElement, Loose
<1> QED
  BY <1>1 DEF Next, KeyerTick, TxTick, Sample, Clock, Paddle, SendText, Abort, SetKeyerMode,
              Reverse, ChangeMode, OperatorMox, OperatorTune, StraightKeyDown, vars

\* While nothing changes that, only the clock shortens the element, and only the
\* timer's dispatch is waited for.
LEMMA LooseStep ==
    ASSUME IInv, HInv, Loose, Loose', [Next]_vars
    PROVE  \/ keyer'.left = keyer.left /\ due' = due /\ ~Clock /\ (KeyerTick => ~due)
           \/ Clock /\ ~due /\ due' /\ keyer'.left = IF keyer.left = 0 THEN 0 ELSE keyer.left - 1
           \/ KeyerTick /\ ~Clock /\ keyer.left > 0 /\ ~due' /\ keyer'.left = keyer.left
<1>0. /\ keyer \in Keyers /\ tx \in Sessions /\ paddle \in Paddles /\ reversed \in BOOLEAN
      /\ due \in BOOLEAN /\ keyer.state = "MARK" /\ keyerTimer
  BY HeldByElement DEF IInv, RecordType, FlagType, KeyDownIsAnElement, Loose
<1>1. Clock => /\ ~due /\ due'
               /\ keyer'.left = IF keyer.left = 0 THEN 0 ELSE keyer.left - 1
  BY <1>0 DEF Clock, Keyers
<1>2. KeyerTick => keyer.left > 0 /\ ~due' /\ keyer'.left = keyer.left
  <2> SUFFICES ASSUME KeyerTick
               PROVE  keyer.left > 0 /\ ~due' /\ keyer'.left = keyer.left
    OBVIOUS
  <2>1. tx' # CwTxKey(tx, FALSE)
    BY <1>0, KeyUp DEF Loose, OnAir
  <2>2. AdvanceMark /\ paddle' \in Paddles
    <3>1. ~AdvanceStraight
      BY <1>0, <2>1 DEF AdvanceStraight
    <3>2. Advanced
      BY AdvanceStep DEF KeyerTick
    <3> QED
      BY <1>0, <3>1, <3>2 DEF KeyerTick, AdvanceIdle, AdvanceSpace, Advanced
  <2>3. keyer.left > 0 /\ keyer' = SampleLatch(keyer, paddle')
    BY <2>1, <2>2 DEF AdvanceMark
  <2> QED
    BY <1>0, <2>2, <2>3, Latched DEF KeyerTick
<1>3. ASSUME ~Clock, ~KeyerTick
      PROVE  keyer'.left = keyer.left /\ due' = due
  <2>1. ASSUME NEW which \in {"dot", "dash"}, NEW pressed \in BOOLEAN, Paddle(which, pressed)
        PROVE  keyer'.left = keyer.left /\ due' = due
    <3>1. paddle' \in Paddles
      BY <1>0, <2>1 DEF Paddle, Paddles
    <3>2. due' = due /\ (keyer' = keyer \/ keyer' = SampleLatch(keyer, paddle'))
      BY <2>1 DEF Paddle
    <3> QED
      BY <1>0, <3>1, <3>2, Latched
  <2>2. TxTick \/ SendText \/ Abort \/ Sample \/ OperatorMox \/ OperatorTune
        \/ SetKeyerMode \/ Reverse \/ ChangeMode \/ UNCHANGED vars
        => keyer' = keyer /\ due' = due
    BY DEF TxTick, SendText, Abort, Sample, OperatorMox, OperatorTune, SetKeyerMode,
           Reverse, ChangeMode, vars
  <2> QED
    BY <1>3, <2>1, <2>2 DEF Next
<1> QED
  BY <1>1, <1>2, <1>3

\* A unit passes: the element gets shorter, and its timer is owed a dispatch.
LEMMA UnitPasses ==
    ASSUME NEW n \in 0..3, NEW m \in 0..3, m = (IF n = 0 THEN 0 ELSE n - 1)
    PROVE  /\ IInv /\ HInv /\ Sounds(n) => keyerTimer /\ ~due
           /\ IInv /\ HInv /\ Sounds(n) /\ [Next]_vars => Sounds(n)' \/ Due(m)' \/ (~Loose)'
           /\ IInv /\ HInv /\ Sounds(n) /\ [Next]_vars /\ Clock => Due(m)' \/ (~Loose)'
<1>1. IInv /\ HInv /\ Sounds(n) => keyerTimer /\ ~due
  BY HeldByElement DEF KeyDownIsAnElement, Sounds, Loose
<1>2. IInv /\ HInv /\ Sounds(n) /\ [Next]_vars => Sounds(n)' \/ Due(m)' \/ (~Loose)'
  BY LooseStep DEF Sounds, Due
<1>3. IInv /\ HInv /\ Sounds(n) /\ [Next]_vars /\ Clock => Due(m)' \/ (~Loose)'
  BY LooseStep DEF Sounds, Due
<1> QED
  BY <1>1, <1>2, <1>3

\* The timer is dispatched: the element goes on, or is over.
LEMMA TimerDispatched ==
    ASSUME NEW n \in 0..3
    PROVE  /\ IInv /\ HInv /\ Due(n) => keyerTimer /\ due
           /\ IInv /\ HInv /\ Due(n) /\ [Next]_vars =>
                 Due(n)' \/ (n # 0 /\ Sounds(n)') \/ (~Loose)'
           /\ IInv /\ HInv /\ Due(n) /\ [Next]_vars /\ KeyerTick =>
                 (n # 0 /\ Sounds(n)') \/ (~Loose)'
<1>1. IInv /\ HInv /\ Due(n) => keyerTimer /\ due
  BY HeldByElement DEF KeyDownIsAnElement, Due, Loose
<1>2. ASSUME IInv, HInv, Due(n), [Next]_vars, Loose', ~Due(n)'
      PROVE  n # 0 /\ Sounds(n)'
  <2>1. Loose /\ keyer.left = n /\ due /\ due \in BOOLEAN /\ due' \in BOOLEAN
    BY <1>2, StepIInv DEF Due, IInv, FlagType
  <2>2. keyer.left > 0 /\ ~due' /\ keyer'.left = keyer.left
    BY <1>2, <2>1, LooseStep DEF Due
  <2> QED
    BY <1>2, <2>1, <2>2 DEF Sounds
<1>3. ASSUME IInv, HInv, Due(n), [Next]_vars, KeyerTick, Loose'
      PROVE  n # 0 /\ Sounds(n)'
  <2>1. Loose /\ keyer.left = n /\ due
    BY <1>3 DEF Due
  <2>2. keyer.left > 0 /\ ~due' /\ keyer'.left = keyer.left
    BY <1>3, <2>1, LooseStep
  <2> QED
    BY <1>3, <2>1, <2>2 DEF Sounds
<1> QED
  BY <1>1, <1>2, <1>3

\* The key follows the paddles: with both of them up it does not stay down
\* (cw_keyer_paddle: "Always record it, even in straight mode, so a later
\* mode/reverse toggle stays consistent"), except for the straight key whose
\* settings were changed while it was closed.
THEOREM TheKeyFollows == Safety /\ ClockIsFair /\ TickIsFair => KeyFollowsPaddles
<1> DEFINE Inv == IInv /\ HInv
<1>0. Safety => []Inv
  BY AlwaysHInv
<1>1. Safety /\ ClockIsFair => (Sounds(3) ~> (Due(2) \/ ~Loose))
  <2>1. Inv /\ Sounds(3) => keyerTimer /\ ~due
    BY UnitPasses
  <2>2. Inv /\ Sounds(3) /\ [Next]_vars => Sounds(3)' \/ Due(2)' \/ (~Loose)'
    BY UnitPasses
  <2>3. Inv /\ Sounds(3) /\ [Next]_vars /\ <<Clock>>_vars => Due(2)' \/ (~Loose)'
    BY UnitPasses
  <2> HIDE DEF Inv
  <2> QED
    BY <1>0, <2>1, <2>2, <2>3, PTL DEF Safety, ClockIsFair
<1>2. Safety /\ ClockIsFair => (Sounds(2) ~> (Due(1) \/ ~Loose))
  <2>1. Inv /\ Sounds(2) => keyerTimer /\ ~due
    BY UnitPasses
  <2>2. Inv /\ Sounds(2) /\ [Next]_vars => Sounds(2)' \/ Due(1)' \/ (~Loose)'
    BY UnitPasses
  <2>3. Inv /\ Sounds(2) /\ [Next]_vars /\ <<Clock>>_vars => Due(1)' \/ (~Loose)'
    BY UnitPasses
  <2> HIDE DEF Inv
  <2> QED
    BY <1>0, <2>1, <2>2, <2>3, PTL DEF Safety, ClockIsFair
<1>3. Safety /\ ClockIsFair => (Sounds(1) ~> (Due(0) \/ ~Loose))
  <2>1. Inv /\ Sounds(1) => keyerTimer /\ ~due
    BY UnitPasses
  <2>2. Inv /\ Sounds(1) /\ [Next]_vars => Sounds(1)' \/ Due(0)' \/ (~Loose)'
    BY UnitPasses
  <2>3. Inv /\ Sounds(1) /\ [Next]_vars /\ <<Clock>>_vars => Due(0)' \/ (~Loose)'
    BY UnitPasses
  <2> HIDE DEF Inv
  <2> QED
    BY <1>0, <2>1, <2>2, <2>3, PTL DEF Safety, ClockIsFair
<1>4. Safety /\ ClockIsFair => (Sounds(0) ~> (Due(0) \/ ~Loose))
  <2>1. Inv /\ Sounds(0) => keyerTimer /\ ~due
    BY UnitPasses
  <2>2. Inv /\ Sounds(0) /\ [Next]_vars => Sounds(0)' \/ Due(0)' \/ (~Loose)'
    BY UnitPasses
  <2>3. Inv /\ Sounds(0) /\ [Next]_vars /\ <<Clock>>_vars => Due(0)' \/ (~Loose)'
    BY UnitPasses
  <2> HIDE DEF Inv
  <2> QED
    BY <1>0, <2>1, <2>2, <2>3, PTL DEF Safety, ClockIsFair
<1>5. Safety /\ TickIsFair => (Due(3) ~> (Sounds(3) \/ ~Loose))
  <2>1. Inv /\ Due(3) => keyerTimer /\ due
    BY TimerDispatched
  <2>2. Inv /\ Due(3) /\ [Next]_vars => Due(3)' \/ Sounds(3)' \/ (~Loose)'
    BY TimerDispatched
  <2>3. Inv /\ Due(3) /\ [Next]_vars /\ <<KeyerTick>>_vars => Sounds(3)' \/ (~Loose)'
    BY TimerDispatched
  <2> HIDE DEF Inv
  <2> QED
    BY <1>0, <2>1, <2>2, <2>3, PTL DEF Safety, TickIsFair
<1>6. Safety /\ TickIsFair => (Due(2) ~> (Sounds(2) \/ ~Loose))
  <2>1. Inv /\ Due(2) => keyerTimer /\ due
    BY TimerDispatched
  <2>2. Inv /\ Due(2) /\ [Next]_vars => Due(2)' \/ Sounds(2)' \/ (~Loose)'
    BY TimerDispatched
  <2>3. Inv /\ Due(2) /\ [Next]_vars /\ <<KeyerTick>>_vars => Sounds(2)' \/ (~Loose)'
    BY TimerDispatched
  <2> HIDE DEF Inv
  <2> QED
    BY <1>0, <2>1, <2>2, <2>3, PTL DEF Safety, TickIsFair
<1>7. Safety /\ TickIsFair => (Due(1) ~> (Sounds(1) \/ ~Loose))
  <2>1. Inv /\ Due(1) => keyerTimer /\ due
    BY TimerDispatched
  <2>2. Inv /\ Due(1) /\ [Next]_vars => Due(1)' \/ Sounds(1)' \/ (~Loose)'
    BY TimerDispatched
  <2>3. Inv /\ Due(1) /\ [Next]_vars /\ <<KeyerTick>>_vars => Sounds(1)' \/ (~Loose)'
    BY TimerDispatched
  <2> HIDE DEF Inv
  <2> QED
    BY <1>0, <2>1, <2>2, <2>3, PTL DEF Safety, TickIsFair
<1>8. Safety /\ TickIsFair => (Due(0) ~> ~Loose)
  <2>1. Inv /\ Due(0) => keyerTimer /\ due
    BY TimerDispatched
  <2>2. Inv /\ Due(0) /\ [Next]_vars => Due(0)' \/ (~Loose)'
    BY TimerDispatched
  <2>3. Inv /\ Due(0) /\ [Next]_vars /\ <<KeyerTick>>_vars => (~Loose)'
    BY TimerDispatched
  <2> HIDE DEF Inv
  <2> QED
    BY <1>0, <2>1, <2>2, <2>3, PTL DEF Safety, TickIsFair
<1>9. Inv /\ Loose => \/ Sounds(3) \/ Sounds(2) \/ Sounds(1) \/ Sounds(0)
                      \/ Due(3) \/ Due(2) \/ Due(1) \/ Due(0)
  BY DEF IInv, RecordType, Keyers, Sounds, Due
<1>10. Safety /\ ClockIsFair /\ TickIsFair => (Loose ~> ~Loose)
  <2> HIDE DEF Inv
  <2> QED
    BY <1>0, <1>1, <1>2, <1>3, <1>4, <1>5, <1>6, <1>7, <1>8, <1>9, PTL
<1>11. Inv /\ Loose /\ [Next]_vars => Loose' \/ (~OnAir \/ AnyDown(paddle))'
  <2>1. Inv /\ Loose /\ [Next]_vars => ~turned'
    BY NothingTurns
  <2> QED
    BY <2>1 DEF Loose
<1>12. Safety /\ (Loose ~> ~Loose) => (Loose ~> (~OnAir \/ AnyDown(paddle)))
  <2> HIDE DEF Inv
  <2> QED
    BY <1>0, <1>11, PTL DEF Safety
<1>13. (Loose ~> (~OnAir \/ AnyDown(paddle))) => KeyFollowsPaddles
  <2>1. OnAir /\ ~AnyDown(paddle) /\ ~turned => Loose
    BY DEF Loose
  <2> QED
    BY <2>1, PTL DEF KeyFollowsPaddles
<1> QED
  BY <1>10, <1>12, <1>13, PTL
-----------------------------------------------------------------------------
(* A message ends *)

\* A session has its timer armed until the timer has ended it.
Timed == tx.mode # "IDLE" => tx.timer

\* A paddle edge does not begin, end or age a message.
LEMMA KeyedMessage ==
    ASSUME NEW x \in Sessions, NEW down \in BOOLEAN
    PROVE  /\ x.mode = "MESSAGE" => CwTxKey(x, down) = x
           /\ CwTxKey(x, down).mode # "IDLE" /\ (x.mode # "IDLE" => x.timer)
                => CwTxKey(x, down).timer
           /\ CwTxKey(x, down).mode = "MESSAGE" => x.mode = "MESSAGE"
BY DEF CwTxKey, Sessions, Begin, SetMox

LEMMA InitTimed == Init => Timed
BY DEF Init, Timed

\* What the steps of the keyer and of the paddle do to the sender.
LEMMA KeyerKeys ==
    ASSUME KeyerTick \/ \E which \in {"dot", "dash"}, pressed \in BOOLEAN : Paddle(which, pressed)
    PROVE  tx' = tx \/ \E down \in BOOLEAN : tx' = CwTxKey(tx, down)
<1>1. CASE KeyerTick
  <2>1. AdvanceStraight \/ AdvanceIdle \/ AdvanceMark \/ AdvanceSpace
    BY <1>1 DEF KeyerTick
  <2> QED
    BY <2>1 DEF AdvanceStraight, AdvanceIdle, AdvanceMark, AdvanceSpace, BeginElement
<1>2. ASSUME NEW which \in {"dot", "dash"}, NEW pressed \in BOOLEAN, Paddle(which, pressed)
      PROVE  tx' = tx \/ \E down \in BOOLEAN : tx' = CwTxKey(tx, down)
  BY <1>2 DEF Paddle
<1> QED
  BY <1>1, <1>2

\* The step of a message: its age only grows, with every unit of the clock, and
\* the timer ends it once it has run too long.
LEMMA MessageStep ==
    ASSUME IInv, Timed, [Next]_vars
    PROVE  /\ Timed'
           /\ tx.mode = "MESSAGE" /\ tx'.mode = "MESSAGE" =>
                /\ tx'.age >= tx.age
                /\ Clock => tx'.age > tx.age \/ tx'.age > WatchdogUnits
                /\ ~(TxTick /\ Finished(tx))
<1>0. tx \in Sessions /\ tx.age \in 0..AgeCap /\ AgeCap \in Nat /\ WatchdogUnits \in Nat
      /\ AgeCap > WatchdogUnits
  BY Thresholds DEF IInv, RecordType, Sessions, AgeCap
<1>1. CASE TxTick
  <2>1. CASE tx.mode = "IDLE"
    <3>1. tx' = [tx EXCEPT !.timer = FALSE]
      BY <1>1, <2>1 DEF TxTick, Finished
    <3> QED
      BY <1>0, <2>1, <3>1 DEF Sessions, Timed
  <2>2. CASE tx.mode # "IDLE" /\ Finished(tx)
    <3>1. tx' = [End(tx) EXCEPT !.timer = FALSE]
      BY <1>1, <2>2 DEF TxTick
    <3>2. End(tx) \in Sessions /\ End(tx).mode = "IDLE"
      BY <1>0, EndSession DEF IInv
    <3>3. tx'.mode = "IDLE"
      BY <3>1, <3>2 DEF Sessions
    <3> QED
      BY <3>3 DEF Timed
  <2>3. CASE tx.mode # "IDLE" /\ ~Finished(tx)
    <3>1. tx' = tx
      BY <1>1, <2>3 DEF TxTick
    <3>2. Clock => tx'.age > tx.age \/ tx'.age > WatchdogUnits
      <4> SUFFICES ASSUME Clock PROVE tx'.age > tx.age \/ tx'.age > WatchdogUnits
        OBVIOUS
      <4>1. tx' = [tx EXCEPT !.age = Aged(tx.age, AgeCap)]
        BY <2>3 DEF Clock
      <4>2. tx'.age = Aged(tx.age, AgeCap)
        BY <1>0, <4>1 DEF Sessions
      <4>3. Aged(tx.age, AgeCap) = AgeCap \/ Aged(tx.age, AgeCap) = tx.age + 1
        BY <1>0 DEF Aged
      <4> QED
        BY <1>0, <4>2, <4>3
    <3> QED
      BY <1>0, <2>3, <3>1, <3>2 DEF Timed
  <2> QED
    BY <2>1, <2>2, <2>3
<1>2. CASE Clock
  <2>1. tx' = IF tx.mode = "IDLE" THEN tx ELSE [tx EXCEPT !.age = Aged(tx.age, AgeCap)]
    BY <1>2 DEF Clock
  <2>2. Aged(tx.age, AgeCap) = AgeCap \/ Aged(tx.age, AgeCap) = tx.age + 1
    BY <1>0 DEF Aged
  <2>3. tx.mode = "MESSAGE" => tx'.age = Aged(tx.age, AgeCap)
    BY <1>0, <2>1 DEF Sessions
  <2>4. Timed'
    BY <1>0, <2>1 DEF Sessions, Timed
  <2>5. tx.mode = "MESSAGE" => tx'.age >= tx.age /\ (tx'.age > tx.age \/ tx'.age > WatchdogUnits)
    BY <1>0, <2>2, <2>3
  <2>6. tx.mode = "MESSAGE" /\ tx'.mode = "MESSAGE" => ~(TxTick /\ Finished(tx))
    <3>1. tx.mode = "MESSAGE" /\ TxTick /\ Finished(tx) => tx' = [End(tx) EXCEPT !.timer = FALSE]
      BY DEF TxTick
    <3>2. End(tx) \in Sessions /\ End(tx).mode = "IDLE"
      BY <1>0, EndSession DEF IInv
    <3> QED
      BY <3>1, <3>2 DEF Sessions
  <2> QED
    BY <2>4, <2>5, <2>6
<1>3. CASE ~TxTick /\ ~Clock
  <2>1. CASE KeyerTick \/ \E which \in {"dot", "dash"}, pressed \in BOOLEAN : Paddle(which, pressed)
    BY <1>0, <1>3, <2>1, KeyerKeys, KeyedMessage DEF Timed
  <2>2. CASE SendText
    <3>1. tx.mode = "IDLE"
      BY <2>2 DEF SendText
    <3>2. tx'.timer
      BY <1>0, <2>2 DEF SendText, Begin, SetMox, Sessions
    <3> QED
      BY <1>3, <3>1, <3>2 DEF Timed
  <2>3. CASE Abort
    BY <1>0, <2>3, EndSession DEF Abort, Timed, IInv
  <2>4. CASE Sample
    BY <1>0, <1>3, <2>4 DEF Sample, Timed, Sessions
  <2>5. CASE OperatorMox \/ OperatorTune
    <3>1. /\ tx'.mode = tx.mode /\ tx'.age = tx.age /\ tx'.timer = tx.timer
      BY <1>0, <2>5 DEF OperatorMox, OperatorTune, SetMox, SetTune, Sessions
    <3> QED
      BY <1>0, <1>3, <3>1 DEF Timed
  <2>6. CASE SetKeyerMode \/ Reverse \/ ChangeMode \/ UNCHANGED vars
    <3>1. tx' = tx
      BY <2>6 DEF SetKeyerMode, Reverse, ChangeMode, vars
    <3> QED
      BY <1>0, <1>3, <3>1 DEF Timed
  <2> QED
    BY <1>3, <2>1, <2>2, <2>3, <2>4, <2>5, <2>6 DEF Next
<1> QED
  BY <1>1, <1>2, <1>3

LEMMA AlwaysTimed == Safety => [](IInv /\ Timed)
<1>1. IInv /\ Timed /\ [Next]_vars => Timed'
  BY MessageStep
<1> QED
  BY <1>1, InitTimed, AlwaysIInv, PTL DEF Safety

\* A message only grows older, by every unit of the clock, whatever paddles,
\* buttons and the audio thread do: nothing restarts its watchdog (tx_tick's
\* key_time_ms).
MessageAges ==
    [][tx.mode = "MESSAGE" /\ tx'.mode = "MESSAGE" =>
         /\ tx'.age >= tx.age
         /\ Clock => tx'.age > tx.age \/ tx'.age > WatchdogUnits]_vars

THEOREM NothingRestartsTheWatchdog == Safety => MessageAges
<1> DEFINE A == tx.mode = "MESSAGE" /\ tx'.mode = "MESSAGE" =>
                  /\ tx'.age >= tx.age
                  /\ Clock => tx'.age > tx.age \/ tx'.age > WatchdogUnits
<1>1. IInv /\ Timed /\ [Next]_vars => [A]_vars
  BY MessageStep
<1>2. Safety => [][A]_vars
  BY <1>1, AlwaysTimed, PTL DEF Safety
<1> QED
  BY <1>2 DEF MessageAges

\* The sender's timer is as fair as Spec says, with a condition under which it
\* does something written out; and the clock, of which MessageAges says what it
\* does to a message, gets past the watchdog of one that is not over by then.
TimerHasWork   == tx.timer /\ (tx.mode = "IDLE" \/ Finished(tx))
Overdue        == tx.mode = "MESSAGE" /\ tx.age > WatchdogUnits
TxTickIsFair   == []<>~TimerHasWork \/ []<><<TxTick>>_vars
ClockRunsOut   == (tx.mode = "MESSAGE") ~> (tx.mode # "MESSAGE" \/ Overdue)

\* A message never wedges the sender: once its watchdog has run out it ends,
\* though nobody drains it and somebody else took MOX away (tx_tick).
THEOREM MessagesAlwaysEnd == Safety /\ TxTickIsFair /\ ClockRunsOut => MessageEnds
<1> DEFINE Sending == tx.mode = "MESSAGE"
           Late == Overdue
           Work == TimerHasWork
           Inv == IInv /\ Timed
<1>1. Safety => []Inv
  BY AlwaysTimed
<1>2. Inv /\ Late => Work
  BY DEF Timed, Overdue, TimerHasWork, Finished
<1>3. Inv /\ Late /\ [Next]_vars => Late' \/ ~Sending'
  <2>1. WatchdogUnits \in Nat
    BY Thresholds
  <2> SUFFICES ASSUME Inv, Late, [Next]_vars, Sending' PROVE Late'
    OBVIOUS
  <2>2. tx'.age >= tx.age /\ tx.age > WatchdogUnits
    BY MessageStep DEF Overdue
  <2>3. tx.age \in Nat /\ tx'.age \in Nat
    BY StepIInv, Thresholds DEF IInv, RecordType, Sessions
  <2>4. tx'.age > WatchdogUnits
    BY <2>1, <2>2, <2>3
  <2> QED
    BY <2>4 DEF Overdue
<1>4. Inv /\ Late /\ [Next]_vars /\ <<TxTick>>_vars => ~Sending'
  BY MessageStep DEF Overdue, Finished
<1>5. /\ (tx.mode = "MESSAGE") <=> Sending
      /\ (tx.mode # "MESSAGE") <=> ~Sending
      /\ Overdue <=> Late
      /\ TimerHasWork <=> Work
  OBVIOUS
<1> HIDE DEF Sending, Late, Work, Inv
<1>6. ClockRunsOut => (Sending ~> (~Sending \/ Late))
  BY <1>5, PTL DEF ClockRunsOut
<1>7. (Sending ~> ~Sending) => MessageEnds
  BY <1>5, PTL DEF MessageEnds
<1>8. []Inv /\ [][Next]_vars /\ ([]<>~Work \/ []<><<TxTick>>_vars) => (Late ~> ~Sending)
  BY <1>2, <1>3, <1>4, PTL
<1>9. TxTickIsFair => ([]<>~Work \/ []<><<TxTick>>_vars)
  BY <1>5, PTL DEF TxTickIsFair
<1> QED
  BY <1>1, <1>6, <1>7, <1>8, <1>9, PTL DEF Safety
=============================================================================
