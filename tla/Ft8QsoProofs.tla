---------------------------- MODULE Ft8QsoProofs ----------------------------
(***************************************************************************)
(* What the run of Ft8Qso checks with two stations and three events,       *)
(* proved for any stations, limits and number of events.                   *)
(***************************************************************************)
EXTENDS Ft8Qso, SequenceTheorems, TLAPS

USE DEF exchange, queue, guards, sender, scheduler, decodes, main, clock

-----------------------------------------------------------------------------
(* Types *)

\* Every message the sequencer builds is one of Message.
LEMMA MsgType ==
    ASSUME NEW to \in Dx \cup {NULL},
           NEW says \in {"CQ", "grid", "report", "rreport", "RR73", "73", "free"}
    PROVE  Msg(to, says) \in Message
BY DEF Msg, Message

\* TypeOK in parts a solver can carry at once.
ExchangeType ==
    /\ state \in States /\ dx \in Dx \cup {NULL}
    /\ txEven \in BOOLEAN /\ enabled \in BOOLEAN /\ auto \in BOOLEAN
    /\ logged \in BOOLEAN /\ log \subseteq Dx

QueueType ==
    /\ pending \in Message \cup {NULL}
    /\ prepared \in Message \cup {NULL}
    /\ wave \in Message \cup {NULL}
    /\ needArm \in BOOLEAN

CountType ==
    /\ cycles \in 0..WATCHDOG_CYCLES /\ since \in 0..(TX_WATCHDOG + 1)
    /\ quiet \in Nat /\ events \in 0..MaxEvents

FlagType ==
    /\ prevActive \in BOOLEAN /\ prevEnabled \in BOOLEAN
    /\ armed \in BOOLEAN /\ armEven \in BOOLEAN
    /\ air \in {"silent", "sending", "sent"} /\ anchored \in BOOLEAN
    /\ weKeyed \in BOOLEAN /\ ticking \in BOOLEAN
    /\ mox \in {"off", "ft8", "other"}

ClockType ==
    /\ inPoll \in BOOLEAN /\ due \subseteq {"poll", "tick"}
    /\ even \in BOOLEAN /\ phase \in {"open", "late"}

ListType ==
    /\ list \in Seq(Heard) /\ handled \in 0..Len(list)
    /\ todo \in Seq(Heard)
    /\ listSlot \in Slots
    /\ acked \subseteq Dx

LEMMA TypeParts ==
    TypeOK <=> /\ ExchangeType /\ QueueType /\ CountType
               /\ FlagType /\ ClockType /\ ListType
BY DEF TypeOK, ExchangeType, QueueType, CountType, FlagType, ClockType, ListType

\* The sequencer starts in its types.
LEMMA TypeInit == Init => TypeOK
<1>1. SUFFICES ASSUME Init PROVE TypeOK
  OBVIOUS
<1>2. ExchangeType /\ QueueType
  BY <1>1 DEF Init, ExchangeType, QueueType, States
<1>3. CountType
  BY <1>1, Ft8Constants DEF Init, CountType
<1>4. FlagType /\ ClockType
  BY <1>1 DEF Init, FlagType, ClockType
<1>5. ListType
  BY <1>1, EmptySeq DEF Init, ListType, Slots
<1>. QED
  BY <1>2, <1>3, <1>4, <1>5, TypeParts

\* The parts after a step make TypeOK after it.
LEMMA TypePartsNext ==
    ASSUME ExchangeType', QueueType', CountType', FlagType', ClockType', ListType'
    PROVE  TypeOK'
BY Zenon DEF TypeOK, ExchangeType, QueueType, CountType, FlagType, ClockType, ListType

\* The panel's entries, one action at a time, part by part.
LEMMA TypeOperator ==
    ASSUME TypeOK, Operator
    PROVE  TypeOK'
<1>. USE DEF OperatorActs
<1>1. ASSUME NEW x \in Dx, Answer(x) PROVE TypeOK'
  <2>1. ExchangeType'
    BY <1>1, TypeParts DEF Answer, Begins, Queue, States, ExchangeType
  <2>2. QueueType'
    BY <1>1, MsgType, TypeParts DEF Answer, Begins, Queue, States, QueueType
  <2>3. CountType'
    BY <1>1, Ft8Constants, TypeParts DEF Answer, Begins, Queue, States, CountType
  <2>4. FlagType'
    BY <1>1, TypeParts DEF Answer, Begins, Queue, States, FlagType
  <2>5. ClockType'
    BY <1>1, TypeParts DEF Answer, Begins, Queue, States, ClockType
  <2>6. ListType'
    BY <1>1, TypeParts DEF Answer, Begins, Queue, States, ListType
  <2>. QED
    BY <2>1, <2>2, <2>3, <2>4, <2>5, <2>6, TypePartsNext
<1>2. CASE SelectCq
  <2>1. ExchangeType'
    BY <1>2, TypeParts DEF SelectCq, Begins, Queue, States, ExchangeType
  <2>2. QueueType'
    BY <1>2, MsgType, TypeParts DEF SelectCq, Begins, Queue, States, QueueType
  <2>3. CountType'
    BY <1>2, Ft8Constants, TypeParts DEF SelectCq, Begins, Queue, States, CountType
  <2>4. FlagType'
    BY <1>2, TypeParts DEF SelectCq, Begins, Queue, States, FlagType
  <2>5. ClockType'
    BY <1>2, TypeParts DEF SelectCq, Begins, Queue, States, ClockType
  <2>6. ListType'
    BY <1>2, TypeParts DEF SelectCq, Begins, Queue, States, ListType
  <2>. QED
    BY <2>1, <2>2, <2>3, <2>4, <2>5, <2>6, TypePartsNext
<1>3. ASSUME NEW s \in States, NEW says \in {"grid", "report", "rreport", "RR73", "73"},
             SelectTx(s, says)
      PROVE  TypeOK'
  <2>1. ExchangeType'
    BY <1>3, TypeParts DEF SelectTx, Begins, Queue, ExchangeType
  <2>2. QueueType'
    BY <1>3, MsgType, TypeParts DEF SelectTx, Begins, Queue, QueueType, ExchangeType
  <2>3. CountType'
    BY <1>3, Ft8Constants, TypeParts DEF SelectTx, Begins, Queue, CountType
  <2>4. FlagType'
    BY <1>3, TypeParts DEF SelectTx, Begins, Queue, FlagType
  <2>5. ClockType'
    BY <1>3, TypeParts DEF SelectTx, Begins, Queue, ClockType
  <2>6. ListType'
    BY <1>3, TypeParts DEF SelectTx, Begins, Queue, ListType
  <2>. QED
    BY <2>1, <2>2, <2>3, <2>4, <2>5, <2>6, TypePartsNext
<1>4. CASE SendFree
  <2>1. ExchangeType'
    BY <1>4, TypeParts DEF SendFree, Begins, Queue, States, ExchangeType
  <2>2. QueueType'
    BY <1>4, MsgType, TypeParts DEF SendFree, Begins, Queue, States, QueueType
  <2>3. CountType'
    BY <1>4, Ft8Constants, TypeParts DEF SendFree, Begins, Queue, States, CountType
  <2>4. FlagType'
    BY <1>4, TypeParts DEF SendFree, Begins, Queue, States, FlagType
  <2>5. ClockType'
    BY <1>4, TypeParts DEF SendFree, Begins, Queue, States, ClockType
  <2>6. ListType'
    BY <1>4, TypeParts DEF SendFree, Begins, Queue, States, ListType
  <2>. QED
    BY <2>1, <2>2, <2>3, <2>4, <2>5, <2>6, TypePartsNext
<1>5. CASE Halt
  <2>1. ExchangeType'
    BY <1>5, TypeParts DEF Halt, GoIdle, Disarm, States, ExchangeType
  <2>2. QueueType'
    BY <1>5, TypeParts DEF Halt, GoIdle, Disarm, States, QueueType
  <2>3. CountType'
    BY <1>5, Ft8Constants, TypeParts DEF Halt, GoIdle, Disarm, States, CountType
  <2>4. FlagType'
    BY <1>5, TypeParts DEF Halt, GoIdle, Disarm, States, FlagType
  <2>5. ClockType'
    BY <1>5, TypeParts DEF Halt, GoIdle, Disarm, States, ClockType
  <2>6. ListType'
    BY <1>5, TypeParts DEF Halt, GoIdle, Disarm, States, ListType
  <2>. QED
    BY <2>1, <2>2, <2>3, <2>4, <2>5, <2>6, TypePartsNext
<1>6. CASE EnableTx
  <2>1. ExchangeType'
    BY <1>6, TypeParts DEF EnableTx, ExchangeType
  <2>2. QueueType'
    BY <1>6, TypeParts DEF EnableTx, QueueType
  <2>3. CountType'
    BY <1>6, Ft8Constants, TypeParts DEF EnableTx, CountType
  <2>4. FlagType'
    BY <1>6, TypeParts DEF EnableTx, FlagType
  <2>5. ClockType'
    BY <1>6, TypeParts DEF EnableTx, ClockType
  <2>6. ListType'
    BY <1>6, TypeParts DEF EnableTx, ListType
  <2>. QED
    BY <2>1, <2>2, <2>3, <2>4, <2>5, <2>6, TypePartsNext
<1>7. CASE DisableTx
  <2>1. ExchangeType'
    BY <1>7, TypeParts DEF DisableTx, Disarm, ExchangeType
  <2>2. QueueType'
    BY <1>7, TypeParts DEF DisableTx, Disarm, QueueType
  <2>3. CountType'
    BY <1>7, Ft8Constants, TypeParts DEF DisableTx, Disarm, CountType
  <2>4. FlagType'
    BY <1>7, TypeParts DEF DisableTx, Disarm, FlagType
  <2>5. ClockType'
    BY <1>7, TypeParts DEF DisableTx, Disarm, ClockType
  <2>6. ListType'
    BY <1>7, TypeParts DEF DisableTx, Disarm, ListType
  <2>. QED
    BY <2>1, <2>2, <2>3, <2>4, <2>5, <2>6, TypePartsNext
<1>8. CASE SetAuto
  <2>1. ExchangeType'
    BY <1>8, TypeParts DEF SetAuto, ExchangeType
  <2>2. QueueType'
    BY <1>8, TypeParts DEF SetAuto, QueueType
  <2>3. CountType'
    BY <1>8, Ft8Constants, TypeParts DEF SetAuto, CountType
  <2>4. FlagType'
    BY <1>8, TypeParts DEF SetAuto, FlagType
  <2>5. ClockType'
    BY <1>8, TypeParts DEF SetAuto, ClockType
  <2>6. ListType'
    BY <1>8, TypeParts DEF SetAuto, ListType
  <2>. QED
    BY <2>1, <2>2, <2>3, <2>4, <2>5, <2>6, TypePartsNext
<1>9. CASE OtherMox
  <2>1. ExchangeType'
    BY <1>9, TypeParts DEF OtherMox, ExchangeType
  <2>2. QueueType'
    BY <1>9, TypeParts DEF OtherMox, QueueType
  <2>3. CountType'
    BY <1>9, Ft8Constants, TypeParts DEF OtherMox, CountType
  <2>4. FlagType'
    BY <1>9, TypeParts DEF OtherMox, FlagType
  <2>5. ClockType'
    BY <1>9, TypeParts DEF OtherMox, ClockType
  <2>6. ListType'
    BY <1>9, TypeParts DEF OtherMox, ListType
  <2>. QED
    BY <2>1, <2>2, <2>3, <2>4, <2>5, <2>6, TypePartsNext
<1>. QED
  BY <1>1, <1>2, <1>3, <1>4, <1>5, <1>6, <1>7, <1>8, <1>9 DEF Operator, States

\* What the poll takes from its copy of the list is a decode.
LEMMA HearsType ==
    ASSUME TypeOK, PollHears
    PROVE  /\ Head(todo) \in Heard
           /\ Tail(todo) \in Seq(Heard)
BY HeadTailProperties, TypeParts DEF ListType, PollHears

\* handle_decode, one kind of advance at a time.
LEMMA TypeHears ==
    ASSUME TypeOK, PollHears
    PROVE  TypeOK'
<1> DEFINE d == Head(todo)
<1>a. d \in Heard /\ todo' \in Seq(Heard)
  BY HearsType DEF PollHears
<1>b. d.from \in Dx
  BY <1>a DEF Heard
<1>c. HandleDecode(d)
  BY DEF PollHears
<1>d. UNCHANGED <<txEven, auto, handled, prevActive, prevEnabled, scheduler, decodes,
                  inPoll, due, clock, events>>
  BY DEF PollHears
<1>. HIDE DEF d
<1>1. CASE AnsweredCq(d)
  <2>1. ExchangeType'
    BY <1>1, TypeParts, <1>a, <1>b, <1>d
    DEF AnsweredCq, Advances, Queue, States, ExchangeType
  <2>2. QueueType'
    BY <1>1, MsgType, TypeParts, <1>a, <1>b, <1>d
    DEF AnsweredCq, Advances, Queue, States, QueueType
  <2>3. CountType'
    BY <1>1, Ft8Constants, TypeParts, <1>a, <1>b, <1>d
    DEF AnsweredCq, Advances, Queue, States, CountType
  <2>4. FlagType'
    BY <1>1, TypeParts, <1>a, <1>b, <1>d
    DEF AnsweredCq, Advances, Queue, States, FlagType
  <2>5. ClockType'
    BY <1>1, TypeParts, <1>a, <1>b, <1>d
    DEF AnsweredCq, Advances, Queue, States, ClockType
  <2>6. ListType'
    BY <1>1, TypeParts, <1>a, <1>b, <1>d
    DEF AnsweredCq, Advances, Queue, States, ListType
  <2>. QED
    BY <2>1, <2>2, <2>3, <2>4, <2>5, <2>6, TypePartsNext
<1>2. CASE ReportAcked(d)
  <2>1. ExchangeType'
    BY <1>2, TypeParts, <1>a, <1>b, <1>d
    DEF ReportAcked, Advances, Queue, Logs, States, ExchangeType
  <2>2. QueueType'
    BY <1>2, MsgType, TypeParts, <1>a, <1>b, <1>d
    DEF ReportAcked, Advances, Queue, Logs, States, QueueType
  <2>3. CountType'
    BY <1>2, Ft8Constants, TypeParts, <1>a, <1>b, <1>d
    DEF ReportAcked, Advances, Queue, Logs, States, CountType
  <2>4. FlagType'
    BY <1>2, TypeParts, <1>a, <1>b, <1>d
    DEF ReportAcked, Advances, Queue, Logs, States, FlagType
  <2>5. ClockType'
    BY <1>2, TypeParts, <1>a, <1>b, <1>d
    DEF ReportAcked, Advances, Queue, Logs, States, ClockType
  <2>6. ListType'
    BY <1>2, TypeParts, <1>a, <1>b, <1>d
    DEF ReportAcked, Advances, Queue, Logs, States, ListType
  <2>. QED
    BY <2>1, <2>2, <2>3, <2>4, <2>5, <2>6, TypePartsNext
<1>3. CASE Rr73Acked(d)
  <2>1. ExchangeType'
    BY <1>3, TypeParts, <1>a, <1>b, <1>d
    DEF Rr73Acked, GoIdle, Disarm, LogsNothing, States, ExchangeType
  <2>2. QueueType'
    BY <1>3, TypeParts, <1>a, <1>b, <1>d
    DEF Rr73Acked, GoIdle, Disarm, LogsNothing, States, QueueType
  <2>3. CountType'
    BY <1>3, Ft8Constants, TypeParts, <1>a, <1>b, <1>d
    DEF Rr73Acked, GoIdle, Disarm, LogsNothing, States, CountType
  <2>4. FlagType'
    BY <1>3, TypeParts, <1>a, <1>b, <1>d
    DEF Rr73Acked, GoIdle, Disarm, LogsNothing, States, FlagType
  <2>5. ClockType'
    BY <1>3, TypeParts, <1>a, <1>b, <1>d
    DEF Rr73Acked, GoIdle, Disarm, LogsNothing, States, ClockType
  <2>6. ListType'
    BY <1>3, TypeParts, <1>a, <1>b, <1>d
    DEF Rr73Acked, GoIdle, Disarm, LogsNothing, States, ListType
  <2>. QED
    BY <2>1, <2>2, <2>3, <2>4, <2>5, <2>6, TypePartsNext
<1>4. CASE GridReported(d)
  <2>1. ExchangeType'
    BY <1>4, TypeParts, <1>a, <1>b, <1>d
    DEF GridReported, Advances, Queue, LogsNothing, States, ExchangeType
  <2>2. QueueType'
    BY <1>4, MsgType, TypeParts, <1>a, <1>b, <1>d
    DEF GridReported, Advances, Queue, LogsNothing, States, QueueType
  <2>3. CountType'
    BY <1>4, Ft8Constants, TypeParts, <1>a, <1>b, <1>d
    DEF GridReported, Advances, Queue, LogsNothing, States, CountType
  <2>4. FlagType'
    BY <1>4, TypeParts, <1>a, <1>b, <1>d
    DEF GridReported, Advances, Queue, LogsNothing, States, FlagType
  <2>5. ClockType'
    BY <1>4, TypeParts, <1>a, <1>b, <1>d
    DEF GridReported, Advances, Queue, LogsNothing, States, ClockType
  <2>6. ListType'
    BY <1>4, TypeParts, <1>a, <1>b, <1>d
    DEF GridReported, Advances, Queue, LogsNothing, States, ListType
  <2>. QED
    BY <2>1, <2>2, <2>3, <2>4, <2>5, <2>6, TypePartsNext
<1>5. CASE AnswerAcked(d)
  <2>1. ExchangeType'
    BY <1>5, TypeParts, <1>a, <1>b, <1>d
    DEF AnswerAcked, Advances, Queue, Logs, States, ExchangeType
  <2>2. QueueType'
    BY <1>5, MsgType, TypeParts, <1>a, <1>b, <1>d
    DEF AnswerAcked, Advances, Queue, Logs, States, QueueType
  <2>3. CountType'
    BY <1>5, Ft8Constants, TypeParts, <1>a, <1>b, <1>d
    DEF AnswerAcked, Advances, Queue, Logs, States, CountType
  <2>4. FlagType'
    BY <1>5, TypeParts, <1>a, <1>b, <1>d
    DEF AnswerAcked, Advances, Queue, Logs, States, FlagType
  <2>5. ClockType'
    BY <1>5, TypeParts, <1>a, <1>b, <1>d
    DEF AnswerAcked, Advances, Queue, Logs, States, ClockType
  <2>6. ListType'
    BY <1>5, TypeParts, <1>a, <1>b, <1>d
    DEF AnswerAcked, Advances, Queue, Logs, States, ListType
  <2>. QED
    BY <2>1, <2>2, <2>3, <2>4, <2>5, <2>6, TypePartsNext
<1>6. CASE UNCHANGED <<state, dx, log, logged, enabled, queue, cycles, since, quiet, sender>>
  <2>1. ExchangeType'
    BY <1>6, TypeParts, <1>a, <1>b, <1>d DEF ExchangeType
  <2>2. QueueType'
    BY <1>6, TypeParts, <1>a, <1>b, <1>d DEF QueueType
  <2>3. CountType'
    BY <1>6, Ft8Constants, TypeParts, <1>a, <1>b, <1>d DEF CountType
  <2>4. FlagType'
    BY <1>6, TypeParts, <1>a, <1>b, <1>d DEF FlagType
  <2>5. ClockType'
    BY <1>6, TypeParts, <1>a, <1>b, <1>d DEF ClockType
  <2>6. ListType'
    BY <1>6, TypeParts, <1>a, <1>b, <1>d DEF ListType
  <2>. QED
    BY <2>1, <2>2, <2>3, <2>4, <2>5, <2>6, TypePartsNext
<1>. QED
  BY <1>1, <1>2, <1>3, <1>4, <1>5, <1>6, <1>c DEF HandleDecode

\* The count of transmissions saturates at its limit.
LEMMA CyclesType ==
    ASSUME TypeOK
    PROVE  Cycles \in 0..WATCHDOG_CYCLES
BY TypeParts, Ft8Constants DEF CountType, Cycles

\* qso_poll, part by part.
LEMMA TypePoll ==
    ASSUME TypeOK, Poll
    PROVE  TypeOK'
<1>1. CASE PollIdle
  <2>1. ExchangeType'
    BY <1>1, TypeParts DEF PollIdle, PollIsDue, ExchangeType
  <2>2. QueueType'
    BY <1>1, TypeParts DEF PollIdle, PollIsDue, QueueType
  <2>3. CountType'
    BY <1>1, Ft8Constants, TypeParts DEF PollIdle, PollIsDue, CountType
  <2>4. FlagType'
    BY <1>1, TypeParts DEF PollIdle, PollIsDue, FlagType
  <2>5. ClockType'
    BY <1>1, TypeParts DEF PollIdle, PollIsDue, ClockType
  <2>6. ListType'
    BY <1>1, TypeParts DEF PollIdle, PollIsDue, ListType
  <2>. QED
    BY <2>1, <2>2, <2>3, <2>4, <2>5, <2>6, TypePartsNext
<1>2. CASE PollBegin
  <2>1. ExchangeType'
    BY <1>2, TypeParts DEF PollBegin, PollIsDue, Since, Disarm, ExchangeType
  <2>2. QueueType'
    BY <1>2, TypeParts DEF PollBegin, PollIsDue, Since, Disarm, QueueType
  <2>3. CountType'
    <3>1. Since \in 0..(TX_WATCHDOG + 1)
      <4>1. CASE enabled /\ ~prevEnabled
        BY <4>1, Ft8Constants DEF Since
      <4>2. CASE ~(enabled /\ ~prevEnabled)
        BY <4>2, TypeParts DEF Since, CountType
      <4>. QED
        BY <4>1, <4>2
    <3>2. since' = Since /\ UNCHANGED <<cycles, quiet, events>>
      BY <1>2 DEF PollBegin
    <3>. QED
      BY <3>1, <3>2, TypeParts DEF CountType
  <2>4. FlagType'
    BY <1>2, TypeParts DEF PollBegin, Disarm, FlagType, ExchangeType
  <2>5. ClockType'
    BY <1>2, TypeParts DEF PollBegin, PollIsDue, Since, Disarm, ClockType
  <2>a. SubSeq(list, handled + 1, Len(list)) \in Seq(Heard)
    BY TypeParts, SubSeqProperties, LenProperties DEF ListType
  <2>6. ListType'
    BY <1>2, <2>a, TypeParts, LenProperties DEF PollBegin, ListType
  <2>. QED
    BY <2>1, <2>2, <2>3, <2>4, <2>5, <2>6, TypePartsNext
<1>3. CASE PollHears
  BY <1>3, TypeHears
<1>4. CASE PollFinishes
  <2>1. ExchangeType'
    BY <1>4, TypeParts
    DEF PollFinishes, PollEnds, GoIdle, Disarm, active, States, ExchangeType
  <2>2. QueueType'
    BY <1>4, TypeParts
    DEF PollFinishes, PollEnds, GoIdle, Disarm, active, States, QueueType
  <2>3. CountType'
    BY <1>4, Ft8Constants, TypeParts
    DEF PollFinishes, PollEnds, GoIdle, Disarm, active, States, CountType
  <2>4. FlagType'
    BY <1>4, TypeParts
    DEF PollFinishes, PollEnds, GoIdle, Disarm, active, States, FlagType
  <2>5. ClockType'
    BY <1>4, TypeParts
    DEF PollFinishes, PollEnds, GoIdle, Disarm, active, States, ClockType
  <2>6. ListType'
    BY <1>4, EmptySeq, TypeParts
    DEF PollFinishes, PollEnds, GoIdle, Disarm, active, States, ListType
  <2>. QED
    BY <2>1, <2>2, <2>3, <2>4, <2>5, <2>6, TypePartsNext
<1>5. CASE PollArms
  <2>1. ExchangeType'
    BY <1>5, TypeParts DEF PollArms, PollEnds, WantsArm, active, ExchangeType
  <2>2. QueueType'
    BY <1>5, TypeParts DEF PollArms, PollEnds, WantsArm, active, QueueType
  <2>3. CountType'
    BY <1>5, Ft8Constants, CyclesType, TypeParts
    DEF PollArms, PollEnds, WantsArm, active, CountType
  <2>4. FlagType'
    BY <1>5, TypeParts DEF PollArms, PollEnds, active, FlagType, ExchangeType
  <2>5. ClockType'
    BY <1>5, TypeParts DEF PollArms, PollEnds, WantsArm, active, ClockType
  <2>6. ListType'
    BY <1>5, EmptySeq, TypeParts DEF PollArms, PollEnds, WantsArm, active, ListType
  <2>. QED
    BY <2>1, <2>2, <2>3, <2>4, <2>5, <2>6, TypePartsNext
<1>6. CASE PollCannotEncode
  <2>1. ExchangeType'
    BY <1>6, TypeParts DEF PollCannotEncode, PollEnds, active, ExchangeType
  <2>2. QueueType'
    BY <1>6, TypeParts DEF PollCannotEncode, PollEnds, active, QueueType
  <2>3. CountType'
    BY <1>6, Ft8Constants, CyclesType, TypeParts
    DEF PollCannotEncode, PollEnds, active, CountType
  <2>4. FlagType'
    BY <1>6, TypeParts DEF PollCannotEncode, PollEnds, active, FlagType
  <2>5. ClockType'
    BY <1>6, TypeParts DEF PollCannotEncode, PollEnds, active, ClockType
  <2>6. ListType'
    BY <1>6, EmptySeq, TypeParts DEF PollCannotEncode, PollEnds, active, ListType
  <2>. QED
    BY <2>1, <2>2, <2>3, <2>4, <2>5, <2>6, TypePartsNext
<1>7. CASE PollRests
  <2>1. ExchangeType'
    BY <1>7, TypeParts DEF PollRests, PollEnds, active, ExchangeType
  <2>2. QueueType'
    BY <1>7, TypeParts DEF PollRests, PollEnds, active, QueueType
  <2>3. CountType'
    BY <1>7, Ft8Constants, CyclesType, TypeParts
    DEF PollRests, PollEnds, active, CountType
  <2>4. FlagType'
    BY <1>7, TypeParts DEF PollRests, PollEnds, active, FlagType
  <2>5. ClockType'
    BY <1>7, TypeParts DEF PollRests, PollEnds, active, ClockType
  <2>6. ListType'
    BY <1>7, EmptySeq, TypeParts DEF PollRests, PollEnds, active, ListType
  <2>. QED
    BY <2>1, <2>2, <2>3, <2>4, <2>5, <2>6, TypePartsNext
<1>. QED
  BY <1>1, <1>2, <1>3, <1>4, <1>5, <1>6, <1>7 DEF Poll

\* tx_tick.
LEMMA TypeTick ==
    ASSUME TypeOK, TxTick
    PROVE  TypeOK'
<1>. USE DEF Ticks
<1>1. CASE TickRemoved
  <2>1. ExchangeType'
    BY <1>1, TypeParts DEF TickRemoved, ExchangeType
  <2>2. QueueType'
    BY <1>1, TypeParts DEF TickRemoved, QueueType
  <2>3. CountType'
    BY <1>1, Ft8Constants, TypeParts DEF TickRemoved, CountType
  <2>4. FlagType'
    BY <1>1, TypeParts DEF TickRemoved, FlagType
  <2>5. ClockType'
    BY <1>1, TypeParts DEF TickRemoved, ClockType
  <2>6. ListType'
    BY <1>1, TypeParts DEF TickRemoved, ListType
  <2>. QED
    BY <2>1, <2>2, <2>3, <2>4, <2>5, <2>6, TypePartsNext
<1>2. CASE TickStops
  <2>1. ExchangeType'
    BY <1>2, TypeParts DEF TickStops, Disarm, ExchangeType
  <2>2. QueueType'
    BY <1>2, TypeParts DEF TickStops, Disarm, QueueType
  <2>3. CountType'
    BY <1>2, Ft8Constants, TypeParts DEF TickStops, Disarm, CountType
  <2>4. FlagType'
    BY <1>2, TypeParts DEF TickStops, Disarm, FlagType
  <2>5. ClockType'
    BY <1>2, TypeParts DEF TickStops, Disarm, ClockType
  <2>6. ListType'
    BY <1>2, TypeParts DEF TickStops, Disarm, ListType
  <2>. QED
    BY <2>1, <2>2, <2>3, <2>4, <2>5, <2>6, TypePartsNext
<1>3. CASE TickWaits
  <2>1. ExchangeType'
    BY <1>3, TypeParts DEF TickWaits, ExchangeType
  <2>2. QueueType'
    BY <1>3, TypeParts DEF TickWaits, QueueType
  <2>3. CountType'
    BY <1>3, Ft8Constants, TypeParts DEF TickWaits, CountType
  <2>4. FlagType'
    BY <1>3, TypeParts DEF TickWaits, FlagType
  <2>5. ClockType'
    BY <1>3, TypeParts DEF TickWaits, ClockType
  <2>6. ListType'
    BY <1>3, TypeParts DEF TickWaits, ListType
  <2>. QED
    BY <2>1, <2>2, <2>3, <2>4, <2>5, <2>6, TypePartsNext
<1>4. CASE TickKeysUp
  <2>1. ExchangeType'
    BY <1>4, TypeParts DEF TickKeysUp, ExchangeType
  <2>2. QueueType'
    BY <1>4, TypeParts DEF TickKeysUp, QueueType
  <2>3. CountType'
    BY <1>4, Ft8Constants, TypeParts DEF TickKeysUp, CountType
  <2>4. FlagType'
    BY <1>4, TypeParts DEF TickKeysUp, FlagType
  <2>5. ClockType'
    BY <1>4, TypeParts DEF TickKeysUp, ClockType
  <2>6. ListType'
    BY <1>4, TypeParts DEF TickKeysUp, ListType, Slots
  <2>. QED
    BY <2>1, <2>2, <2>3, <2>4, <2>5, <2>6, TypePartsNext
<1>. QED
  BY <1>1, <1>2, <1>3, <1>4 DEF TxTick

\* The audio thread, the decoder and the clock.
LEMMA TypeWorld ==
    ASSUME TypeOK, Played \/ Decoder \/ Clock
    PROVE  TypeOK'
<1>1. CASE Played
  <2>1. ExchangeType'
    BY <1>1, TypeParts DEF Played, ExchangeType
  <2>2. QueueType'
    BY <1>1, TypeParts DEF Played, QueueType
  <2>3. CountType'
    BY <1>1, Ft8Constants, TypeParts DEF Played, CountType
  <2>4. FlagType'
    BY <1>1, TypeParts DEF Played, FlagType
  <2>5. ClockType'
    BY <1>1, TypeParts DEF Played, ClockType
  <2>6. ListType'
    BY <1>1, TypeParts DEF Played, ListType
  <2>. QED
    BY <2>1, <2>2, <2>3, <2>4, <2>5, <2>6, TypePartsNext
<1>2. ASSUME NEW d \in Heard, NEW slot \in {"cur", "prev"}, Publish(d, slot)
      PROVE  TypeOK'
  <2>1. ExchangeType'
    BY <1>2, TypeParts DEF Publish, ExchangeType
  <2>2. QueueType'
    BY <1>2, TypeParts DEF Publish, QueueType
  <2>3. CountType'
    BY <1>2, Ft8Constants, TypeParts DEF Publish, CountType
  <2>4. FlagType'
    BY <1>2, TypeParts DEF Publish, FlagType
  <2>5. ClockType'
    BY <1>2, TypeParts DEF Publish, ClockType
  <2>a. d.from \in Dx
    BY DEF Heard
  <2>b. Append(list, d) \in Seq(Heard) /\ Len(Append(list, d)) = Len(list) + 1 /\ Len(list) \in Nat
    BY TypeParts, AppendProperties, LenProperties DEF ListType
  <2>c. <<d>> \in Seq(Heard) /\ Len(<<d>>) = 1
    OBVIOUS
  <2>6. ListType'
    <3>1. list' \in Seq(Heard) /\ handled' \in 0..Len(list') /\ listSlot' \in Slots
      <4>1. CASE listSlot = slot
        BY <1>2, <2>b, <4>1, TypeParts DEF Publish, ListType
      <4>2. CASE listSlot # slot
        <5>1. list' = <<d>> /\ handled' = 0 /\ listSlot' = slot
          BY <1>2, <4>2 DEF Publish
        <5>2. list' \in Seq(Heard) /\ Len(list') = 1
          BY <2>c, <5>1
        <5>. QED
          BY <5>1, <5>2 DEF Slots
      <4>. QED
        BY <4>1, <4>2
    <3>2. acked' \subseteq Dx
      BY <1>2, <2>a, TypeParts DEF Publish, ListType
    <3>3. UNCHANGED todo
      BY <1>2 DEF Publish
    <3>. QED
      BY <3>1, <3>2, <3>3, TypeParts DEF ListType
  <2>. QED
    BY <2>1, <2>2, <2>3, <2>4, <2>5, <2>6, TypePartsNext
<1>3. CASE WithinSlot
  <2>1. ExchangeType'
    BY <1>3, TypeParts DEF WithinSlot, Timers, ExchangeType
  <2>2. QueueType'
    BY <1>3, TypeParts DEF WithinSlot, Timers, QueueType
  <2>3. CountType'
    BY <1>3, Ft8Constants, TypeParts DEF WithinSlot, Timers, CountType
  <2>4. FlagType'
    BY <1>3, TypeParts DEF WithinSlot, Timers, FlagType
  <2>5. ClockType'
    BY <1>3, TypeParts DEF WithinSlot, Timers, ClockType
  <2>6. ListType'
    BY <1>3, TypeParts DEF WithinSlot, Timers, ListType
  <2>. QED
    BY <2>1, <2>2, <2>3, <2>4, <2>5, <2>6, TypePartsNext
<1>4. CASE NextSlot
  <2>1. ExchangeType'
    BY <1>4, TypeParts DEF NextSlot, Timers, ExchangeType
  <2>2. QueueType'
    BY <1>4, TypeParts DEF NextSlot, Timers, QueueType
  <2>3. CountType'
    BY <1>4, Ft8Constants, TypeParts DEF NextSlot, CountType, Aged
  <2>4. FlagType'
    BY <1>4, TypeParts DEF NextSlot, Timers, FlagType
  <2>5. ClockType'
    BY <1>4, TypeParts DEF NextSlot, Timers, ClockType
  <2>6. ListType'
    BY <1>4, TypeParts DEF NextSlot, ListType, Slots, Older
  <2>. QED
    BY <2>1, <2>2, <2>3, <2>4, <2>5, <2>6, TypePartsNext
<1>. QED
  BY <1>1, <1>2, <1>3, <1>4 DEF Decoder, Clock

\* Every step keeps the types.
LEMMA TypeStep ==
    ASSUME TypeOK, [Next]_vars
    PROVE  TypeOK'
<1>1. CASE Next
  BY <1>1, TypeOperator, TypePoll, TypeTick, TypeWorld DEF Next
<1>2. CASE UNCHANGED vars
  BY <1>2 DEF TypeOK, vars
<1>. QED
  BY <1>1, <1>2

-----------------------------------------------------------------------------
(* The sender: its MOX, and the gates it is behind *)

Sender == NoOrphanMox /\ SilentUnlessEnabled

\* Every path that ends a transmission or closes a gate disarms.
LEMMA SenderStep ==
    ASSUME Sender, [Next]_vars
    PROVE  Sender'
<1>. USE DEF Sender, NoOrphanMox, SilentUnlessEnabled, active
<1>1. CASE Operator
  <2>. USE DEF OperatorActs
  <2>1. ASSUME NEW x \in Dx, Answer(x) PROVE Sender'
    BY <2>1 DEF Answer, Begins
  <2>2. CASE SelectCq
    BY <2>2 DEF SelectCq, Begins
  <2>3. ASSUME NEW s \in States \ {"IDLE"}, NEW says, SelectTx(s, says) PROVE Sender'
    BY <2>3 DEF SelectTx, Begins
  <2>4. CASE SendFree
    BY <2>4 DEF SendFree, Begins
  <2>5. CASE Halt
    BY <2>5 DEF Halt, GoIdle, Disarm
  <2>6. CASE EnableTx
    BY <2>6 DEF EnableTx
  <2>7. CASE DisableTx
    BY <2>7 DEF DisableTx, Disarm
  <2>8. CASE SetAuto
    BY <2>8 DEF SetAuto
  <2>9. CASE OtherMox
    BY <2>9 DEF OtherMox
  <2>. QED
    BY <1>1, <2>1, <2>2, <2>3, <2>4, <2>5, <2>6, <2>7, <2>8, <2>9 DEF Operator, States
<1>2. CASE Poll
  <2>1. CASE PollIdle
    BY <2>1 DEF PollIdle
  <2>2. CASE PollBegin
    BY <2>2 DEF PollBegin, Disarm
  <2>3. ASSUME NEW d, HandleDecode(d), PollHears PROVE Sender'
    <3>1. CASE Rr73Acked(d)
      BY <2>3, <3>1 DEF PollHears, Rr73Acked, GoIdle, Disarm
    <3>2. ASSUME NEW s \in States \ {"IDLE"}, NEW m, Advances(s, m) PROVE Sender'
      BY <2>3, <3>2 DEF PollHears, Advances
    <3>3. CASE UNCHANGED <<state, enabled, sender>>
      BY <2>3, <3>3 DEF PollHears
    <3>. QED
      BY <2>3, <3>1, <3>2, <3>3
      DEF HandleDecode, AnsweredCq, ReportAcked, GridReported, AnswerAcked, States
  <2>4. CASE PollFinishes
    BY <2>4 DEF PollFinishes, GoIdle, Disarm
  <2>5. CASE PollArms
    BY <2>5 DEF PollArms, WantsArm
  <2>6. CASE PollCannotEncode
    BY <2>6 DEF PollCannotEncode
  <2>7. CASE PollRests
    BY <2>7 DEF PollRests
  <2>. QED
    BY <1>2, <2>1, <2>2, <2>3, <2>4, <2>5, <2>6, <2>7 DEF Poll, PollHears
<1>3. CASE TxTick
  <2>. USE DEF Ticks
  <2>1. CASE TickRemoved
    BY <2>1 DEF TickRemoved
  <2>2. CASE TickStops
    BY <2>2 DEF TickStops, Disarm
  <2>3. CASE TickWaits
    BY <2>3 DEF TickWaits
  <2>4. CASE TickKeysUp
    BY <2>4 DEF TickKeysUp
  <2>. QED
    BY <1>3, <2>1, <2>2, <2>3, <2>4 DEF TxTick
<1>4. CASE Played
  BY <1>4 DEF Played
<1>5. ASSUME NEW d, NEW slot, Publish(d, slot) PROVE Sender'
  BY <1>5 DEF Publish
<1>6. CASE Clock
  BY <1>6 DEF Clock, WithinSlot, NextSlot
<1>7. CASE UNCHANGED vars
  BY <1>7 DEF vars
<1>. QED
  BY <1>1, <1>2, <1>3, <1>4, <1>5, <1>6, <1>7 DEF Next, Decoder

-----------------------------------------------------------------------------
(* What the waveform says *)

\* prepared_msg, where it is set, is what a waveform says; an open exchange has
\* a message; and an armed waveform says it unless the running poll is going to
\* arm again.
Synthesis ==
    /\ wave # NULL /\ prepared # NULL => wave = prepared
    /\ state # "IDLE" => pending # NULL
    /\ armed /\ ~active /\ wave # NULL /\ prepared # NULL /\ (inPoll => ~needArm)
          => wave = pending

\* A built message is a message: pending is set wherever an exchange is open.
LEMMA MsgNotNull ==
    ASSUME TypeOK,
           NEW says \in {"CQ", "grid", "report", "rreport", "RR73", "73", "free"}
    PROVE  /\ Msg(NULL, says) # NULL
           /\ Msg(dx, says) # NULL
           /\ \A x \in Dx : Msg(x, says) # NULL
BY MsgType, Ft8Constants, TypeParts DEF ExchangeType

\* No step leaves a waveform armed that says something else.
LEMMA SynthesisStep ==
    ASSUME TypeOK, Sender, Synthesis, [Next]_vars
    PROVE  Synthesis'
<1>. USE DEF Synthesis, active
<1>1. CASE Operator
  <2>. USE DEF OperatorActs
  <2>1. ASSUME NEW st, NEW m, m # NULL, Begins(st, m), OperatorActs PROVE Synthesis'
    BY <2>1 DEF Begins, Queue
  <2>2. ASSUME NEW x \in Dx, Answer(x) PROVE Synthesis'
    BY <2>1, <2>2, MsgNotNull DEF Answer
  <2>3. CASE SelectCq
    BY <2>1, <2>3, MsgNotNull DEF SelectCq
  <2>4. ASSUME NEW st, NEW says \in {"grid", "report", "rreport", "RR73", "73"},
               SelectTx(st, says)
        PROVE  Synthesis'
    BY <2>1, <2>4, MsgNotNull DEF SelectTx
  <2>5. CASE SendFree
    BY <2>1, <2>5, MsgNotNull DEF SendFree
  <2>6. CASE Halt
    BY <2>6 DEF Halt, GoIdle, Disarm
  <2>7. CASE EnableTx
    BY <2>7 DEF EnableTx
  <2>8. CASE DisableTx
    BY <2>8 DEF DisableTx, Disarm
  <2>9. CASE SetAuto
    BY <2>9 DEF SetAuto
  <2>10. CASE OtherMox
    BY <2>10 DEF OtherMox
  <2>. QED
    BY <1>1, <2>2, <2>3, <2>4, <2>5, <2>6, <2>7, <2>8, <2>9, <2>10 DEF Operator
<1>2. CASE Poll
  <2>1. CASE PollIdle
    BY <2>1 DEF PollIdle
  <2>2. CASE PollBegin
    BY <2>2 DEF PollBegin, PollIsDue, Disarm
  <2>3. ASSUME NEW d \in Heard, HandleDecode(d), PollHears PROVE Synthesis'
    <3>a. d.from \in Dx
      BY DEF Heard
    <3>1. CASE Rr73Acked(d)
      BY <2>3, <3>1 DEF PollHears, Rr73Acked, GoIdle, Disarm
    <3>2. ASSUME NEW st, NEW m, m # NULL, Advances(st, m) PROVE Synthesis'
      BY <2>3, <3>2 DEF PollHears, Advances, Queue
    <3>3. CASE UNCHANGED <<state, queue, sender>>
      BY <2>3, <3>3 DEF PollHears
    <3>. QED
      BY <2>3, <3>a, <3>1, <3>2, <3>3, MsgNotNull
      DEF HandleDecode, AnsweredCq, ReportAcked, GridReported, AnswerAcked
  <2>4. CASE PollFinishes
    BY <2>4 DEF PollFinishes, GoIdle, Disarm
  <2>5. CASE PollArms
    BY <2>5 DEF PollArms, WantsArm
  <2>6. CASE PollCannotEncode
    BY <2>6 DEF PollCannotEncode
  <2>7. CASE PollRests
    BY <2>7 DEF PollRests, PollEnds, WantsArm, Sender, SilentUnlessEnabled
  <2>. QED
    BY <1>2, <2>1, <2>2, <2>3, <2>4, <2>5, <2>6, <2>7, HearsType DEF Poll, PollHears
<1>3. CASE TxTick
  <2>. USE DEF Ticks
  <2>1. CASE TickRemoved
    BY <2>1 DEF TickRemoved
  <2>2. CASE TickStops
    BY <2>2 DEF TickStops, Disarm
  <2>3. CASE TickWaits
    BY <2>3 DEF TickWaits
  <2>4. CASE TickKeysUp
    BY <2>4 DEF TickKeysUp
  <2>. QED
    BY <1>3, <2>1, <2>2, <2>3, <2>4 DEF TxTick
<1>4. CASE Played
  BY <1>4 DEF Played
<1>5. ASSUME NEW d, NEW slot, Publish(d, slot) PROVE Synthesis'
  BY <1>5 DEF Publish
<1>6. CASE Clock
  BY <1>6 DEF Clock, WithinSlot, NextSlot
<1>7. CASE UNCHANGED vars
  BY <1>7 DEF vars
<1>. QED
  BY <1>1, <1>2, <1>3, <1>4, <1>5, <1>6, <1>7 DEF Next, Decoder

-----------------------------------------------------------------------------
(* What the log says *)

\* Every acknowledgement in the list, or in the copy the poll works on, is known.
KnownAcks(s) ==
    \A i \in 1..Len(s) : s[i].says \in RemoteAcks => s[i].from \in acked

Acknowledged == KnownAcks(list) /\ KnownAcks(todo) /\ LoggedHaveAcked

\* same_dx and the kinds of decode that log: only who acknowledged is logged.
LEMMA AcknowledgedStep ==
    ASSUME TypeOK, Acknowledged, [Next]_vars
    PROVE  Acknowledged'
<1>. USE DEF Acknowledged, LoggedHaveAcked, KnownAcks
<1>1. CASE UNCHANGED <<list, todo, acked, log>>
  BY <1>1
<1>2. CASE PollBegin
  <2>1. list \in Seq(Heard) /\ handled \in 0..Len(list) /\ Len(list) \in Nat
    BY TypeParts, LenProperties DEF ListType
  <2>2. ASSUME NEW i \in 1..Len(todo')
        PROVE  i + handled \in 1..Len(list) /\ todo'[i] = list[i + handled]
    BY <1>2, <2>1, <2>2, SubSeqProperties DEF PollBegin
  <2>3. UNCHANGED <<list, acked, log>>
    BY <1>2 DEF PollBegin
  <2>. QED
    BY <2>2, <2>3
<1>3. CASE PollHears
  <2> DEFINE d == Head(todo)
  <2>1. todo \in Seq(Heard) /\ todo # <<>> /\ todo' = Tail(todo) /\ UNCHANGED <<list, acked>>
    BY <1>3, TypeParts DEF PollHears, ListType
  <2>2. Len(todo) \in Nat \ {0} /\ Len(todo') = Len(todo) - 1 /\ d = todo[1]
        /\ \A i \in 1..Len(todo') : todo'[i] = todo[i + 1]
    BY <2>1, HeadTailProperties, LenProperties, EmptySeq
  <2>3. KnownAcks(todo)'
    BY <2>1, <2>2
  <2>4. d.says \in RemoteAcks => d.from \in acked
    BY <2>2
  <2>5. log' \subseteq acked
    <3>1. CASE Logs /\ d.from = dx /\ d.says \in RemoteAcks
      BY <2>4, <3>1 DEF Logs
    <3>2. CASE UNCHANGED log
      BY <3>2
    <3>. QED
      BY <1>3, <3>1, <3>2
      DEF PollHears, HandleDecode, AnsweredCq, ReportAcked, Rr73Acked, GridReported,
          AnswerAcked, LogsNothing, RemoteAcks
  <2>. QED
    BY <2>1, <2>3, <2>5
<1>4. CASE PollEnds
  BY <1>4, EmptySeq DEF PollEnds
<1>5. ASSUME NEW d \in Heard, NEW slot, Publish(d, slot) PROVE Acknowledged'
  <2>1. list \in Seq(Heard)
    BY TypeParts DEF ListType
  <2>2. acked \subseteq acked' /\ (d.says \in RemoteAcks => d.from \in acked')
        /\ UNCHANGED <<todo, log>>
    BY <1>5 DEF Publish
  <2>3. list' = Append(list, d) \/ list' = <<d>>
    BY <1>5 DEF Publish
  <2>4. KnownAcks(list)'
    <3>1. CASE list' = <<d>>
      BY <2>2, <3>1
    <3>2. CASE list' = Append(list, d)
      BY <2>1, <2>2, <3>2, AppendProperties, LenProperties
    <3>. QED
      BY <2>3, <3>1, <3>2
  <2>. QED
    BY <2>2, <2>4
<1>. QED
  <2>1. CASE Operator
    BY <1>1, <2>1
    DEF Operator, OperatorActs, Answer, SelectCq, SelectTx, SendFree, Begins, Halt,
        EnableTx, DisableTx, SetAuto, OtherMox
  <2>2. CASE Poll
    BY <1>1, <1>2, <1>3, <1>4, <2>2
    DEF Poll, PollIdle, PollFinishes, PollArms, PollCannotEncode, PollRests
  <2>3. CASE TxTick
    BY <1>1, <2>3 DEF TxTick, TickRemoved, TickStops, TickWaits, TickKeysUp, Ticks
  <2>4. CASE Played \/ Clock
    BY <1>1, <2>4 DEF Played, Clock, WithinSlot, NextSlot
  <2>5. CASE UNCHANGED vars
    BY <1>1, <2>5 DEF vars
  <2>. QED
    BY <1>5, <2>1, <2>2, <2>3, <2>4, <2>5 DEF Next, Decoder

-----------------------------------------------------------------------------
(* The Tx watchdog *)

\* The poll's own memory of Enable Tx says whether the age it measures counts.
\* If it does, it lags behind the quiet slots by at most the boundary between a
\* click and the poll after it, and past the limit that poll is due; if not,
\* the poll that makes it count is due as soon as a boundary has passed.
Watchdog ==
    OnTheJob =>
      /\ inPoll => prevEnabled /\ since <= TX_WATCHDOG
      /\ prevEnabled => /\ quiet <= since + 1
                        /\ since <= TX_WATCHDOG \/ quiet = 0 \/ "poll" \in due
      /\ ~prevEnabled => quiet = 0 \/ (quiet = 1 /\ "poll" \in due)

\* Clicks, polls and slot boundaries in any order keep the age in step.
LEMMA WatchdogStep ==
    ASSUME TypeOK, Watchdog, [Next]_vars
    PROVE  Watchdog'
<1>. USE DEF Watchdog, OnTheJob
<1>0. /\ cycles \in Nat /\ since \in 0..(TX_WATCHDOG + 1)
      /\ quiet \in Nat /\ TX_WATCHDOG \in Nat
  BY TypeParts, Ft8Constants DEF CountType
<1>1. CASE Operator
  <2>1. quiet' = 0 /\ UNCHANGED <<inPoll, due>> /\ ~inPoll
    BY <1>1
    DEF Operator, OperatorActs, Answer, SelectCq, SelectTx, SendFree, Halt, EnableTx,
        DisableTx, SetAuto, OtherMox
  <2>2. since' = since
    BY <1>1
    DEF Operator, OperatorActs, Answer, SelectCq, SelectTx, SendFree, Begins, Halt,
        EnableTx, DisableTx, SetAuto, OtherMox
  <2>. QED
    BY <1>0, <2>1, <2>2
<1>2. CASE Poll
  <2>1. CASE PollIdle
    BY <2>1 DEF PollIdle
  <2>2. CASE PollBegin
    <3>1. CASE ~(enabled /\ Since > TX_WATCHDOG) /\ OnTheJob
      <4>1. UNCHANGED <<state, enabled, quiet, due>> /\ since' = Since /\ prevEnabled' = enabled
        BY <2>2, <3>1 DEF PollBegin
      <4>2. Since \in Nat /\ Since <= TX_WATCHDOG
        BY <1>0, <3>1 DEF Since
      <4>3. quiet <= Since + 1
        BY <1>0, <3>1 DEF Since
      <4>. QED
        BY <1>0, <3>1, <4>1, <4>2, <4>3
    <3>2. CASE enabled /\ Since > TX_WATCHDOG
      BY <2>2, <3>2 DEF PollBegin
    <3>3. CASE ~OnTheJob
      BY <2>2, <3>3 DEF PollBegin
    <3>. QED
      BY <3>1, <3>2, <3>3
  <2>3. ASSUME NEW d, HandleDecode(d), PollHears PROVE Watchdog'
    <3>1. CASE Rr73Acked(d)
      BY <2>3, <3>1 DEF Rr73Acked, GoIdle
    <3>2. ASSUME NEW st, NEW m, Advances(st, m) PROVE Watchdog'
      <4>1. since' = 0 /\ quiet' = 0 /\ UNCHANGED <<prevEnabled, inPoll, due, enabled>>
        BY <2>3, <3>2 DEF PollHears, Advances
      <4>2. enabled => prevEnabled
        BY <2>3 DEF PollHears, OnTheJob
      <4>. QED
        BY <1>0, <4>1, <4>2
    <3>3. CASE UNCHANGED <<state, enabled, since, quiet>>
      BY <2>3, <3>3 DEF PollHears
    <3>. QED
      BY <2>3, <3>1, <3>2, <3>3
      DEF HandleDecode, AnsweredCq, ReportAcked, GridReported, AnswerAcked
  <2>4. CASE PollFinishes
    BY <2>4 DEF PollFinishes, GoIdle
  <2>5. CASE PollArms \/ PollCannotEncode \/ PollRests
    <3>1. /\ inPoll /\ ~inPoll'
          /\ UNCHANGED <<state, enabled, prevEnabled, since, quiet>>
      BY <2>5 DEF PollArms, PollCannotEncode, PollRests, PollEnds
    <3>. QED
      BY <1>0, <3>1
  <2>. QED
    BY <1>2, <2>1, <2>2, <2>3, <2>4, <2>5 DEF Poll, PollHears
<1>3. CASE TxTick
  <2>1. /\ UNCHANGED <<state, enabled, prevEnabled, since, quiet, inPoll>>
        /\ due' = due \ {"tick"}
    BY <1>3 DEF TxTick, TickRemoved, TickStops, TickWaits, TickKeysUp, Ticks
  <2>. QED
    BY <2>1
<1>4. CASE Clock
  <2>1. /\ UNCHANGED <<state, enabled, prevEnabled, inPoll>> /\ ~inPoll
        /\ due = {} /\ "poll" \in due'
    BY <1>4 DEF Clock, WithinSlot, NextSlot, Timers
  <2>2. CASE WithinSlot
    BY <2>1, <2>2 DEF WithinSlot
  <2>3. CASE NextSlot
    BY <1>0, <2>1, <2>3 DEF NextSlot, Aged
  <2>. QED
    BY <1>4, <2>2, <2>3 DEF Clock
<1>5. CASE Played \/ Decoder \/ UNCHANGED vars
  BY <1>5 DEF Played, Decoder, Publish, vars
<1>. QED
  BY <1>1, <1>2, <1>3, <1>4, <1>5 DEF Next

-----------------------------------------------------------------------------
(* The theorems *)

IInv == TypeOK /\ Sender /\ Synthesis /\ Acknowledged /\ Watchdog

\* The inductive invariant holds at the start ...
LEMMA IInvInit == Init => IInv
<1>1. SUFFICES ASSUME Init PROVE IInv
  OBVIOUS
<1>2. TypeOK
  BY <1>1, TypeInit
<1>3. Sender /\ Synthesis /\ Watchdog
  BY <1>1
  DEF Init, Sender, NoOrphanMox, SilentUnlessEnabled, Synthesis, Watchdog, OnTheJob, active
<1>4. Acknowledged
  BY <1>1, EmptySeq DEF Init, Acknowledged, KnownAcks, LoggedHaveAcked
<1>. QED
  BY <1>2, <1>3, <1>4 DEF IInv

\* ... and every step keeps it.
LEMMA Invariance == Spec => []IInv
<1>1. IInv /\ [Next]_vars => IInv'
  BY TypeStep, SenderStep, SynthesisStep, AcknowledgedStep, WatchdogStep DEF IInv
<1>. QED
  BY IInvInit, <1>1, PTL DEF Spec

(* Every variable of the sequencer and of the sender keeps to its values,   *)
(* whatever the decodes, clicks and slots.                                  *)
THEOREM TypesHold == Spec => []TypeOK
BY Invariance, PTL DEF IInv

(* MOX that the FT8 sender raised belongs to a running transmission whose   *)
(* tick will drop it, on every path that ends one.                          *)
THEOREM MoxIsNeverOrphaned == Spec => []NoOrphanMox
BY Invariance, PTL DEF IInv, Sender

(* Nothing is armed or on the air behind a closed exchange or Enable Tx.    *)
THEOREM SilentBehindItsGates == Spec => []SilentUnlessEnabled
BY Invariance, PTL DEF IInv, Sender

(* A waveform that waits for its slot says the queued message.              *)
THEOREM ArmedIsPending == Spec => []ArmedSaysPending
<1>1. IInv => ArmedSaysPending
  BY DEF IInv, Synthesis, ArmedSaysPending
<1>. QED
  BY <1>1, Invariance, PTL

(* Whoever is in the log has acknowledged us.                               *)
THEOREM LogIsAcknowledged == Spec => []LoggedHaveAcked
BY Invariance, PTL DEF IInv, Acknowledged

(* A call that nobody answers and nobody touches ends within two slots of   *)
(* the limit.                                                               *)
THEOREM ForgottenTxEnds == Spec => []ForgottenTxStops
<1>1. IInv => ForgottenTxStops
  <2>1. SUFFICES ASSUME IInv, OnTheJob PROVE quiet <= TX_WATCHDOG + 2
    BY DEF ForgottenTxStops
  <2>2. since \in 0..(TX_WATCHDOG + 1) /\ quiet \in Nat /\ TX_WATCHDOG \in Nat
    BY <2>1, TypeParts, Ft8Constants DEF IInv, CountType
  <2>. QED
    BY <2>1, <2>2 DEF IInv, Watchdog
<1>. QED
  BY <1>1, Invariance, PTL
-----------------------------------------------------------------------------
(* What the exchange has said *)

\* The message of each state, and the ones its exchange may have said before.
SaysIn ==
    [CALLING_CQ |-> "CQ", CQ_SENT_REPORT |-> "report", CQ_SENT_RR73 |-> "RR73",
     ANS_SENT_GRID |-> "grid", ANS_SENT_RREPORT |-> "rreport", ANS_SENT_73 |-> "73",
     FREE |-> "free"]

SaidBefore(s) ==
    CASE s = "CQ_SENT_REPORT"   -> {"CQ"}
      [] s = "CQ_SENT_RR73"     -> {"CQ", "report"}
      [] s = "ANS_SENT_RREPORT" -> {"grid"}
      [] s = "ANS_SENT_73"      -> {"grid", "rreport"}
      [] OTHER                  -> {}

\* An exchange queues the message of its state, and prepared_msg is that one or
\* one from before: decodes only move an exchange on, and a click clears it.
Spoken ==
    /\ state = "IDLE" => pending = NULL /\ prepared = NULL
    /\ state # "IDLE" => /\ pending # NULL /\ pending.says = SaysIn[state]
                         /\ prepared # NULL
                              => prepared.says \in SaidBefore(state) \cup {SaysIn[state]}
    /\ state = "ANS_SENT_73" => pending.to = dx

\* A queued message that has been synthesized, or is not waiting to be armed, is
\* the one the waveform says.
Served ==
    /\ pending # NULL /\ pending = prepared => wave = pending
    /\ pending # NULL /\ ~needArm => wave = pending

\* What a message built by Msg says, and to whom.
LEMMA MsgFields ==
    ASSUME NEW to, NEW says
    PROVE  Msg(to, says).says = says /\ Msg(to, says).to = to
BY DEF Msg

\* A decode moves the exchange on to a message it has not said yet.
LEMMA HearsSpoken ==
    ASSUME TypeOK, Spoken, Served, NEW d \in Heard, HandleDecode(d), PollHears
    PROVE  Spoken' /\ Served'
<1>. USE DEF Spoken, Served
<1>a. state \in States /\ state # "IDLE" /\ d.from \in Dx
  BY TypeParts DEF PollHears, ExchangeType, Heard
<1>1. CASE Rr73Acked(d)
  BY <1>1 DEF PollHears, Rr73Acked, GoIdle, Disarm
<1>2. ASSUME NEW st, NEW to \in Dx \cup {NULL}, NEW says,
             Advances(st, Msg(to, says)),
             Msg(to, says) # NULL,
             st # "IDLE", says = SaysIn[st], says \notin SaidBefore(state) \cup {SaysIn[state]},
             SaidBefore(state) \cup {SaysIn[state]} \subseteq SaidBefore(st),
             st = "ANS_SENT_73" => to = dx'
      PROVE  Spoken' /\ Served'
  <2> DEFINE m == Msg(to, says)
  <2>1. /\ state' = st /\ pending' = m /\ needArm' = TRUE
        /\ prepared' = prepared /\ wave' = wave
    BY <1>2 DEF PollHears, Advances, Queue
  <2>2. m # NULL /\ m.says = says /\ m.to = to
    BY <1>2, MsgFields
  <2> HIDE DEF m
  <2>3. prepared # NULL => prepared.says \in SaidBefore(state) \cup {SaysIn[state]}
    BY <1>a
  <2>4. prepared # m
    BY <1>2, <2>2, <2>3
  <2>5. prepared # NULL => prepared.says \in SaidBefore(st)
    BY <1>2, <2>3
  <2>6. Spoken'
    BY <1>2, <2>1, <2>2, <2>5
  <2>7. Served'
    BY <2>1, <2>2, <2>4
  <2>. QED
    BY <2>6, <2>7
<1>3. CASE AnsweredCq(d)
  <2>1. Msg(d.from, "report") # NULL
    BY <1>a, MsgNotNull
  <2>. QED
    BY <1>2, <1>3, <1>a, <2>1 DEF AnsweredCq, SaysIn, SaidBefore
<1>4. CASE ReportAcked(d)
  <2>1. Msg(dx, "RR73") # NULL /\ dx \in Dx \cup {NULL}
    BY MsgNotNull, TypeParts DEF ExchangeType
  <2>. QED
    BY <1>2, <1>4, <2>1 DEF ReportAcked, SaysIn, SaidBefore
<1>5. CASE GridReported(d)
  <2>1. Msg(dx, "rreport") # NULL /\ dx \in Dx \cup {NULL}
    BY MsgNotNull, TypeParts DEF ExchangeType
  <2>. QED
    BY <1>2, <1>5, <2>1 DEF GridReported, SaysIn, SaidBefore
<1>6. CASE AnswerAcked(d)
  <2>1. Msg(dx, "73") # NULL /\ dx \in Dx \cup {NULL} /\ dx' = dx
    BY <1>6, MsgNotNull, TypeParts DEF ExchangeType, AnswerAcked, Logs
  <2>. QED
    BY <1>2, <1>6, <2>1 DEF AnswerAcked, SaysIn, SaidBefore
<1>7. CASE UNCHANGED <<state, dx, queue>>
  BY <1>7 DEF PollHears
<1>. QED
  BY <1>1, <1>3, <1>4, <1>5, <1>6, <1>7 DEF HandleDecode

\* Every step keeps both.
LEMMA SpokenStep ==
    ASSUME TypeOK, Spoken, Served, [Next]_vars
    PROVE  Spoken' /\ Served'
<1>. USE DEF Spoken, Served
<1>1. CASE Operator
  <2>. USE DEF OperatorActs
  <2>1. ASSUME NEW st, NEW to \in Dx \cup {NULL}, NEW says, Msg(to, says) # NULL,
               st # "IDLE", says = SaysIn[st], st = "ANS_SENT_73" => to = dx',
               Begins(st, Msg(to, says)), OperatorActs
        PROVE  Spoken' /\ Served'
    BY <2>1, MsgFields DEF Begins, Queue
  <2>2. ASSUME NEW x \in Dx, Answer(x) PROVE Spoken' /\ Served'
    <3>1. Msg(x, "grid") # NULL
      BY MsgNotNull
    <3>. QED
      BY <2>1, <2>2, <3>1 DEF Answer, SaysIn
  <2>3. CASE SelectCq
    <3>1. Msg(NULL, "CQ") # NULL
      BY MsgNotNull
    <3>. QED
      BY <2>1, <2>3, <3>1 DEF SelectCq, SaysIn
  <2>4. ASSUME NEW st, NEW says \in {"grid", "report", "rreport", "RR73", "73"},
               st # "IDLE", says = SaysIn[st], SelectTx(st, says)
        PROVE  Spoken' /\ Served'
    <3>1. Msg(dx, says) # NULL /\ dx \in Dx \cup {NULL}
      BY MsgNotNull, TypeParts DEF ExchangeType
    <3>. QED
      BY <2>1, <2>4, <3>1 DEF SelectTx
  <2>5. CASE SendFree
    <3>1. Msg(NULL, "free") # NULL
      BY MsgNotNull
    <3>. QED
      BY <2>1, <2>5, <3>1 DEF SendFree, SaysIn
  <2>6. CASE Halt
    BY <2>6 DEF Halt, GoIdle, Disarm
  <2>7. CASE EnableTx
    BY <2>7 DEF EnableTx
  <2>8. CASE DisableTx \/ SetAuto \/ OtherMox
    BY <2>8 DEF DisableTx, SetAuto, OtherMox, Disarm
  <2>9. \/ SelectTx("ANS_SENT_GRID", "grid") \/ SelectTx("CQ_SENT_REPORT", "report")
        \/ SelectTx("ANS_SENT_RREPORT", "rreport") \/ SelectTx("CQ_SENT_RR73", "RR73")
        \/ SelectTx("ANS_SENT_73", "73")
        => Spoken' /\ Served'
    BY <2>4 DEF SaysIn
  <2>. QED
    BY <1>1, <2>2, <2>3, <2>5, <2>6, <2>7, <2>8, <2>9 DEF Operator
<1>2. CASE Poll
  <2>1. CASE PollIdle \/ PollBegin
    BY <2>1 DEF PollIdle, PollBegin, PollIsDue, Disarm
  <2>2. CASE PollHears
    BY <2>2, HearsSpoken, HearsType DEF PollHears
  <2>3. CASE PollFinishes
    BY <2>3 DEF PollFinishes, PollEnds, GoIdle, Disarm
  <2>4. CASE PollArms
    BY <2>4 DEF PollArms, PollEnds, WantsArm
  <2>5. CASE PollCannotEncode
    BY <2>5 DEF PollCannotEncode, PollEnds, WantsArm
  <2>6. CASE PollRests
    BY <2>6 DEF PollRests, PollEnds
  <2>. QED
    BY <1>2, <2>1, <2>2, <2>3, <2>4, <2>5, <2>6 DEF Poll
<1>3. CASE TxTick \/ Played \/ Decoder \/ Clock \/ UNCHANGED vars
  <2>1. UNCHANGED <<state, dx, queue, wave>>
    BY <1>3 DEF TxTick, TickRemoved, TickStops, TickWaits, TickKeysUp, Ticks, Played,
                Decoder, Publish, Clock, WithinSlot, NextSlot, vars
  <2>. QED
    BY <2>1
<1>. QED
  BY <1>1, <1>2, <1>3 DEF Next

\* Both hold throughout.
LEMMA AlwaysSpoken == Spec => [](IInv /\ Spoken /\ Served)
<1>1. Init => IInv /\ Spoken /\ Served
  BY IInvInit DEF Init, Spoken, Served
<1>2. IInv /\ Spoken /\ Served /\ [Next]_vars => Spoken' /\ Served'
  BY SpokenStep DEF IInv
<1>. QED
  BY <1>1, <1>2, Invariance, PTL DEF Spec

(* A message is taken off the queue only with a waveform that says it:      *)
(* neither a failed encoding nor a waveform left over from the message      *)
(* before ends its wait (need_arm, prepared_msg and wave_len in qso_poll).  *)
QueuedIsSynthesized == state # "IDLE" /\ ~needArm => wave = pending

THEOREM NothingLeavesTheQueueUnsaid == Spec => []QueuedIsSynthesized
<1>1. Spoken /\ Served => QueuedIsSynthesized
  BY DEF Spoken, Served, QueuedIsSynthesized
<1>. QED
  BY <1>1, AlwaysSpoken, PTL

(* FinalSentOnce fails in one way only: the poll that completes an exchange *)
(* in ANS_SENT_73 without a 73 still has the 73 waiting to be armed, so a   *)
(* look at need_arm is all that its test (ft8_qso.c:461) is short of.       *)
FinalSentUnlessWaiting ==
    [][PollFinishes /\ state = "ANS_SENT_73" /\ ~needArm => wave = Msg(dx, "73")]_vars

THEOREM OnlyWaitingFinalsAreLost == Spec => FinalSentUnlessWaiting
<1> DEFINE A == PollFinishes /\ state = "ANS_SENT_73" /\ ~needArm => wave = Msg(dx, "73")
<1>1. IInv /\ Spoken /\ Served /\ [Next]_vars => [A]_vars
  <2>1. SUFFICES ASSUME IInv, Spoken, Served, state = "ANS_SENT_73", ~needArm
                 PROVE  wave = Msg(dx, "73")
    OBVIOUS
  <2>2. wave = pending /\ pending # NULL /\ pending.says = "73" /\ pending.to = dx
    BY <2>1 DEF Spoken, Served, SaysIn
  <2>3. pending \in Message
    BY <2>1, <2>2, TypeParts DEF IInv, QueueType
  <2>. QED
    BY <2>2, <2>3 DEF Message, Msg
<1>2. Spec => [][A]_vars
  BY <1>1, AlwaysSpoken, PTL DEF Spec
<1>. QED
  BY <1>2 DEF FinalSentUnlessWaiting
=============================================================================
