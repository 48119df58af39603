--------------------------- MODULE TxKeyingProofs ---------------------------
(***************************************************************************)
(* What the run of TxKeying checks with one receiver and one pending idle, *)
(* proved for every number of each.                                        *)
(***************************************************************************)
EXTENDS TxKeying, SequenceTheorems, TLAPS

-----------------------------------------------------------------------------
(* The inductive invariant *)

Kinds == {"ptt", "moxOn", "moxOff", "vox"}

\* local_ptt is the PTT bit combined with the paddle's: it is never below it.
PttIsLocal == key.ptt => localPtt

\* A receiver that does not run was stopped by the over that is on the air and is
\* one the return to receive restarts, or its DUP was switched on since.
StoppedByOver ==
    /\ ~txOn => streamOn
    /\ \A r \in Receivers : ~rxOn[r] => r \in switched \/ (txOn /\ ~duplex[r])

\* The strengthening that the steps preserve: the types, the relation between the
\* two PTT flags that AirIsAccountedFor rests on, and the properties themselves.
IInv ==
    /\ TypeOK
    /\ PttIsLocal
    /\ VoxHasARelease
    /\ AirIsAccountedFor
    /\ PttLetsGo

-----------------------------------------------------------------------------
(* Lemmas on the queue of idles *)

\* g_idle_add: what was queued still is, and so is the new callback.
LEMMA AppendQueues ==
    ASSUME TypeOK, NEW m \in Kinds, NEW q \in Kinds, idles' = Append(idles, m)
    PROVE  /\ idles' \in Seq(Kinds)
           /\ idles' # << >>
           /\ (Queued(q) \/ q = m) => Queued(q)'
<1>1. idles \in Seq(Kinds)
  BY DEF TypeOK, Kinds
<1>2. /\ idles' \in Seq(Kinds) /\ idles' # << >>
      /\ Len(idles') = Len(idles) + 1
      /\ \A i \in 1..Len(idles) : idles'[i] = idles[i]
      /\ idles'[Len(idles) + 1] = m
  BY <1>1, AppendProperties
<1>3. Len(idles) \in Nat
  BY <1>1
<1>4. Queued(q) => Queued(q)'
  BY <1>2, <1>3 DEF Queued
<1>5. q = m => Queued(q)'
  BY <1>2, <1>3 DEF Queued
<1> QED
  BY <1>2, <1>4, <1>5

\* The main loop takes the oldest: every other callback is still queued.
LEMMA TailQueues ==
    ASSUME TypeOK, idles # << >>, idles' = Tail(idles), NEW q \in Kinds
    PROVE  /\ idles' \in Seq(Kinds)
           /\ (Queued(q) /\ Head(idles) # q) => Queued(q)'
<1>1. idles \in Seq(Kinds)
  BY DEF TypeOK, Kinds
<1>2. /\ idles' \in Seq(Kinds)
      /\ Len(idles') = Len(idles) - 1
      /\ \A i \in 1..Len(idles') : idles'[i] = idles[i + 1]
  BY <1>1, HeadTailProperties
<1>3. Head(idles) = idles[1]
  BY <1>1
<1>4. Len(idles) \in Nat
  BY <1>1
<1>5. ASSUME Queued(q), Head(idles) # q PROVE Queued(q)'
  <2>1. PICK i \in 1..Len(idles) : idles[i] = q
    BY <1>5 DEF Queued
  <2>2. i # 1
    BY <1>3, <1>5, <2>1
  <2>3. i - 1 \in 1..Len(idles') /\ (i - 1) + 1 = i
    BY <1>2, <1>4, <2>1, <2>2
  <2>4. idles'[i - 1] = q
    BY <1>2, <2>1, <2>3
  <2> QED
    BY <2>3, <2>4 DEF Queued
<1> QED
  BY <1>2, <1>5

-----------------------------------------------------------------------------
(* Lemmas on the key flags *)

KeyRecord == [ptt : BOOLEAN, mox : BOOLEAN, vox : BOOLEAN, tune : BOOLEAN]
Raisers   == {"nobody", "operator", "ptt", "network"}

\* set_mox leaves PTT and VOX alone, and rxtx still has to look.
LEMMA SetMoxEffect ==
    ASSUME TypeOK, NEW on \in BOOLEAN, NEW who \in Raisers, SetMox(on, who)
    PROVE  /\ key' \in KeyRecord /\ ~(key'.mox /\ key'.tune)
           /\ key'.ptt = key.ptt /\ key'.vox = key.vox
           /\ by' \in Raisers /\ (by' = "ptt" => who = "ptt" /\ on)
           /\ keyerOn' \in BOOLEAN
           /\ gtk' = "rxtx"
<1>1. key \in KeyRecord
  BY DEF TypeOK, KeyRecord
<1>2. [key EXCEPT !.tune = FALSE] \in KeyRecord
  BY <1>1 DEF KeyRecord
<1>3. key' = [[key EXCEPT !.tune = FALSE] EXCEPT !.mox = on]
  BY DEF SetMox
<1>4. key' \in KeyRecord
  BY <1>2, <1>3 DEF KeyRecord
<1>5. key'.ptt = key.ptt /\ key'.vox = key.vox /\ ~key'.tune
  BY <1>1, <1>3 DEF KeyRecord
<1>6. by' \in Raisers /\ (by' = "ptt" => who = "ptt" /\ on) /\ gtk' = "rxtx"
  BY DEF SetMox, Raisers
<1>7. keyerOn' \in BOOLEAN
  BY DEF SetMox, TypeOK
<1> QED
  BY <1>4, <1>5, <1>6, <1>7

\* So does set_tune.
LEMMA SetTuneEffect ==
    ASSUME TypeOK, NEW on \in BOOLEAN, SetTune(on)
    PROVE  /\ key' \in KeyRecord /\ ~(key'.mox /\ key'.tune)
           /\ key'.ptt = key.ptt /\ key'.vox = key.vox
           /\ by' = "nobody"
           /\ keyerOn' \in BOOLEAN
           /\ gtk' = "rxtx"
<1>1. key \in KeyRecord
  BY DEF TypeOK, KeyRecord
<1>2. [key EXCEPT !.mox = FALSE] \in KeyRecord
  BY <1>1 DEF KeyRecord
<1>3. key' = [[key EXCEPT !.mox = FALSE] EXCEPT !.tune = on]
  BY DEF SetTune
<1>4. key' \in KeyRecord
  BY <1>2, <1>3 DEF KeyRecord
<1>5. key'.ptt = key.ptt /\ key'.vox = key.vox /\ ~key'.mox
  BY <1>1, <1>3 DEF KeyRecord
<1>6. keyerOn' \in BOOLEAN
  BY DEF SetTune, TypeOK
<1> QED
  BY <1>4, <1>5, <1>6 DEF SetTune

\* The protocol thread writes PTT alone, the microphone and the poll VOX alone.
LEMMA FlagEffect ==
    ASSUME TypeOK, NEW b \in BOOLEAN
    PROVE  /\ LET k == [key EXCEPT !.ptt = b]
              IN  /\ k \in KeyRecord /\ ~(k.mox /\ k.tune)
                  /\ k.ptt = b /\ k.vox = key.vox
                  /\ k.mox = key.mox /\ k.tune = key.tune
           /\ LET k == [key EXCEPT !.vox = b]
              IN  /\ k \in KeyRecord /\ ~(k.mox /\ k.tune)
                  /\ k.vox = b /\ k.ptt = key.ptt
                  /\ k.mox = key.mox /\ k.tune = key.tune
<1>1. key \in KeyRecord /\ ~(key.mox /\ key.tune)
  BY DEF TypeOK, KeyRecord
<1>2. LET k == [key EXCEPT !.ptt = b]
      IN  /\ k \in KeyRecord /\ ~(k.mox /\ k.tune)
          /\ k.ptt = b /\ k.vox = key.vox
          /\ k.mox = key.mox /\ k.tune = key.tune
  BY <1>1 DEF KeyRecord
<1>3. LET k == [key EXCEPT !.vox = b]
      IN  /\ k \in KeyRecord /\ ~(k.mox /\ k.tune)
          /\ k.vox = b /\ k.ptt = key.ptt
          /\ k.mox = key.mox /\ k.tune = key.tune
  BY <1>1 DEF KeyRecord
<1> QED
  BY <1>2, <1>3

\* An idle callback keys through set_mox or arms the poll, and calls rxtx.
LEMMA DispatchEffect ==
    ASSUME TypeOK, Dispatch
    PROVE  /\ key' \in KeyRecord /\ ~(key'.mox /\ key'.tune)
           /\ key'.ptt = key.ptt /\ key'.vox = key.vox
           /\ by' \in Raisers
           /\ keyerOn' \in BOOLEAN
           /\ gtk' = "rxtx"
           /\ voxTimer' \in BOOLEAN
           /\ Head(idles) = "vox" => (key.vox => voxTimer') /\ by' = by
           /\ Head(idles) # "vox" => voxTimer' = voxTimer
           /\ (by' = "ptt" /\ Head(idles) # "vox") => localPtt
<1>1. CASE Head(idles) = "ptt" /\ SetMox(localPtt, "ptt") /\ UNCHANGED voxTimer
  <2>1. localPtt \in BOOLEAN /\ "ptt" \in Raisers /\ voxTimer \in BOOLEAN
    BY DEF TypeOK, Raisers
  <2> QED
    BY <1>1, <2>1, SetMoxEffect
<1>2. CASE Head(idles) = "moxOn" /\ SetMox(TRUE, "network") /\ UNCHANGED voxTimer
  <2>1. "network" \in Raisers /\ voxTimer \in BOOLEAN
    BY DEF TypeOK, Raisers
  <2> QED
    BY <1>2, <2>1, SetMoxEffect
<1>3. CASE Head(idles) = "moxOff" /\ SetMox(FALSE, "network") /\ UNCHANGED voxTimer
  <2>1. "network" \in Raisers /\ voxTimer \in BOOLEAN
    BY DEF TypeOK, Raisers
  <2> QED
    BY <1>3, <2>1, SetMoxEffect
<1>4. CASE Head(idles) = "vox" /\ VoxKeyIdle
  <2>1. key' = key /\ by' = by /\ gtk' = "rxtx" /\ voxTimer' = (voxTimer \/ key.vox)
    BY <1>4 DEF VoxKeyIdle, flags
  <2>2. /\ key \in KeyRecord /\ ~(key.mox /\ key.tune) /\ by \in Raisers
        /\ keyerOn' = keyerOn /\ keyerOn \in BOOLEAN
    BY <1>4 DEF TypeOK, KeyRecord, Raisers, VoxKeyIdle, flags
  <2>3. voxTimer' \in BOOLEAN /\ (key.vox => voxTimer')
    BY <2>1, <2>2 DEF TypeOK, KeyRecord
  <2> QED
    BY <1>4, <2>1, <2>2, <2>3
<1> QED
  BY <1>1, <1>2, <1>3, <1>4 DEF Dispatch

-----------------------------------------------------------------------------
(* Type correctness *)

\* Every variable keeps its type over every step, and MOX and Tune exclude each
\* other.
LEMMA TypeStep ==
    ASSUME TypeOK, [Next]_vars
    PROVE  TypeOK'
<1> USE DEF KeyRecord, Raisers, Kinds, vars, flags, ptt, voice, air, dup
<1>1. CASE Rxtx
  <2>1. txOn' \in BOOLEAN
    BY <1>1 DEF Rxtx, GoTransmit, GoReceive
  <2>2. rxOn' \in [Receivers -> BOOLEAN]
    BY <1>1 DEF Rxtx, GoTransmit, GoReceive
  <2>3. streamOn' \in BOOLEAN
    BY <1>1 DEF Rxtx, GoTransmit, GoReceive
  <2>4. gtk' \in {"free", "rxtx", "voxDrop"}
    BY <1>1 DEF Rxtx
  <2>5. switched' \subseteq Receivers
    BY <1>1 DEF TypeOK, Rxtx
  <2> QED
    BY <1>1, <2>1, <2>2, <2>3, <2>4, <2>5 DEF TypeOK, Rxtx
<1>2. CASE OperatorMox
  <2>1. PICK on \in BOOLEAN : SetMox(on, "operator")
    BY <1>2 DEF OperatorMox
  <2>2. /\ key' \in KeyRecord /\ ~(key'.mox /\ key'.tune)
        /\ by' \in Raisers /\ keyerOn' \in BOOLEAN /\ gtk' = "rxtx"
    BY <2>1, SetMoxEffect
  <2> QED
    BY <1>2, <2>2 DEF TypeOK, OperatorMox
<1>3. CASE OperatorTune
  <2>1. PICK on \in BOOLEAN : SetTune(on)
    BY <1>3 DEF OperatorTune
  <2>2. /\ key' \in KeyRecord /\ ~(key'.mox /\ key'.tune)
        /\ by' = "nobody" /\ keyerOn' \in BOOLEAN /\ gtk' = "rxtx"
    BY <2>1, SetTuneEffect
  <2> QED
    BY <1>3, <2>2 DEF TypeOK, OperatorTune
<1>4. CASE ToggleDup
  BY <1>4 DEF TypeOK, ToggleDup
<1>5. ASSUME NEW p \in BOOLEAN, NEW d \in BOOLEAN, ControlBytes(p, d)
      PROVE  TypeOK'
  <2>1. key' \in KeyRecord /\ ~(key'.mox /\ key'.tune)
    BY <1>5, FlagEffect DEF ControlBytes
  <2>2. localPtt' \in BOOLEAN /\ previous' \in BOOLEAN
    BY <1>5 DEF TypeOK, ControlBytes, PreviousPtt
  <2>3. paddle' \in BOOLEAN
    BY <1>5 DEF ControlBytes
  <2>4. proto' = "combine"
    BY <1>5 DEF ControlBytes
  <2> QED
    BY <1>5, <2>1, <2>2, <2>3, <2>4 DEF TypeOK, ControlBytes
<1>18. CASE CombinePaddle
  <2>1. localPtt' \in BOOLEAN
    BY <1>18 DEF CombinePaddle
  <2>2. proto' \in {"idle", "combine", "queue"}
    BY <1>18 DEF CombinePaddle
  <2>3. previous' = FALSE /\ paddle' = FALSE
    BY <1>18 DEF CombinePaddle
  <2>4. UNCHANGED <<key, by, keyerOn, cwMode, voice, idles, gtk, dup, air>>
    BY <1>18 DEF CombinePaddle
  <2>5. key' \in KeyRecord /\ ~(key'.mox /\ key'.tune)
    BY <2>4 DEF TypeOK
  <2>6. /\ by' \in Raisers /\ cwMode' \in BOOLEAN /\ keyerOn' \in BOOLEAN
        /\ voxEnabled' \in BOOLEAN /\ hang' \in BOOLEAN /\ voxTimer' \in BOOLEAN
        /\ mic' \in {"idle", "loud", "queue"} /\ idles' \in Seq(Kinds)
        /\ gtk' \in {"free", "rxtx", "voxDrop"}
    BY <2>4 DEF TypeOK
  <2>7. /\ duplex' \in [Receivers -> BOOLEAN] /\ switched' \subseteq Receivers
        /\ txOn' \in BOOLEAN /\ rxOn' \in [Receivers -> BOOLEAN] /\ streamOn' \in BOOLEAN
    BY <2>4 DEF TypeOK
  <2> QED
    BY <2>1, <2>2, <2>3, <2>5, <2>6, <2>7, Zenon DEF TypeOK
<1>6. CASE QueuePtt
  <2>1. idles' \in Seq(Kinds)
    BY <1>6, AppendQueues DEF QueuePtt
  <2> QED
    BY <1>6, <2>1 DEF TypeOK, QueuePtt
<1>7. CASE ChangeMode
  BY <1>7 DEF TypeOK, ChangeMode
<1>8. CASE MicLoud
  BY <1>8 DEF TypeOK, MicLoud
<1>9. CASE MicKey
  <2>1. key' \in KeyRecord /\ ~(key'.mox /\ key'.tune)
    BY <1>9, FlagEffect DEF MicKey
  <2>2. mic' \in {"idle", "loud", "queue"}
    BY <1>9 DEF MicKey
  <2> QED
    BY <1>9, <2>1, <2>2 DEF TypeOK, MicKey
<1>10. CASE MicQueue
  <2>1. idles' \in Seq(Kinds)
    BY <1>10, AppendQueues DEF MicQueue
  <2> QED
    BY <1>10, <2>1 DEF TypeOK, MicQueue
<1>11. CASE HangExpires
  <2>1. hang' \in BOOLEAN
    BY <1>11 DEF HangExpires
  <2> QED
    BY <1>11, <2>1 DEF TypeOK, HangExpires
<1>12. CASE VoxPoll
  <2>1. voxTimer' \in BOOLEAN /\ gtk' \in {"free", "rxtx", "voxDrop"}
    BY <1>12 DEF TypeOK, VoxPoll
  <2> QED
    BY <1>12, <2>1 DEF TypeOK, VoxPoll
<1>13. CASE VoxDrop
  <2>1. key' \in KeyRecord /\ ~(key'.mox /\ key'.tune)
    BY <1>13, FlagEffect DEF VoxDrop
  <2>2. /\ voxTimer' = FALSE /\ gtk' = "rxtx"
        /\ UNCHANGED <<by, keyerOn, ptt, voxEnabled, hang, mic, idles, dup, air>>
    BY <1>13 DEF VoxDrop
  <2>3. /\ by' \in Raisers /\ keyerOn' \in BOOLEAN
        /\ localPtt' \in BOOLEAN /\ cwMode' \in BOOLEAN
        /\ proto' \in {"idle", "combine", "queue"}
        /\ previous' \in BOOLEAN /\ paddle' \in BOOLEAN
    BY <2>2 DEF TypeOK
  <2>4. /\ voxEnabled' \in BOOLEAN /\ hang' \in BOOLEAN /\ voxTimer' \in BOOLEAN
        /\ mic' \in {"idle", "loud", "queue"} /\ idles' \in Seq(Kinds)
        /\ gtk' \in {"free", "rxtx", "voxDrop"}
    BY <2>2 DEF TypeOK
  <2>5. /\ duplex' \in [Receivers -> BOOLEAN] /\ switched' \subseteq Receivers
        /\ txOn' \in BOOLEAN /\ rxOn' \in [Receivers -> BOOLEAN] /\ streamOn' \in BOOLEAN
    BY <2>2 DEF TypeOK
  <2> QED
    BY <2>1, <2>3, <2>4, <2>5, Zenon DEF TypeOK
<1>14. CASE SetVoxEnabled
  BY <1>14 DEF TypeOK, SetVoxEnabled
<1>15. CASE QueueMox
  <2>1. idles' \in Seq(Kinds)
    BY <1>15, AppendQueues DEF QueueMox
  <2> QED
    BY <1>15, <2>1 DEF TypeOK, QueueMox
<1>16. CASE Dispatch
  <2>1. idles' \in Seq(Kinds)
    BY <1>16, TailQueues DEF Dispatch
  <2>2. /\ key' \in KeyRecord /\ ~(key'.mox /\ key'.tune)
        /\ by' \in Raisers /\ keyerOn' \in BOOLEAN /\ gtk' = "rxtx"
        /\ voxTimer' \in BOOLEAN
    BY <1>16, DispatchEffect
  <2> QED
    BY <1>16, <2>1, <2>2 DEF TypeOK, Dispatch
<1>17. CASE UNCHANGED vars
  BY <1>17 DEF TypeOK
<1> QED
  BY <1>1, <1>2, <1>3, <1>4, <1>5, <1>6, <1>7, <1>8, <1>9, <1>10, <1>11,
     <1>12, <1>13, <1>14, <1>15, <1>16, <1>17, <1>18 DEF Next

-----------------------------------------------------------------------------
(* VOX always has a release *)

\* Nothing queued and nothing taken: the same callbacks are pending.
LEMMA SameQueue ==
    ASSUME NEW q \in Kinds, UNCHANGED idles
    PROVE  Queued(q)' <=> Queued(q)
BY DEF Queued

\* Whoever raises the VOX flag leaves a release behind, and only a release takes
\* the poll or the queued callback away (update_vox, vox_key_idle, vox_poll_cb).
LEMMA VoxStep ==
    ASSUME TypeOK, VoxHasARelease, [Next]_vars
    PROVE  VoxHasARelease'
<1> USE DEF VoxHasARelease, vars, flags, ptt, voice, air, dup
<1>a. "vox" \in Kinds
  BY DEF Kinds
<1>1. CASE Rxtx
  BY <1>1, <1>a, SameQueue DEF Rxtx
<1>2. CASE OperatorMox
  <2>1. PICK on \in BOOLEAN : SetMox(on, "operator")
    BY <1>2 DEF OperatorMox
  <2>2. key'.vox = key.vox
    BY <2>1, SetMoxEffect DEF Raisers
  <2> QED
    BY <1>2, <2>2, <1>a, SameQueue DEF OperatorMox
<1>3. CASE OperatorTune
  <2>1. PICK on \in BOOLEAN : SetTune(on)
    BY <1>3 DEF OperatorTune
  <2>2. key'.vox = key.vox
    BY <2>1, SetTuneEffect
  <2> QED
    BY <1>3, <2>2, <1>a, SameQueue DEF OperatorTune
<1>4. CASE ToggleDup
  BY <1>4, <1>a, SameQueue DEF ToggleDup
<1>5. ASSUME NEW p \in BOOLEAN, NEW d \in BOOLEAN, ControlBytes(p, d)
      PROVE  VoxHasARelease'
  <2>1. key'.vox = key.vox
    BY <1>5, FlagEffect DEF ControlBytes
  <2> QED
    BY <1>5, <2>1, <1>a, SameQueue DEF ControlBytes
<1>18. CASE CombinePaddle
  BY <1>18, <1>a, SameQueue DEF CombinePaddle
<1>6. CASE QueuePtt
  BY <1>6, <1>a, AppendQueues DEF QueuePtt, Kinds
<1>7. CASE ChangeMode
  BY <1>7, <1>a, SameQueue DEF ChangeMode
<1>8. CASE MicLoud
  BY <1>8, <1>a, SameQueue DEF MicLoud
\* The thread that finds the flag up relies on the release of whoever raised it.
<1>9. CASE MicKey
  <2>1. CASE key.vox
    BY <1>9, <2>1, <1>a, SameQueue DEF MicKey
  <2>2. CASE ~key.vox
    BY <1>9, <2>2 DEF MicKey
  <2> QED
    BY <2>1, <2>2
<1>10. CASE MicQueue
  BY <1>10, <1>a, AppendQueues DEF MicQueue, Kinds
<1>11. CASE HangExpires
  BY <1>11, <1>a, SameQueue DEF HangExpires
<1>12. CASE VoxPoll
  BY <1>12, <1>a, SameQueue DEF VoxPoll
<1>13. CASE VoxDrop
  <2>1. ~key'.vox
    BY <1>13, FlagEffect DEF VoxDrop
  <2> QED
    BY <2>1
<1>14. CASE SetVoxEnabled
  BY <1>14, <1>a, SameQueue DEF SetVoxEnabled
<1>15. CASE QueueMox
  BY <1>15, <1>a, AppendQueues DEF QueueMox, Kinds
\* Taking the callback arms the poll; taking another leaves it queued.
<1>16. CASE Dispatch
  <2>1. key'.vox = key.vox
    BY <1>16, DispatchEffect
  <2>2. UNCHANGED mic
    BY <1>16 DEF Dispatch
  <2>3. CASE Head(idles) = "vox"
    BY <1>16, <2>1, <2>3, DispatchEffect
  <2>4. CASE Head(idles) # "vox"
    <3>1. voxTimer' = voxTimer
      BY <1>16, <2>4, DispatchEffect
    <3>2. Queued("vox") => Queued("vox")'
      BY <1>16, <1>a, <2>4, TailQueues DEF Dispatch
    <3> QED
      BY <2>1, <2>2, <3>1, <3>2
  <2> QED
    BY <2>3, <2>4
<1>17. CASE UNCHANGED vars
  BY <1>17, <1>a, SameQueue
<1> QED
  BY <1>1, <1>2, <1>3, <1>4, <1>5, <1>6, <1>7, <1>8, <1>9, <1>10, <1>11,
     <1>12, <1>13, <1>14, <1>15, <1>16, <1>17, <1>18 DEF Next

-----------------------------------------------------------------------------
(* The radio's PTT lets go *)

\* process_control_bytes queues ext_ptt_changed for every change of local_ptt, and
\* the callback acts on the value of the moment it runs.
LEMMA PttStep ==
    ASSUME TypeOK, PttLetsGo, [Next]_vars
    PROVE  PttLetsGo'
<1> USE DEF PttLetsGo, KeyUpUnreported, vars, flags, ptt, voice, air, dup
<1>a. "ptt" \in Kinds
  BY DEF Kinds
<1>1. CASE Rxtx
  BY <1>1, <1>a, SameQueue DEF Rxtx
<1>2. CASE OperatorMox
  <2>1. PICK on \in BOOLEAN : SetMox(on, "operator")
    BY <1>2 DEF OperatorMox
  <2>2. by' # "ptt"
    BY <2>1, SetMoxEffect DEF Raisers
  <2> QED
    BY <2>2
<1>3. CASE OperatorTune
  <2>1. PICK on \in BOOLEAN : SetTune(on)
    BY <1>3 DEF OperatorTune
  <2>2. by' # "ptt"
    BY <2>1, SetTuneEffect
  <2> QED
    BY <2>2
<1>4. CASE ToggleDup
  BY <1>4, <1>a, SameQueue DEF ToggleDup
\* The thread remembers that local_ptt was set, or it was down before.
<1>5. ASSUME NEW p \in BOOLEAN, NEW d \in BOOLEAN, ControlBytes(p, d)
      PROVE  PttLetsGo'
  <2>1. /\ proto = "idle" /\ proto' = "combine" /\ by' = by
        /\ previous' = localPtt
    BY <1>5 DEF ControlBytes, PreviousPtt
  <2>2. Queued("ptt")' <=> Queued("ptt")
    BY <1>5, <1>a, SameQueue DEF ControlBytes
  <2>3. CASE localPtt
    BY <2>1, <2>3
  <2>4. CASE ~localPtt
    BY <2>1, <2>2, <2>4
  <2> QED
    BY <2>3, <2>4
\* A change of local_ptt is about to be queued; no change leaves what there was.
<1>18. CASE CombinePaddle
  <2>1. proto = "combine" /\ by' = by
    BY <1>18 DEF CombinePaddle
  <2>2. Queued("ptt")' <=> Queued("ptt")
    BY <1>18, <1>a, SameQueue DEF CombinePaddle
  <2>3. localPtt => localPtt'
    BY <1>18 DEF CombinePaddle
  <2>4. ASSUME previous, ~localPtt' PROVE proto' = "queue"
    BY <1>18, <2>4 DEF CombinePaddle
  <2> QED
    BY <2>1, <2>2, <2>3, <2>4
<1>6. CASE QueuePtt
  BY <1>6, <1>a, AppendQueues DEF QueuePtt
<1>7. CASE ChangeMode
  BY <1>7, <1>a, SameQueue DEF ChangeMode
<1>8. CASE MicLoud
  BY <1>8, <1>a, SameQueue DEF MicLoud
<1>9. CASE MicKey
  BY <1>9, <1>a, SameQueue DEF MicKey
<1>10. CASE MicQueue
  BY <1>10, <1>a, AppendQueues DEF MicQueue, Kinds
<1>11. CASE HangExpires
  BY <1>11, <1>a, SameQueue DEF HangExpires
<1>12. CASE VoxPoll
  BY <1>12, <1>a, SameQueue DEF VoxPoll
<1>13. CASE VoxDrop
  BY <1>13, <1>a, SameQueue DEF VoxDrop
<1>14. CASE SetVoxEnabled
  BY <1>14, <1>a, SameQueue DEF SetVoxEnabled
<1>15. CASE QueueMox
  BY <1>15, <1>a, AppendQueues DEF QueueMox, Kinds
\* ext_ptt_changed reads local_ptt when it runs, so what it raises is wanted then.
<1>16. CASE Dispatch
  <2>1. UNCHANGED <<localPtt, proto, previous>>
    BY <1>16 DEF Dispatch
  <2>2. CASE Head(idles) = "vox"
    <3>1. by' = by
      BY <1>16, <2>2, DispatchEffect
    <3>2. Queued("ptt") => Queued("ptt")'
      BY <1>16, <1>a, <2>2, TailQueues DEF Dispatch
    <3> QED
      BY <2>1, <3>1, <3>2
  <2>3. CASE Head(idles) # "vox"
    BY <1>16, <2>1, <2>3, DispatchEffect
  <2> QED
    BY <2>2, <2>3
<1>17. CASE UNCHANGED vars
  BY <1>17, <1>a, SameQueue
<1> QED
  BY <1>1, <1>2, <1>3, <1>4, <1>5, <1>6, <1>7, <1>8, <1>9, <1>10, <1>11,
     <1>12, <1>13, <1>14, <1>15, <1>16, <1>17, <1>18 DEF Next

-----------------------------------------------------------------------------
(* The radio is not left on the air *)

\* Only process_control_bytes writes either flag, and it writes both.
LEMMA PttIsLocalStep ==
    ASSUME TypeOK, PttIsLocal, [Next]_vars
    PROVE  PttIsLocal'
<1> USE DEF PttIsLocal, vars, flags, ptt, voice, air, dup
<1>1. CASE \E p, d \in BOOLEAN : ControlBytes(p, d)
  <2>1. PICK p \in BOOLEAN, d \in BOOLEAN : ControlBytes(p, d)
    BY <1>1
  <2>2. key'.ptt = p /\ localPtt' = p
    BY <2>1, FlagEffect DEF ControlBytes
  <2> QED
    BY <2>2
<1>5. CASE CombinePaddle
  <2>1. UNCHANGED key
    BY <1>5 DEF CombinePaddle
  <2>2. localPtt => localPtt'
    BY <1>5 DEF CombinePaddle
  <2> QED
    BY <2>1, <2>2
<1>2. CASE OperatorMox \/ OperatorTune \/ Dispatch
  <2>1. UNCHANGED localPtt
    BY <1>2 DEF OperatorMox, OperatorTune, Dispatch
  <2>2. CASE OperatorMox
    <3>1. PICK on \in BOOLEAN : SetMox(on, "operator")
      BY <2>2 DEF OperatorMox
    <3>2. key'.ptt = key.ptt
      BY <3>1, SetMoxEffect DEF Raisers
    <3> QED
      BY <2>1, <3>2
  <2>3. CASE OperatorTune
    <3>1. PICK on \in BOOLEAN : SetTune(on)
      BY <2>3 DEF OperatorTune
    <3>2. key'.ptt = key.ptt
      BY <3>1, SetTuneEffect
    <3> QED
      BY <2>1, <3>2
  <2>4. CASE Dispatch
    BY <2>1, <2>4, DispatchEffect
  <2> QED
    BY <1>2, <2>2, <2>3, <2>4
<1>3. CASE MicKey \/ VoxDrop
  <2>1. key'.ptt = key.ptt
    BY <1>3, FlagEffect DEF MicKey, VoxDrop
  <2> QED
    BY <1>3, <2>1 DEF MicKey, VoxDrop
<1>4. CASE \/ Rxtx \/ ToggleDup \/ QueuePtt \/ ChangeMode \/ MicLoud \/ MicQueue
           \/ HangExpires \/ VoxPoll \/ SetVoxEnabled \/ QueueMox
           \/ UNCHANGED vars
  <2>1. UNCHANGED <<key, localPtt>>
    BY <1>4 DEF Rxtx, ToggleDup, QueuePtt, ChangeMode, MicLoud, MicQueue,
                HangExpires, VoxPoll, SetVoxEnabled, QueueMox
  <2> QED
    BY <2>1
<1> QED
  BY <1>1, <1>2, <1>3, <1>4, <1>5 DEF Next

\* While a call of rxtx is pending nothing is owed; a step that ends the last
\* pending one is rxtx itself, and a step that takes the last flag down starts one.
LEMMA AirStep ==
    ASSUME TypeOK, PttIsLocal, AirIsAccountedFor, [Next]_vars
    PROVE  AirIsAccountedFor'
<1> USE DEF AirIsAccountedFor, RxtxPending, KeyUpUnreported, vars, flags, ptt, voice, air, dup
\* rxtx leaves the transmitter running only if a flag asks for it.
<1>1. CASE Rxtx
  <2>1. UNCHANGED key
    BY <1>1 DEF Rxtx
  <2>2. Transmitting' = Transmitting
    BY <2>1 DEF Transmitting
  <2>3. CASE Transmitting
    BY <2>2, <2>3
  <2>4. CASE ~Transmitting
    BY <1>1, <2>4 DEF Rxtx, GoReceive
  <2> QED
    BY <2>3, <2>4
<1>2. CASE OperatorMox \/ OperatorTune
  BY <1>2 DEF OperatorMox, OperatorTune, SetMox, SetTune
<1>3. CASE VoxDrop \/ Dispatch
  <2>1. CASE VoxDrop
    BY <2>1 DEF VoxDrop
  <2>2. CASE Dispatch
    BY <2>2, DispatchEffect
  <2> QED
    BY <1>3, <2>1, <2>2
\* The PTT bit falls with local_ptt, or the paddle holds local_ptt up.
<1>4. ASSUME NEW p \in BOOLEAN, NEW d \in BOOLEAN, ControlBytes(p, d)
      PROVE  AirIsAccountedFor'
  <2>1. /\ key'.ptt = p /\ key'.vox = key.vox
        /\ key'.mox = key.mox /\ key'.tune = key.tune
    BY <1>4, FlagEffect DEF ControlBytes
  <2>2. /\ proto = "idle" /\ proto' = "combine"
        /\ localPtt' = p /\ previous' = localPtt
        /\ UNCHANGED <<txOn, gtk, idles, mic>>
    BY <1>4 DEF ControlBytes, PreviousPtt
  <2>3. CASE localPtt
    BY <2>2, <2>3
  <2>4. CASE ~localPtt /\ ~p
    <3>1. ~key.ptt
      BY <2>4 DEF PttIsLocal
    <3>2. Transmitting' <=> Transmitting
      BY <2>1, <2>4, <3>1 DEF Transmitting
    <3> QED
      BY <2>2, <2>4, <3>2
  <2>5. CASE p
    BY <2>2, <2>5
  <2> QED
    BY <2>3, <2>4, <2>5
\* What the thread remembered is still not reported if the key stays up.
<1>9. CASE CombinePaddle
  <2>1. proto = "combine" /\ UNCHANGED <<key, txOn, gtk, idles, mic>>
    BY <1>9 DEF CombinePaddle
  <2>2. Transmitting' = Transmitting
    BY <2>1 DEF Transmitting
  <2>3. localPtt => localPtt'
    BY <1>9 DEF CombinePaddle
  <2>4. ASSUME previous, ~localPtt' PROVE proto' = "queue"
    BY <1>9, <2>4 DEF CombinePaddle
  <2> QED
    BY <2>1, <2>2, <2>3, <2>4
<1>5. CASE MicKey
  <2>1. Transmitting'
    BY <1>5, FlagEffect DEF MicKey, Transmitting
  <2> QED
    BY <2>1
<1>6. CASE QueuePtt \/ MicQueue \/ QueueMox
  <2>1. idles' # << >>
    <3>1. CASE QueuePtt
      BY <3>1, AppendQueues DEF QueuePtt, Kinds
    <3>2. CASE MicQueue
      BY <3>2, AppendQueues DEF MicQueue, Kinds
    <3>3. CASE QueueMox
      BY <3>3, AppendQueues DEF QueueMox, Kinds
    <3> QED
      BY <1>6, <3>1, <3>2, <3>3
  <2> QED
    BY <2>1
<1>7. CASE ToggleDup \/ ChangeMode \/ MicLoud \/ HangExpires \/ UNCHANGED vars
  <2>1. UNCHANGED <<key, localPtt, txOn, gtk, idles, proto, previous>>
    BY <1>7 DEF ToggleDup, ChangeMode, MicLoud, HangExpires
  <2>2. mic = "queue" => mic' = "queue"
    BY <1>7 DEF ToggleDup, ChangeMode, MicLoud, HangExpires
  <2>3. Transmitting' = Transmitting
    BY <2>1 DEF Transmitting
  <2> QED
    BY <2>1, <2>2, <2>3
<1>8. CASE VoxPoll \/ SetVoxEnabled
  <2>1. UNCHANGED <<key, localPtt, txOn, idles, proto, previous, mic>>
    BY <1>8 DEF VoxPoll, SetVoxEnabled
  <2>2. gtk = "free"
    BY <1>8 DEF VoxPoll, SetVoxEnabled
  <2>3. Transmitting' = Transmitting
    BY <2>1 DEF Transmitting
  <2> QED
    BY <2>1, <2>2, <2>3
<1> QED
  BY <1>1, <1>2, <1>3, <1>4, <1>5, <1>6, <1>7, <1>8, <1>9 DEF Next

-----------------------------------------------------------------------------
(* The receivers resume *)

\* Only rxtx starts and stops a channel; one it stopped and then passes over has
\* had its DUP switched in between.
LEMMA ReceiversStep ==
    ASSUME TypeOK, StoppedByOver, [Next]_vars
    PROVE  StoppedByOver'
<1> USE DEF StoppedByOver, vars, flags, ptt, voice, air, dup
<1>1. CASE Rxtx
  <2>1. UNCHANGED duplex /\ switched' = {r \in switched : ~rxOn'[r]}
    BY <1>1 DEF Rxtx
  <2>2. CASE GoTransmit
    BY <2>1, <2>2 DEF GoTransmit, TypeOK
  <2>3. CASE GoReceive
    BY <2>1, <2>3 DEF GoReceive, TypeOK
  <2> QED
    BY <1>1, <2>2, <2>3 DEF Rxtx
<1>2. CASE ToggleDup
  <2>1. PICK q \in Receivers :
          /\ duplex' = [duplex EXCEPT ![q] = ~@]
          /\ switched' = IF rxOn[q] \/ duplex[q] THEN switched ELSE switched \cup {q}
    BY <1>2 DEF ToggleDup
  <2>2. UNCHANGED <<txOn, rxOn, streamOn>>
    BY <1>2 DEF ToggleDup
  <2>3. ASSUME NEW r \in Receivers, ~rxOn[r]
        PROVE  r \in switched' \/ (txOn /\ ~duplex'[r])
    <3>1. CASE r = q
      BY <2>1, <2>3, <3>1 DEF TypeOK
    <3>2. CASE r # q
      BY <2>1, <2>3, <3>2 DEF TypeOK
    <3> QED
      BY <3>1, <3>2
  <2> QED
    BY <2>2, <2>3
<1>3. CASE ~Rxtx /\ ~ToggleDup
  <2>1. UNCHANGED <<duplex, switched, txOn, rxOn, streamOn>>
    BY <1>3 DEF Next, OperatorMox, OperatorTune, ControlBytes, CombinePaddle, QueuePtt,
                ChangeMode, MicLoud, MicKey, MicQueue, HangExpires, VoxPoll, VoxDrop,
                SetVoxEnabled, QueueMox, Dispatch
  <2> QED
    BY <2>1
<1> QED
  BY <1>1, <1>2, <1>3

-----------------------------------------------------------------------------
(* The theorems *)

\* A radio just opened is not keyed, and every channel runs.
LEMMA InitEstablishes == Init => IInv /\ StoppedByOver
<1> SUFFICES ASSUME Init PROVE IInv /\ StoppedByOver
  OBVIOUS
<1>1. TypeOK
  <2>1. key \in KeyRecord /\ ~(key.mox /\ key.tune)
    BY DEF Init, KeyRecord
  <2>2. idles \in Seq(Kinds)
    BY DEF Init
  <2>3. duplex \in [Receivers -> BOOLEAN] /\ rxOn \in [Receivers -> BOOLEAN]
    BY DEF Init
  <2> QED
    BY <2>1, <2>2, <2>3 DEF Init, TypeOK, KeyRecord, Kinds
<1>2. PttIsLocal /\ VoxHasARelease /\ AirIsAccountedFor /\ PttLetsGo
  BY DEF Init, PttIsLocal, VoxHasARelease, AirIsAccountedFor, PttLetsGo
<1>3. StoppedByOver
  BY DEF Init, StoppedByOver
<1> QED
  BY <1>1, <1>2, <1>3 DEF IInv

\* Every step preserves the strengthening.
LEMMA Inductive == IInv /\ [Next]_vars => IInv'
<1> SUFFICES ASSUME IInv, [Next]_vars PROVE IInv'
  OBVIOUS
<1>1. TypeOK /\ PttIsLocal /\ VoxHasARelease /\ AirIsAccountedFor /\ PttLetsGo
  BY DEF IInv
<1>2. TypeOK' /\ PttIsLocal' /\ VoxHasARelease'
  BY <1>1, TypeStep, PttIsLocalStep, VoxStep
<1>3. AirIsAccountedFor' /\ PttLetsGo'
  BY <1>1, AirStep, PttStep
<1> QED
  BY <1>2, <1>3 DEF IInv

\* So it holds in every state of every behaviour of the four threads.
THEOREM Invariance == Safety => []IInv
<1>1. Init => IInv
  BY InitEstablishes
<1> QED
  BY <1>1, Inductive, PTL DEF Safety

\* The flags, the queue and the channels keep their types, and MOX and Tune
\* exclude each other (set_mox and set_tune drop one another).
THEOREM TypeCorrect == Safety => []TypeOK
<1>1. IInv => TypeOK
  BY DEF IInv
<1> QED
  BY <1>1, Invariance, PTL

\* VOX that keys the radio always has its release armed or on the way, whatever
\* update_vox, vox_poll_cb and vox_set_enabled do to each other.
THEOREM VoxIsReleased == Safety => []VoxHasARelease
<1>1. IInv => VoxHasARelease
  BY DEF IInv
<1> QED
  BY <1>1, Invariance, PTL

\* The transmitter is never left running with no flag asking for it and no call
\* of rxtx on the way.
THEOREM AirIsNeverForgotten == Safety => []AirIsAccountedFor
<1>1. IInv => AirIsAccountedFor
  BY DEF IInv
<1> QED
  BY <1>1, Invariance, PTL

\* MOX that the radio's own PTT or paddle raised is followed by the callback that
\* drops it once the line is released.
THEOREM PttIsReleased == Safety => []PttLetsGo
<1>1. IInv => PttLetsGo
  BY DEF IInv
<1> QED
  BY <1>1, Invariance, PTL

\* After an over the stream and every receiver run again, whoever ends it and
\* however the keys overlap, except the receivers whose DUP was switched on while
\* the over had them stopped: rxtx passes those over (radio.c:942), and no others.
THEOREM ReceiversAlwaysResume == Safety => []ReceiversResume
<1>1. Init => TypeOK /\ StoppedByOver
  BY InitEstablishes DEF IInv
<1>2. TypeOK /\ StoppedByOver /\ [Next]_vars => (TypeOK /\ StoppedByOver)'
  BY TypeStep, ReceiversStep
<1>3. TypeOK /\ StoppedByOver => ReceiversResume
  BY DEF StoppedByOver, ReceiversResume
<1> QED
  BY <1>1, <1>2, <1>3, PTL DEF Safety

-----------------------------------------------------------------------------
(* VOX lets go *)

\* Only the microphone thread raises the VOX flag and pushes the deadline, and
\* nothing but the end of the keying disarms a poll that is armed.
LEMMA VoxQuiet ==
    ASSUME TypeOK, mic = "idle", [Next]_vars
    PROVE  /\ key'.vox => key.vox
           /\ hang' => hang
           /\ key'.vox /\ voxTimer => voxTimer'
<1> USE DEF vars, flags, ptt, voice, air, dup
<1>1. CASE OperatorMox
  <2>1. PICK on \in BOOLEAN : SetMox(on, "operator")
    BY <1>1 DEF OperatorMox
  <2> QED
    BY <1>1, <2>1, SetMoxEffect DEF OperatorMox, Raisers
<1>2. CASE OperatorTune
  <2>1. PICK on \in BOOLEAN : SetTune(on)
    BY <1>2 DEF OperatorTune
  <2> QED
    BY <1>2, <2>1, SetTuneEffect DEF OperatorTune
<1>3. ASSUME NEW p \in BOOLEAN, NEW d \in BOOLEAN, ControlBytes(p, d)
      PROVE  key'.vox = key.vox /\ UNCHANGED <<hang, voxTimer>>
  BY <1>3, FlagEffect DEF ControlBytes
<1>4. CASE Dispatch
  <2>1. key'.vox = key.vox /\ hang' = hang
    BY <1>4, DispatchEffect DEF Dispatch
  <2>2. Head(idles) = "vox" => (key.vox => voxTimer')
    BY <1>4, DispatchEffect
  <2>3. Head(idles) # "vox" => voxTimer' = voxTimer
    BY <1>4, DispatchEffect
  <2> QED
    BY <2>1, <2>2, <2>3
<1>5. CASE VoxDrop
  BY <1>5, FlagEffect DEF VoxDrop
<1>6. CASE VoxPoll \/ HangExpires
  BY <1>6 DEF VoxPoll, HangExpires
<1>7. CASE \/ Rxtx \/ ToggleDup \/ CombinePaddle \/ QueuePtt \/ ChangeMode \/ MicLoud
           \/ MicQueue \/ SetVoxEnabled \/ QueueMox \/ UNCHANGED vars
  <2>1. UNCHANGED <<key, hang, voxTimer>>
    BY <1>7 DEF Rxtx, ToggleDup, CombinePaddle, QueuePtt, ChangeMode, MicLoud, MicQueue,
                SetVoxEnabled, QueueMox
  <2> QED
    BY <2>1
<1>8. ~MicKey
  BY DEF MicKey
<1> QED
  BY <1>1, <1>2, <1>3, <1>4, <1>5, <1>6, <1>7, <1>8 DEF Next

\* A callback that the GTK thread is inside of is finished before anything else
\* runs there, and vox_release drops the flag.
LEMMA GtkBusy ==
    ASSUME TypeOK, [Next]_vars
    PROVE  /\ gtk = "rxtx" => gtk' = "free" \/ (gtk' = "rxtx" /\ ~Rxtx)
           /\ gtk = "voxDrop" => ~key'.vox \/ (gtk' = "voxDrop" /\ ~VoxDrop)
<1> USE DEF vars, flags, ptt, voice, air, dup
<1>1. Rxtx => gtk = "rxtx" /\ gtk' = "free"
  BY DEF Rxtx
<1>2. VoxDrop => gtk = "voxDrop" /\ ~key'.vox
  BY FlagEffect DEF VoxDrop
<1>3. OperatorMox \/ OperatorTune \/ ToggleDup \/ ChangeMode \/ VoxPoll \/ SetVoxEnabled
      \/ Dispatch => gtk = "free"
  BY DEF OperatorMox, OperatorTune, ToggleDup, ChangeMode, VoxPoll, SetVoxEnabled, Dispatch
<1>4. (\E p, d \in BOOLEAN : ControlBytes(p, d)) \/ CombinePaddle \/ QueuePtt \/ MicLoud
      \/ MicKey \/ MicQueue \/ HangExpires \/ QueueMox \/ UNCHANGED vars => gtk' = gtk
  BY DEF ControlBytes, CombinePaddle, QueuePtt, MicLoud, MicKey, MicQueue, HangExpires, QueueMox
<1> QED
  BY <1>1, <1>2, <1>3, <1>4 DEF Next

\* Fairness as Spec has it, each with a condition under which its action can be
\* taken written out.  In place of the fairness of Dispatch there is what it is
\* for: a callback that was queued with g_idle_add is run, and no other is left
\* unless the microphone thread is about to queue one.
VoxPollCanRun == gtk = "free" /\ voxTimer /\ key.vox /\ VoxOver

RxtxIsFair    == []<>~(gtk = "rxtx") \/ []<><<Rxtx>>_vars
VoxDropIsFair == []<>~(gtk = "voxDrop") \/ []<><<VoxDrop>>_vars
HangIsFair    == []<>~hang \/ []<><<HangExpires>>_vars
VoxPollIsFair == <>[]~VoxPollCanRun \/ []<><<VoxPoll>>_vars
IdleIsRun     == Queued("vox") ~> (~Queued("vox") \/ mic # "idle")

VoxFairness == RxtxIsFair /\ VoxDropIsFair /\ HangIsFair /\ VoxPollIsFair /\ IdleIsRun

\* "The un-key MUST NOT depend on the mic thread coming back": a microphone that
\* has stopped delivering does not keep the transmitter (vox_poll_cb,
\* vox_release).
THEOREM VoxAlwaysLetsGo == Safety /\ VoxFairness => VoxLetsGo
<1> DEFINE Quiet == mic = "idle"
           Keyed == key.vox
           Held  == hang
           Armed == voxTimer
           Waits == Queued("vox")
           Free  == gtk = "free"
           Radio == gtk = "rxtx"
           Drop  == gtk = "voxDrop"
<1>1. Safety => []IInv
  BY Invariance
<1>2. <<HangExpires>>_vars => ~Held'
  BY DEF HangExpires
<1>3. IInv /\ Quiet /\ Keyed => Armed \/ Waits
  BY DEF IInv, VoxHasARelease
<1>4. IInv => Free \/ Radio \/ Drop
  BY DEF IInv, TypeOK
<1>5. Free /\ Armed /\ Keyed /\ ~Held => VoxPollCanRun
  BY DEF VoxPollCanRun, VoxOver
<1>6. Keyed /\ <<VoxPoll>>_vars => Drop'
  BY DEF VoxPoll
<1> DEFINE Step == [Next]_vars
<1>7. IInv /\ Quiet /\ Step /\ Keyed' => Keyed
  BY VoxQuiet DEF IInv
<1>8. IInv /\ Quiet /\ Step /\ Held' => Held
  BY VoxQuiet DEF IInv
<1>9. IInv /\ Quiet /\ Step /\ Keyed' /\ Armed => Armed'
  BY VoxQuiet DEF IInv
<1>10. IInv /\ Step /\ Radio => Free' \/ Radio'
  BY GtkBusy DEF IInv
<1>11. IInv /\ Step /\ Radio /\ <<Rxtx>>_vars => Free'
  BY GtkBusy DEF IInv
<1>12. IInv /\ Step /\ Drop /\ Keyed' => Drop'
  BY GtkBusy DEF IInv
<1>13. IInv /\ Step /\ Drop /\ <<VoxDrop>>_vars => ~Keyed'
  BY GtkBusy DEF IInv
<1>14. mic # "idle" => ~Quiet
  OBVIOUS
<1> HIDE DEF Quiet, Keyed, Held, Armed, Waits, Free, Radio, Drop
<1>15. []IInv /\ [][Next]_vars /\ []Quiet /\ ([]<>~Held \/ []<><<HangExpires>>_vars)
       => <>[]~Held
  BY <1>2, <1>8, PTL
<1>16. []IInv /\ [][Next]_vars /\ []Quiet /\ []<>Keyed => []Keyed
  BY <1>7, PTL
<1>17. []IInv /\ [][Next]_vars /\ []Keyed /\ ([]<>~Drop \/ []<><<VoxDrop>>_vars)
       => []~Drop
  BY <1>12, <1>13, PTL
<1>18. []IInv /\ [][Next]_vars /\ []~Drop /\ ([]<>~Radio \/ []<><<Rxtx>>_vars)
       => []<>Free
  BY <1>4, <1>10, <1>11, PTL
<1>19. []IInv /\ [][Next]_vars /\ []Quiet /\ []Keyed /\ (Waits ~> ~Waits)
       => <>[]Armed
  BY <1>3, <1>9, PTL
<1>20. []<>Free /\ <>[]Armed /\ []Keyed /\ <>[]~Held => []<>VoxPollCanRun
  BY <1>5, PTL
<1>21. []Keyed /\ []~Drop => ~[]<><<VoxPoll>>_vars
  BY <1>6, PTL
<1>22. VoxFairness => ([]<>~Held \/ []<><<HangExpires>>_vars)
  BY PTL DEF VoxFairness, HangIsFair, Held
<1>23. VoxFairness /\ []Quiet => (Waits ~> ~Waits)
  BY <1>14, PTL DEF VoxFairness, IdleIsRun, Waits
<1>24. VoxFairness => ([]<>~Drop \/ []<><<VoxDrop>>_vars)
  BY PTL DEF VoxFairness, VoxDropIsFair, Drop
<1>25. VoxFairness => ([]<>~Radio \/ []<><<Rxtx>>_vars)
  BY PTL DEF VoxFairness, RxtxIsFair, Radio
<1>26. VoxFairness => (<>[]~VoxPollCanRun \/ []<><<VoxPoll>>_vars)
  BY PTL DEF VoxFairness, VoxPollIsFair
<1>27. []IInv /\ [][Next]_vars /\ VoxFairness => ~([]Quiet /\ []<>Keyed)
  BY <1>15, <1>16, <1>17, <1>18, <1>19, <1>20, <1>21, <1>22, <1>23, <1>24, <1>25, <1>26, PTL
<1>28. VoxFairness => []VoxFairness
  BY PTL DEF VoxFairness, RxtxIsFair, VoxDropIsFair, HangIsFair, VoxPollIsFair, IdleIsRun
<1>29. []IInv /\ [][Next]_vars /\ VoxFairness => (<>[]Quiet => <>[]~Keyed)
  BY <1>27, <1>28, PTL
<1>30. (<>[]Quiet => <>[]~Keyed) => VoxLetsGo
  BY PTL DEF VoxLetsGo, Quiet, Keyed
<1> QED
  BY <1>1, <1>29, <1>30, PTL DEF Safety
=============================================================================
