------------------------- MODULE LinkWatchdogProofs -------------------------
(***************************************************************************)
(* What the runs of LinkWatchdog check on small timeouts, proved for every *)
(* timeout, every backoff limit and every lag of the timer below           *)
(* Disconnect.                                                             *)
(***************************************************************************)
EXTENDS LinkWatchdog, TLAPS

-----------------------------------------------------------------------------
(* The inductive invariant *)

\* The GTK thread is inside an attempt exactly while the link says so.
PhaseInv ==
    /\ phase \in {"painting", "attempting"} => link.state = "RETRYING"
    /\ link.state = "RETRYING" => phase # "idle"

\* An attempt count outlives neither the outage nor the pause it belongs to.
LadderInv ==
    /\ link.state = "STREAMING" => link.attempt = 0
    /\ (link.attempt > 0 /\ ~asked /\ link.state \in {"STARTING", "LOST"})
        => sinceAttempt + link.untilAttempt >= FirstData + link.backoff

\* A block the GTK thread has not seen is at most as old as the tick it owes;
\* one it has seen and not acted on was held back by a transmission.
BlockInv ==
    /\ (newBlock /\ ~noting /\ phase = "idle") => dataAge <= owed
    /\ (link.fresh /\ link.state = "STARTING") => unkeyedFor <= owed
    /\ link.state = "LOST" => ~link.fresh
    /\ keyed => unkeyedFor = 0

IInv ==
    /\ TypeOK
    /\ PhaseInv
    /\ LadderInv
    /\ BlockInv
    /\ SilenceNoticed
    /\ BannerTruthful

-----------------------------------------------------------------------------
(* Lemmas on the operators of link_state.c *)

\* The ladder climbs and stays within its limits.
LEMMA NextBackoffBounds ==
    ASSUME NEW b \in BackoffMin..BackoffMax
    PROVE  /\ NextBackoff(b) \in BackoffMin..BackoffMax
           /\ NextBackoff(b) >= b
BY LinkConstants DEF NextBackoff

\* Assigning one field of a LINK keeps it a LINK.
LEMMA FieldType ==
    ASSUME NEW l \in LinkRecord
    PROVE  /\ \A v \in LinkStates : [l EXCEPT !.state = v] \in LinkRecord
           /\ \A v \in 0..StateCap : [l EXCEPT !.stateAge = v] \in LinkRecord
           /\ \A v \in 0..DataCap : [l EXCEPT !.dataAge = v] \in LinkRecord
           /\ \A v \in BOOLEAN : [l EXCEPT !.fresh = v] \in LinkRecord
           /\ \A v \in 0..GapCap : [l EXCEPT !.untilAttempt = v] \in LinkRecord
           /\ \A v \in BackoffMin..BackoffMax :
                  [l EXCEPT !.backoff = v] \in LinkRecord
           /\ \A v \in 0..AttemptCap : [l EXCEPT !.attempt = v] \in LinkRecord
<1>1. \A v \in LinkStates : [l EXCEPT !.state = v] \in LinkRecord
  BY DEF LinkRecord
<1>2. \A v \in 0..StateCap : [l EXCEPT !.stateAge = v] \in LinkRecord
  BY DEF LinkRecord
<1>3. \A v \in 0..DataCap : [l EXCEPT !.dataAge = v] \in LinkRecord
  BY DEF LinkRecord
<1>4. \A v \in BOOLEAN : [l EXCEPT !.fresh = v] \in LinkRecord
  BY DEF LinkRecord
<1>5. \A v \in 0..GapCap : [l EXCEPT !.untilAttempt = v] \in LinkRecord
  BY DEF LinkRecord
<1>6. \A v \in BackoffMin..BackoffMax : [l EXCEPT !.backoff = v] \in LinkRecord
  BY DEF LinkRecord
<1>7. \A v \in 0..AttemptCap : [l EXCEPT !.attempt = v] \in LinkRecord
  BY DEF LinkRecord
<1> QED
  BY <1>1, <1>2, <1>3, <1>4, <1>5, <1>6, <1>7

\* Zero is an age, a countdown and a count; the first rung is a rung.
LEMMA FieldValues ==
    /\ 0 \in 0..StateCap /\ 0 \in 0..DataCap /\ 0 \in 0..GapCap
    /\ 0 \in 0..AttemptCap /\ BackoffMin \in BackoffMin..BackoffMax
BY LinkConstants DEF StateCap, DataCap, GapCap, AttemptCap

\* link_enter keeps a LINK a LINK, and touches three fields.
LEMMA LinkEnterSpec ==
    ASSUME NEW l \in LinkRecord, NEW s \in LinkStates
    PROVE  /\ LinkEnter(l, s) \in LinkRecord
           /\ LinkEnter(l, s).state = s
           /\ LinkEnter(l, s).stateAge = 0
           /\ LinkEnter(l, s).fresh = FALSE
           /\ LinkEnter(l, s).dataAge = l.dataAge
           /\ LinkEnter(l, s).untilAttempt = l.untilAttempt
           /\ LinkEnter(l, s).backoff = l.backoff
           /\ LinkEnter(l, s).attempt = l.attempt
<1> DEFINE a == [l EXCEPT !.state = s]
           b == [a EXCEPT !.stateAge = 0]
           c == [b EXCEPT !.fresh = FALSE]
<1>1. a \in LinkRecord
  BY FieldType
<1>2. b \in LinkRecord
  <2> HIDE DEF a
  <2> QED BY <1>1, FieldType, FieldValues
<1>3. c \in LinkRecord
  <2> HIDE DEF b
  <2> QED BY <1>2, FieldType
<1>4. LinkEnter(l, s) = c
  BY DEF LinkEnter
<1>5. LinkEnter(l, s) \in LinkRecord
  BY <1>3, <1>4
<1> QED
  BY <1>5 DEF LinkEnter, LinkRecord

\* A block takes a link that waits to STREAMING and the ladder to its foot.
LEMMA LinkUpSpec ==
    ASSUME NEW l \in LinkRecord
    PROVE  /\ LinkUp(l) \in LinkRecord
           /\ LinkUp(l).state = "STREAMING"
           /\ LinkUp(l).attempt = 0
           /\ LinkUp(l).backoff = BackoffMin
<1> DEFINE a == [l EXCEPT !.backoff = BackoffMin]
           b == [a EXCEPT !.attempt = 0]
<1>1. a \in LinkRecord
  BY FieldType, FieldValues
<1>2. b \in LinkRecord
  <2> HIDE DEF a
  <2> QED BY <1>1, FieldType, FieldValues
<1>3. b.attempt = 0 /\ b.backoff = BackoffMin
  BY DEF LinkRecord
<1>4. LinkUp(l) = LinkEnter(b, "STREAMING")
  BY DEF LinkUp
<1> HIDE DEF b
<1>5. /\ LinkEnter(b, "STREAMING") \in LinkRecord
      /\ LinkEnter(b, "STREAMING").state = "STREAMING"
      /\ LinkEnter(b, "STREAMING").attempt = b.attempt
      /\ LinkEnter(b, "STREAMING").backoff = b.backoff
  BY <1>2, LinkEnterSpec DEF LinkStates
<1> QED
  BY <1>3, <1>4, <1>5

\* A link declared lost: the attempt count and the ladder stay where they are.
LEMMA LostSpec ==
    ASSUME NEW l \in LinkRecord,
           NEW r, r = LinkEnter(l, "LOST")
                  \/ r = [LinkEnter(l, "LOST") EXCEPT !.untilAttempt = 0]
    PROVE  /\ r \in LinkRecord
           /\ r.state = "LOST" /\ r.fresh = FALSE
           /\ r.attempt = l.attempt /\ r.backoff = l.backoff
           /\ r # [LinkEnter(l, "LOST") EXCEPT !.untilAttempt = 0]
               => r.untilAttempt = l.untilAttempt
<1> DEFINE e == LinkEnter(l, "LOST")
<1>1. /\ e \in LinkRecord /\ e.state = "LOST" /\ e.fresh = FALSE
      /\ e.attempt = l.attempt /\ e.backoff = l.backoff
      /\ e.untilAttempt = l.untilAttempt
  BY LinkEnterSpec DEF LinkStates
<1> HIDE DEF e
<1>2. [e EXCEPT !.untilAttempt = 0] \in LinkRecord
  BY <1>1, FieldType, FieldValues
<1>3. r = e \/ r = [e EXCEPT !.untilAttempt = 0]
  BY DEF e
<1> QED
  BY <1>1, <1>2, <1>3 DEF LinkRecord, e

\* link_retry_now: LOST and due, or an attempt already running.
LEMMA LinkRetryNowSpec ==
    ASSUME NEW l \in LinkRecord
    PROVE  /\ LinkRetryNow(l) \in LinkRecord
           /\ LinkRetryNow(l).attempt = l.attempt
           /\ LinkRetryNow(l).backoff = l.backoff
           /\ LinkRetryNow(l).state
                = IF l.state = "STARTING" THEN "LOST" ELSE l.state
           /\ l.state = "STARTING" => LinkRetryNow(l).fresh = FALSE
           /\ l.state # "STARTING" => LinkRetryNow(l).fresh = l.fresh
<1> DEFINE d == [l EXCEPT !.untilAttempt = 0]
<1>1. d \in LinkRecord
  BY FieldType, FieldValues
<1>2. /\ d.state = l.state /\ d.fresh = l.fresh
      /\ d.attempt = l.attempt /\ d.backoff = l.backoff
  BY DEF LinkRecord
<1>3. LinkRetryNow(l) = IF l.state = "STARTING" THEN LinkEnter(d, "LOST") ELSE d
  BY DEF LinkRetryNow
<1> HIDE DEF d
<1>4. /\ LinkEnter(d, "LOST") \in LinkRecord
      /\ LinkEnter(d, "LOST").state = "LOST"
      /\ LinkEnter(d, "LOST").fresh = FALSE
      /\ LinkEnter(d, "LOST").attempt = d.attempt
      /\ LinkEnter(d, "LOST").backoff = d.backoff
  BY <1>1, LinkEnterSpec DEF LinkStates
<1> QED
  BY <1>1, <1>2, <1>3, <1>4

\* link_attempted: back to STARTING, one rung up, the wait included in the pause.
LEMMA LinkAttemptedSpec ==
    ASSUME NEW l \in LinkRecord
    PROVE  /\ LinkAttempted(l) \in LinkRecord
           /\ LinkAttempted(l).state = "STARTING"
           /\ LinkAttempted(l).stateAge = 0
           /\ LinkAttempted(l).fresh = FALSE
           /\ LinkAttempted(l).attempt > 0
           /\ LinkAttempted(l).backoff >= l.backoff
           /\ LinkAttempted(l).untilAttempt
                = FirstData + LinkAttempted(l).backoff
<1> DEFINE n == NextBackoff(l.backoff)
           t == Atmost(l.attempt + 1, AttemptCap)
           a == [l EXCEPT !.attempt = t]
           b == [a EXCEPT !.dataAge = 0]
           c == [b EXCEPT !.backoff = n]
           d == [c EXCEPT !.untilAttempt = FirstData + n]
<1>1. l.backoff \in BackoffMin..BackoffMax /\ l.attempt \in 0..AttemptCap
  BY DEF LinkRecord
<1>2. n \in BackoffMin..BackoffMax /\ n >= l.backoff
  BY <1>1, NextBackoffBounds
<1>3. t \in 0..AttemptCap /\ t > 0
  BY <1>1 DEF Atmost, AttemptCap
<1>4. FirstData + n \in 0..GapCap
  <2> HIDE DEF n
  <2> QED BY <1>2, LinkConstants DEF GapCap
<1>5. LinkAttempted(l) = LinkEnter(d, "STARTING")
  BY DEF LinkAttempted
<1> HIDE DEF n, t
<1>6. a \in LinkRecord /\ a.attempt = t
  BY <1>3, FieldType DEF LinkRecord
<1> HIDE DEF a
<1>7. b \in LinkRecord /\ b.attempt = t
  BY <1>6, FieldType, FieldValues DEF LinkRecord
<1> HIDE DEF b
<1>8. c \in LinkRecord /\ c.attempt = t /\ c.backoff = n
  BY <1>2, <1>7, FieldType DEF LinkRecord
<1> HIDE DEF c
<1>9. d \in LinkRecord /\ d.attempt = t /\ d.backoff = n
        /\ d.untilAttempt = FirstData + n
  BY <1>4, <1>8, FieldType DEF LinkRecord
<1> HIDE DEF d
<1>10. /\ LinkEnter(d, "STARTING") \in LinkRecord
       /\ LinkEnter(d, "STARTING").state = "STARTING"
       /\ LinkEnter(d, "STARTING").stateAge = 0
       /\ LinkEnter(d, "STARTING").fresh = FALSE
       /\ LinkEnter(d, "STARTING").attempt = d.attempt
       /\ LinkEnter(d, "STARTING").backoff = d.backoff
       /\ LinkEnter(d, "STARTING").untilAttempt = d.untilAttempt
  BY <1>9, LinkEnterSpec DEF LinkStates
<1> QED
  BY <1>2, <1>3, <1>5, <1>9, <1>10

\* The five things link_tick can do to a LINK, each with what it then knows.
TickHeld(l, r, k) ==
    /\ k /\ l.state \in {"STARTING", "STREAMING"}
    /\ r.state = l.state /\ r.fresh = l.fresh /\ r.stateAge = 0
    /\ r.untilAttempt = l.untilAttempt /\ r.backoff = l.backoff
    /\ r.attempt = l.attempt

TickUp(l, r) ==
    /\ l.fresh /\ l.state \in {"STARTING", "LOST"}
    /\ r.state = "STREAMING" /\ r.attempt = 0

TickToLost(l, r) ==
    /\ l.state \in {"STARTING", "STREAMING"}
    /\ r.state = "LOST" /\ r.fresh = FALSE
    /\ r.backoff = l.backoff /\ r.attempt = l.attempt
    /\ (l.state = "STARTING" /\ l.attempt > 0) => r.untilAttempt = l.untilAttempt

TickRetry(l, r) ==
    /\ l.state = "LOST" /\ l.untilAttempt = 0
    /\ r.state = "RETRYING"
    /\ r.backoff = l.backoff /\ r.attempt = l.attempt

TickStays(l, r) ==
    /\ r = l
    /\ l.state = "STARTING" => ~l.fresh /\ l.stateAge < FirstData
    /\ l.state = "STREAMING" => l.dataAge < Disconnect
    /\ l.state = "LOST" => ~l.fresh

\* link_tick does one of the five, and keeps a LINK a LINK.
LEMMA LinkTickSpec ==
    ASSUME NEW l \in LinkRecord, NEW k \in BOOLEAN,
           NEW r, r = LinkTick(l, k)
    PROVE  /\ r \in LinkRecord
           /\ \/ TickHeld(l, r, k) \/ TickUp(l, r) \/ TickToLost(l, r)
              \/ TickRetry(l, r) \/ TickStays(l, r)
<1>0. /\ l.state \in LinkStates /\ l.stateAge \in 0..StateCap
      /\ l.dataAge \in 0..DataCap /\ l.untilAttempt \in 0..GapCap
      /\ l.attempt \in 0..AttemptCap /\ l.fresh \in BOOLEAN
  BY DEF LinkRecord
<1>1. CASE HeldByTransmission(l, k)
  <2> DEFINE a == [l EXCEPT !.dataAge = 0]
             b == [a EXCEPT !.stateAge = 0]
  <2>1. r = b
    BY <1>1 DEF LinkTick
  <2>2. a \in LinkRecord
    BY FieldType, FieldValues
  <2>3. b \in LinkRecord
    <3> HIDE DEF a
    <3> QED BY <2>2, FieldType, FieldValues
  <2>4. TickHeld(l, b, k)
    BY <1>1 DEF HeldByTransmission, TickHeld, LinkRecord
  <2> QED
    BY <2>1, <2>3, <2>4
<1>2. CASE ~HeldByTransmission(l, k) /\ l.state = "STARTING"
  <2>1. r = TickStarting(l)
    BY <1>2 DEF LinkTick
  <2>2. CASE l.fresh
    BY <1>2, <2>1, <2>2, LinkUpSpec DEF TickStarting, TickUp
  <2>3. CASE ~l.fresh /\ l.stateAge < FirstData
    BY <1>2, <2>1, <2>3 DEF TickStarting, TickStays
  <2>4. CASE ~l.fresh /\ ~(l.stateAge < FirstData) /\ l.attempt = 0
    <3>1. r = [LinkEnter(l, "LOST") EXCEPT !.untilAttempt = 0]
      BY <2>1, <2>4 DEF TickStarting
    <3>2. r \in LinkRecord /\ r.state = "LOST" /\ r.fresh = FALSE
            /\ r.backoff = l.backoff /\ r.attempt = l.attempt
      BY <3>1, LostSpec
    <3> QED BY <1>2, <2>4, <3>2 DEF TickToLost
  <2>5. CASE ~l.fresh /\ ~(l.stateAge < FirstData) /\ l.attempt # 0
    <3>1. r = LinkEnter(l, "LOST")
      BY <2>1, <2>5 DEF TickStarting
    <3>2. /\ LinkEnter(l, "LOST") \in LinkRecord
          /\ LinkEnter(l, "LOST").state = "LOST"
          /\ LinkEnter(l, "LOST").fresh = FALSE
          /\ LinkEnter(l, "LOST").backoff = l.backoff
          /\ LinkEnter(l, "LOST").attempt = l.attempt
          /\ LinkEnter(l, "LOST").untilAttempt = l.untilAttempt
      BY LinkEnterSpec DEF LinkStates
    <3> QED BY <1>2, <3>1, <3>2 DEF TickToLost
  <2> QED
    BY <2>2, <2>3, <2>4, <2>5
<1>3. CASE ~HeldByTransmission(l, k) /\ l.state = "STREAMING"
  <2>1. r = TickStreaming(l)
    BY <1>3 DEF LinkTick
  <2>2. CASE l.dataAge >= Disconnect
    <3>1. r = [LinkEnter(l, "LOST") EXCEPT !.untilAttempt = 0]
      BY <2>1, <2>2 DEF TickStreaming
    <3>2. r \in LinkRecord /\ r.state = "LOST" /\ r.fresh = FALSE
            /\ r.backoff = l.backoff /\ r.attempt = l.attempt
      BY <3>1, LostSpec
    <3> QED BY <1>3, <3>2 DEF TickToLost
  <2>3. CASE ~(l.dataAge >= Disconnect)
    BY <1>0, <1>3, <2>1, <2>3, LinkConstants DEF TickStreaming, TickStays, DataCap
  <2> QED
    BY <2>2, <2>3
<1>4. CASE ~HeldByTransmission(l, k) /\ l.state = "LOST"
  <2>1. r = TickLost(l)
    BY <1>4 DEF LinkTick
  <2>2. CASE l.fresh
    BY <1>4, <2>1, <2>2, LinkUpSpec DEF TickLost, TickUp
  <2>3. CASE ~l.fresh /\ l.untilAttempt = 0
    <3>1. r = LinkEnter(l, "RETRYING")
      BY <2>1, <2>3 DEF TickLost
    <3>2. /\ LinkEnter(l, "RETRYING") \in LinkRecord
          /\ LinkEnter(l, "RETRYING").state = "RETRYING"
          /\ LinkEnter(l, "RETRYING").backoff = l.backoff
          /\ LinkEnter(l, "RETRYING").attempt = l.attempt
      BY LinkEnterSpec DEF LinkStates
    <3> QED BY <1>4, <2>3, <3>1, <3>2 DEF TickRetry
  <2>4. CASE ~l.fresh /\ l.untilAttempt # 0
    BY <1>4, <2>1, <2>4 DEF TickLost, TickStays
  <2> QED
    BY <2>2, <2>3, <2>4
<1>5. CASE ~HeldByTransmission(l, k) /\ l.state = "RETRYING"
  BY <1>5 DEF LinkTick, TickStays
<1> QED
  BY <1>0, <1>1, <1>2, <1>3, <1>4, <1>5 DEF LinkStates

-----------------------------------------------------------------------------
(* The invariant *)

\* The state reconnect_init leaves behind satisfies the invariant.
LEMMA InitIInv == Init => IInv
<1> SUFFICES ASSUME Init PROVE IInv
  OBVIOUS
<1>1. LinkReset \in LinkRecord
  BY FieldValues DEF LinkReset, LinkRecord, LinkStates
<1>2. link \in LinkRecord
  BY <1>1 DEF Init
<1>3. 0 \in 0..MaxLag /\ 0 \in 0..DataCap /\ 0 \in 0..GapCap
  BY LinkConstants, FieldValues
<1>4. TypeOK
  BY <1>2, <1>3 DEF Init, TypeOK
<1>5. SilenceNoticed
  BY LinkConstants DEF Init, LinkReset, SilenceNoticed
<1> QED
  BY <1>4, <1>5
  DEF Init, LinkReset, IInv, PhaseInv, LadderInv, BlockInv, BannerTruthful

\* What watchdog_cb hands to link_tick: the_link with the two atomics copied in.
LEMMA SampledSpec ==
    ASSUME TypeOK
    PROVE  /\ Sampled(link) \in LinkRecord
           /\ Sampled(link).fresh <=> (link.fresh \/ newBlock)
           /\ Sampled(link).dataAge = dataAge
           /\ Sampled(link).state = link.state
           /\ Sampled(link).stateAge = link.stateAge
           /\ Sampled(link).untilAttempt = link.untilAttempt
           /\ Sampled(link).backoff = link.backoff
           /\ Sampled(link).attempt = link.attempt
<1> DEFINE f == link.fresh \/ newBlock
           a == [link EXCEPT !.fresh = f]
           b == [a EXCEPT !.dataAge = dataAge]
<1>1. link \in LinkRecord /\ dataAge \in 0..DataCap /\ f \in BOOLEAN
  BY DEF TypeOK
<1>2. Sampled(link) = b
  BY DEF Sampled
<1>3. a \in LinkRecord /\ (a.fresh <=> f) /\ a.state = link.state
        /\ a.stateAge = link.stateAge /\ a.untilAttempt = link.untilAttempt
        /\ a.backoff = link.backoff /\ a.attempt = link.attempt
  <2> HIDE DEF f
  <2> QED BY <1>1, FieldType DEF LinkRecord
<1> HIDE DEF a
<1>4. b \in LinkRecord
  BY <1>1, <1>3, FieldType
<1>5. b.fresh = a.fresh /\ b.dataAge = dataAge /\ b.state = a.state
        /\ b.stateAge = a.stateAge /\ b.untilAttempt = a.untilAttempt
        /\ b.backoff = a.backoff /\ b.attempt = a.attempt
  BY <1>1, <1>3 DEF LinkRecord
<1> QED
  BY <1>2, <1>3, <1>4, <1>5

\* watchdog_cb preserves the invariant.
LEMMA WatchdogIInv == IInv /\ Watchdog => IInv'
<1> SUFFICES ASSUME IInv, Watchdog PROVE IInv'
  OBVIOUS
<1> USE LinkConstants
<1> DEFINE l == Sampled(link)
<1>1. /\ TypeOK /\ PhaseInv /\ LadderInv /\ BlockInv /\ SilenceNoticed
      /\ BannerTruthful
  BY DEF IInv
<1>2. /\ l \in LinkRecord /\ (l.fresh <=> (link.fresh \/ newBlock))
      /\ l.dataAge = dataAge /\ l.state = link.state
      /\ l.stateAge = link.stateAge /\ l.untilAttempt = link.untilAttempt
      /\ l.backoff = link.backoff /\ l.attempt = link.attempt
  BY <1>1, SampledSpec
<1>3. link' = LinkTick(l, keyed)
  BY DEF Watchdog
<1> HIDE DEF l
<1>4. /\ link' \in LinkRecord
      /\ \/ TickHeld(l, link', keyed) \/ TickUp(l, link')
         \/ TickToLost(l, link') \/ TickRetry(l, link') \/ TickStays(l, link')
  BY <1>1, <1>2, <1>3, LinkTickSpec DEF TypeOK
<1>5. /\ phase = "idle" /\ owed' = 0 /\ newBlock' = FALSE
      /\ UNCHANGED <<dataAge, noting, autoExit, keyed, reachable, streamOn,
                     sinceAttempt, asked, unkeyedFor>>
  BY DEF Watchdog, env, history
<1>6. link.state # "RETRYING"
  BY <1>1, <1>5 DEF PhaseInv
<1>7. /\ link'.state = "RETRYING" => phase' \in {"painting", "exited"}
      /\ link'.state # "RETRYING"
           => phase' = "idle" /\ bannerShown' = BannerShows(link')
      /\ bannerShown' \in BOOLEAN
      /\ phase' \in {"idle", "painting", "exited"}
  <2> DEFINE act == link'.state = "RETRYING" /\ link.state # "RETRYING"
  <2>1. act <=> link'.state = "RETRYING"
    BY <1>6
  <2>2. \/ act /\ autoExit /\ phase' = "exited" /\ bannerShown' = bannerShown
        \/ /\ ~(act /\ autoExit)
           /\ phase' = IF act THEN "painting" ELSE "idle"
           /\ bannerShown' = BannerShows(link')
    BY DEF Watchdog
  <2>3. bannerShown \in BOOLEAN /\ BannerShows(link') \in BOOLEAN
    BY <1>1 DEF TypeOK, BannerShows
  <2> HIDE DEF act
  <2>4. CASE act /\ autoExit /\ phase' = "exited" /\ bannerShown' = bannerShown
    BY <2>1, <2>3, <2>4
  <2>5. CASE /\ ~(act /\ autoExit)
             /\ phase' = IF act THEN "painting" ELSE "idle"
             /\ bannerShown' = BannerShows(link')
    BY <2>1, <2>3, <2>5
  <2> QED
    BY <2>2, <2>4, <2>5
<1>8. TypeOK'
  <2>1. bannerShown' \in BOOLEAN /\ phase' \in {"idle", "painting", "exited"}
    BY <1>7
  <2>2. owed' \in 0..MaxLag
    BY <1>5
  <2> QED
    BY <1>1, <1>4, <1>5, <2>1, <2>2 DEF TypeOK
<1>9. PhaseInv'
  BY <1>7 DEF PhaseInv
<1>10. LadderInv'
  BY <1>1, <1>2, <1>4, <1>5
  DEF LadderInv, TickHeld, TickUp, TickToLost, TickRetry, TickStays, TypeOK, LinkRecord
<1>11. BlockInv'
  BY <1>1, <1>2, <1>4, <1>5
  DEF BlockInv, TickHeld, TickUp, TickToLost, TickRetry, TickStays, TypeOK, LinkRecord
<1>12. SilenceNoticed'
  <2>1. CASE TickHeld(l, link', keyed)
    BY <1>1, <1>2, <1>5, <2>1 DEF TickHeld, SilenceNoticed, BlockInv
  <2>2. CASE TickUp(l, link')
    BY <1>1, <1>2, <1>5, <2>2 DEF TickUp, SilenceNoticed, BlockInv, TypeOK
  <2>3. CASE TickToLost(l, link') \/ TickRetry(l, link')
    BY <2>3 DEF TickToLost, TickRetry, SilenceNoticed
  <2>4. CASE TickStays(l, link')
    BY <1>1, <1>2, <1>5, <2>4 DEF TickStays, SilenceNoticed, TypeOK
  <2> QED
    BY <1>4, <2>1, <2>2, <2>3, <2>4
<1>13. BannerTruthful'
  BY <1>7 DEF BannerTruthful, BannerShows
<1> QED
  BY <1>8, <1>9, <1>10, <1>11, <1>12, <1>13 DEF IInv

\* The end of an attempt preserves the invariant.
LEMMA AttemptDoneIInv == IInv /\ AttemptDone => IInv'
<1> SUFFICES ASSUME IInv, AttemptDone PROVE IInv'
  OBVIOUS
<1> USE LinkConstants
<1>1. /\ TypeOK /\ PhaseInv /\ LadderInv /\ BlockInv /\ SilenceNoticed
      /\ BannerTruthful
  BY DEF IInv
<1>2. /\ link' \in LinkRecord /\ link'.state = "STARTING" /\ link'.stateAge = 0
      /\ link'.fresh = FALSE /\ link'.attempt > 0
      /\ link'.untilAttempt = FirstData + link'.backoff
  BY <1>1, LinkAttemptedSpec DEF AttemptDone, TypeOK
<1>3. /\ phase' = "idle" /\ dataAge' = 0 /\ sinceAttempt' = 0 /\ asked' = FALSE
      /\ streamOn' = reachable
      /\ UNCHANGED <<newBlock, noting, autoExit, owed, keyed, reachable, unkeyedFor>>
  BY DEF AttemptDone
<1>4. bannerShown' \in BOOLEAN
  BY DEF AttemptDone, BannerShows
<1>5. TypeOK'
  BY <1>1, <1>2, <1>3, <1>4, FieldValues DEF TypeOK
<1>6. PhaseInv' /\ BannerTruthful'
  BY <1>2, <1>3 DEF PhaseInv, BannerTruthful
<1>7. LadderInv'
  BY <1>2, <1>3 DEF LadderInv, LinkRecord
<1>8. BlockInv' /\ SilenceNoticed'
  BY <1>1, <1>2, <1>3 DEF BlockInv, SilenceNoticed, TypeOK
<1> QED
  BY <1>5, <1>6, <1>7, <1>8 DEF IInv

\* The Retry button preserves the invariant.
LEMMA RetryNowIInv == IInv /\ RetryNow => IInv'
<1> SUFFICES ASSUME IInv, RetryNow PROVE IInv'
  OBVIOUS
<1>1. /\ TypeOK /\ PhaseInv /\ LadderInv /\ BlockInv /\ SilenceNoticed
      /\ BannerTruthful
  BY DEF IInv
<1>2. /\ link' \in LinkRecord /\ link'.attempt = link.attempt
      /\ link'.state = IF link.state = "STARTING" THEN "LOST" ELSE link.state
      /\ link.state = "STARTING" => link'.fresh = FALSE
      /\ link.state # "STARTING" => link'.fresh = link.fresh
  BY <1>1, LinkRetryNowSpec DEF RetryNow, TypeOK
<1>3. /\ bannerShown /\ asked' = TRUE
      /\ UNCHANGED <<newBlock, dataAge, noting, phase, bannerShown, autoExit, owed,
                     keyed, reachable, streamOn, sinceAttempt, unkeyedFor>>
  BY DEF RetryNow, env
<1>4. TypeOK'
  BY <1>1, <1>2, <1>3 DEF TypeOK
<1>5. PhaseInv' /\ BannerTruthful'
  BY <1>1, <1>2, <1>3 DEF PhaseInv, BannerTruthful
<1>6. LadderInv' /\ BlockInv'
  BY <1>1, <1>2, <1>3 DEF LadderInv, BlockInv
<1>7. SilenceNoticed'
  BY <1>1, <1>2, <1>3 DEF SilenceNoticed, BannerTruthful
<1> QED
  BY <1>4, <1>5, <1>6, <1>7 DEF IInv

\* The clock preserves the invariant.
LEMMA TickIInv == IInv /\ Tick => IInv'
<1> SUFFICES ASSUME IInv, Tick PROVE IInv'
  OBVIOUS
<1> USE LinkConstants
<1> DEFINE sa == Older(link.stateAge, StateCap)
           da == Older(link.dataAge, DataCap)
           ua == IF link.untilAttempt = 0 THEN 0 ELSE link.untilAttempt - 1
           a == [link EXCEPT !.stateAge = sa]
           b == [a EXCEPT !.dataAge = da]
           c == [b EXCEPT !.untilAttempt = ua]
<1>1. /\ TypeOK /\ PhaseInv /\ LadderInv /\ BlockInv /\ SilenceNoticed
      /\ BannerTruthful
  BY DEF IInv
<1>2. /\ link \in LinkRecord /\ link.stateAge \in 0..StateCap
      /\ link.dataAge \in 0..DataCap /\ link.untilAttempt \in 0..GapCap
      /\ link.backoff \in BackoffMin..BackoffMax
      /\ StateCap \in Nat /\ DataCap \in Nat /\ GapCap \in Nat
  BY <1>1 DEF TypeOK, LinkRecord, StateCap, DataCap, GapCap
<1>3. sa \in 0..StateCap /\ sa <= link.stateAge + 1
  BY <1>2 DEF Older, Atmost
<1>4. da \in 0..DataCap
  BY <1>2 DEF Older, Atmost
<1>5. ua \in 0..GapCap /\ ua + 1 >= link.untilAttempt
  BY <1>2
<1>6. link' = c
  BY DEF Tick
<1> HIDE DEF sa, da, ua
<1>7. /\ a \in LinkRecord /\ a.stateAge = sa /\ a.state = link.state
      /\ a.fresh = link.fresh /\ a.backoff = link.backoff
      /\ a.attempt = link.attempt
  BY <1>2, <1>3, FieldType DEF LinkRecord
<1> HIDE DEF a
<1>8. /\ b \in LinkRecord /\ b.stateAge = sa /\ b.state = link.state
      /\ b.fresh = link.fresh /\ b.backoff = link.backoff
      /\ b.attempt = link.attempt
  BY <1>4, <1>7, FieldType DEF LinkRecord
<1> HIDE DEF b
<1>9. /\ c \in LinkRecord /\ c.stateAge = sa /\ c.state = link.state
      /\ c.fresh = link.fresh /\ c.backoff = link.backoff
      /\ c.attempt = link.attempt /\ c.untilAttempt = ua
  BY <1>5, <1>8, FieldType DEF LinkRecord
<1> HIDE DEF c
<1>10. /\ dataAge' \in 0..DataCap /\ dataAge' <= dataAge + 1
       /\ unkeyedFor' \in 0..DataCap /\ unkeyedFor' <= unkeyedFor + 1
       /\ keyed => unkeyedFor' = 0
       /\ sinceAttempt' \in 0..GapCap
       /\ sinceAttempt' = sinceAttempt + 1 \/ sinceAttempt' = GapCap
       /\ owed' \in 0..MaxLag
       /\ phase # "attempting" => owed' = owed + 1
  BY <1>1, <1>2 DEF TypeOK, Tick, Older, Atmost
<1>11. /\ phase # "exited" /\ ~noting
       /\ UNCHANGED <<newBlock, noting, phase, bannerShown, autoExit, keyed,
                      reachable, streamOn, asked>>
  BY DEF Tick, env
<1>12. TypeOK'
  BY <1>1, <1>6, <1>9, <1>10, <1>11 DEF TypeOK
<1>13. PhaseInv' /\ BannerTruthful'
  BY <1>1, <1>6, <1>9, <1>11 DEF PhaseInv, BannerTruthful
<1>14. LadderInv'
  BY <1>1, <1>2, <1>5, <1>6, <1>9, <1>10, <1>11 DEF LadderInv, TypeOK, GapCap
<1>15. link.state # "RETRYING" => owed' = owed + 1
  BY <1>1, <1>10 DEF PhaseInv
<1>16. BlockInv'
  <2>1. (newBlock /\ ~noting /\ phase = "idle") => dataAge' <= owed'
    BY <1>1, <1>10 DEF BlockInv, TypeOK
  <2>2. (link.fresh /\ link.state = "STARTING") => unkeyedFor' <= owed'
    BY <1>1, <1>10, <1>15 DEF BlockInv, TypeOK
  <2>3. link.state = "LOST" => ~link.fresh
    BY <1>1 DEF BlockInv
  <2>4. /\ link'.fresh = link.fresh /\ link'.state = link.state
        /\ newBlock' = newBlock /\ noting' = noting /\ phase' = phase
        /\ keyed' = keyed
    BY <1>6, <1>9, <1>11
  <2>5. keyed => unkeyedFor' = 0
    BY <1>10
  <2> QED
    BY <2>1, <2>2, <2>3, <2>4, <2>5 DEF BlockInv
<1>17. SilenceNoticed'
  <2>1. link'.state = link.state /\ link'.stateAge = sa /\ noting' = noting
    BY <1>6, <1>9, <1>11
  <2>2. link.state = "STREAMING"
          => dataAge' < Disconnect + owed' \/ unkeyedFor' < Disconnect + owed'
    BY <1>1, <1>10, <1>11, <1>15 DEF SilenceNoticed, TypeOK
  <2>3. link.state = "STARTING" => sa < FirstData + owed'
    BY <1>1, <1>2, <1>3, <1>10, <1>15 DEF SilenceNoticed, TypeOK
  <2> QED
    BY <2>1, <2>2, <2>3 DEF SilenceNoticed
<1> QED
  BY <1>12, <1>13, <1>14, <1>16, <1>17 DEF IInv

\* Every step of the system preserves the invariant.
LEMMA NextIInv == IInv /\ [Next]_vars => IInv'
<1> SUFFICES ASSUME IInv, [Next]_vars PROVE IInv'
  OBVIOUS
<1> USE LinkConstants
<1>1. /\ TypeOK /\ PhaseInv /\ LadderInv /\ BlockInv /\ SilenceNoticed
      /\ BannerTruthful
  BY DEF IInv
<1>2. CASE NoteSeq
  <2>1. TypeOK'
    BY <1>1, <1>2 DEF NoteSeq, env, history, TypeOK
  <2>2. PhaseInv' /\ BannerTruthful'
    BY <1>1, <1>2 DEF NoteSeq, env, history, PhaseInv, BannerTruthful
  <2>3. LadderInv' /\ BlockInv' /\ SilenceNoticed'
    BY <1>1, <1>2 DEF NoteSeq, env, history, LadderInv, BlockInv, SilenceNoticed, TypeOK
  <2> QED
    BY <2>1, <2>2, <2>3 DEF IInv
<1>3. CASE NoteTime
  <2>1. TypeOK'
    BY <1>1, <1>3, FieldValues DEF NoteTime, env, history, TypeOK
  <2>2. PhaseInv' /\ BannerTruthful'
    BY <1>1, <1>3 DEF NoteTime, env, history, PhaseInv, BannerTruthful
  <2>3. LadderInv' /\ BlockInv' /\ SilenceNoticed'
    BY <1>1, <1>3 DEF NoteTime, env, history, LadderInv, BlockInv, SilenceNoticed, TypeOK
  <2> QED
    BY <2>1, <2>2, <2>3 DEF IInv
<1>4. CASE Watchdog
  BY <1>4, WatchdogIInv
<1>5. CASE BeginAttempt
  <2>1. TypeOK'
    BY <1>1, <1>5 DEF BeginAttempt, env, history, TypeOK
  <2>2. PhaseInv' /\ BannerTruthful'
    BY <1>1, <1>5 DEF BeginAttempt, env, history, PhaseInv, BannerTruthful
  <2>3. LadderInv' /\ BlockInv' /\ SilenceNoticed'
    BY <1>1, <1>5 DEF BeginAttempt, env, history, LadderInv, BlockInv, SilenceNoticed, TypeOK
  <2> QED
    BY <2>1, <2>2, <2>3 DEF IInv
<1>6. CASE AttemptDone
  BY <1>6, AttemptDoneIInv
<1>7. CASE RetryNow
  BY <1>7, RetryNowIInv
<1>8. CASE ExitPressed
  <2>1. TypeOK'
    BY <1>1, <1>8 DEF ExitPressed, env, history, TypeOK
  <2>2. PhaseInv' /\ BannerTruthful'
    BY <1>1, <1>8 DEF ExitPressed, env, history, PhaseInv, BannerTruthful
  <2>3. LadderInv' /\ BlockInv' /\ SilenceNoticed'
    BY <1>1, <1>8 DEF ExitPressed, env, history, LadderInv, BlockInv, SilenceNoticed, TypeOK
  <2> QED
    BY <2>1, <2>2, <2>3 DEF IInv
<1>9. CASE Key
  <2>1. TypeOK'
    BY <1>1, <1>9, FieldValues DEF Key, TypeOK
  <2>2. PhaseInv' /\ BannerTruthful'
    BY <1>1, <1>9 DEF Key, PhaseInv, BannerTruthful
  <2>3. LadderInv' /\ BlockInv' /\ SilenceNoticed'
    BY <1>1, <1>9 DEF Key, LadderInv, BlockInv, SilenceNoticed, TypeOK
  <2> QED
    BY <2>1, <2>2, <2>3 DEF IInv
<1>10. CASE Unkey
  <2>1. TypeOK'
    BY <1>1, <1>10 DEF Unkey, history, TypeOK
  <2>2. PhaseInv' /\ BannerTruthful'
    BY <1>1, <1>10 DEF Unkey, history, PhaseInv, BannerTruthful
  <2>3. LadderInv' /\ BlockInv' /\ SilenceNoticed'
    BY <1>1, <1>10 DEF Unkey, history, LadderInv, BlockInv, SilenceNoticed, TypeOK
  <2> QED
    BY <2>1, <2>2, <2>3 DEF IInv
<1>11. CASE Vanish \/ Return
  <2>1. TypeOK'
    BY <1>1, <1>11 DEF Vanish, Return, history, TypeOK
  <2>2. PhaseInv' /\ BannerTruthful'
    BY <1>1, <1>11 DEF Vanish, Return, history, PhaseInv, BannerTruthful
  <2>3. LadderInv' /\ BlockInv' /\ SilenceNoticed'
    BY <1>1, <1>11 DEF Vanish, Return, history, LadderInv, BlockInv, SilenceNoticed, TypeOK
  <2> QED
    BY <2>1, <2>2, <2>3 DEF IInv
<1>12. CASE Tick
  BY <1>12, TickIInv
<1>13. CASE UNCHANGED vars
  <2>1. TypeOK'
    BY <1>1, <1>13 DEF vars, env, history, TypeOK
  <2>2. PhaseInv' /\ BannerTruthful'
    BY <1>1, <1>13 DEF vars, env, history, PhaseInv, BannerTruthful
  <2>3. LadderInv' /\ BlockInv' /\ SilenceNoticed'
    BY <1>1, <1>13 DEF vars, env, history, LadderInv, BlockInv, SilenceNoticed, TypeOK
  <2> QED
    BY <2>1, <2>2, <2>3 DEF IInv
<1> QED
  BY <1>2, <1>3, <1>4, <1>5, <1>6, <1>7, <1>8, <1>9, <1>10, <1>11, <1>12, <1>13
  DEF Next

\* The inductive invariant holds in every reachable state of the watchdog.
LEMMA Invariance == Safety => []IInv
BY InitIInv, NextIInv, PTL DEF Safety

-----------------------------------------------------------------------------
(* The theorems *)

\* Types, and the backoff between RECONNECT_BACKOFF_MIN_SEC and _MAX_SEC, for
\* every value of the timeouts.
THEOREM TypeCorrect == Safety => []TypeOK
<1>1. IInv => TypeOK
  BY DEF IInv
<1> QED
  BY <1>1, Invariance, PTL

\* A silent link is noticed within its timeout plus the timer's lag, for every
\* value of the timeouts (link_tick on STARTING and STREAMING).
THEOREM SilenceIsNoticed == Safety => []SilenceNoticed
<1>1. IInv => SilenceNoticed
  BY DEF IInv
<1> QED
  BY <1>1, Invariance, PTL

\* The banner is up while the link is lost and down while it streams
\* (banner_update against every path that changes the state).
THEOREM BannerIsTruthful == Safety => []BannerTruthful
<1>1. IInv => BannerTruthful
  BY DEF IInv
<1> QED
  BY <1>1, Invariance, PTL

\* No attempt of the ladder starts early, for every value of the timeouts and of
\* the backoff limits (link_attempted's next_attempt against link_tick's test).
THEOREM NoRetryIsEarly == Safety => NoEarlyRetry
<1> DEFINE A == (link.state = "LOST" /\ link'.state = "RETRYING"
                   /\ link.attempt > 0 /\ ~asked)
                => sinceAttempt >= FirstData + link.backoff
<1>1. IInv /\ [Next]_vars => [A]_vars
  <2> SUFFICES ASSUME IInv, Next, link.state = "LOST", link'.state = "RETRYING",
                      link.attempt > 0, ~asked
               PROVE  sinceAttempt >= FirstData + link.backoff
    OBVIOUS
  <2>1. TypeOK /\ LadderInv /\ PhaseInv
    BY DEF IInv
  <2>2. CASE Watchdog
    <3> DEFINE l == Sampled(link)
    <3>1. /\ l \in LinkRecord /\ l.state = "LOST"
          /\ l.untilAttempt = link.untilAttempt
      BY <2>1, SampledSpec
    <3>2. link' = LinkTick(l, keyed) /\ keyed \in BOOLEAN
      BY <2>1, <2>2 DEF Watchdog, TypeOK
    <3> HIDE DEF l
    <3>3. \/ TickHeld(l, link', keyed) \/ TickUp(l, link')
          \/ TickToLost(l, link') \/ TickRetry(l, link') \/ TickStays(l, link')
      BY <3>1, <3>2, LinkTickSpec
    <3>4. link.untilAttempt = 0
      BY <3>1, <3>3 DEF TickHeld, TickUp, TickToLost, TickRetry, TickStays
    <3> QED
      BY <2>1, <3>4, LinkConstants DEF LadderInv, TypeOK, LinkRecord
  <2>3. CASE AttemptDone
    BY <2>1, <2>3 DEF AttemptDone, PhaseInv
  <2>4. CASE RetryNow
    <3>1. link'.state = link.state
      BY <2>1, <2>4, LinkRetryNowSpec DEF RetryNow, TypeOK
    <3> QED BY <3>1
  <2>5. CASE Tick
    <3>1. link'.state = link.state
      BY <2>1, <2>5 DEF Tick, TypeOK, LinkRecord
    <3> QED BY <3>1
  <2>6. CASE \/ NoteSeq \/ NoteTime \/ BeginAttempt \/ ExitPressed \/ Key \/ Unkey
             \/ Vanish \/ Return
    BY <2>6 DEF NoteSeq, NoteTime, BeginAttempt, ExitPressed, Key, Unkey, Vanish, Return
  <2> QED
    BY <2>2, <2>3, <2>4, <2>5, <2>6 DEF Next
<1>2. Safety => [][A]_vars
  BY <1>1, Invariance, PTL DEF Safety
<1> QED
  BY <1>2 DEF NoEarlyRetry

\* The ladder never steps down within an outage, for every pair of limits
\* (link_attempted clamps the doubled value).
THEOREM LadderNeverShrinks == Safety => BackoffNeverShrinks
<1> DEFINE A == (link.attempt > 0 /\ link'.attempt > 0)
                => link'.backoff >= link.backoff
<1>1. IInv /\ [Next]_vars => [A]_vars
  <2> SUFFICES ASSUME IInv, Next, link.attempt > 0, link'.attempt > 0
               PROVE  link'.backoff >= link.backoff
    OBVIOUS
  <2>1. TypeOK /\ link.backoff \in BackoffMin..BackoffMax
    BY DEF IInv, TypeOK, LinkRecord
  <2>2. CASE Watchdog
    <3> DEFINE l == Sampled(link)
    <3>1. l \in LinkRecord /\ l.backoff = link.backoff
      BY <2>1, SampledSpec
    <3>2. link' = LinkTick(l, keyed) /\ keyed \in BOOLEAN
      BY <2>1, <2>2 DEF Watchdog, TypeOK
    <3> HIDE DEF l
    <3>3. \/ TickHeld(l, link', keyed) \/ TickUp(l, link')
          \/ TickToLost(l, link') \/ TickRetry(l, link') \/ TickStays(l, link')
      BY <3>1, <3>2, LinkTickSpec
    <3>4. link'.backoff = link.backoff
      BY <3>1, <3>3 DEF TickHeld, TickUp, TickToLost, TickRetry, TickStays
    <3> QED
      BY <2>1, <3>4, LinkConstants
  <2>3. CASE AttemptDone
    <3>1. LinkAttempted(link).backoff >= link.backoff
      BY <2>1, LinkAttemptedSpec DEF TypeOK
    <3> QED BY <2>3, <3>1 DEF AttemptDone
  <2>4. CASE RetryNow
    <3>1. link'.backoff = link.backoff
      BY <2>1, <2>4, LinkRetryNowSpec DEF RetryNow, TypeOK
    <3> QED BY <2>1, <3>1, LinkConstants
  <2>5. CASE Tick
    <3>1. link'.backoff = link.backoff
      BY <2>1, <2>5 DEF Tick, TypeOK, LinkRecord
    <3> QED BY <2>1, <3>1, LinkConstants
  <2>6. CASE \/ NoteSeq \/ NoteTime \/ BeginAttempt \/ ExitPressed \/ Key \/ Unkey
             \/ Vanish \/ Return
    <3>1. link' = link
      BY <2>6
      DEF NoteSeq, NoteTime, BeginAttempt, ExitPressed, Key, Unkey, Vanish, Return
    <3> QED BY <2>1, <3>1, LinkConstants
  <2> QED
    BY <2>2, <2>3, <2>4, <2>5, <2>6 DEF Next
<1>2. Safety => [][A]_vars
  BY <1>1, Invariance, PTL DEF Safety
<1> QED
  BY <1>2 DEF BackoffNeverShrinks
-----------------------------------------------------------------------------
(* No retry is late *)

\* What the pause of a LINK may be when the timer owes w seconds: it ends with the
\* rung, counted from the end of the wait for the first block and then from the
\* loss; and an attempt that is due waits for the timer only.
Due(l, w) ==
    /\ l.state = "STARTING" /\ l.untilAttempt > 0
        => l.stateAge + l.untilAttempt <= FirstData + l.backoff
    /\ l.state = "LOST" =>
        /\ l.untilAttempt > 0 => l.stateAge + l.untilAttempt <= l.backoff
        /\ l.untilAttempt = 0 => l.stateAge <= l.backoff + w

\* Only the named fields matter, and every other state is due.
LEMMA DueElsewhere ==
    ASSUME NEW l \in LinkRecord, NEW w \in Nat, l.state \in {"STREAMING", "RETRYING"}
    PROVE  Due(l, w)
BY DEF Due

\* A link just lost, with no pause to wait for or within the rung.
LEMMA DueNow ==
    ASSUME NEW l \in LinkRecord, NEW w \in Nat, l.state = "LOST", l.stateAge = 0,
           l.untilAttempt <= l.backoff
    PROVE  Due(l, w)
BY LinkConstants DEF Due, LinkRecord

\* link_retry_now makes the next attempt due.
LEMMA RetryNowDue ==
    ASSUME NEW l \in LinkRecord, NEW w \in Nat, Due(l, w)
    PROVE  Due(LinkRetryNow(l), w)
<1> DEFINE d == [l EXCEPT !.untilAttempt = 0]
           e == LinkEnter(d, "LOST")
<1>1. /\ d \in LinkRecord /\ d.untilAttempt = 0 /\ d.state = l.state
      /\ d.stateAge = l.stateAge /\ d.backoff = l.backoff
  BY FieldType, FieldValues DEF LinkRecord
<1>2. LinkRetryNow(l) = IF l.state = "STARTING" THEN e ELSE d
  BY DEF LinkRetryNow
<1> HIDE DEF d
<1>3. /\ e \in LinkRecord /\ e.state = "LOST" /\ e.stateAge = 0 /\ e.untilAttempt = 0
  BY <1>1, LinkEnterSpec DEF LinkStates
<1> HIDE DEF e
<1>4. Due(e, w)
  BY <1>3, DueNow, LinkConstants DEF LinkRecord
<1>5. l.state # "STARTING" => Due(d, w)
  BY <1>1, LinkConstants DEF Due, LinkRecord, StateCap, GapCap
<1> QED
  BY <1>2, <1>4, <1>5

\* link_attempted starts the wait and the pause together.
LEMMA AttemptedDue ==
    ASSUME NEW l \in LinkRecord, NEW w \in Nat
    PROVE  Due(LinkAttempted(l), w)
<1> DEFINE r == LinkAttempted(l)
<1>1. /\ r \in LinkRecord /\ r.state = "STARTING" /\ r.stateAge = 0
      /\ r.untilAttempt = FirstData + r.backoff
  BY LinkAttemptedSpec
<1> HIDE DEF r
<1>2. Due(r, w)
  BY <1>1, LinkConstants DEF Due, LinkRecord
<1> QED
  BY <1>2 DEF r

\* link_tick: a wait that has run out has used FIRST_DATA_TIMEOUT_SEC of the
\* pause up, and a transmission only takes the age of the wait back.
LEMMA TickDue ==
    ASSUME NEW l \in LinkRecord, NEW k \in BOOLEAN, NEW w \in Nat, Due(l, w)
    PROVE  Due(LinkTick(l, k), 0)
<1> DEFINE r == LinkTick(l, k)
           lost == LinkEnter(l, "LOST")
           now == [lost EXCEPT !.untilAttempt = 0]
<1>1. r \in LinkRecord /\ l.state \in LinkStates
  BY LinkTickSpec DEF LinkRecord
<1>2. /\ lost \in LinkRecord /\ lost.state = "LOST" /\ lost.stateAge = 0
      /\ lost.untilAttempt = l.untilAttempt /\ lost.backoff = l.backoff
  BY LinkEnterSpec DEF LinkStates
<1>3. /\ now \in LinkRecord /\ now.state = "LOST" /\ now.stateAge = 0
      /\ now.untilAttempt <= now.backoff
  <2> HIDE DEF lost
  <2> QED BY <1>2, FieldType, FieldValues, LinkConstants DEF LinkRecord
<1>4. CASE HeldByTransmission(l, k)
  <2>1. r = [l EXCEPT !.dataAge = 0, !.stateAge = 0]
    BY <1>4 DEF LinkTick
  <2>2. /\ r.state = l.state /\ r.stateAge = 0
        /\ r.untilAttempt = l.untilAttempt /\ r.backoff = l.backoff
    BY <2>1 DEF LinkRecord
  <2>3. l.stateAge \in 0..StateCap /\ l.untilAttempt \in 0..GapCap
        /\ l.backoff \in BackoffMin..BackoffMax
    BY DEF LinkRecord
  <2> HIDE DEF r
  <2>4. Due(r, 0)
    BY <1>4, <2>2, <2>3, LinkConstants DEF Due, StateCap, GapCap, HeldByTransmission
  <2> QED
    BY <2>4 DEF r
<1>5. CASE ~HeldByTransmission(l, k) /\ l.state = "STARTING"
  <2>1. r = TickStarting(l)
    BY <1>5 DEF LinkTick
  <2>2. CASE l.fresh
    <3>1. LinkUp(l) \in LinkRecord /\ LinkUp(l).state = "STREAMING"
      BY LinkUpSpec
    <3> QED
      BY <2>1, <2>2, <3>1, DueElsewhere DEF TickStarting
  <2>3. CASE ~l.fresh /\ l.stateAge < FirstData
    BY <1>5, <2>1, <2>3 DEF TickStarting, Due
  <2>4. CASE ~l.fresh /\ ~(l.stateAge < FirstData) /\ l.attempt = 0
    <3>1. r = now
      BY <2>1, <2>4 DEF TickStarting
    <3> QED
      BY <1>3, <3>1, DueNow
  <2>5. CASE ~l.fresh /\ ~(l.stateAge < FirstData) /\ l.attempt # 0
    <3>1. r = lost
      BY <2>1, <2>5 DEF TickStarting
    <3>2. l.stateAge \in 0..StateCap /\ l.untilAttempt \in 0..GapCap
          /\ l.backoff \in BackoffMin..BackoffMax
      BY DEF LinkRecord
    <3>3. l.untilAttempt <= l.backoff
      BY <1>5, <2>5, <3>2, LinkConstants DEF Due, StateCap, GapCap
    <3> HIDE DEF lost
    <3>4. Due(lost, 0)
      BY <1>2, <3>3, DueNow
    <3> QED
      BY <3>1, <3>4
  <2> QED
    BY <2>2, <2>3, <2>4, <2>5
<1>6. CASE ~HeldByTransmission(l, k) /\ l.state = "STREAMING"
  <2>1. r = IF l.dataAge >= Disconnect THEN now ELSE l
    BY <1>6 DEF LinkTick, TickStreaming
  <2> HIDE DEF now, r
  <2>2. Due(now, 0) /\ Due(l, 0)
    BY <1>3, <1>6, DueNow, DueElsewhere
  <2>3. Due(r, 0)
    BY <2>1, <2>2
  <2> QED
    BY <2>3 DEF r
<1>7. CASE ~HeldByTransmission(l, k) /\ l.state = "LOST"
  <2>1. r = TickLost(l)
    BY <1>7 DEF LinkTick
  <2>2. /\ LinkUp(l) \in LinkRecord /\ LinkUp(l).state = "STREAMING"
        /\ LinkEnter(l, "RETRYING") \in LinkRecord
        /\ LinkEnter(l, "RETRYING").state = "RETRYING"
    BY LinkUpSpec, LinkEnterSpec DEF LinkStates
  <2>3. Due(LinkUp(l), 0) /\ Due(LinkEnter(l, "RETRYING"), 0)
    BY <2>2, DueElsewhere
  <2>4. l.untilAttempt # 0 => Due(l, 0)
    BY <1>7, LinkConstants DEF Due, LinkRecord, GapCap
  <2> QED
    BY <2>1, <2>3, <2>4 DEF TickLost
<1>8. CASE ~HeldByTransmission(l, k) /\ l.state = "RETRYING"
  BY <1>8, DueElsewhere DEF LinkTick
<1> QED
  BY <1>1, <1>4, <1>5, <1>6, <1>7, <1>8 DEF LinkStates

\* Every step keeps the pause within the rung.
LEMMA DueStep == IInv /\ Due(link, owed) /\ [Next]_vars => Due(link', owed')
<1> SUFFICES ASSUME IInv, Due(link, owed), [Next]_vars PROVE Due(link', owed')
  OBVIOUS
<1>1. TypeOK /\ link \in LinkRecord /\ keyed \in BOOLEAN /\ owed \in Nat /\ PhaseInv
  BY LinkConstants DEF IInv, TypeOK
<1>2. CASE Watchdog
  <2> DEFINE l == Sampled(link)
  <2>1. /\ l \in LinkRecord /\ l.state = link.state /\ l.stateAge = link.stateAge
        /\ l.untilAttempt = link.untilAttempt /\ l.backoff = link.backoff
    BY <1>1, SampledSpec
  <2>2. link' = LinkTick(l, keyed) /\ owed' = 0
    BY <1>2 DEF Watchdog
  <2> HIDE DEF l
  <2>3. Due(l, owed)
    BY <2>1 DEF Due
  <2> QED
    BY <1>1, <2>1, <2>2, <2>3, TickDue
<1>3. CASE AttemptDone
  BY <1>1, <1>3, AttemptedDue DEF AttemptDone
<1>4. CASE RetryNow
  BY <1>1, <1>4, RetryNowDue DEF RetryNow
<1>5. CASE Tick
  <2>1. /\ link'.state = link.state /\ link'.backoff = link.backoff
        /\ link'.stateAge = Older(link.stateAge, StateCap)
        /\ link'.untilAttempt = IF link.untilAttempt = 0 THEN 0
                                ELSE link.untilAttempt - 1
    BY <1>1, <1>5 DEF Tick, LinkRecord
  <2>2. /\ link.stateAge \in 0..StateCap /\ link.untilAttempt \in 0..GapCap
        /\ link.backoff \in BackoffMin..BackoffMax
    BY <1>1 DEF LinkRecord
  <2>3. link'.stateAge <= link.stateAge + 1
    BY <2>1, <2>2, LinkConstants DEF Older, Atmost, StateCap
  <2>4. link'.stateAge \in Nat /\ link'.untilAttempt \in Nat
    BY <2>1, <2>2, LinkConstants DEF Older, Atmost, StateCap, GapCap
  <2>5. link.state = "LOST" =>
          /\ link'.untilAttempt > 0
              => link'.stateAge + link'.untilAttempt <= link'.backoff
          /\ link'.untilAttempt = 0 => link'.stateAge <= link'.backoff + owed'
    <3>1. link.state = "LOST" => owed' = owed + 1
      BY <1>1, <1>5, LinkConstants DEF Tick, PhaseInv, Atmost, TypeOK
    <3> QED
      BY <1>1, <2>1, <2>2, <2>3, <2>4, <3>1, LinkConstants DEF Due, GapCap, StateCap
  <2>6. link.state = "STARTING" /\ link'.untilAttempt > 0
          => link'.stateAge + link'.untilAttempt <= FirstData + link'.backoff
    BY <2>1, <2>2, <2>3, <2>4, LinkConstants DEF Due, StateCap, GapCap
  <2> QED
    BY <2>1, <2>5, <2>6 DEF Due
<1>6. CASE \/ NoteSeq \/ NoteTime \/ BeginAttempt \/ ExitPressed \/ Key \/ Unkey
           \/ Vanish \/ Return \/ UNCHANGED vars
  <2>1. link' = link /\ owed' = owed
    BY <1>6 DEF NoteSeq, NoteTime, BeginAttempt, ExitPressed, Key, Unkey, Vanish,
                Return, vars
  <2> QED
    BY <2>1
<1> QED
  BY <1>2, <1>3, <1>4, <1>5, <1>6 DEF Next

\* No attempt is late: for every timeout and every ladder, a lost link is attempted
\* within the rung it stands on plus the timer's lag, whatever was keyed while its
\* first block was awaited (link_attempted's next_attempt, link_tick's early
\* return).
THEOREM NoRetryIsLate == Safety => []NoLateRetry
<1> DEFINE D == Due(link, owed)
<1>1. Init => D
  BY LinkConstants DEF Init, LinkReset, Due
<1>2. IInv /\ D => NoLateRetry
  BY LinkConstants DEF IInv, TypeOK, LinkRecord, StateCap, GapCap, Due, NoLateRetry
<1>3. IInv /\ D /\ [Next]_vars => D'
  BY DueStep
<1> HIDE DEF D
<1> QED
  BY <1>1, <1>2, <1>3, Invariance, PTL DEF Safety
=============================================================================
