------------------------- MODULE WebLivenessProofs -------------------------
(***************************************************************************)
(* A holder that no longer renews its TX lease, or whose arm the operator  *)
(* has withdrawn, loses it: proved for any number of connections, from the *)
(* fairness of the threads, of web_state_tick and of the workers of a      *)
(* server that is stopping.                                                *)
(*                                                                         *)
(* The argument is about how much a thread has left to do.  Its list has a *)
(* measure that every step of it lowers unless the step revokes the TX     *)
(* lease (Rank), and the measure has a bound that depends on no constant   *)
(* (Short), so a thread that keeps running gets through its list.          *)
(***************************************************************************)
EXTENDS WebLeaseProofs

-----------------------------------------------------------------------------
(* What a step leaves of its thread's list *)

\* The steps of web_client_release and those that a revocation adds, and the
\* requests' steps that may give up the rest of their list.
Leaving  == {"releaseControl", "releaseLease", "resetAudio", "unkey", "freeSlot"}
Aborting == {"needControl", "expireLease", "renewLease", "needLease", "heardFrom",
             "off", "needAudio"}

\* A step may be replaced by one that has less to it, never the other way.
Weight(op) ==
    IF op \in {"releaseLease", "resetAudio", "unkey"} THEN 0
    ELSE IF op = "mediaGap" THEN 1 ELSE 2

Rank(s) == IF s = << >> THEN 0 ELSE 3 * Len(s) + Weight(s[1].op)

\* What follows the first step of the list s.
Remainder(s, b) ==
    \/ b = Tail(s)
    \/ s[1].op \in Aborting /\ b = << >>
    \/ s[1].op = "tickLease" /\ txOwner = None /\ b = Tail(Tail(s))

\* The list n after the first step of the list s: what follows, one lighter
\* step first, or web_tx_audio_reset and web_remote_unkey after a revocation.
Carries(s, n) ==
    \E b : /\ Remainder(s, b)
           /\ \/ n = b
              \/ \E y \in Revocations \cup [op : {"mediaGap"}, who : {None}] :
                    /\ n = <<y>> \o b
                    /\ Weight(y.op) < Weight(s[1].op)
                    /\ y.op = "mediaGap" => s[1].op = "tickMedia"
              \/ /\ n = FailSafe \o b
                 /\ txOwner # None /\ txOwner' = None
                 /\ s[1].op # "resetAudio"

LEMMA ListSteps ==
    ASSUME Order, NEW t \in Threads, Step(t)
    PROVE  Carries(todo[t], todo'[t]) /\ todo' = [todo EXCEPT ![t] = todo'[t]]
<1> DEFINE s == todo[t][1]
           rest == Tail(todo[t])
           new == todo'[t]
<1>0. Lists /\ TypeOK /\ todo[t] # << >> /\ List(t, todo[t])
  BY DEF Order, Lists, Step
<1>1. s = Head(todo[t]) /\ s \in StepsOf(t)
  BY <1>0, FirstStep
<1>2. \A n : Then(t, n) => todo' = [todo EXCEPT ![t] = todo'[t]] /\ new = n
  BY <1>0 DEF Lists, Then
<1>3. /\ controlOwner # None => controlOwner \in Clients
      /\ txOwner # None => txOwner \in Clients
  BY <1>0 DEF TypeOK, Owners
<1>4. \A c \in Clients : Do("releaseLease", c) \in Revocations
      /\ Do("releaseLease", c).op = "releaseLease"
      /\ Do("resetAudio", c) \in Revocations /\ Do("resetAudio", c).op = "resetAudio"
  BY DEF Do, Revocations, Owners
<1>5. /\ Do("unkey", None) \in Revocations /\ Do("unkey", None).op = "unkey"
      /\ Do("mediaGap", None) \in [op : {"mediaGap"}, who : {None}]
      /\ Do("mediaGap", None).op = "mediaGap"
  BY DEF Do, Revocations, Owners
<1> DEFINE Goes(n) == Carries(todo[t], n)
<1>6. Goes(rest) /\ (s.op \in Aborting => Goes(<< >>))
      /\ (s.op = "tickLease" /\ txOwner = None => Goes(Tail(rest)))
  BY DEF Carries, Remainder
<1>7. ASSUME NEW b, Remainder(todo[t], b), NEW y \in Revocations, y.op = "mediaGap" => FALSE,
             Weight(y.op) < Weight(s.op)
      PROVE  Goes(<<y>> \o b)
  BY <1>7 DEF Carries
<1>8. ASSUME NEW b, Remainder(todo[t], b), txOwner # None, txOwner' = None, s.op # "resetAudio"
      PROVE  Goes(FailSafe \o b)
  BY <1>8 DEF Carries
<1>9. Remainder(todo[t], rest) /\ (s.op \in Aborting => Remainder(todo[t], << >>))
  BY DEF Remainder
<1>10. ASSUME NEW c \in Clients, NEW b, Remainder(todo[t], b), Weight(s.op) = 2
       PROVE  Goes(<<Do("releaseLease", c)>> \o b) /\ Goes(<<Do("resetAudio", c)>> \o b)
  <2>1. Weight("releaseLease") = 0 /\ Weight("resetAudio") = 0
    BY DEF Weight
  <2> QED
    BY <1>4, <1>7, <1>10, <2>1
<1> DEFINE Done == \E n : Then(t, n) /\ Goes(n)
<1> HIDE DEF Goes, s, rest, new
<1> SUFFICES Done
  BY <1>2 DEF Goes, new
<1>11. ASSUME NEW c, NEW renew, NEW yes, NEW no, IsLeaseOwner(t, c, renew, yes, no),
              Remainder(todo[t], yes), Remainder(todo[t], no), s.op # "resetAudio",
              Goes(yes), Goes(no)
       PROVE  Done
  <2>1. CASE txOwner # None /\ ~txLive
    <3>1. txOwner' = None /\ Then(t, FailSafe \o no)
      BY <1>11, <2>1 DEF IsLeaseOwner, ClearTxOwner
    <3> QED
      BY <1>8, <1>11, <2>1, <3>1
  <2>2. CASE ~(txOwner # None /\ ~txLive)
    BY <1>11, <2>2 DEF IsLeaseOwner
  <2> QED
    BY <2>1, <2>2
<1>12. ASSUME NEW c, NEW renew, NEW yes, NEW no, IsControlOwner(t, c, renew, yes, no),
              Remainder(todo[t], no), Weight(s.op) = 2, Goes(yes), Goes(no)
       PROVE  Done
  <2>1. CASE controlOwner # None /\ ~controlLive
    <3>1. Then(t, <<Do("releaseLease", controlOwner)>> \o no)
      BY <1>12, <2>1 DEF IsControlOwner
    <3> QED
      BY <1>3, <1>10, <1>12, <2>1, <3>1
  <2>2. CASE ~(controlOwner # None /\ ~controlLive)
    BY <1>12, <2>2 DEF IsControlOwner
  <2> QED
    BY <2>1, <2>2
<1>13. CASE LeaseStep(t, s, rest)
  <2>1. CASE s.op = "needControl" /\ IsControlOwner(t, s.who, TRUE, rest, << >>)
    BY <1>6, <1>9, <1>12, <2>1 DEF Aborting, Weight
  <2>2. CASE s.op = "expireControl" /\ IsControlOwner(t, s.who, FALSE, rest, rest)
    BY <1>6, <1>9, <1>12, <2>2 DEF Weight
  <2>3. CASE /\ s.op \in {"takeControl", "forceControl"}
             /\ TakeControl(t, s.who, s.op = "forceControl", rest)
    <3>1. Weight(s.op) = 2
      BY <2>3 DEF Weight
    <3>2. \/ Then(t, rest)
          \/ controlOwner # None /\ Then(t, <<Do("releaseLease", controlOwner)>> \o rest)
      BY <2>3 DEF TakeControl
    <3> QED
      BY <1>3, <1>6, <1>9, <1>10, <3>1, <3>2
  <2>4. CASE s.op = "releaseControl" /\ ReleaseControl(t, s.who, rest)
    <3>1. Weight(s.op) = 2
      BY <2>4 DEF Weight
    <3>2. Then(t, rest) \/ (controlOwner = s.who /\ Then(t, <<Do("releaseLease", s.who)>> \o rest))
      BY <2>4 DEF ReleaseControl
    <3>3. s.who \in Clients
      BY <1>1, <2>4, Whose DEF WorkerOps
    <3> QED
      BY <1>6, <1>9, <1>10, <3>1, <3>2, <3>3
  <2>5. CASE s.op = "releaseLease" /\ ReleaseLease(t, s.who, rest)
    <3>1. s.who # None
      BY <1>1, <2>5, Whose, WebConstants
    <3>2. CASE txOwner = s.who
      <4>1. txOwner' = None /\ Then(t, FailSafe \o rest)
        BY <2>5, <3>2 DEF ReleaseLease, ClearTxOwner
      <4> QED
        BY <1>8, <1>9, <2>5, <3>1, <3>2, <4>1
    <3>3. CASE txOwner # s.who
      BY <1>6, <2>5, <3>3 DEF ReleaseLease
    <3> QED
      BY <3>2, <3>3
  <2>6. CASE s.op = "takeLease" /\ TakeLease(t, s.who, rest)
    <3>1. Weight(s.op) = 2
      BY <2>6 DEF Weight
    <3>2. Then(t, rest) \/ Then(t, <<Do("resetAudio", s.who)>> \o rest)
      BY <2>6 DEF TakeLease
    <3>3. s.who \in Clients
      BY <1>1, <2>6, Whose DEF WorkerOps, Takers
    <3> QED
      BY <1>6, <1>9, <1>10, <3>1, <3>2, <3>3
  <2>7. CASE /\ s.op = "expireLease"
             /\ IF armed THEN IsLeaseOwner(t, s.who, FALSE, rest, rest)
                ELSE Then(t, << >>) /\ UNCHANGED leases
    BY <1>6, <1>9, <1>11, <2>7 DEF Aborting
  <2>8. CASE s.op = "renewLease" /\ IsLeaseOwner(t, s.who, TRUE, rest, << >>)
    BY <1>6, <1>9, <1>11, <2>8 DEF Aborting
  <2>9. CASE /\ s.op = "needLease"
             /\ IF armed THEN IsLeaseOwner(t, s.who, TRUE, rest, << >>)
                ELSE Then(t, << >>) /\ UNCHANGED leases
    BY <1>6, <1>9, <1>11, <2>9 DEF Aborting
  <2>10. CASE /\ s.op = "heardFrom"
              /\ IsLeaseOwner(t, s.who, FALSE, IF armed THEN rest ELSE << >>, << >>)
    BY <1>6, <1>9, <1>11, <2>10 DEF Aborting
  <2> QED
    BY <1>13, <2>1, <2>2, <2>3, <2>4, <2>5, <2>6, <2>7, <2>8, <2>9, <2>10 DEF LeaseStep
<1>14. CASE KeyStep(t, s, rest)
  BY <1>6, <1>14 DEF KeyStep, Unkey, SetFlags, Push, Aborting
<1>15. CASE MediaStep(t, s, rest)
  BY <1>6, <1>15 DEF MediaStep, Aborting
<1>16. CASE FreeSlot(t, s, rest)
  BY <1>6, <1>16 DEF FreeSlot
<1>17. CASE t = Gtk /\ TickStep(s, rest)
  <2>1. CASE s.op = "tickControl"
    <3>1. Weight(s.op) = 2
      BY <2>1 DEF Weight
    <3>2. Then(t, rest) \/ IsControlOwner(t, controlOwner, FALSE, rest, rest)
      BY <1>17, <2>1 DEF TickStep
    <3> QED
      BY <1>6, <1>9, <1>12, <3>1, <3>2
  <2>2. CASE s.op = "tickLease"
    <3>1. (txOwner = None /\ Then(t, Tail(rest))) \/ IsLeaseOwner(t, txOwner, FALSE, rest, rest)
      BY <1>17, <2>2 DEF TickStep
    <3> QED
      BY <1>6, <1>9, <1>11, <2>2, <3>1
  <2>3. CASE s.op = "tickArm"
    <3>1. Weight(s.op) = 2
      BY <2>3 DEF Weight
    <3>2. Then(t, rest) \/ (txOwner # None /\ Then(t, <<Do("releaseLease", txOwner)>> \o rest))
      BY <1>17, <2>3 DEF TickStep, TickArm
    <3> QED
      BY <1>3, <1>6, <1>9, <1>10, <3>1, <3>2
  <2>4. CASE s.op = "tickMedia"
    <3>1. Weight(s.op) = 2 /\ Weight("mediaGap") = 1
      BY <2>4 DEF Weight
    <3>2. Then(t, rest) \/ Then(t, <<Do("mediaGap", None)>> \o rest)
      BY <1>17, <2>4 DEF TickStep, TickMedia
    <3>3. Goes(<<Do("mediaGap", None)>> \o rest)
      BY <1>5, <1>9, <2>4, <3>1 DEF Goes, Carries, s
    <3> QED
      BY <1>6, <3>2, <3>3
  <2>5. CASE s.op = "mediaGap"
    <3>1. Weight(s.op) = 1 /\ Weight("releaseLease") = 0 /\ Weight("unkey") = 0
      BY <2>5 DEF Weight
    <3>2. \/ Then(t, rest) \/ Then(t, <<Do("unkey", None)>> \o rest)
          \/ txOwner # None /\ Then(t, <<Do("releaseLease", txOwner)>> \o rest)
      BY <1>17, <2>5 DEF TickStep, MediaGap
    <3> QED
      BY <1>3, <1>4, <1>5, <1>6, <1>7, <1>9, <3>1, <3>2
  <2>6. CASE s.op = "tickSync"
    <3>1. Weight(s.op) = 2 /\ Weight("unkey") = 0
      BY <2>6 DEF Weight
    <3>2. Then(t, rest) \/ Then(t, <<Do("unkey", None)>> \o rest)
      BY <1>17, <2>6 DEF TickStep, TickSync
    <3> QED
      BY <1>5, <1>6, <1>7, <1>9, <3>1, <3>2
  <2> QED
    BY <1>17, <2>1, <2>2, <2>3, <2>4, <2>5, <2>6 DEF TickStep
<1>18. CASE t = Gtk /\ StopStep(s, rest)
  BY <1>6, <1>18 DEF StopStep
<1> QED
  BY <1>1, <1>13, <1>14, <1>15, <1>16, <1>17, <1>18 DEF Step, rest

-----------------------------------------------------------------------------
(* How much a thread has left to do *)

\* A list has at most five steps, a revocation in front of them two.
Brief(s) == Len(s) <= 5 \/ (Len(s) = 6 /\ s[1].op = "resetAudio")

\* A worker that will free its slot does nothing else.
Departs(s) == Parts(s) => \A i \in 1..Len(s) : s[i].op \in Leaving

\* A step that some revocation put in front of the list.
Put(x) == x.op \in {"releaseLease", "resetAudio", "unkey"}

LEMMA Remaining ==
    ASSUME NEW t \in Threads, NEW s, List(t, s), s # << >>, NEW b, Remainder(s, b)
    PROVE  /\ b \in Seq(StepsOf(t)) /\ Len(b) \in Nat /\ Len(s) \in Nat
           /\ Len(s) >= 1 /\ Len(b) <= Len(s) - 1
           /\ \A i \in 1..Len(b) : \E j \in 1..Len(s) : b[i] = s[j]
<1> DEFINE r == Tail(s)
<1>1. /\ r \in Seq(StepsOf(t)) /\ Len(s) \in Nat /\ Len(s) >= 1
      /\ Len(r) = Len(s) - 1
      /\ \A i \in 1..Len(r) : r[i] = s[i + 1]
  BY FirstStep
<1>2. \A i \in 1..Len(r) : i + 1 \in 1..Len(s)
  BY <1>1
<1>3. List(t, r)
  BY RestGoesOn DEF Onward
<1>4. s[1].op = "tickLease" => r # << >>
  BY RestGoesOn DEF Unended
<1> HIDE DEF r
<1>5. CASE b = r
  BY <1>1, <1>2, <1>5
<1>6. CASE b = << >>
  BY <1>1, <1>6
<1>7. CASE r # << >> /\ b = Tail(r)
  <2>1. /\ b \in Seq(StepsOf(t)) /\ Len(b) = Len(r) - 1
        /\ \A i \in 1..Len(b) : b[i] = r[i + 1]
    BY <1>3, <1>7, FirstStep
  <2>2. \A i \in 1..Len(b) : i + 1 \in 1..Len(r)
    BY <1>1, <2>1
  <2>3. \A i \in 1..Len(b) : b[i] = s[(i + 1) + 1] /\ (i + 1) + 1 \in 1..Len(s)
    BY <1>1, <1>2, <2>1, <2>2
  <2>4. Len(b) \in Nat /\ Len(b) <= Len(s) - 1
    BY <1>1, <2>1
  <2> QED
    BY <1>1, <2>1, <2>3, <2>4
<1> QED
  BY <1>4, <1>5, <1>6, <1>7 DEF Remainder, r

\* Whatever a step leaves, it is brief, less than before unless the TX lease
\* was revoked, and made of the old steps and of what revocations consist of.
LEMMA Lightens ==
    ASSUME NEW t \in Threads, NEW s, List(t, s), s # << >>, NEW n, Carries(s, n)
    PROVE  /\ Brief(s) => Brief(n)
           /\ txOwner' = txOwner => Rank(n) < Rank(s)
           /\ \A i \in 1..Len(n) :
                 \/ Put(n[i])
                 \/ n[i].op = "mediaGap" /\ s[1].op = "tickMedia"
                 \/ \E j \in 1..Len(s) : n[i] = s[j]
           /\ n # << >> /\ n[1].op \in Window => Remainder(s, n)
<1>0. \A op : Weight(op) \in {0, 1, 2}
  BY DEF Weight
<1>1. PICK b : /\ Remainder(s, b)
               /\ \/ n = b
                  \/ \E y \in Revocations \cup [op : {"mediaGap"}, who : {None}] :
                        /\ n = <<y>> \o b
                        /\ Weight(y.op) < Weight(s[1].op)
                        /\ y.op = "mediaGap" => s[1].op = "tickMedia"
                  \/ /\ n = FailSafe \o b
                     /\ txOwner # None /\ txOwner' = None
                     /\ s[1].op # "resetAudio"
  BY DEF Carries
<1>2. /\ b \in Seq(StepsOf(t)) /\ Len(b) \in Nat /\ Len(s) \in Nat
      /\ Len(s) >= 1 /\ Len(b) <= Len(s) - 1
      /\ \A i \in 1..Len(b) : \E j \in 1..Len(s) : b[i] = s[j]
  BY <1>1, Remaining
<1>3. Rank(s) = 3 * Len(s) + Weight(s[1].op)
  BY DEF Rank
<1>4. CASE n = b
  <2>1. Rank(n) = 0 \/ Rank(n) = 3 * Len(b) + Weight(b[1].op)
    BY <1>4 DEF Rank
  <2>2. Rank(n) < Rank(s)
    BY <1>0, <1>2, <1>3, <2>1
  <2>3. Brief(s) => Len(b) <= 5
    <3> SUFFICES ASSUME Brief(s) PROVE Len(b) <= 5
      OBVIOUS
    <3>1. Len(s) <= 6
      <4>1. CASE Len(s) <= 5
        BY <1>2, <4>1
      <4>2. CASE Len(s) = 6
        BY <4>2
      <4> QED
        BY <4>1, <4>2 DEF Brief
    <3>2. Len(b) \in Nat /\ Len(s) \in Nat /\ Len(b) <= Len(s) - 1
      BY <1>2
    <3> QED
      BY <3>1, <3>2
  <2> QED
    BY <1>1, <1>2, <1>4, <2>2, <2>3 DEF Brief
<1>5. ASSUME NEW y \in Revocations \cup [op : {"mediaGap"}, who : {None}],
             n = <<y>> \o b, Weight(y.op) < Weight(s[1].op),
             y.op = "mediaGap" => s[1].op = "tickMedia"
      PROVE  /\ Brief(s) => Brief(n)
             /\ Rank(n) < Rank(s)
             /\ \A i \in 1..Len(n) :
                   \/ Put(n[i])
                   \/ n[i].op = "mediaGap" /\ s[1].op = "tickMedia"
                   \/ \E j \in 1..Len(s) : n[i] = s[j]
             /\ n # << >> => n[1].op \notin Window
  <2>1. /\ Len(n) = Len(b) + 1 /\ n[1] = y /\ n # << >>
        /\ \A i \in 1..Len(n) : i # 1 => i - 1 \in 1..Len(b) /\ n[i] = b[i - 1]
    BY <1>2, <1>5
  <2>2. Put(y) \/ y.op = "mediaGap"
    BY DEF Put, Revocations
  <2>3. Rank(n) = 3 * Len(n) + Weight(y.op)
    BY <2>1 DEF Rank
  <2>4. Rank(n) < Rank(s)
    <3>1. Weight(y.op) \in {0, 1, 2} /\ Weight(s[1].op) \in {0, 1, 2}
      BY <1>0
    <3>2. Weight(y.op) < Weight(s[1].op) /\ Len(n) <= Len(s) /\ Len(n) \in Nat
      BY <1>2, <1>5, <2>1
    <3> QED
      BY <1>2, <1>3, <2>3, <3>1, <3>2
  <2>5. s[1].op # "resetAudio"
    BY <1>0, <1>5 DEF Weight
  <2>6. Brief(s) => Brief(n)
    BY <1>2, <2>1, <2>5 DEF Brief
  <2>7. n[1].op \notin Window
    BY <2>1, <2>2 DEF Put, Window
  <2>8. ASSUME NEW i \in 1..Len(n)
        PROVE  \/ Put(n[i])
               \/ n[i].op = "mediaGap" /\ s[1].op = "tickMedia"
               \/ \E j \in 1..Len(s) : n[i] = s[j]
    BY <1>2, <1>5, <2>1, <2>2
  <2> QED
    BY <2>4, <2>6, <2>7, <2>8
<1>6. CASE /\ n = FailSafe \o b
           /\ txOwner # None /\ txOwner' = None
           /\ s[1].op # "resetAudio"
  <2> DEFINE a == Do("resetAudio", None)
             u == Do("unkey", None)
  <2>1. Put(a) /\ Put(u) /\ a.op = "resetAudio"
    BY DEF Put, Do
  <2>2. n = <<a, u>> \o b
    BY <1>6 DEF FailSafe
  <2> HIDE DEF a, u
  <2>3. /\ Len(n) = Len(b) + 2 /\ n[1] = a /\ n[2] = u /\ n # << >>
        /\ \A i \in 1..Len(n) : i # 1 /\ i # 2 => i - 2 \in 1..Len(b) /\ n[i] = b[i - 2]
    BY <1>2, <2>2
  <2>4. Brief(s) => Brief(n)
    BY <1>2, <1>6, <2>1, <2>3 DEF Brief
  <2>5. \A i \in 1..Len(n) : Put(n[i]) \/ \E j \in 1..Len(s) : n[i] = s[j]
    BY <1>2, <2>1, <2>3
  <2>6. n[1].op \notin Window
    BY <2>1, <2>3 DEF Window
  <2> QED
    BY <1>6, <2>4, <2>5, <2>6
<1> QED
  BY <1>1, <1>4, <1>5, <1>6

LEMMA Departing ==
    ASSUME NEW t \in Threads, NEW s, List(t, s), s # << >>, NEW n, Carries(s, n), Departs(s)
    PROVE  Departs(n)
<1> SUFFICES ASSUME Parts(n), NEW i \in 1..Len(n)
             PROVE  n[i].op \in Leaving
  BY DEF Departs
<1>1. \A k \in 1..Len(n) :
         \/ Put(n[k])
         \/ n[k].op = "mediaGap" /\ s[1].op = "tickMedia"
         \/ \E j \in 1..Len(s) : n[k] = s[j]
  BY Lightens
<1>2. PICK k \in 1..Len(n) : n[k].op = "freeSlot"
  BY DEF Parts
<1>3. Parts(s)
  BY <1>1, <1>2 DEF Parts, Put
<1>4. \A j \in 1..Len(s) : s[j].op \in Leaving
  BY <1>3 DEF Departs
<1>5. 1 \in 1..Len(s)
  BY FirstStep
<1> QED
  BY <1>1, <1>4, <1>5 DEF Leaving, Put

-----------------------------------------------------------------------------
(* The work of every thread stays short *)

\* The GTK thread waits for the workers only when the server is stopping.
Halting == (\E i \in 1..Len(todo[Gtk]) : todo[Gtk][i].op = "stopped") => ~running

Short == Halting /\ \A t \in Threads : Brief(todo[t]) /\ Departs(todo[t])

\* What the argument rests on.
GInv == Order /\ Short /\ (WindowIsAtomic => Keys)

LEMMA ProgramShort ==
    ASSUME NEW c \in Clients, NEW r \in AllRequests
    PROVE  Len(Program(r, c)) <= 5
BY DEF Program, AllRequests

\* Who else's list changes when a thread is given its own.
LEMMA Given ==
    ASSUME Lists, NEW u \in Threads, NEW n, Then(u, n)
    PROVE  todo'[u] = n /\ \A t \in Threads : t # u => todo'[t] = todo[t]
BY DEF Lists, Then

Idle(t) == todo[t] = << >>

\* A thread begins with a short list, and waits for the workers only in
\* web_server_stop.
LEMMA StartShort ==
    ASSUME Order, Next, NEW t \in Threads, Idle(t), todo'[t] # << >>
    PROVE  /\ Brief(todo'[t]) /\ Departs(todo'[t])
           /\ t = Gtk => \A i \in 1..Len(todo'[t]) : todo'[t][i].op = "stopped" => ~running'
<1> DEFINE Goal == /\ Brief(todo'[t]) /\ Departs(todo'[t])
                   /\ t = Gtk => \A i \in 1..Len(todo'[t]) :
                                     todo'[t][i].op = "stopped" => ~running'
<1> SUFFICES Goal
  OBVIOUS
<1>0. Lists /\ todo[t] = << >>
  BY DEF Order, Idle
<1>1. \A u \in Threads : \A n : Then(u, n) => u = t /\ todo'[t] = n
  BY <1>0, Given
<1>2. ASSUME NEW u \in Threads, Step(u) PROVE FALSE
  <2>1. todo[u] # << >> /\ todo' = [todo EXCEPT ![u] = todo'[u]]
    BY <1>2, ListSteps DEF Step
  <2> QED
    BY <1>0, <2>1 DEF Lists
<1>3. ASSUME NEW c \in Clients, NEW r \in AllRequests, Receive(c, r) PROVE Goal
  <2>1. todo'[t] = Program(r, c) /\ t # Gtk
    BY <1>1, <1>3, ThreadKinds DEF Receive
  <2> QED
    BY <2>1, ProgramShort, ProgramLists DEF Brief, Departs
<1>4. ASSUME NEW c \in Clients, HangUp(c) PROVE Goal
  <2>1. t # Gtk /\ todo'[t] = <<Do("releaseControl", c), Do("releaseLease", c), Do("freeSlot", c)>>
    BY <1>1, <1>4, ThreadKinds DEF HangUp
  <2> QED
    BY <2>1 DEF Brief, Departs, Leaving, Do
<1>5. ASSUME NEW c \in Clients, Packet(c) PROVE Goal
  <2>1. t # Gtk /\ todo'[t] = <<Do("heardFrom", c), Do("putAudio", c)>>
    BY <1>1, <1>5, ThreadKinds DEF Packet
  <2> QED
    BY <2>1 DEF Brief, Departs, Parts, Do
<1>6. CASE StateTick
  <2>1. todo'[t] = <<Do("tickControl", None), Do("tickLease", None), Do("tickArm", None),
                     Do("tickMedia", None), Do("tickSync", None)>>
    BY <1>1, <1>6, ThreadKinds DEF StateTick
  <2> QED
    BY <2>1 DEF Brief, Departs, Parts, Do
<1>7. CASE Stop
  <2>1. ~running' /\ todo'[t] = <<Do("stopped", None), Do("unkey", None)>>
    BY <1>1, <1>7, ThreadKinds DEF Stop
  <2> QED
    BY <2>1 DEF Brief, Departs, Parts, Do
<1>8. CASE \/ \E c \in Clients : Connect(c)
           \/ Dispatch \/ DeskUnkey \/ DeskArm \/ Start
           \/ ControlTimeout \/ LeaseTimeout \/ AudioGap
  BY <1>0, <1>8, OtherOrder
<1> QED
  BY <1>2, <1>3, <1>4, <1>5, <1>6, <1>7, <1>8 DEF Next

\* The ways a thread's list may change.
LEMMA Moves ==
    ASSUME Order, [Next]_vars, NEW t \in Threads
    PROVE  \/ todo'[t] = todo[t]
           \/ Step(t) /\ Carries(todo[t], todo'[t])
           \/ Idle(t) /\ todo'[t] # << >> /\ List(t, todo'[t]) /\ todo'[t][1].op \notin Window
<1>0. Lists
  BY DEF Order
<1>1. ASSUME NEW u \in Threads, Step(u)
      PROVE  IF u = t THEN Carries(todo[t], todo'[t]) ELSE todo'[t] = todo[t]
  <2>1. Carries(todo[u], todo'[u]) /\ todo' = [todo EXCEPT ![u] = todo'[u]]
    BY <1>1, ListSteps
  <2> QED
    BY <1>0, <2>1 DEF Lists
<1>2. ASSUME NEW u \in Threads, NEW n, Starts(u, n)
      PROVE  \/ todo'[t] = todo[t]
             \/ Idle(t) /\ todo'[t] # << >> /\ List(t, todo'[t]) /\ todo'[t][1].op \notin Window
  BY <1>0, <1>2, Given DEF Starts, Idle
<1>3. \/ \E u \in Threads : Step(u)
      \/ \E u \in Threads : \E n : Starts(u, n)
      \/ todo' = todo
  BY Starters, OtherOrder DEF Next
<1> QED
  BY <1>1, <1>2, <1>3

\* Only web_server_start, on an idle GTK thread, sets web_running.
LEMMA OnlyStart ==
    ASSUME Order, [Next]_vars, running', ~running
    PROVE  Start
BY DEF Next, vars, Step, Receive, Connect, HangUp, Packet, StateTick, Dispatch, DeskUnkey,
       DeskArm, Stop, Order, TypeOK, ControlTimeout, LeaseTimeout, AudioGap

LEMMA InitShort == Init => Short
<1> SUFFICES ASSUME Init PROVE Short
  OBVIOUS
<1>1. \A t \in Threads : todo[t] = << >>
  BY DEF Init
<1> QED
  BY <1>1, ThreadKinds DEF Short, Halting, Brief, Departs, Parts

LEMMA StepsKeepShort == Order /\ Short /\ [Next]_vars => Short'
<1> SUFFICES ASSUME Order, Short, [Next]_vars PROVE Short'
  OBVIOUS
<1>0. \A t \in Threads : List(t, todo[t]) /\ Brief(todo[t]) /\ Departs(todo[t])
  BY DEF Order, Lists, Short
<1>1. \A t \in Threads : Step(t) => todo[t] # << >> /\ running' = running
  BY DEF Step
<1>2. todo'= todo \/ Next
  BY DEF vars
<1>3. ASSUME NEW t \in Threads
      PROVE  Brief(todo'[t]) /\ Departs(todo'[t])
  <2>1. CASE todo'[t] = todo[t]
    BY <1>0, <2>1
  <2>2. CASE Step(t) /\ Carries(todo[t], todo'[t])
    BY <1>0, <1>1, <2>2, Lightens, Departing
  <2>3. CASE Idle(t) /\ todo'[t] # << >>
    BY <1>2, <2>3, StartShort DEF Idle
  <2> QED
    BY <2>1, <2>2, <2>3, Moves
<1>4. Halting'
  <2> SUFFICES ASSUME NEW i \in 1..Len(todo'[Gtk]), todo'[Gtk][i].op = "stopped"
               PROVE  ~running'
    BY DEF Halting
  <2>0. Gtk \in Threads
    BY ThreadKinds
  <2>1. CASE todo'[Gtk] = todo[Gtk]
    <3>1. ~running
      BY <2>1 DEF Short, Halting
    <3>2. todo[Gtk] # << >>
      BY <2>1
    <3> QED
      BY <3>1, <3>2, OnlyStart DEF Start
  <2>2. CASE Step(Gtk) /\ Carries(todo[Gtk], todo'[Gtk])
    <3>1. \E j \in 1..Len(todo[Gtk]) : todo[Gtk][j].op = "stopped"
      BY <1>0, <1>1, <2>0, <2>2, Lightens DEF Put
    <3> QED
      BY <1>1, <2>0, <2>2, <3>1 DEF Short, Halting
  <2>3. CASE Idle(Gtk) /\ todo'[Gtk] # << >>
    BY <1>2, <2>0, <2>3, StartShort DEF Idle
  <2> QED
    BY <2>0, <2>1, <2>2, <2>3, Moves
<1> QED
  BY <1>3, <1>4 DEF Short

LEMMA AlwaysGInv == Safety => []GInv
<1>1. Init => GInv
  BY InitOrder, InitShort, InitKeys DEF GInv
<1>2. GInv /\ [Next]_vars => GInv'
  <2> SUFFICES ASSUME GInv, [Next]_vars PROVE GInv'
    OBVIOUS
  <2>1. WindowIsAtomic => Keys'
    BY StepsKeepKeys DEF GInv
  <2> QED
    BY <2>1, StepsKeepOrder, StepsKeepShort DEF GInv
<1> QED
  BY <1>1, <1>2, PTL DEF Safety

-----------------------------------------------------------------------------
(* What the fairness of Spec gives, with the conditions written out under which
   an action can be taken *)

\* Thread t can make its next step: it waits neither for a decoder, nor for the
\* workers, nor for a keying request to get to its callback.
StepCanRun(t) ==
    /\ ~Idle(t)
    /\ todo[t][1].op = "freeSlot" => Idle(Decoder(todo[t][1].who))
    /\ todo[t][1].op = "stopped" => connected = {}
    /\ WindowIsAtomic => todo[t][1].op \in Window \/ \A c \in Clients : ~InWindow(c)

TickCanRun      == running /\ Idle(Gtk)
HangUpCanRun(c) == ~running /\ c \in connected /\ Idle(Worker(c))

StepIsFair(t)   == []<>~StepCanRun(t) \/ []<><<Step(t)>>_vars
TickIsFair      == <>[]~TickCanRun \/ []<><<StateTick>>_vars
HangUpIsFair(c) == []<>~HangUpCanRun(c) \/ []<><<~running /\ HangUp(c)>>_vars

WebFairness ==
    /\ StepIsFair(Gtk) /\ TickIsFair
    /\ \A c \in Clients : StepIsFair(Worker(c)) /\ HangUpIsFair(c)

-----------------------------------------------------------------------------
(* What becomes of a doomed lease *)

Whys == {"silent", "disarmed"}

\* The step of web_state_tick that ends it.
Target(why) == IF why = "silent" THEN Do("tickLease", None) ELSE Do("tickArm", None)

\* web_state_tick is on its way to it, or at the release it has decided on.
Ready(c, why) ==
    /\ ~Idle(Gtk)
    /\ Holds(todo[Gtk], Target(why)) \/ todo[Gtk][1] = Do("releaseLease", c)

-----------------------------------------------------------------------------
(* A thread that is not idle gets nearer to being so *)

At(t, n) == Rank(todo[t]) <= n

\* The measure of the thread does not rise, and falls, for as many values as it
\* has.
Stays(t) ==
    /\ (At(t, 1) => At(t, 1)') /\ (At(t, 2) => At(t, 2)') /\ (At(t, 3) => At(t, 3)')
    /\ (At(t, 4) => At(t, 4)') /\ (At(t, 5) => At(t, 5)') /\ (At(t, 6) => At(t, 6)')
    /\ (At(t, 7) => At(t, 7)') /\ (At(t, 8) => At(t, 8)') /\ (At(t, 9) => At(t, 9)')
    /\ (At(t, 10) => At(t, 10)') /\ (At(t, 11) => At(t, 11)') /\ (At(t, 12) => At(t, 12)')
    /\ (At(t, 13) => At(t, 13)') /\ (At(t, 14) => At(t, 14)') /\ (At(t, 15) => At(t, 15)')
    /\ (At(t, 16) => At(t, 16)') /\ (At(t, 17) => At(t, 17)') /\ (At(t, 18) => At(t, 18)')

Sinks(t) ==
    /\ (At(t, 1) => At(t, 0)') /\ (At(t, 2) => At(t, 1)') /\ (At(t, 3) => At(t, 2)')
    /\ (At(t, 4) => At(t, 3)') /\ (At(t, 5) => At(t, 4)') /\ (At(t, 6) => At(t, 5)')
    /\ (At(t, 7) => At(t, 6)') /\ (At(t, 8) => At(t, 7)') /\ (At(t, 9) => At(t, 8)')
    /\ (At(t, 10) => At(t, 9)') /\ (At(t, 11) => At(t, 10)') /\ (At(t, 12) => At(t, 11)')
    /\ (At(t, 13) => At(t, 12)') /\ (At(t, 14) => At(t, 13)') /\ (At(t, 15) => At(t, 14)')
    /\ (At(t, 16) => At(t, 15)') /\ (At(t, 17) => At(t, 16)') /\ (At(t, 18) => At(t, 17)')

LEMMA RankBounds ==
    ASSUME NEW t \in Threads, NEW s, List(t, s), Brief(s)
    PROVE  Rank(s) \in Nat /\ Rank(s) <= 18 /\ (s # << >> => Rank(s) > 0)
<1>1. CASE s = << >>
  BY <1>1 DEF Rank
<1>2. CASE s # << >>
  <2>1. Len(s) \in Nat /\ Len(s) >= 1
    BY <1>2, FirstStep
  <2>2. Rank(s) = 3 * Len(s) + Weight(s[1].op)
    BY <1>2 DEF Rank
  <2>3. Weight(s[1].op) \in {0, 1, 2}
    BY DEF Weight
  <2>4. CASE Len(s) <= 5
    BY <2>1, <2>2, <2>3, <2>4
  <2>5. CASE Len(s) = 6 /\ s[1].op = "resetAudio"
    <3>1. Weight(s[1].op) = 0
      BY <2>5 DEF Weight
    <3> QED
      BY <2>2, <2>5, <3>1
  <2> QED
    BY <2>4, <2>5 DEF Brief
<1> QED
  BY <1>1, <1>2

LEMMA Falls ==
    ASSUME GInv, [Next]_vars, NEW t \in Threads, ~Idle(t), txOwner' = txOwner
    PROVE  Stays(t) /\ (Step(t) => Sinks(t))
<1> DEFINE a == Rank(todo[t])
           b == Rank(todo'[t])
<1>0. GInv'
  <2>1. WindowIsAtomic => Keys'
    BY StepsKeepKeys DEF GInv
  <2> QED
    BY <2>1, StepsKeepOrder, StepsKeepShort DEF GInv
<1>1. a \in Nat /\ b \in Nat
  <2>1. List(t, todo[t]) /\ Brief(todo[t]) /\ List(t, todo'[t]) /\ Brief(todo'[t])
    BY <1>0 DEF GInv, Order, Lists, Short
  <2> QED
    BY <2>1, RankBounds
<1>2. ASSUME Carries(todo[t], todo'[t]) PROVE b < a
  BY <1>2, Lightens DEF GInv, Order, Lists, Idle
<1>3. todo'[t] = todo[t] \/ Carries(todo[t], todo'[t])
  BY Moves DEF GInv
<1>4. Step(t) => Carries(todo[t], todo'[t])
  BY ListSteps DEF GInv
<1>5. \A n : (At(t, n) <=> a <= n) /\ (At(t, n)' <=> b <= n)
  BY DEF At
<1>6. b <= a /\ (Step(t) => b < a)
  BY <1>1, <1>2, <1>3, <1>4
<1> HIDE DEF a, b
<1>7. Stays(t)
  BY <1>1, <1>5, <1>6 DEF Stays
<1>8. b < a => Sinks(t)
  BY <1>1, <1>5 DEF Sinks
<1> QED
  BY <1>6, <1>7, <1>8

\* A worker that parts with the lease still to give up gives it up first.
LEMMA PartsLast ==
    ASSUME GInv, NEW c \in Clients, txOwner = c, Parts(todo[Worker(c)])
    PROVE  ~Idle(Worker(c)) /\ todo[Worker(c)][1].op \in Leaving \ {"freeSlot"}
<1> DEFINE t == Worker(c)
           s == todo[t]
<1>0. t \in Threads /\ List(t, s) /\ Departs(s) /\ Holds(s, Do("releaseLease", c))
  BY ThreadKinds DEF GInv, Order, Lists, Short, Parting
<1>1. PICK i \in 1..Len(s) : s[i] = Do("releaseLease", c)
  BY <1>0 DEF Holds
<1>2. s # << >>
  BY <1>1
<1>3. s[1].op \in Leaving
  BY <1>0, <1>2, FirstStep DEF Departs
<1>4. s[1].op # "freeSlot"
  <2> SUFFICES ASSUME s[1].op = "freeSlot" PROVE FALSE
    OBVIOUS
  <2>1. Tail(s) = << >>
    BY <1>0, <1>2, RestGoesOn
  <2>2. Len(s) = 1
    <3>1. Len(Tail(s)) = Len(s) - 1 /\ Len(s) \in Nat
      BY <1>0, <1>2, FirstStep
    <3>2. Len(<< >>) = 0
      OBVIOUS
    <3>3. Len(Tail(s)) = 0
      BY <2>1, <3>2, Zenon
    <3> QED
      BY <3>1, <3>3
  <2>3. s[1] = Do("releaseLease", c)
    BY <1>1, <2>2
  <2> QED
    BY <2>3 DEF Do
<1> QED
  BY <1>2, <1>3, <1>4 DEF Idle

\* No other connection is between its check and its callback.
LEMMA OneWindow ==
    ASSUME GInv, WindowIsAtomic, NEW c \in Clients, txOwner = c
    PROVE  \A d \in Clients : InWindow(d) => d = c
BY DEF GInv, Keys, Windows

\* The holder's worker is never kept waiting.
LEMMA WorkerRuns ==
    ASSUME GInv, NEW c \in Clients, NEW why \in Whys, Doomed(c, why), ~Idle(Worker(c))
    PROVE  StepCanRun(Worker(c))
<1> DEFINE t == Worker(c)
           s == todo[t]
<1>0. t \in Threads /\ t # Gtk /\ s # << >> /\ List(t, s) /\ txOwner = c
  BY ThreadKinds DEF GInv, Order, Lists, Idle, Doomed
<1>1. Head(s) = s[1] /\ s[1] \in StepsOf(t) /\ 1 \in 1..Len(s)
  BY <1>0, FirstStep
<1>2. s[1].op # "freeSlot"
  BY <1>0, <1>1, PartsLast DEF Parts
<1>3. s[1].op # "stopped"
  BY <1>0, <1>1, Whose DEF GtkOps
<1>4. WindowIsAtomic => s[1].op \in Window \/ \A d \in Clients : ~InWindow(d)
  BY <1>0, <1>1, OneWindow DEF InWindow, Window
<1> QED
  BY <1>0, <1>2, <1>3, <1>4 DEF StepCanRun, Idle

\* A step of the list that is not its first is still in it afterwards, if the
\* first gives up nothing.
LEMMA Survives ==
    ASSUME NEW t \in Threads, NEW s, List(t, s), s # << >>, NEW n, Carries(s, n),
           \A b : Remainder(s, b) => b = Tail(s), NEW x, Holds(s, x), s[1] # x
    PROVE  Holds(n, x)
<1> DEFINE r == Tail(s)
<1>1. /\ r \in Seq(StepsOf(t)) /\ Len(s) \in Nat /\ Len(r) = Len(s) - 1
      /\ \A i \in 1..Len(r) : r[i] = s[i + 1]
  BY FirstStep
<1>2. PICK i \in 1..Len(s) : s[i] = x /\ i # 1
  BY DEF Holds
<1> HIDE DEF r
<1>3. i - 1 \in 1..Len(r) /\ r[i - 1] = x
  BY <1>1, <1>2
<1>4. ASSUME NEW y, n = <<y>> \o r PROVE Holds(n, x)
  <2>1. i \in 1..Len(n) /\ n[i] = r[i - 1]
    BY <1>1, <1>3, <1>4
  <2> QED
    BY <1>3, <2>1 DEF Holds
<1>5. ASSUME n = FailSafe \o r PROVE Holds(n, x)
  <2>1. i + 1 \in 1..Len(n) /\ n[i + 1] = r[i - 1]
    BY <1>1, <1>3, <1>5 DEF FailSafe
  <2> QED
    BY <1>3, <2>1 DEF Holds
<1>6. n = r => Holds(n, x)
  BY <1>3 DEF Holds
<1> QED
  BY <1>4, <1>5, <1>6 DEF Carries, r

\* Nor is the GTK thread of a running server, once the holder's worker is past
\* its callback.
LEMMA GtkRuns ==
    ASSUME GInv, NEW c \in Clients, NEW why \in Whys, Doomed(c, why), running, ~InWindow(c),
           ~Idle(Gtk)
    PROVE  StepCanRun(Gtk)
<1> DEFINE s == todo[Gtk]
<1>0. Gtk \in Threads /\ s # << >> /\ List(Gtk, s) /\ txOwner = c
  BY ThreadKinds DEF GInv, Order, Lists, Idle, Doomed
<1>1. s[1] \in StepsOf(Gtk) /\ 1 \in 1..Len(s)
  BY <1>0, FirstStep
<1>2. s[1].op # "freeSlot"
  BY <1>0, <1>1, Whose, ThreadKinds DEF WorkerOps
<1>3. s[1].op # "stopped"
  BY <1>1 DEF GInv, Short, Halting
<1>4. WindowIsAtomic => \A d \in Clients : ~InWindow(d)
  BY <1>0, OneWindow
<1> QED
  BY <1>0, <1>2, <1>3, <1>4 DEF StepCanRun, Idle

\* A doomed holder does not begin to key: the arm, or the lease, is checked.
LEMMA WindowStaysShut ==
    ASSUME GInv, [Next]_vars, NEW c \in Clients, NEW why \in Whys,
           Doomed(c, why), Doomed(c, why)', ~InWindow(c)
    PROVE  ~InWindow(c)'
<1> DEFINE t == Worker(c)
           s == todo[t]
           n == todo'[t]
<1>0. t \in Threads /\ t # Gtk /\ List(t, s) /\ txOwner = c /\ txOwner' = c /\ None # c
  BY ThreadKinds, WebConstants DEF GInv, Order, Lists, Doomed
<1>1. List(t, n)
  BY <1>0, StepsKeepOrder DEF GInv, Order, Lists
<1> SUFFICES ASSUME n # << >>, Head(n).op \in Window PROVE FALSE
  BY DEF InWindow, Window
<1>2. n[1].op \in Window
  BY <1>0, <1>1, FirstStep
<1>3. CASE n = s
  BY <1>3 DEF InWindow, Window
<1>4. CASE Step(t) /\ Carries(s, n)
  <2>0. s # << >>
    BY <1>4 DEF Step
  <2>1. Remainder(s, n)
    BY <1>0, <1>2, <1>4, <2>0, Lightens
  <2>2. Head(s) = s[1] /\ s[1] \in StepsOf(t) /\ s[1].op \notin Window
    BY <1>0, <2>0, FirstStep DEF InWindow, Window
  <2>3. s[1].op # "tickLease"
    BY <1>0, <2>2, Whose DEF GtkOps
  <2>4. n = Tail(s) /\ Joins(s[1].op, n[1].op)
    BY <1>0, <2>0, <2>1, <2>3, RestGoesOn DEF Remainder
  <2>5. s[1].op = "needLease"
    BY <1>2, <2>2, <2>4 DEF Joins, Window
  <2>6. s[1].who = c
    BY <1>0, <2>2, <2>5, Whose, ThreadKinds DEF WorkerOps
  <2>7. IF armed THEN IsLeaseOwner(t, c, TRUE, Tail(s), << >>) ELSE Then(t, << >>)
    BY <1>0, <1>4, <2>2, <2>5, <2>6
       DEF Step, LeaseStep, KeyStep, MediaStep, FreeSlot
  <2>8. ~armed => n = << >>
    BY <1>0, <2>7, Given DEF GInv, Order
  <2>9. armed /\ ~txLive => txOwner' = None
    BY <1>0, <2>7 DEF IsLeaseOwner, ClearTxOwner
  <2> QED
    BY <1>0, <2>8, <2>9 DEF Doomed, Whys
<1>5. CASE Idle(t) /\ n # << >> /\ n[1].op \notin Window
  BY <1>2, <1>5
<1> QED
  BY <1>0, <1>3, <1>4, <1>5, Moves DEF GInv

\* web_server_start revokes every lease; so a server that stops with a doomed
\* lease stays so.
LEMMA StaysStopped ==
    ASSUME GInv, [Next]_vars, NEW c \in Clients, NEW why \in Whys,
           Doomed(c, why), Doomed(c, why)', ~running
    PROVE  ~running'
<1>1. running' \in BOOLEAN
  BY StepsKeepOrder DEF GInv, Order, TypeOK
<1>2. Start => txOwner' = None
  BY DEF Start
<1>3. txOwner' = c /\ c # None
  BY WebConstants DEF Doomed
<1> QED
  BY <1>1, <1>2, <1>3, OnlyStart DEF GInv

\* Then web_client_release is all that an idle worker can begin, and it will not
\* be done while the lease is held.
LEMMA HangingUp ==
    ASSUME GInv, [Next]_vars, NEW c \in Clients, NEW why \in Whys,
           Doomed(c, why), Doomed(c, why)', ~running
    PROVE  /\ c \in connected
           /\ Idle(Worker(c)) => Idle(Worker(c))' \/ Parts(todo[Worker(c)])'
           /\ HangUp(c) => Parts(todo[Worker(c)])'
           /\ Parts(todo[Worker(c)]) => ~Idle(Worker(c)) /\ Parts(todo[Worker(c)])'
<1> DEFINE t == Worker(c)
           s == todo[t]
           n == todo'[t]
<1>0. /\ t \in Threads /\ t # Gtk /\ List(t, s) /\ Departs(s) /\ txOwner = c /\ Lists
      /\ \A d \in Clients : t # Decoder(d) /\ (t = Worker(d) => c = d)
  BY ThreadKinds DEF GInv, Order, Lists, Short, Doomed
<1>1. c \in connected
  BY <1>0 DEF GInv, Order, LeaseDiesWithSocket
<1>2. HangUp(c) => Parts(n)
  <2> SUFFICES ASSUME HangUp(c) PROVE Parts(n)
    OBVIOUS
  <2>1. n = <<Do("releaseControl", c), Do("releaseLease", c), Do("freeSlot", c)>>
    BY <1>0, Given DEF HangUp
  <2>2. 3 \in 1..Len(n) /\ n[3].op = "freeSlot"
    BY <2>1 DEF Do
  <2> QED
    BY <2>2 DEF Parts
<1>3. ASSUME s = << >> PROVE n = << >> \/ Parts(n)
  <2>1. ASSUME NEW u \in Threads, Step(u) PROVE n = s
    <3>1. todo[u] # << >> /\ todo' = [todo EXCEPT ![u] = todo'[u]]
      BY <2>1, ListSteps DEF Step, GInv
    <3> QED
      BY <1>0, <1>3, <3>1 DEF Lists
  <2>2. ASSUME NEW d \in Clients, HangUp(d) PROVE n = s \/ Parts(n)
    <3>1. CASE d = c
      BY <1>2, <2>2, <3>1
    <3>2. CASE d # c
      BY <1>0, <2>2, <3>2, Given, ThreadKinds DEF HangUp
    <3> QED
      BY <3>1, <3>2
  <2>3. ASSUME NEW d \in Clients, Packet(d) PROVE n = s
    BY <1>0, <2>3, Given, ThreadKinds DEF Packet
  <2>4. ~(\E d \in Clients, r \in Events \cap AllRequests : Receive(d, r)) /\ ~StateTick /\ ~Stop
    BY DEF Receive, StateTick, Stop
  <2>5. ASSUME \/ \E d \in Clients : Connect(d)
               \/ Dispatch \/ DeskUnkey \/ DeskArm \/ Start
               \/ ControlTimeout \/ LeaseTimeout \/ AudioGap \/ UNCHANGED vars
        PROVE  n = s
    BY <2>5, OtherOrder DEF GInv
  <2> QED
    BY <1>3, <2>1, <2>2, <2>3, <2>4, <2>5 DEF Next
<1>4. ASSUME Parts(s) PROVE s # << >> /\ Parts(n)
  <2>1. s # << >> /\ s[1].op \in Leaving \ {"freeSlot"}
    BY <1>0, <1>4, PartsLast DEF Idle
  <2>2. CASE n = s
    BY <1>4, <2>1, <2>2
  <2>3. CASE Carries(s, n)
    <3>1. PICK i \in 1..Len(s) : s[i].op = "freeSlot"
      BY <1>4 DEF Parts
    <3>2. s[1] # s[i] /\ Holds(s, s[i])
      BY <2>1, <3>1 DEF Holds
    <3>3. \A b : Remainder(s, b) => b = Tail(s)
      BY <2>1 DEF Remainder, Leaving, Aborting
    <3>4. Holds(n, s[i])
      BY <1>0, <2>1, <2>3, <3>2, <3>3, Survives
    <3> QED
      BY <3>1, <3>4 DEF Holds, Parts
  <2> QED
    BY <1>0, <2>1, <2>2, <2>3, Moves DEF GInv, Idle
<1> QED
  BY <1>1, <1>2, <1>3, <1>4 DEF Idle

\* web_state_tick begins with everything still to look at.
LEMMA TickIsReady ==
    ASSUME GInv, StateTick, NEW c \in Clients, NEW why \in Whys
    PROVE  Ready(c, why)'
<1> DEFINE n == todo'[Gtk]
<1>1. n = <<Do("tickControl", None), Do("tickLease", None), Do("tickArm", None),
            Do("tickMedia", None), Do("tickSync", None)>>
  BY ThreadKinds, Given DEF StateTick, GInv, Order
<1>2. 2 \in 1..Len(n) /\ 3 \in 1..Len(n) /\ n[2] = Do("tickLease", None)
      /\ n[3] = Do("tickArm", None) /\ n # << >>
  BY <1>1
<1> HIDE DEF n
<1>3. Holds(n, Target(why))
  BY <1>2 DEF Holds, Target
<1> QED
  BY <1>2, <1>3 DEF Ready, Idle, n

\* Whatever happens, it gets there, and ends the lease.
LEMMA StaysReady ==
    ASSUME GInv, [Next]_vars, NEW c \in Clients, NEW why \in Whys,
           Doomed(c, why), Doomed(c, why)', Ready(c, why)
    PROVE  Ready(c, why)'
<1> DEFINE s == todo[Gtk]
           n == todo'[Gtk]
           x == Target(why)
           y == Do("releaseLease", c)
<1>0. /\ Gtk \in Threads /\ List(Gtk, s) /\ s # << >> /\ Lists
      /\ txOwner = c /\ txOwner' = c /\ c # None
  BY ThreadKinds, WebConstants DEF GInv, Order, Lists, Doomed, Ready, Idle
<1>1. Head(s) = s[1] /\ s[1] \in StepsOf(Gtk)
  BY <1>0, FirstStep
<1> SUFFICES n # << >> /\ (Holds(n, x) \/ n[1] = y)
  BY DEF Ready, Idle
<1>2. CASE n = s
  BY <1>0, <1>2 DEF Ready
<1>3. CASE Step(Gtk) /\ Carries(s, n)
  <2>0. Step(Gtk) /\ Gtk \in Threads
    BY <1>0, <1>3
  <2>1. s[1] # y
    <3> SUFFICES ASSUME s[1] = y PROVE FALSE
      OBVIOUS
    <3>1. s[1].op = "releaseLease" /\ s[1].who = c
      BY DEF Do
    <3>2. ReleaseLease(Gtk, c, Tail(s))
      BY <1>1, <2>0, <3>1 DEF Step, LeaseStep, KeyStep, MediaStep, FreeSlot, TickStep, StopStep
    <3> QED
      BY <1>0, <3>2 DEF ReleaseLease, ClearTxOwner
  <2>2. Holds(s, x)
    BY <2>1 DEF Ready
  <2>3. CASE s[1] # x
    <3>1. s[1].op \notin Aborting
      BY <1>1, StepKinds DEF Revocations, GtkOps, Aborting
    <3>2. \A b : Remainder(s, b) => b = Tail(s)
      BY <1>0, <3>1 DEF Remainder
    <3>3. Holds(n, x)
      BY <1>0, <1>3, <2>2, <2>3, <3>2, Survives
    <3>4. n # << >>
      BY <3>3 DEF Holds
    <3> QED
      BY <3>3, <3>4
  <2>4. CASE s[1] = x /\ why = "silent"
    <3>1. s[1].op = "tickLease"
      BY <2>4 DEF Target, Do
    <3>2. TickStep(s[1], Tail(s))
      BY <1>1, <2>0, <3>1 DEF Step, LeaseStep, KeyStep, MediaStep, FreeSlot, StopStep
    <3>3. IsLeaseOwner(Gtk, txOwner, FALSE, Tail(s), Tail(s))
      BY <1>0, <3>1, <3>2 DEF TickStep
    <3> QED
      BY <1>0, <2>4, <3>3 DEF IsLeaseOwner, ClearTxOwner, Doomed
  <2>5. CASE s[1] = x /\ why = "disarmed"
    <3>1. s[1].op = "tickArm"
      BY <2>5 DEF Target, Do
    <3>2. TickStep(s[1], Tail(s))
      BY <1>1, <2>0, <3>1 DEF Step, LeaseStep, KeyStep, MediaStep, FreeSlot, StopStep
    <3>3. TickArm(Tail(s)) /\ ~armed
      BY <2>5, <3>1, <3>2 DEF TickStep, Doomed
    <3>4. n = <<y>> \o Tail(s)
      BY <1>0, <3>3, Given DEF TickArm
    <3>5. Tail(s) \in Seq(StepsOf(Gtk))
      BY <1>0, FirstStep
    <3> QED
      BY <3>4, <3>5
  <2> QED
    BY <2>3, <2>4, <2>5 DEF Whys
<1>4. CASE Idle(Gtk)
  BY <1>0, <1>4 DEF Idle
<1> QED
  BY <1>0, <1>2, <1>3, <1>4, Moves DEF GInv

-----------------------------------------------------------------------------
(* A doomed lease ends *)

\* The worker of a doomed holder gets through everything it has begun.
LEMMA WorkerRests ==
    ASSUME NEW c \in Clients, NEW why \in Whys
    PROVE  []GInv /\ [][Next]_vars /\ StepIsFair(Worker(c))
              => ([]Doomed(c, why) => []<>Idle(Worker(c)))
<1>0. Worker(c) \in Threads
  BY ThreadKinds
<1>1. GInv /\ Doomed(c, why) /\ ~Idle(Worker(c)) => StepCanRun(Worker(c))
  BY WorkerRuns
<1>2. GInv /\ ~Idle(Worker(c)) => At(Worker(c), 18) /\ ~At(Worker(c), 0)
  BY <1>0, RankBounds DEF GInv, Order, Lists, Short, At, Idle
<1>3. GInv /\ [Next]_vars /\ Doomed(c, why) /\ Doomed(c, why)' /\ ~Idle(Worker(c))
        => Stays(Worker(c)) /\ (<<Step(Worker(c))>>_vars => Sinks(Worker(c)))
  <2>1. Doomed(c, why) /\ Doomed(c, why)' => txOwner' = txOwner
    BY DEF Doomed
  <2> QED
    BY <1>0, <2>1, Falls
<1> QED
  BY <1>1, <1>2, <1>3, PTL DEF StepIsFair, Stays, Sinks

\* So does the GTK thread of a server that runs, once the holder is not about to
\* key.
LEMMA GtkRests ==
    ASSUME NEW c \in Clients, NEW why \in Whys
    PROVE  []GInv /\ [][Next]_vars /\ StepIsFair(Gtk)
              => ([]Doomed(c, why) /\ []~InWindow(c) /\ []running => []<>Idle(Gtk))
<1>0. Gtk \in Threads
  BY ThreadKinds
<1>1. GInv /\ Doomed(c, why) /\ ~InWindow(c) /\ running /\ ~Idle(Gtk) => StepCanRun(Gtk)
  BY GtkRuns
<1>2. GInv /\ ~Idle(Gtk) => At(Gtk, 18) /\ ~At(Gtk, 0)
  BY <1>0, RankBounds DEF GInv, Order, Lists, Short, At, Idle
<1>3. GInv /\ [Next]_vars /\ Doomed(c, why) /\ Doomed(c, why)' /\ ~Idle(Gtk)
        => Stays(Gtk) /\ (<<Step(Gtk)>>_vars => Sinks(Gtk))
  <2>1. Doomed(c, why) /\ Doomed(c, why)' => txOwner' = txOwner
    BY DEF Doomed
  <2> QED
    BY <1>0, <2>1, Falls
<1> QED
  BY <1>1, <1>2, <1>3, PTL DEF StepIsFair, Stays, Sinks

\* web_state_tick, or web_client_release when the server stops, ends it.
LEMMA DoomedEnds ==
    ASSUME NEW c \in Clients, NEW why \in Whys
    PROVE  /\ []GInv /\ [][Next]_vars
           /\ StepIsFair(Gtk) /\ TickIsFair /\ StepIsFair(Worker(c)) /\ HangUpIsFair(c)
           => ~[]Doomed(c, why)
<1> DEFINE D == Doomed(c, why)
           Leaves == Parts(todo[Worker(c)])
<1>1. GInv /\ [Next]_vars /\ D /\ D' /\ ~InWindow(c) => ~InWindow(c)'
  BY WindowStaysShut
<1>2. Idle(Worker(c)) => ~InWindow(c)
  BY DEF Idle, InWindow
<1>3. GInv /\ [Next]_vars /\ D /\ D' /\ ~running => ~running'
  BY StaysStopped
<1>4. GInv /\ [Next]_vars /\ D /\ D' /\ Ready(c, why) => Ready(c, why)'
  BY StaysReady
<1>5. GInv /\ <<StateTick>>_vars => Ready(c, why)'
  BY TickIsReady
<1>6. Ready(c, why) => ~Idle(Gtk)
  BY DEF Ready
<1>7. GInv /\ [Next]_vars /\ D /\ D' /\ ~running =>
        /\ Idle(Worker(c)) => Idle(Worker(c))' \/ Leaves'
        /\ <<~running /\ HangUp(c)>>_vars => Leaves'
        /\ Leaves => ~Idle(Worker(c)) /\ Leaves'
  BY HangingUp
<1>8. running /\ Idle(Gtk) => TickCanRun
  BY DEF TickCanRun
<1>9. GInv /\ [Next]_vars /\ D /\ D' /\ ~running /\ Idle(Worker(c)) => HangUpCanRun(c)
  BY HangingUp DEF HangUpCanRun
<1>10. []GInv /\ [][Next]_vars /\ StepIsFair(Worker(c)) => ([]D => []<>Idle(Worker(c)))
  BY WorkerRests
<1>11. []GInv /\ [][Next]_vars /\ StepIsFair(Gtk)
          => ([]D /\ []~InWindow(c) /\ []running => []<>Idle(Gtk))
  BY GtkRests
<1>12. Doomed(c, why) => D
  OBVIOUS
<1> HIDE DEF D, Leaves
<1>13. []GInv /\ [][Next]_vars /\ []D /\ []<>Idle(Worker(c)) => <>[]~InWindow(c)
  BY <1>1, <1>2, PTL
<1>14. []GInv /\ [][Next]_vars /\ []D => []running \/ <>[]~running
  BY <1>3, PTL
<1>15. []GInv /\ [][Next]_vars /\ []D /\ []running /\ TickIsFair => ~[]<>Idle(Gtk)
  BY <1>4, <1>5, <1>6, <1>8, PTL DEF TickIsFair
<1>16. []GInv /\ [][Next]_vars /\ []D /\ []~running /\ HangUpIsFair(c) => ~[]<>Idle(Worker(c))
  BY <1>7, <1>9, PTL DEF HangUpIsFair
<1>17. (StepIsFair(Gtk) => []StepIsFair(Gtk)) /\ (HangUpIsFair(c) => []HangUpIsFair(c))
  BY PTL DEF StepIsFair, HangUpIsFair
<1> QED
  BY <1>10, <1>11, <1>12, <1>13, <1>14, <1>15, <1>16, <1>17, PTL

\* web_state_tick: a holder that renews no longer, or whose arm the operator has
\* withdrawn, loses the TX lease, though no browser ever asks for it and whatever
\* the other threads and the server do meanwhile.
THEOREM SilentHoldersExpire == Safety /\ WebFairness => SilentHolderExpires
<1> SUFFICES ASSUME NEW c \in Clients, NEW why \in Whys
             PROVE  Safety /\ WebFairness => (Doomed(c, why) ~> ~Doomed(c, why))
  BY DEF SilentHolderExpires, Whys
<1>1. WebFairness => /\ StepIsFair(Gtk) /\ TickIsFair
                     /\ StepIsFair(Worker(c)) /\ HangUpIsFair(c)
  BY DEF WebFairness
<1>2. /\ []GInv /\ [][Next]_vars
      /\ StepIsFair(Gtk) /\ TickIsFair /\ StepIsFair(Worker(c)) /\ HangUpIsFair(c)
      => ~[]Doomed(c, why)
  BY DoomedEnds
<1>3. (StepIsFair(Gtk) => []StepIsFair(Gtk)) /\ (TickIsFair => []TickIsFair)
      /\ (StepIsFair(Worker(c)) => []StepIsFair(Worker(c)))
      /\ (HangUpIsFair(c) => []HangUpIsFair(c))
  BY PTL DEF StepIsFair, TickIsFair, HangUpIsFair
<1> QED
  BY <1>1, <1>2, <1>3, AlwaysGInv, PTL DEF Safety
=============================================================================
