--------------------------- MODULE WebLeaseProofs ---------------------------
(***************************************************************************)
(* The safety of WebLease, proved for any number of connections and any    *)
(* choice of requests: types, leases that die with their socket, and keys  *)
(* that somebody answers for.                                              *)
(*                                                                         *)
(* What a thread still has to do is a list of steps, and most of the proof *)
(* is about lists: which steps a thread's list may hold, and which step    *)
(* may follow which.                                                       *)
(***************************************************************************)
EXTENDS WebLease, TLAPS

-----------------------------------------------------------------------------
(* The lists of steps *)

Takers == {"takeControl", "forceControl", "takeLease"}
Window == {"needAudio", "moxOn", "tuneOn", "pushMoxOn", "pushTuneOn"}
Unended == {"off", "stopped", "tickLease"}

\* The steps of each kind of thread.  A revocation may fall to any of them.
Revocations ==
    [op : {"releaseLease"}, who : Clients] \cup [op : {"resetAudio", "unkey"}, who : Owners]

WorkerOps ==
    Takers \cup Window \cup
    {"needControl", "expireControl", "releaseControl", "expireLease", "renewLease",
     "needLease", "off", "pushOff", "freeSlot"}

DecoderOps == {"heardFrom", "putAudio"}

GtkOps ==
    {"tickControl", "tickLease", "tickArm", "tickMedia", "tickSync", "mediaGap", "stopped"}

StepsOf(t) ==
    Revocations \cup
    CASE t[1] = "worker"  -> [op : WorkerOps, who : {t[2]}]
      [] t[1] = "decoder" -> [op : DecoderOps, who : {t[2]}]
      [] t[1] = "gtk"     -> [op : GtkOps, who : {None}]

\* Step b may follow step a in a list: the keying steps only in their order,
\* a release of the flags only before its callback, nothing after freeSlot.
Joins(a, b) ==
    /\ b \in {"needAudio", "tuneOn"} => a = "needLease"
    /\ b = "moxOn" => a = "needAudio"
    /\ b = "pushMoxOn" => a = "moxOn"
    /\ b = "pushTuneOn" => a = "tuneOn"
    /\ a = "off" => b = "pushOff"
    /\ a = "stopped" => b = "unkey"
    /\ a # "freeSlot"

Holds(s, x) == \E i \in 1..Len(s) : s[i] = x
Parts(s) == \E i \in 1..Len(s) : s[i].op = "freeSlot"

Ordered(s) ==
    /\ \A i \in 1..Len(s) : i < Len(s) => Joins(s[i].op, s[i + 1].op)
    /\ \A i \in 1..Len(s) : s[i].op \in Unended => i < Len(s)
    /\ Parts(s) => \A i \in 1..Len(s) : s[i].op \notin Takers

List(t, s) == s \in Seq(StepsOf(t)) /\ Ordered(s)

-----------------------------------------------------------------------------
(* The inductive invariant *)

Lists == DOMAIN todo = Threads /\ \A t \in Threads : List(t, todo[t])

\* A slot's threads run only while it is in use, and a stopped server has
\* waited for them.
Sockets ==
    /\ \A c \in Clients :
          todo[Worker(c)] # << >> \/ todo[Decoder(c)] # << >> => c \in connected
    /\ ~running => connected = {} \/ (todo[Gtk] # << >> /\ todo[Gtk][1].op = "stopped")

\* A slot on its way out gives up what it still owns before it is free.
Parting ==
    \A c \in Clients : Parts(todo[Worker(c)]) =>
        /\ controlOwner = c => Holds(todo[Worker(c)], Do("releaseControl", c))
        /\ txOwner = c => Holds(todo[Worker(c)], Do("releaseLease", c))

\* Between its check and its callback a keying request owns the TX lease, and
\* the flags it published stand.
Windows ==
    /\ \A c \in Clients : InWindow(c) => txOwner = c
    /\ BeforePush => remote.ptt

\* A list about to unkey: at its head, or behind the reset of the audio.
Unkeying(s) ==
    /\ s # << >>
    /\ s[1].op = "unkey" \/ (s[1].op = "resetAudio" /\ Len(s) > 1 /\ s[2].op = "unkey")

\* A list about to queue the callback of a released key.
Releasing(s) == s # << >> /\ s[1].op = "pushOff"

\* The flag answers for what the radio is headed for, and a lease or an unkey
\* for the flag.
Answered ==
    /\ remote.ptt => txOwner # None \/ \E t \in Threads : Unkeying(todo[t])
    /\ Headed # "rx" => remote.ptt \/ \E t \in Threads : Releasing(todo[t])

\* The order of the steps, and the keys that depend on it.
Order == TypeOK /\ Lists /\ Sockets /\ LeaseDiesWithSocket /\ Parting
Keys  == Windows /\ Answered

-----------------------------------------------------------------------------
(* Lists of steps, one thread at a time *)

\* The list `new` carries on from the list s after its first step.
Onward(t, s, new) ==
    /\ List(t, new)
    /\ Parts(new) => Parts(s)
    /\ Parts(new) => \A x \in StepsOf(t) : Holds(s, x) => s[1] = x \/ Holds(new, x)
    /\ new # << >> /\ new[1].op \in Window => Joins(s[1].op, new[1].op)

LEMMA ThreadKinds ==
    /\ \A c \in Clients : Worker(c) \in Threads /\ Decoder(c) \in Threads
    /\ Gtk \in Threads
    /\ \A c, d \in Clients : Worker(c) # Decoder(d) /\ Worker(c) # Gtk /\ Decoder(c) # Gtk
    /\ \A c, d \in Clients : Worker(c) = Worker(d) \/ Decoder(c) = Decoder(d) => c = d
    /\ \A t \in Threads : t = Gtk \/ \E c \in Clients : t = Worker(c) \/ t = Decoder(c)
BY DEF Threads, Worker, Decoder, Gtk

LEMMA StepKinds ==
    /\ \A c \in Clients :
          /\ StepsOf(Worker(c)) = Revocations \cup [op : WorkerOps, who : {c}]
          /\ StepsOf(Decoder(c)) = Revocations \cup [op : DecoderOps, who : {c}]
    /\ StepsOf(Gtk) = Revocations \cup [op : GtkOps, who : {None}]
BY DEF StepsOf, Worker, Decoder, Gtk

\* The first step of a list, and what is left of the list after it.
LEMMA FirstStep ==
    ASSUME NEW t \in Threads, NEW s, List(t, s), s # << >>
    PROVE  /\ Head(s) = s[1] /\ s[1] \in StepsOf(t) /\ 1 \in 1..Len(s)
           /\ Tail(s) \in Seq(StepsOf(t))
           /\ Len(s) \in Nat /\ Len(s) >= 1
           /\ Len(Tail(s)) = Len(s) - 1
           /\ \A i \in 1..Len(Tail(s)) : Tail(s)[i] = s[i + 1]
BY DEF List

LEMMA RestGoesOn ==
    ASSUME NEW t \in Threads, NEW s, List(t, s), s # << >>
    PROVE  /\ Onward(t, s, Tail(s))
           /\ Tail(s) # << >> => Joins(s[1].op, Tail(s)[1].op)
           /\ s[1].op \in Unended => Tail(s) # << >>
           /\ s[1].op = "freeSlot" => Tail(s) = << >>
<1> DEFINE r == Tail(s)
<1>1. /\ s \in Seq(StepsOf(t)) /\ r \in Seq(StepsOf(t)) /\ Len(s) \in Nat /\ Len(s) >= 1
      /\ Len(r) = Len(s) - 1
      /\ \A i \in 1..Len(r) : r[i] = s[i + 1]
  BY FirstStep DEF List
<1>2. Ordered(s)
  BY DEF List
<1> HIDE DEF r
<1>3. \A i \in 1..Len(r) : i + 1 \in 1..Len(s)
  BY <1>1
<1>4. Parts(r) => Parts(s)
  BY <1>1, <1>3 DEF Parts
<1>5. Ordered(r)
  <2>1. \A i \in 1..Len(r) : i < Len(r) => Joins(r[i].op, r[i + 1].op)
    <3> SUFFICES ASSUME NEW i \in 1..Len(r), i < Len(r)
                 PROVE  Joins(r[i].op, r[i + 1].op)
      OBVIOUS
    <3>1. i + 1 \in 1..Len(s) /\ i + 1 < Len(s) /\ i + 1 \in 1..Len(r)
      BY <1>1
    <3>2. Joins(s[i + 1].op, s[(i + 1) + 1].op)
      BY <1>2, <3>1 DEF Ordered
    <3> QED
      BY <1>1, <3>1, <3>2
  <2>2. \A i \in 1..Len(r) : r[i].op \in Unended => i < Len(r)
    <3> SUFFICES ASSUME NEW i \in 1..Len(r), r[i].op \in Unended
                 PROVE  i < Len(r)
      OBVIOUS
    <3>1. i + 1 < Len(s)
      BY <1>1, <1>2, <1>3 DEF Ordered
    <3> QED
      BY <1>1, <3>1
  <2>3. Parts(r) => \A i \in 1..Len(r) : r[i].op \notin Takers
    BY <1>1, <1>2, <1>3, <1>4 DEF Ordered
  <2> QED
    BY <2>1, <2>2, <2>3 DEF Ordered
<1>6. \A x : Holds(s, x) => s[1] = x \/ Holds(r, x)
  <2> SUFFICES ASSUME NEW i \in 1..Len(s), i # 1
               PROVE  \E j \in 1..Len(r) : r[j] = s[i]
    BY DEF Holds
  <2>1. i - 1 \in 1..Len(r)
    BY <1>1
  <2>2. r[i - 1] = s[i]
    BY <1>1, <2>1
  <2> QED
    BY <2>1, <2>2
<1>7. r # << >> => /\ 1 \in 1..Len(s) /\ 1 < Len(s) /\ r[1] = s[2]
                   /\ Joins(s[1].op, r[1].op)
  <2> SUFFICES ASSUME r # << >>
               PROVE  1 \in 1..Len(s) /\ 1 < Len(s) /\ r[1] = s[2] /\ Joins(s[1].op, r[1].op)
    OBVIOUS
  <2>1. Len(r) >= 1
    BY <1>1
  <2>2. 1 \in 1..Len(s) /\ 1 < Len(s) /\ 1 \in 1..Len(r)
    BY <1>1, <2>1
  <2>3. r[1] = s[1 + 1] /\ Joins(s[1].op, s[1 + 1].op)
    BY <1>1, <1>2, <2>2 DEF Ordered
  <2> QED
    BY <2>2, <2>3
<1>8. s[1].op \in Unended => r # << >>
  BY <1>1, <1>2 DEF Ordered
<1>9. s[1].op = "freeSlot" => r = << >>
  BY <1>7 DEF Joins
<1> QED
  BY <1>1, <1>4, <1>5, <1>6, <1>7, <1>8, <1>9 DEF Onward, List, r

\* A thread may give up what is left of its list.
LEMMA NothingGoesOn ==
    ASSUME NEW t \in Threads, NEW s
    PROVE  Onward(t, s, << >>)
BY DEF Onward, List, Ordered, Parts

\* A thread may be given a step to make first, unless it keys the radio.
LEMMA OneMoreGoesOn ==
    ASSUME NEW t \in Threads, NEW s, NEW r, Onward(t, s, r), NEW y \in StepsOf(t),
           y.op \notin Takers \cup Window \cup Unended \cup {"freeSlot"},
           r # << >> => r[1].op \notin Window
    PROVE  /\ Onward(t, s, <<y>> \o r)
           /\ <<y>> \o r # << >>
           /\ (<<y>> \o r)[1] = y
           /\ Len(<<y>> \o r) = Len(r) + 1
           /\ r # << >> => (<<y>> \o r)[2] = r[1]
<1> DEFINE n == <<y>> \o r
<1>1. /\ r \in Seq(StepsOf(t)) /\ n \in Seq(StepsOf(t)) /\ Len(r) \in Nat
      /\ Len(n) = Len(r) + 1
      /\ n[1] = y
      /\ \A i \in 1..Len(r) : n[i + 1] = r[i]
  BY DEF Onward, List
<1>2. Ordered(r)
  BY DEF Onward, List
<1> HIDE DEF n
<1>3. \A i \in 1..Len(n) : i # 1 => i - 1 \in 1..Len(r) /\ n[i] = r[i - 1]
  BY <1>1
<1>4. Parts(n) => Parts(r)
  BY <1>1, <1>3 DEF Parts
<1>5. Ordered(n)
  <2>1. \A i \in 1..Len(n) : i < Len(n) => Joins(n[i].op, n[i + 1].op)
    <3> SUFFICES ASSUME NEW i \in 1..Len(n), i < Len(n)
                 PROVE  Joins(n[i].op, n[i + 1].op)
      OBVIOUS
    <3>1. i \in 1..Len(r) /\ n[i + 1] = r[i]
      BY <1>1
    <3>2. CASE i = 1
      <4>1. r # << >>
        BY <1>1, <3>1
      <4> QED
        BY <1>1, <3>1, <3>2, <4>1 DEF Joins, Window, Unended
    <3>3. CASE i # 1
      <4>1. i - 1 \in 1..Len(r) /\ i - 1 < Len(r) /\ n[i] = r[i - 1]
        BY <1>1, <1>3, <3>1, <3>3
      <4>2. Joins(r[i - 1].op, r[(i - 1) + 1].op)
        BY <1>2, <4>1 DEF Ordered
      <4> QED
        BY <3>1, <4>1, <4>2
    <3> QED
      BY <3>2, <3>3
  <2>2. \A i \in 1..Len(n) : n[i].op \in Unended => i < Len(n)
    <3> SUFFICES ASSUME NEW i \in 1..Len(n), n[i].op \in Unended
                 PROVE  i < Len(n)
      OBVIOUS
    <3>1. i # 1
      BY <1>1
    <3>2. i - 1 < Len(r)
      BY <1>2, <1>3, <3>1 DEF Ordered
    <3> QED
      BY <1>1, <3>2
  <2>3. Parts(n) => \A i \in 1..Len(n) : n[i].op \notin Takers
    <3> SUFFICES ASSUME Parts(n), NEW i \in 1..Len(n)
                 PROVE  n[i].op \notin Takers
      OBVIOUS
    <3>1. \A j \in 1..Len(r) : r[j].op \notin Takers
      BY <1>2, <1>4 DEF Ordered
    <3>2. i = 1 \/ (i - 1 \in 1..Len(r) /\ n[i] = r[i - 1])
      BY <1>3
    <3> QED
      BY <1>1, <3>1, <3>2
  <2> QED
    BY <2>1, <2>2, <2>3 DEF Ordered
<1>6. \A x : Holds(r, x) => Holds(n, x)
  <2> SUFFICES ASSUME NEW i \in 1..Len(r)
               PROVE  \E j \in 1..Len(n) : n[j] = r[i]
    BY DEF Holds
  <2> QED
    BY <1>1
<1>7. n # << >> /\ (r # << >> => n[2] = r[1])
  BY <1>1
<1> QED
  BY <1>1, <1>4, <1>5, <1>6, <1>7 DEF Onward, List, n

\* web_tx_audio_reset and web_remote_unkey before all else.
LEMMA FailSafeGoesOn ==
    ASSUME NEW t \in Threads, NEW s, NEW r, Onward(t, s, r),
           r # << >> => r[1].op \notin Window
    PROVE  /\ Onward(t, s, FailSafe \o r)
           /\ Unkeying(FailSafe \o r)
<1> DEFINE u == Do("unkey", None)
           a == Do("resetAudio", None)
<1>1. u \in StepsOf(t) /\ a \in StepsOf(t)
  BY DEF StepsOf, Revocations, Owners, Do
<1>2. u.op = "unkey" /\ a.op = "resetAudio"
  BY DEF Do
<1> HIDE DEF u, a
<1>3. /\ Onward(t, s, <<u>> \o r)
      /\ (<<u>> \o r)[1] = u /\ <<u>> \o r # << >>
      /\ Len(<<u>> \o r) = Len(r) + 1
  BY <1>1, <1>2, OneMoreGoesOn DEF Takers, Window, Unended
<1> DEFINE ur == <<u>> \o r
<1>4. Onward(t, s, ur) /\ ur # << >> /\ ur[1].op \notin Window
  BY <1>2, <1>3 DEF Window
<1>5. a.op \notin Takers \cup Window \cup Unended \cup {"freeSlot"}
  BY <1>2 DEF Takers, Window, Unended
<1> HIDE DEF ur
<1>6. /\ Onward(t, s, <<a>> \o ur)
      /\ <<a>> \o ur # << >>
      /\ (<<a>> \o ur)[1] = a
      /\ (<<a>> \o ur)[2] = ur[1]
      /\ Len(<<a>> \o ur) = Len(ur) + 1
  BY <1>1, <1>4, <1>5, OneMoreGoesOn
<1>7. /\ Onward(t, s, <<a>> \o (<<u>> \o r))
      /\ <<a>> \o (<<u>> \o r) # << >>
      /\ (<<a>> \o (<<u>> \o r))[1] = a
      /\ (<<a>> \o (<<u>> \o r))[2] = u
      /\ Len(<<a>> \o (<<u>> \o r)) = Len(<<u>> \o r) + 1
  BY <1>3, <1>6 DEF ur
<1>8. r \in Seq(StepsOf(t)) /\ Len(r) \in Nat
  BY DEF Onward, List
<1>9. FailSafe \o r = <<a>> \o (<<u>> \o r)
  BY <1>1, <1>8 DEF FailSafe, u, a
<1> QED
  BY <1>2, <1>3, <1>7, <1>8, <1>9 DEF Unkeying
-----------------------------------------------------------------------------
(* The order of the steps *)

\* Thread t makes its first step and carries on.
Moved(t) ==
    /\ todo' = [todo EXCEPT ![t] = todo'[t]]
    /\ Onward(t, todo[t], todo'[t])

\* What the first step of thread t may do to the owners.
OwnersMoved(t) ==
    /\ controlOwner' \in {controlOwner, None} \/
          (todo[t][1].op \in {"takeControl", "forceControl"} /\ controlOwner' = todo[t][1].who)
    /\ txOwner' \in {txOwner, None} \/
          (todo[t][1].op = "takeLease" /\ txOwner' = todo[t][1].who)
    /\ \A c \in Clients :
          /\ todo[t][1] = Do("releaseControl", c) => controlOwner' # c
          /\ todo[t][1] = Do("releaseLease", c) => txOwner' # c
    /\ controlLive' \in BOOLEAN /\ txLive' \in BOOLEAN
    /\ controlLive' => controlOwner' # None
    /\ txLive' => txOwner' # None

\* The rest of the types.
Media ==
    /\ remote \in [DOMAIN Quiet -> BOOLEAN]
    /\ audio \in {"none", "fresh", "stale"} /\ audioActive \in BOOLEAN
    /\ idles \in Seq(TxStates)

\* Only a slot's own worker takes a lease for it or frees it, and only the GTK
\* thread waits for the workers.
LEMMA Whose ==
    ASSUME NEW t \in Threads, NEW x \in StepsOf(t)
    PROVE  /\ x.op \in WorkerOps => x.who \in Clients /\ t = Worker(x.who)
           /\ x.op \in DecoderOps => x.who \in Clients
           /\ x.op = "releaseLease" => x.who \in Clients
           /\ x.op \in GtkOps => t = Gtk
<1>1. CASE t = Gtk
  <2>1. x \in Revocations \cup [op : GtkOps, who : {None}]
    BY <1>1, StepKinds
  <2> QED
    BY <1>1, <2>1 DEF Revocations, Takers, Window, GtkOps, WorkerOps, DecoderOps
<1>2. ASSUME NEW c \in Clients, t = Worker(c)
      PROVE  /\ x.op \in WorkerOps \cup DecoderOps => x.who = c
             /\ x.op = "releaseLease" => x.who \in Clients
             /\ x.op \notin GtkOps
  <2>1. x \in Revocations \cup [op : WorkerOps, who : {c}]
    BY <1>2, StepKinds
  <2> QED
    BY <2>1 DEF Revocations, WorkerOps, DecoderOps, GtkOps, Takers, Window
<1>3. ASSUME NEW c \in Clients, t = Decoder(c)
      PROVE  /\ x.op \notin WorkerOps
             /\ x.op \in DecoderOps => x.who = c
             /\ x.op = "releaseLease" => x.who \in Clients
             /\ x.op \notin GtkOps
  <2>1. x \in Revocations \cup [op : DecoderOps, who : {c}]
    BY <1>3, StepKinds
  <2> QED
    BY <2>1 DEF Revocations, WorkerOps, DecoderOps, GtkOps, Takers, Window
<1> QED
  BY <1>1, <1>2, <1>3, ThreadKinds

LEMMA Movement ==
    ASSUME Lists, NEW t \in Threads, Moved(t)
    PROVE  /\ Lists'
           /\ \A u \in Threads : u # t => todo'[u] = todo[u]
<1>1. DOMAIN todo = Threads /\ \A u \in Threads : List(u, todo[u])
  BY DEF Lists
<1>2. todo' = [todo EXCEPT ![t] = todo'[t]] /\ List(t, todo'[t])
  BY DEF Moved, Onward
<1>3. DOMAIN todo' = Threads /\ \A u \in Threads : u # t => todo'[u] = todo[u]
  BY <1>1, <1>2
<1>4. \A u \in Threads : List(u, todo'[u])
  BY <1>1, <1>2, <1>3
<1> QED
  BY <1>3, <1>4 DEF Lists

LEMMA OrderMoves ==
    ASSUME Order, NEW t \in Threads, todo[t] # << >>, Moved(t), OwnersMoved(t),
           Media', UNCHANGED <<running, connected, armed, txState>>,
           todo[t][1].op = "stopped" => connected = {}
    PROVE  Order'
<1> DEFINE s == todo[t]
           n == todo'[t]
<1>0. Lists /\ Sockets /\ Parting /\ LeaseDiesWithSocket /\ TypeOK
  BY DEF Order
<1>1. Lists' /\ \A u \in Threads : u # t => todo'[u] = todo[u]
  BY <1>0, Movement
<1>2. List(t, s) /\ s[1] \in StepsOf(t) /\ Onward(t, s, n)
  BY <1>0, FirstStep DEF Lists, Moved
<1>3. \A c \in Clients : t = Worker(c) \/ t = Decoder(c) => c \in connected
  BY <1>0 DEF Sockets
<1>4. \A c \in Clients :
         /\ controlOwner' = c => controlOwner = c \/ (t = Worker(c) /\ s[1].op \in Takers)
         /\ txOwner' = c => txOwner = c \/ (t = Worker(c) /\ s[1].op \in Takers)
  <2>1. s[1].op \in Takers => t = Worker(s[1].who)
    BY <1>2, Whose DEF WorkerOps
  <2>2. None \notin Clients
    BY WebConstants
  <2> QED
    BY <2>1, <2>2 DEF OwnersMoved, Takers
<1>5. TypeOK'
  <2>1. controlOwner' \in Owners /\ txOwner' \in Owners
    <3>1. s[1].op \in Takers => s[1].who \in Clients
      BY <1>2, Whose DEF WorkerOps
    <3> QED
      BY <1>0, <3>1 DEF OwnersMoved, Takers, Owners, TypeOK
  <2> QED
    BY <1>0, <1>1, <2>1 DEF TypeOK, OwnersMoved, Media, Lists
<1>6. Sockets'
  <2>1. ASSUME NEW c \in Clients, todo'[Worker(c)] # << >> \/ todo'[Decoder(c)] # << >>
        PROVE  c \in connected
    BY <1>0, <1>1, <1>3, <2>1, ThreadKinds DEF Sockets
  <2>2. ASSUME ~running
        PROVE  connected = {} \/ (todo'[Gtk] # << >> /\ todo'[Gtk][1].op = "stopped")
    BY <1>0, <1>1, <2>2, ThreadKinds DEF Sockets
  <2> QED
    BY <2>1, <2>2 DEF Sockets
<1>7. LeaseDiesWithSocket'
  BY <1>0, <1>3, <1>4 DEF LeaseDiesWithSocket
<1>8. Parting'
  <2> SUFFICES ASSUME NEW c \in Clients, Parts(todo'[Worker(c)])
               PROVE  /\ controlOwner' = c => Holds(todo'[Worker(c)], Do("releaseControl", c))
                      /\ txOwner' = c => Holds(todo'[Worker(c)], Do("releaseLease", c))
    BY DEF Parting
  <2>1. CASE t # Worker(c)
    <3>1. todo'[Worker(c)] = todo[Worker(c)]
      BY <1>1, <2>1, ThreadKinds
    <3> QED
      BY <1>0, <1>4, <2>1, <3>1 DEF Parting
  <2>2. CASE t = Worker(c)
    <3>1. Parts(s)
      BY <1>2, <2>2 DEF Onward
    <3>2. s[1].op \notin Takers
      BY <1>2, <3>1, FirstStep DEF List, Ordered
    <3>3. /\ controlOwner' = c => Holds(s, Do("releaseControl", c))
          /\ txOwner' = c => Holds(s, Do("releaseLease", c))
      BY <1>0, <1>4, <2>2, <3>1, <3>2 DEF Parting
    <3>4. Do("releaseControl", c) \in StepsOf(t) /\ Do("releaseLease", c) \in StepsOf(t)
      BY <2>2, StepKinds DEF Do, Revocations, WorkerOps
    <3>5. /\ Holds(s, Do("releaseControl", c)) => s[1] = Do("releaseControl", c) \/ Holds(n, Do("releaseControl", c))
          /\ Holds(s, Do("releaseLease", c)) => s[1] = Do("releaseLease", c) \/ Holds(n, Do("releaseLease", c))
      BY <1>2, <2>2, <3>4 DEF Onward
    <3> QED
      BY <2>2, <3>3, <3>5 DEF OwnersMoved
  <2> QED
    BY <2>1, <2>2
<1> QED
  BY <1>1, <1>5, <1>6, <1>7, <1>8 DEF Order

\* A slot is freed by its own worker, the last step of its list.
LEMMA FreeSlotStep ==
    ASSUME Order, NEW t \in Threads, todo[t] # << >>,
           FreeSlot(t, Head(todo[t]), Tail(todo[t])), UNCHANGED <<running, armed, txState>>
    PROVE  Order' /\ Moved(t) /\ todo'[t] = << >> /\ todo[t][1].op = "freeSlot"
<1> DEFINE s == todo[t]
           c == s[1].who
<1>0. Lists /\ Sockets /\ Parting /\ LeaseDiesWithSocket /\ TypeOK
  BY DEF Order
<1>1. List(t, s) /\ Head(s) = s[1] /\ s[1] \in StepsOf(t) /\ 1 \in 1..Len(s)
  BY <1>0, FirstStep DEF Lists
<1>2. /\ s[1].op = "freeSlot" /\ todo[Decoder(c)] = << >>
      /\ connected' = connected \ {c} /\ todo' = [todo EXCEPT ![t] = Tail(s)]
      /\ UNCHANGED <<leases, remote, media, idles>>
  BY <1>1 DEF FreeSlot, Then
<1>3. c \in Clients /\ t = Worker(c)
  BY <1>1, <1>2, Whose DEF WorkerOps
<1>4. Tail(s) = << >> /\ Onward(t, s, Tail(s))
  BY <1>1, <1>2, RestGoesOn
<1>5. todo'[t] = << >> /\ Moved(t)
  BY <1>0, <1>2, <1>4 DEF Lists, Moved
<1>6. Lists' /\ \A u \in Threads : u # t => todo'[u] = todo[u]
  BY <1>0, <1>5, Movement
<1>7. controlOwner # c /\ txOwner # c
  <2>1. Parts(s) /\ Len(s) = 1
    <3>1. Parts(s)
      BY <1>1, <1>2 DEF Parts
    <3>2. Len(s) \in Nat /\ Len(Tail(s)) = Len(s) - 1 /\ Len(Tail(s)) = 0
      BY <1>1, <1>4, FirstStep
    <3> QED
      BY <3>1, <3>2
  <2>2. ~Holds(s, Do("releaseControl", c)) /\ ~Holds(s, Do("releaseLease", c))
    BY <1>2, <2>1 DEF Holds, Do
  <2> QED
    BY <1>0, <1>3, <2>1, <2>2 DEF Parting
<1>8. TypeOK'
  BY <1>0, <1>2, <1>6 DEF TypeOK, Lists, leases, media
<1>9. Sockets'
  <2>1. ASSUME NEW d \in Clients, todo'[Worker(d)] # << >> \/ todo'[Decoder(d)] # << >>
        PROVE  d \in connected'
    <3>1. todo'[Worker(c)] = << >> /\ todo'[Decoder(c)] = << >>
      BY <1>2, <1>3, <1>5, <1>6, ThreadKinds
    <3>2. d # c
      BY <2>1, <3>1
    <3>3. todo[Worker(d)] # << >> \/ todo[Decoder(d)] # << >>
      BY <1>3, <1>6, <2>1, <3>2, ThreadKinds
    <3> QED
      BY <1>0, <1>2, <3>2, <3>3 DEF Sockets
  <2>2. ~running => connected' = {} \/ (todo'[Gtk] # << >> /\ todo'[Gtk][1].op = "stopped")
    BY <1>0, <1>2, <1>3, <1>6, ThreadKinds DEF Sockets
  <2> QED
    BY <2>1, <2>2 DEF Sockets
<1>10. LeaseDiesWithSocket'
  BY <1>0, <1>2, <1>7 DEF LeaseDiesWithSocket, leases
<1>11. Parting'
  <2> SUFFICES ASSUME NEW d \in Clients, Parts(todo'[Worker(d)])
               PROVE  /\ controlOwner = d => Holds(todo'[Worker(d)], Do("releaseControl", d))
                      /\ txOwner = d => Holds(todo'[Worker(d)], Do("releaseLease", d))
    BY <1>2 DEF Parting, leases
  <2>1. CASE d = c
    BY <1>7, <2>1
  <2>2. CASE d # c
    <3>1. todo'[Worker(d)] = todo[Worker(d)]
      BY <1>3, <1>6, <2>2, ThreadKinds
    <3> QED
      BY <1>0, <3>1 DEF Parting
  <2> QED
    BY <2>1, <2>2
<1> QED
  BY <1>2, <1>5, <1>6, <1>8, <1>9, <1>10, <1>11 DEF Order
-----------------------------------------------------------------------------
(* The leases *)

\* How a step of thread t may treat the TX lease: keep it, take a free one, or
\* revoke it and unkey, but never from a request between its check and its key.
TxLeaseMoved(t) ==
    \/ txOwner' = txOwner
    \/ txOwner = None
    \/ txOwner' = None /\ Unkeying(todo'[t]) /\ ~(WindowIsAtomic /\ InWindow(txOwner))

LEMMA ThenMoves ==
    ASSUME Lists, NEW t \in Threads, NEW n, Onward(t, todo[t], n), Then(t, n)
    PROVE  Moved(t) /\ todo'[t] = n
BY DEF Lists, Moved, Then

\* After any step but a keying one the list carries on without keying.
LEMMA Unwindowed ==
    ASSUME NEW t \in Threads, NEW s, List(t, s), s # << >>,
           s[1].op \notin Window \cup {"needLease"}
    PROVE  /\ Onward(t, s, Tail(s))
           /\ Tail(s) # << >> => Tail(s)[1].op \notin Window
BY RestGoesOn DEF Joins, Window

\* A thread that revokes control goes on to release the TX lease.
LEMMA ReleaseGoesOn ==
    ASSUME NEW t \in Threads, NEW s, NEW r, Onward(t, s, r), NEW c \in Clients,
           r # << >> => r[1].op \notin Window
    PROVE  Onward(t, s, <<Do("releaseLease", c)>> \o r)
<1> DEFINE y == Do("releaseLease", c)
<1>1. y \in StepsOf(t) /\ y.op = "releaseLease"
  BY DEF StepsOf, Revocations, Do
<1>2. y.op \notin Takers \cup Window \cup Unended \cup {"freeSlot"}
  BY <1>1 DEF Takers, Window, Unended
<1> HIDE DEF y
<1>3. Onward(t, s, <<y>> \o r)
  BY <1>1, <1>2, OneMoreGoesOn
<1> QED
  BY <1>3 DEF y

LEMMA ReleaseLeaseMoves ==
    ASSUME Order, NEW t \in Threads, todo[t] # << >>, NEW c \in Clients,
           todo[t][1].op = "releaseLease", todo[t][1].who = c,
           ReleaseLease(t, c, Tail(todo[t]))
    PROVE  Moved(t) /\ OwnersMoved(t) /\ TxLeaseMoved(t)
<1> DEFINE rest == Tail(todo[t])
<1>0. Lists /\ TypeOK /\ List(t, todo[t]) /\ None \notin Clients
  BY WebConstants DEF Order, Lists
<1>1. Onward(t, todo[t], rest) /\ (rest # << >> => rest[1].op \notin Window)
  BY <1>0, Unwindowed DEF Window
<1>2. Onward(t, todo[t], FailSafe \o rest) /\ Unkeying(FailSafe \o rest)
  BY <1>1, FailSafeGoesOn
<1>3. \A d : todo[t][1] # Do("releaseControl", d)
  BY DEF Do
<1>4. \A d : todo[t][1] = Do("releaseLease", d) => d = c
  BY DEF Do
<1> HIDE DEF rest
<1>5. CASE txOwner = c
  <2>1. /\ txOwner' = None /\ txLive' = FALSE /\ ~(WindowIsAtomic /\ InWindow(txOwner))
        /\ Then(t, FailSafe \o rest) /\ UNCHANGED <<controlOwner, controlLive>>
    BY <1>5 DEF ReleaseLease, ClearTxOwner, rest
  <2>2. Moved(t) /\ todo'[t] = FailSafe \o rest
    BY <1>0, <1>2, <2>1, ThenMoves
  <2> QED
    BY <1>0, <1>2, <1>3, <2>1, <2>2 DEF OwnersMoved, TxLeaseMoved, TypeOK
<1>6. CASE txOwner # c
  <2>1. UNCHANGED <<txOwner, txLive>> /\ Then(t, rest) /\ UNCHANGED <<controlOwner, controlLive>>
    BY <1>6 DEF ReleaseLease, rest
  <2>2. Moved(t)
    BY <1>0, <1>1, <2>1, ThenMoves
  <2> QED
    BY <1>0, <1>3, <1>4, <1>6, <2>1, <2>2 DEF OwnersMoved, TxLeaseMoved, TypeOK
<1> QED
  BY <1>5, <1>6

LEMMA IsLeaseOwnerMoves ==
    ASSUME Order, NEW t \in Threads, todo[t] # << >>,
           todo[t][1].op \notin {"releaseLease", "releaseControl"},
           NEW c \in Clients, NEW renew \in BOOLEAN, NEW yes, NEW no, IsLeaseOwner(t, c, renew, yes, no),
           Onward(t, todo[t], yes), Onward(t, todo[t], no),
           no # << >> => no[1].op \notin Window
    PROVE  /\ Moved(t) /\ OwnersMoved(t) /\ TxLeaseMoved(t)
           /\ \/ todo'[t] = yes /\ txOwner = c /\ txOwner' = c
              \/ todo'[t] = no
              \/ Unkeying(todo'[t])
<1>0. Lists /\ TypeOK /\ c # None
  BY WebConstants DEF Order
<1>1. Onward(t, todo[t], FailSafe \o no) /\ Unkeying(FailSafe \o no)
  BY FailSafeGoesOn
<1>2. UNCHANGED <<controlOwner, controlLive>>
  BY DEF IsLeaseOwner
<1>3. \A d : todo[t][1] # Do("releaseControl", d) /\ todo[t][1] # Do("releaseLease", d)
  BY DEF Do
<1>4. CASE txOwner # None /\ ~txLive
  <2>1. /\ txOwner' = None /\ txLive' = FALSE /\ ~(WindowIsAtomic /\ InWindow(txOwner))
        /\ Then(t, FailSafe \o no)
    BY <1>4 DEF IsLeaseOwner, ClearTxOwner
  <2>2. Moved(t) /\ todo'[t] = FailSafe \o no
    BY <1>0, <1>1, <2>1, ThenMoves
  <2> QED
    BY <1>0, <1>1, <1>2, <1>3, <2>1, <2>2 DEF OwnersMoved, TxLeaseMoved, TypeOK
<1>5. CASE ~(txOwner # None /\ ~txLive) /\ txOwner = c
  <2>1. txLive' = (renew \/ txLive) /\ txOwner' = txOwner /\ Then(t, yes)
    BY <1>5 DEF IsLeaseOwner
  <2>2. Moved(t) /\ todo'[t] = yes
    BY <1>0, <2>1, ThenMoves
  <2>3. txLive' \in BOOLEAN /\ (txOwner # None => txLive)
    BY <1>0, <1>5, <2>1 DEF TypeOK
  <2> QED
    BY <1>0, <1>2, <1>3, <1>5, <2>1, <2>2, <2>3 DEF OwnersMoved, TxLeaseMoved, TypeOK
<1>6. CASE ~(txOwner # None /\ ~txLive) /\ txOwner # c
  <2>1. UNCHANGED <<txOwner, txLive>> /\ Then(t, no)
    BY <1>6 DEF IsLeaseOwner
  <2>2. Moved(t) /\ todo'[t] = no
    BY <1>0, <2>1, ThenMoves
  <2> QED
    BY <1>0, <1>2, <1>3, <2>1, <2>2 DEF OwnersMoved, TxLeaseMoved, TypeOK
<1> QED
  BY <1>4, <1>5, <1>6
LEMMA IsControlOwnerMoves ==
    ASSUME Order, NEW t \in Threads, todo[t] # << >>,
           todo[t][1].op \notin {"releaseLease", "releaseControl"},
           NEW c \in Clients, NEW renew \in BOOLEAN, NEW yes, NEW no,
           IsControlOwner(t, c, renew, yes, no),
           Onward(t, todo[t], yes), Onward(t, todo[t], no),
           no # << >> => no[1].op \notin Window
    PROVE  Moved(t) /\ OwnersMoved(t) /\ txOwner' = txOwner
<1>0. Lists /\ TypeOK /\ c # None
  BY WebConstants DEF Order
<1>1. controlOwner # None => Onward(t, todo[t], <<Do("releaseLease", controlOwner)>> \o no)
  BY <1>0, ReleaseGoesOn DEF TypeOK, Owners
<1>2. UNCHANGED <<txOwner, txLive>>
  BY DEF IsControlOwner
<1>3. \A d : todo[t][1] # Do("releaseControl", d) /\ todo[t][1] # Do("releaseLease", d)
  BY DEF Do
<1>4. CASE controlOwner # None /\ ~controlLive
  <2>1. /\ controlOwner' = None /\ controlLive' = FALSE
        /\ Then(t, <<Do("releaseLease", controlOwner)>> \o no)
    BY <1>4 DEF IsControlOwner
  <2>2. Moved(t)
    BY <1>0, <1>1, <1>4, <2>1, ThenMoves
  <2> QED
    BY <1>0, <1>2, <1>3, <2>1, <2>2 DEF OwnersMoved, TypeOK
<1>5. CASE ~(controlOwner # None /\ ~controlLive) /\ controlOwner = c
  <2>1. controlLive' = (renew \/ controlLive) /\ controlOwner' = controlOwner /\ Then(t, yes)
    BY <1>5 DEF IsControlOwner
  <2>2. Moved(t)
    BY <1>0, <2>1, ThenMoves
  <2>3. controlLive' \in BOOLEAN
    BY <1>0, <2>1 DEF TypeOK
  <2> QED
    BY <1>0, <1>2, <1>3, <1>5, <2>1, <2>2, <2>3 DEF OwnersMoved, TypeOK
<1>6. CASE ~(controlOwner # None /\ ~controlLive) /\ controlOwner # c
  <2>1. UNCHANGED <<controlOwner, controlLive>> /\ Then(t, no)
    BY <1>6 DEF IsControlOwner
  <2>2. Moved(t)
    BY <1>0, <2>1, ThenMoves
  <2> QED
    BY <1>0, <1>2, <1>3, <2>1, <2>2 DEF OwnersMoved, TypeOK
<1> QED
  BY <1>4, <1>5, <1>6

LEMMA TakeControlMoves ==
    ASSUME Order, NEW t \in Threads, todo[t] # << >>, NEW c \in Clients,
           todo[t][1].op \in {"takeControl", "forceControl"}, todo[t][1].who = c,
           NEW force \in BOOLEAN, TakeControl(t, c, force, Tail(todo[t]))
    PROVE  Moved(t) /\ OwnersMoved(t) /\ txOwner' = txOwner
<1> DEFINE rest == Tail(todo[t])
<1>0. Lists /\ TypeOK /\ List(t, todo[t]) /\ None \notin Clients
  BY WebConstants DEF Order, Lists
<1>1. Onward(t, todo[t], rest) /\ (rest # << >> => rest[1].op \notin Window)
  BY <1>0, Unwindowed DEF Window
<1> HIDE DEF rest
<1>2. controlOwner # None => Onward(t, todo[t], <<Do("releaseLease", controlOwner)>> \o rest)
  BY <1>0, <1>1, ReleaseGoesOn DEF TypeOK, Owners
<1>3. UNCHANGED <<txOwner, txLive>>
  BY DEF TakeControl
<1>4. \A d : todo[t][1] # Do("releaseControl", d) /\ todo[t][1] # Do("releaseLease", d)
  BY DEF Do
<1>5. CASE controlOwner \in {None, c}
  <2>1. controlOwner' = c /\ controlLive' = TRUE /\ Then(t, rest)
    BY <1>5 DEF TakeControl, rest
  <2>2. Moved(t)
    BY <1>0, <1>1, <2>1, ThenMoves
  <2> QED
    BY <1>0, <1>3, <1>4, <2>1, <2>2 DEF OwnersMoved, TypeOK
<1>6. CASE controlOwner \notin {None, c} /\ force
  <2>1. /\ controlOwner' = c /\ controlLive' = TRUE
        /\ Then(t, <<Do("releaseLease", controlOwner)>> \o rest)
    BY <1>6 DEF TakeControl, rest
  <2>2. Moved(t)
    BY <1>0, <1>2, <1>6, <2>1, ThenMoves
  <2> QED
    BY <1>0, <1>3, <1>4, <2>1, <2>2 DEF OwnersMoved, TypeOK
<1>7. CASE controlOwner \notin {None, c} /\ ~force
  <2>1. UNCHANGED <<controlOwner, controlLive>> /\ Then(t, rest)
    BY <1>7 DEF TakeControl, rest
  <2>2. Moved(t)
    BY <1>0, <1>1, <2>1, ThenMoves
  <2> QED
    BY <1>0, <1>3, <1>4, <2>1, <2>2 DEF OwnersMoved, TypeOK
<1> QED
  BY <1>5, <1>6, <1>7

LEMMA ReleaseControlMoves ==
    ASSUME Order, NEW t \in Threads, todo[t] # << >>, NEW c \in Clients,
           todo[t][1].op = "releaseControl", todo[t][1].who = c,
           ReleaseControl(t, c, Tail(todo[t]))
    PROVE  Moved(t) /\ OwnersMoved(t) /\ txOwner' = txOwner
<1> DEFINE rest == Tail(todo[t])
<1>0. Lists /\ TypeOK /\ List(t, todo[t]) /\ None \notin Clients
  BY WebConstants DEF Order, Lists
<1>1. Onward(t, todo[t], rest) /\ (rest # << >> => rest[1].op \notin Window)
  BY <1>0, Unwindowed DEF Window
<1> HIDE DEF rest
<1>2. Onward(t, todo[t], <<Do("releaseLease", c)>> \o rest)
  BY <1>1, ReleaseGoesOn
<1>3. UNCHANGED <<txOwner, txLive>>
  BY DEF ReleaseControl
<1>4. \A d : /\ todo[t][1] # Do("releaseLease", d)
             /\ todo[t][1] = Do("releaseControl", d) => d = c
  BY DEF Do
<1>5. CASE controlOwner = c
  <2>1. /\ controlOwner' = None /\ controlLive' = FALSE
        /\ Then(t, <<Do("releaseLease", c)>> \o rest)
    BY <1>5 DEF ReleaseControl, rest
  <2>2. Moved(t)
    BY <1>0, <1>2, <2>1, ThenMoves
  <2> QED
    BY <1>0, <1>3, <1>4, <2>1, <2>2 DEF OwnersMoved, TypeOK
<1>6. CASE controlOwner # c
  <2>1. UNCHANGED <<controlOwner, controlLive>> /\ Then(t, rest)
    BY <1>6 DEF ReleaseControl, rest
  <2>2. Moved(t)
    BY <1>0, <1>1, <2>1, ThenMoves
  <2> QED
    BY <1>0, <1>3, <1>4, <1>6, <2>1, <2>2 DEF OwnersMoved, TypeOK
<1> QED
  BY <1>5, <1>6

LEMMA TakeLeaseMoves ==
    ASSUME Order, NEW t \in Threads, todo[t] # << >>, NEW c \in Clients,
           todo[t][1].op = "takeLease", todo[t][1].who = c,
           TakeLease(t, c, Tail(todo[t]))
    PROVE  Moved(t) /\ OwnersMoved(t) /\ TxLeaseMoved(t)
<1> DEFINE rest == Tail(todo[t])
           y == Do("resetAudio", c)
<1>0. Lists /\ TypeOK /\ List(t, todo[t]) /\ None \notin Clients
  BY WebConstants DEF Order, Lists
<1>1. Onward(t, todo[t], rest) /\ (rest # << >> => rest[1].op \notin Window)
  BY <1>0, Unwindowed DEF Window
<1>2. y \in StepsOf(t) /\ y.op = "resetAudio"
  BY DEF StepsOf, Revocations, Owners, Do
<1>3. y.op \notin Takers \cup Window \cup Unended \cup {"freeSlot"}
  BY <1>2 DEF Takers, Window, Unended
<1> HIDE DEF rest, y
<1>4. Onward(t, todo[t], <<y>> \o rest)
  BY <1>1, <1>2, <1>3, OneMoreGoesOn
<1>5. UNCHANGED <<controlOwner, controlLive>>
  BY DEF TakeLease
<1>6. \A d : todo[t][1] # Do("releaseControl", d) /\ todo[t][1] # Do("releaseLease", d)
  BY DEF Do
<1>7. CASE txOwner \in {None, c}
  <2>1. txOwner' = c /\ txLive' = TRUE /\ Then(t, <<y>> \o rest)
    BY <1>7 DEF TakeLease, rest, y
  <2>2. Moved(t)
    BY <1>0, <1>4, <2>1, ThenMoves
  <2> QED
    BY <1>0, <1>5, <1>6, <1>7, <2>1, <2>2 DEF OwnersMoved, TxLeaseMoved, TypeOK
<1>8. CASE txOwner \notin {None, c}
  <2>1. UNCHANGED <<txOwner, txLive>> /\ Then(t, rest)
    BY <1>8 DEF TakeLease, rest
  <2>2. Moved(t)
    BY <1>0, <1>1, <2>1, ThenMoves
  <2> QED
    BY <1>0, <1>5, <1>6, <2>1, <2>2 DEF OwnersMoved, TxLeaseMoved, TypeOK
<1> QED
  BY <1>7, <1>8

\* The steps of the leases: nothing but a confirmed owner goes on to key.
LeaseOps ==
    {"needControl", "expireControl", "takeControl", "forceControl", "releaseControl",
     "releaseLease", "takeLease", "expireLease", "renewLease", "needLease", "heardFrom"}

LEMMA LeaseStepMoves ==
    ASSUME Order, NEW t \in Threads, todo[t] # << >>,
           LeaseStep(t, Head(todo[t]), Tail(todo[t]))
    PROVE  /\ Moved(t) /\ OwnersMoved(t) /\ TxLeaseMoved(t)
           /\ UNCHANGED <<connected, remote, media, idles>>
           /\ todo[t][1].op \in LeaseOps
           /\ todo[t][1].op = "needLease" =>
                 \/ todo'[t] = << >> \/ Unkeying(todo'[t])
                 \/ txOwner = todo[t][1].who /\ txOwner' = txOwner
<1> DEFINE s == todo[t][1]
           rest == Tail(todo[t])
<1>0. Lists /\ TypeOK /\ List(t, todo[t]) /\ armed \in BOOLEAN
  BY DEF Order, Lists, TypeOK
<1>1. s = Head(todo[t]) /\ s \in StepsOf(t)
  BY <1>0, FirstStep
<1>2. Onward(t, todo[t], rest)
  BY <1>0, RestGoesOn
<1>3. Onward(t, todo[t], << >>)
  BY NothingGoesOn
<1>4. UNCHANGED <<connected, remote, media, idles>>
  BY DEF LeaseStep
<1>5. /\ s.op \in LeaseOps => s.who \in Clients
      /\ s.op \notin {"needLease"} \cup Window => (rest # << >> => rest[1].op \notin Window)
  BY <1>0, <1>1, Whose, Unwindowed DEF LeaseOps, WorkerOps, DecoderOps, Takers
<1>6. LeaseStep(t, s, rest)
  BY <1>1
<1> HIDE DEF rest
<1>7. UNCHANGED leases /\ s.op \notin {"releaseLease", "releaseControl"}
          => OwnersMoved(t) /\ TxLeaseMoved(t)
  BY <1>0 DEF leases, OwnersMoved, TxLeaseMoved, TypeOK, Do
<1>8. CASE s.op = "needControl" /\ IsControlOwner(t, s.who, TRUE, rest, << >>)
  BY <1>2, <1>3, <1>4, <1>5, <1>8, IsControlOwnerMoves DEF LeaseOps, TxLeaseMoved
<1>9. CASE s.op = "expireControl" /\ IsControlOwner(t, s.who, FALSE, rest, rest)
  BY <1>2, <1>4, <1>5, <1>9, IsControlOwnerMoves DEF LeaseOps, TxLeaseMoved, Window
<1>10. CASE s.op \in {"takeControl", "forceControl"} /\ TakeControl(t, s.who, s.op = "forceControl", rest)
  BY <1>4, <1>5, <1>10, TakeControlMoves DEF LeaseOps, TxLeaseMoved, rest
<1>11. CASE s.op = "releaseControl" /\ ReleaseControl(t, s.who, rest)
  BY <1>4, <1>5, <1>11, ReleaseControlMoves DEF LeaseOps, TxLeaseMoved, rest
<1>12. CASE s.op = "releaseLease" /\ ReleaseLease(t, s.who, rest)
  BY <1>4, <1>5, <1>12, ReleaseLeaseMoves DEF LeaseOps, rest
<1>13. CASE s.op = "takeLease" /\ TakeLease(t, s.who, rest)
  BY <1>4, <1>5, <1>13, TakeLeaseMoves DEF LeaseOps, rest
<1>14. CASE /\ s.op = "expireLease"
            /\ IF armed THEN IsLeaseOwner(t, s.who, FALSE, rest, rest)
               ELSE Then(t, << >>) /\ UNCHANGED leases
  <2>1. CASE armed
    BY <1>2, <1>4, <1>5, <1>14, <2>1, IsLeaseOwnerMoves DEF LeaseOps, Window
  <2>2. CASE ~armed
    BY <1>0, <1>3, <1>4, <1>7, <1>14, <2>2, ThenMoves DEF LeaseOps
  <2> QED
    BY <2>1, <2>2
<1>15. CASE s.op = "renewLease" /\ IsLeaseOwner(t, s.who, TRUE, rest, << >>)
  BY <1>2, <1>3, <1>4, <1>5, <1>15, IsLeaseOwnerMoves DEF LeaseOps
<1>16. CASE /\ s.op = "needLease"
            /\ IF armed THEN IsLeaseOwner(t, s.who, TRUE, rest, << >>)
               ELSE Then(t, << >>) /\ UNCHANGED leases
  <2>1. CASE armed
    BY <1>2, <1>3, <1>4, <1>5, <1>16, <2>1, IsLeaseOwnerMoves DEF LeaseOps
  <2>2. CASE ~armed
    BY <1>0, <1>3, <1>4, <1>7, <1>16, <2>2, ThenMoves DEF LeaseOps
  <2> QED
    BY <2>1, <2>2
<1>17. CASE /\ s.op = "heardFrom"
            /\ IsLeaseOwner(t, s.who, FALSE, IF armed THEN rest ELSE << >>, << >>)
  BY <1>2, <1>3, <1>4, <1>5, <1>17, IsLeaseOwnerMoves DEF LeaseOps
<1> QED
  BY <1>6, <1>8, <1>9, <1>10, <1>11, <1>12, <1>13, <1>14, <1>15, <1>16, <1>17
  DEF LeaseStep
-----------------------------------------------------------------------------
(* The other steps *)

LEMMA QuietFlags ==
    /\ DOMAIN Quiet = {"ptt", "mox", "moxSeen", "tune", "tuneSeen"}
    /\ Quiet \in [DOMAIN Quiet -> BOOLEAN]
    /\ Quiet.ptt = FALSE
<1>1. DOMAIN Quiet = {"ptt", "mox", "moxSeen", "tune", "tuneSeen"}
  BY DEF Quiet
<1>2. /\ Quiet.ptt = FALSE /\ Quiet.mox = FALSE /\ Quiet.moxSeen = FALSE
      /\ Quiet.tune = FALSE /\ Quiet.tuneSeen = FALSE
  BY DEF Quiet
<1>3. \A x \in DOMAIN Quiet : Quiet[x] \in BOOLEAN
  BY <1>1, <1>2
<1>4. Quiet = [x \in DOMAIN Quiet |-> Quiet[x]]
  BY DEF Quiet
<1> QED
  BY <1>1, <1>2, <1>3, <1>4

\* A step that leaves the leases alone leaves the owners alone.
LEMMA OwnersStay ==
    ASSUME Order, NEW t \in Threads, UNCHANGED leases,
           todo[t][1].op \notin {"releaseLease", "releaseControl"}
    PROVE  OwnersMoved(t) /\ TxLeaseMoved(t)
BY DEF Order, TypeOK, leases, OwnersMoved, TxLeaseMoved, Do

KeyOps == {"unkey", "moxOn", "tuneOn", "off", "pushMoxOn", "pushTuneOn", "pushOff"}

LEMMA KeyStepMoves ==
    ASSUME Order, NEW t \in Threads, todo[t] # << >>,
           KeyStep(t, Head(todo[t]), Tail(todo[t]))
    PROVE  /\ Moved(t) /\ OwnersMoved(t) /\ Media'
           /\ UNCHANGED <<connected, leases, media>>
           /\ todo[t][1].op \in KeyOps
           /\ todo'[t] = Tail(todo[t]) \/ (todo[t][1].op = "off" /\ ~armed /\ todo'[t] = << >>)
<1> DEFINE s == todo[t][1]
           rest == Tail(todo[t])
<1>0. Lists /\ TypeOK /\ List(t, todo[t])
  BY DEF Order, Lists
<1>1. s = Head(todo[t])
  BY <1>0, FirstStep
<1>2. Onward(t, todo[t], rest) /\ Onward(t, todo[t], << >>)
  BY <1>0, RestGoesOn, NothingGoesOn
<1>3. UNCHANGED <<connected, leases, media>>
  BY DEF KeyStep
<1> HIDE DEF rest
<1>4. KeyStep(t, s, rest)
  BY <1>1 DEF rest
<1>5. s.op \in KeyOps => OwnersMoved(t)
  BY <1>3, OwnersStay DEF KeyOps
<1>6. /\ remote' \in [DOMAIN Quiet -> BOOLEAN] /\ idles' \in Seq(TxStates) => Media'
      /\ remote \in [DOMAIN Quiet -> BOOLEAN] /\ idles \in Seq(TxStates)
  BY <1>0, <1>3 DEF Media, TypeOK, media
<1>7. CASE s.op = "unkey" /\ Unkey(t, rest)
  <2>1. Then(t, rest) /\ remote' = Quiet
    BY <1>7 DEF Unkey
  <2>2. idles' = idles \/ idles' = idles \o <<"rx", "rx">>
    BY <1>7 DEF Unkey
  <2>3. idles' \in Seq(TxStates)
    BY <1>6, <2>2 DEF TxStates
  <2>4. Moved(t) /\ todo'[t] = rest
    BY <1>0, <1>2, <2>1, ThenMoves
  <2> QED
    BY <1>3, <1>5, <1>6, <1>7, <2>1, <2>3, <2>4, QuietFlags DEF KeyOps, rest
<1>8. ASSUME NEW state \in TxStates, SetFlags(t, state, rest), s.op \in {"moxOn", "tuneOn", "off"}
      PROVE  Moved(t) /\ OwnersMoved(t) /\ Media' /\ s.op \in KeyOps /\ todo'[t] = rest
  <2>1. /\ remote' = [Quiet EXCEPT !.ptt = state # "rx", !.mox = state = "mox",
                                    !.tune = state = "tune"]
        /\ UNCHANGED idles /\ Then(t, rest)
    BY <1>8 DEF SetFlags
  <2>2. remote' \in [DOMAIN Quiet -> BOOLEAN]
    BY <2>1, QuietFlags
  <2>3. Moved(t) /\ todo'[t] = rest
    BY <1>0, <1>2, <2>1, ThenMoves
  <2> QED
    BY <1>5, <1>6, <1>8, <2>1, <2>2, <2>3 DEF KeyOps
<1>9. ASSUME NEW state \in TxStates, Push(t, state, rest),
             s.op \in {"pushMoxOn", "pushTuneOn", "pushOff"}
      PROVE  Moved(t) /\ OwnersMoved(t) /\ Media' /\ s.op \in KeyOps /\ todo'[t] = rest
  <2>1. remote' = remote /\ idles' = Append(idles, state) /\ Then(t, rest)
    BY <1>9 DEF Push
  <2>2. idles' \in Seq(TxStates)
    BY <1>6, <2>1
  <2>3. Moved(t) /\ todo'[t] = rest
    BY <1>0, <1>2, <2>1, ThenMoves
  <2> QED
    BY <1>5, <1>6, <1>9, <2>1, <2>2, <2>3 DEF KeyOps
<1>10. CASE s.op = "off" /\ ~armed /\ Then(t, << >>) /\ UNCHANGED <<remote, idles>>
  <2>1. Moved(t) /\ todo'[t] = << >>
    BY <1>0, <1>2, <1>10, ThenMoves
  <2> QED
    BY <1>3, <1>5, <1>6, <1>10, <2>1 DEF KeyOps
<1>11. /\ "rx" \in TxStates /\ "mox" \in TxStates /\ "tune" \in TxStates
  BY DEF TxStates
<1> QED
  BY <1>3, <1>4, <1>7, <1>8, <1>9, <1>10, <1>11 DEF KeyStep, rest

LEMMA MediaStepMoves ==
    ASSUME Order, NEW t \in Threads, todo[t] # << >>,
           MediaStep(t, Head(todo[t]), Tail(todo[t]))
    PROVE  /\ Moved(t) /\ OwnersMoved(t) /\ Media'
           /\ UNCHANGED <<connected, leases, remote, idles>>
           /\ todo[t][1].op \in {"resetAudio", "needAudio", "putAudio"}
           /\ todo'[t] = Tail(todo[t]) \/ (todo[t][1].op = "needAudio" /\ todo'[t] = << >>)
<1> DEFINE s == todo[t][1]
           rest == Tail(todo[t])
<1>0. Lists /\ TypeOK /\ List(t, todo[t])
  BY DEF Order, Lists
<1>1. s = Head(todo[t])
  BY <1>0, FirstStep
<1>2. Onward(t, todo[t], rest) /\ Onward(t, todo[t], << >>)
  BY <1>0, RestGoesOn, NothingGoesOn
<1>3. UNCHANGED <<connected, leases, remote, idles>>
  BY DEF MediaStep
<1>4. s.op \in {"resetAudio", "needAudio", "putAudio"}
  BY <1>1 DEF MediaStep
<1>5. OwnersMoved(t)
  BY <1>3, <1>4, OwnersStay
<1> HIDE DEF rest
<1>6. Then(t, rest) \/ (s.op = "needAudio" /\ Then(t, << >>))
  BY <1>1 DEF MediaStep, rest
<1>7. Moved(t) /\ (todo'[t] = rest \/ (s.op = "needAudio" /\ todo'[t] = << >>))
  BY <1>0, <1>2, <1>6, ThenMoves
<1>8. audio' \in {"none", "fresh", "stale"} /\ audioActive' \in BOOLEAN
  BY <1>0, <1>1 DEF MediaStep, media, TypeOK
<1>9. Media'
  BY <1>0, <1>3, <1>8 DEF Media, TypeOK
<1> QED
  BY <1>3, <1>4, <1>5, <1>7, <1>9 DEF rest

\* The GTK thread frees no slot and takes no lease.
LEMMA GtkGoesOn ==
    ASSUME NEW s, NEW n, List(Gtk, n)
    PROVE  /\ Onward(Gtk, s, n)
           /\ n # << >> => n[1].op \notin Window
<1>1. \A x \in StepsOf(Gtk) : x.op \notin Window /\ x.op # "freeSlot"
  BY StepKinds DEF Revocations, GtkOps, Window
<1>2. \A i \in 1..Len(n) : n[i] \in StepsOf(Gtk)
  BY DEF List
<1>3. n # << >> => 1 \in 1..Len(n)
  BY DEF List
<1> QED
  BY <1>1, <1>2, <1>3 DEF Onward, Parts

\* The GTK thread is given a step to make first.
LEMMA GtkOneMore ==
    ASSUME NEW s, NEW r, Onward(Gtk, s, r), NEW y \in StepsOf(Gtk), y.op \notin Unended
    PROVE  Onward(Gtk, s, <<y>> \o r)
<1>1. y.op \notin Takers \cup Window \cup {"freeSlot"}
  BY StepKinds DEF Revocations, GtkOps, Takers, Window
<1>2. r # << >> => r[1].op \notin Window
  BY GtkGoesOn DEF Onward
<1> QED
  BY <1>1, <1>2, ThreadKinds, OneMoreGoesOn

LEMMA TickStepMoves ==
    ASSUME Order, todo[Gtk] # << >>, TickStep(Head(todo[Gtk]), Tail(todo[Gtk]))
    PROVE  /\ Moved(Gtk) /\ OwnersMoved(Gtk) /\ TxLeaseMoved(Gtk) /\ Media'
           /\ UNCHANGED <<connected, idles>> /\ remote'.ptt = remote.ptt
           /\ todo[Gtk][1].op \in GtkOps \ {"stopped"}
<1> DEFINE s == todo[Gtk][1]
           rest == Tail(todo[Gtk])
<1>0. Lists /\ TypeOK /\ List(Gtk, todo[Gtk]) /\ Gtk \in Threads /\ None \notin Clients
  BY ThreadKinds, WebConstants DEF Order, Lists
<1>1. s = Head(todo[Gtk])
  BY <1>0, FirstStep
<1>2. Onward(Gtk, todo[Gtk], rest) /\ List(Gtk, rest) /\ (rest # << >> => rest[1].op \notin Window)
  BY <1>0, RestGoesOn, GtkGoesOn DEF Onward
<1>3. UNCHANGED <<connected, audio, idles>>
  BY DEF TickStep
<1>4. s.op \in GtkOps \ {"stopped"}
  BY <1>1 DEF TickStep, GtkOps
<1>5. UNCHANGED leases => OwnersMoved(Gtk) /\ TxLeaseMoved(Gtk)
  BY <1>0, <1>4, OwnersStay DEF GtkOps
<1>6. s.op \in Unended => rest # << >>
  BY <1>0, RestGoesOn
<1> HIDE DEF rest
<1>7. TickStep(s, rest)
  BY <1>1 DEF rest
<1>8. /\ remote \in [DOMAIN Quiet -> BOOLEAN] /\ audioActive \in BOOLEAN
      /\ remote' \in [DOMAIN Quiet -> BOOLEAN] /\ audioActive' \in BOOLEAN => Media'
  BY <1>0, <1>3 DEF Media, TypeOK
<1>9. \A c \in Clients : Onward(Gtk, todo[Gtk], <<Do("releaseLease", c)>> \o rest)
  BY <1>0, <1>2, ReleaseGoesOn
<1>10. txOwner # None => txOwner \in Clients
  BY <1>0 DEF TypeOK, Owners
<1>11. /\ Onward(Gtk, todo[Gtk], <<Do("unkey", None)>> \o rest)
       /\ Onward(Gtk, todo[Gtk], <<Do("mediaGap", None)>> \o rest)
  <2>1. Do("unkey", None) \in StepsOf(Gtk) /\ Do("mediaGap", None) \in StepsOf(Gtk)
    BY StepKinds DEF Do, Revocations, Owners, GtkOps
  <2>2. Do("unkey", None).op \notin Unended /\ Do("mediaGap", None).op \notin Unended
    BY DEF Do, Unended
  <2> QED
    BY <1>2, <2>1, <2>2, GtkOneMore
<1>12. CASE s.op = "tickControl"
  <2>1. UNCHANGED <<remote, audioActive>>
    BY <1>7, <1>12 DEF TickStep
  <2>2. CASE controlOwner = None
    <3>1. Then(Gtk, rest) /\ UNCHANGED leases
      BY <1>7, <1>12, <2>2 DEF TickStep
    <3> QED
      BY <1>0, <1>2, <1>3, <1>4, <1>5, <1>8, <2>1, <3>1, ThenMoves
  <2>3. CASE controlOwner # None
    <3>1. IsControlOwner(Gtk, controlOwner, FALSE, rest, rest) /\ controlOwner \in Clients
      BY <1>0, <1>7, <1>12, <2>3 DEF TickStep, TypeOK, Owners
    <3>2. Moved(Gtk) /\ OwnersMoved(Gtk) /\ txOwner' = txOwner
      BY <1>0, <1>2, <1>12, <3>1, IsControlOwnerMoves
    <3> QED
      BY <1>3, <1>4, <1>8, <2>1, <3>2 DEF TxLeaseMoved
  <2> QED
    BY <2>2, <2>3
<1>13. CASE s.op = "tickLease"
  <2>1. UNCHANGED <<remote, audioActive>>
    BY <1>7, <1>13 DEF TickStep
  <2>2. CASE txOwner = None
    <3>1. Then(Gtk, Tail(rest)) /\ UNCHANGED leases
      BY <1>7, <1>13, <2>2 DEF TickStep
    <3>2. List(Gtk, Tail(rest))
      BY <1>0, <1>2, <1>6, <1>13, RestGoesOn DEF Unended, Onward
    <3>3. Onward(Gtk, todo[Gtk], Tail(rest))
      BY <3>2, GtkGoesOn
    <3> QED
      BY <1>0, <1>3, <1>4, <1>5, <1>8, <2>1, <3>1, <3>3, ThenMoves
  <2>3. CASE txOwner # None
    <3>1. IsLeaseOwner(Gtk, txOwner, FALSE, rest, rest)
      BY <1>7, <1>13, <2>3 DEF TickStep
    <3>2. Moved(Gtk) /\ OwnersMoved(Gtk) /\ TxLeaseMoved(Gtk)
      BY <1>0, <1>2, <1>10, <1>13, <2>3, <3>1, IsLeaseOwnerMoves
    <3> QED
      BY <1>3, <1>4, <1>8, <2>1, <3>2
  <2> QED
    BY <2>2, <2>3
<1>14. CASE s.op = "tickArm"
  <2>1. TickArm(rest) /\ UNCHANGED <<leases, remote, audioActive>>
    BY <1>7, <1>14 DEF TickStep
  <2>2. PICK n : Onward(Gtk, todo[Gtk], n) /\ Then(Gtk, n)
    BY <1>2, <1>9, <1>10, <2>1 DEF TickArm
  <2> QED
    BY <1>0, <1>3, <1>4, <1>5, <1>8, <2>1, <2>2, ThenMoves
<1>15. CASE s.op = "tickMedia"
  <2>1. TickMedia(rest) /\ UNCHANGED <<leases, remote, audioActive>>
    BY <1>7, <1>15 DEF TickStep
  <2>2. PICK n : Onward(Gtk, todo[Gtk], n) /\ Then(Gtk, n)
    BY <1>2, <1>11, <2>1 DEF TickMedia
  <2> QED
    BY <1>0, <1>3, <1>4, <1>5, <1>8, <2>1, <2>2, ThenMoves
<1>16. CASE s.op = "mediaGap"
  <2>1. MediaGap(rest) /\ UNCHANGED <<leases, remote>>
    BY <1>7, <1>16 DEF TickStep
  <2>2. audioActive' = FALSE
    BY <2>1 DEF MediaGap
  <2>3. PICK n : Onward(Gtk, todo[Gtk], n) /\ Then(Gtk, n)
    BY <1>2, <1>9, <1>10, <1>11, <2>1 DEF MediaGap
  <2> QED
    BY <1>0, <1>3, <1>4, <1>5, <1>8, <2>1, <2>2, <2>3, ThenMoves
<1>17. CASE s.op = "tickSync"
  <2>1. TickSync(rest) /\ UNCHANGED <<leases, audioActive>>
    BY <1>7, <1>17 DEF TickStep
  <2>2. PICK n : Onward(Gtk, todo[Gtk], n) /\ Then(Gtk, n)
    BY <1>2, <1>11, <2>1 DEF TickSync
  <2>3. remote' \in [DOMAIN Quiet -> BOOLEAN] /\ remote'.ptt = remote.ptt
    BY <1>8, <2>1, QuietFlags DEF TickSync
  <2> QED
    BY <1>0, <1>3, <1>4, <1>5, <1>8, <2>1, <2>2, <2>3, ThenMoves
<1> QED
  BY <1>4, <1>12, <1>13, <1>14, <1>15, <1>16, <1>17 DEF GtkOps

LEMMA StopStepMoves ==
    ASSUME Order, todo[Gtk] # << >>, StopStep(Head(todo[Gtk]), Tail(todo[Gtk]))
    PROVE  /\ Moved(Gtk) /\ OwnersMoved(Gtk) /\ Media'
           /\ UNCHANGED <<connected, remote, media, idles>>
           /\ todo[Gtk][1].op = "stopped" /\ connected = {} /\ txOwner' = None
           /\ Unkeying(todo'[Gtk])
<1> DEFINE rest == Tail(todo[Gtk])
<1>0. Lists /\ TypeOK /\ List(Gtk, todo[Gtk]) /\ Gtk \in Threads
  BY ThreadKinds DEF Order, Lists
<1>1. todo[Gtk][1] = Head(todo[Gtk])
  BY <1>0, FirstStep
<1>2. /\ todo[Gtk][1].op = "stopped" /\ connected = {}
      /\ controlOwner' = None /\ controlLive' = FALSE
      /\ txOwner' = None /\ txLive' = FALSE
      /\ Then(Gtk, rest)
      /\ UNCHANGED <<connected, remote, media, idles>>
  BY <1>1 DEF StopStep
<1>3. Onward(Gtk, todo[Gtk], rest) /\ rest # << >> /\ rest[1].op = "unkey"
  BY <1>0, <1>2, RestGoesOn DEF Joins, Unended
<1> HIDE DEF rest
<1>4. Moved(Gtk) /\ todo'[Gtk] = rest
  BY <1>0, <1>2, <1>3, ThenMoves
<1>5. OwnersMoved(Gtk)
  BY <1>2, WebConstants DEF OwnersMoved
<1>6. Media'
  BY <1>0, <1>2 DEF Media, TypeOK, media
<1> QED
  BY <1>2, <1>3, <1>4, <1>5, <1>6 DEF Unkeying
LEMMA StepOrder ==
    ASSUME Order, NEW t \in Threads, Step(t)
    PROVE  Order'
<1>0. Lists /\ TypeOK /\ todo[t] # << >> /\ List(t, todo[t])
  BY DEF Order, Lists, Step
<1>1. UNCHANGED <<running, armed, txState>>
  BY DEF Step
<1>2. CASE LeaseStep(t, Head(todo[t]), Tail(todo[t]))
  <2>1. Moved(t) /\ OwnersMoved(t) /\ UNCHANGED <<connected, remote, media, idles>>
        /\ todo[t][1].op # "stopped"
    BY <1>0, <1>2, LeaseStepMoves DEF LeaseOps
  <2>2. Media'
    BY <1>0, <2>1 DEF Media, TypeOK, media
  <2> QED
    BY <1>0, <1>1, <2>1, <2>2, OrderMoves
<1>3. CASE KeyStep(t, Head(todo[t]), Tail(todo[t]))
  BY <1>0, <1>1, <1>3, KeyStepMoves, OrderMoves DEF KeyOps
<1>4. CASE MediaStep(t, Head(todo[t]), Tail(todo[t]))
  BY <1>0, <1>1, <1>4, MediaStepMoves, OrderMoves
<1>5. CASE FreeSlot(t, Head(todo[t]), Tail(todo[t]))
  BY <1>0, <1>1, <1>5, FreeSlotStep
<1>6. CASE t = Gtk /\ TickStep(Head(todo[t]), Tail(todo[t]))
  BY <1>0, <1>1, <1>6, TickStepMoves, OrderMoves
<1>7. CASE t = Gtk /\ StopStep(Head(todo[t]), Tail(todo[t]))
  BY <1>0, <1>1, <1>7, StopStepMoves, OrderMoves
<1> QED
  BY <1>2, <1>3, <1>4, <1>5, <1>6, <1>7 DEF Step

-----------------------------------------------------------------------------
(* What starts a thread *)

\* The lists of the web_client_release, of a packet, of web_state_tick and of
\* web_server_stop.
LEMMA StartLists ==
    /\ \A c \in Clients :
          /\ List(Worker(c), <<Do("releaseControl", c), Do("releaseLease", c), Do("freeSlot", c)>>)
          /\ List(Decoder(c), <<Do("heardFrom", c), Do("putAudio", c)>>)
    /\ List(Gtk, <<Do("tickControl", None), Do("tickLease", None), Do("tickArm", None),
                   Do("tickMedia", None), Do("tickSync", None)>>)
    /\ List(Gtk, <<Do("stopped", None), Do("unkey", None)>>)
<1>1. ASSUME NEW c \in Clients
      PROVE  List(Worker(c), <<Do("releaseControl", c), Do("releaseLease", c), Do("freeSlot", c)>>)
  <2>1. /\ Do("releaseControl", c) \in StepsOf(Worker(c))
        /\ Do("releaseLease", c) \in StepsOf(Worker(c))
        /\ Do("freeSlot", c) \in StepsOf(Worker(c))
    BY StepKinds DEF Do, Revocations, WorkerOps
  <2> QED
    BY <2>1 DEF List, Ordered, Joins, Unended, Takers, Do
<1>2. ASSUME NEW c \in Clients
      PROVE  List(Decoder(c), <<Do("heardFrom", c), Do("putAudio", c)>>)
  <2>1. Do("heardFrom", c) \in StepsOf(Decoder(c)) /\ Do("putAudio", c) \in StepsOf(Decoder(c))
    BY StepKinds DEF Do, DecoderOps
  <2> QED
    BY <2>1 DEF List, Ordered, Joins, Unended, Takers, Do
<1>3. List(Gtk, <<Do("tickControl", None), Do("tickLease", None), Do("tickArm", None),
                  Do("tickMedia", None), Do("tickSync", None)>>)
  <2>1. \A op \in GtkOps : Do(op, None) \in StepsOf(Gtk)
    BY StepKinds DEF Do
  <2>2. /\ Do("tickControl", None) \in StepsOf(Gtk) /\ Do("tickLease", None) \in StepsOf(Gtk)
        /\ Do("tickArm", None) \in StepsOf(Gtk) /\ Do("tickMedia", None) \in StepsOf(Gtk)
        /\ Do("tickSync", None) \in StepsOf(Gtk)
    BY <2>1 DEF GtkOps
  <2> QED
    BY <2>2 DEF List, Ordered, Joins, Unended, Takers, Do
<1>4. List(Gtk, <<Do("stopped", None), Do("unkey", None)>>)
  <2>1. Do("stopped", None) \in StepsOf(Gtk) /\ Do("unkey", None) \in StepsOf(Gtk)
    BY StepKinds DEF Do, GtkOps, Revocations, Owners
  <2> QED
    BY <2>1 DEF List, Ordered, Joins, Unended, Takers, Do
<1> QED
  BY <1>1, <1>2, <1>3, <1>4

\* The list of every request: in order, and it frees no slot.
LEMMA ProgramLists ==
    ASSUME NEW c \in Clients, NEW r \in AllRequests
    PROVE  /\ List(Worker(c), Program(r, c)) /\ ~Parts(Program(r, c))
           /\ Program(r, c) # << >>
           /\ Program(r, c)[1].op \notin Window \cup {"unkey", "resetAudio", "pushOff"}
<1>1. \A op \in WorkerOps : Do(op, c) \in StepsOf(Worker(c))
  BY StepKinds DEF Do
<1>2. /\ Do("needControl", c) \in StepsOf(Worker(c)) /\ Do("expireControl", c) \in StepsOf(Worker(c))
      /\ Do("takeControl", c) \in StepsOf(Worker(c)) /\ Do("forceControl", c) \in StepsOf(Worker(c))
      /\ Do("releaseControl", c) \in StepsOf(Worker(c)) /\ Do("expireLease", c) \in StepsOf(Worker(c))
      /\ Do("takeLease", c) \in StepsOf(Worker(c)) /\ Do("renewLease", c) \in StepsOf(Worker(c))
      /\ Do("needLease", c) \in StepsOf(Worker(c)) /\ Do("needAudio", c) \in StepsOf(Worker(c))
      /\ Do("moxOn", c) \in StepsOf(Worker(c)) /\ Do("pushMoxOn", c) \in StepsOf(Worker(c))
      /\ Do("tuneOn", c) \in StepsOf(Worker(c)) /\ Do("pushTuneOn", c) \in StepsOf(Worker(c))
      /\ Do("off", c) \in StepsOf(Worker(c)) /\ Do("pushOff", c) \in StepsOf(Worker(c))
  BY <1>1 DEF WorkerOps, Takers, Window
<1>3. Do("releaseLease", c) \in StepsOf(Worker(c))
  BY StepKinds DEF Do, Revocations
<1> USE <1>2, <1>3 DEF List, Ordered, Parts, Joins, Unended, Takers, Window, Do
<1>4. CASE r = "control_acquire"
  <2>1. Program(r, c) = <<Do("expireControl", c), Do("takeControl", c)>>
    BY <1>4 DEF Program
  <2> QED
    BY <2>1
<1>5. CASE r = "control_force"
  <2>1. Program(r, c) = <<Do("expireControl", c), Do("forceControl", c)>>
    BY <1>5 DEF Program
  <2> QED
    BY <2>1
<1>6. CASE r = "control_renew"
  <2>1. Program(r, c) = <<Do("needControl", c)>>
    BY <1>6 DEF Program
  <2> QED
    BY <2>1
<1>7. CASE r = "control_release"
  <2>1. Program(r, c) = <<Do("releaseControl", c)>>
    BY <1>7 DEF Program
  <2> QED
    BY <2>1
<1>8. CASE r = "lease_acquire"
  <2>1. Program(r, c) = <<Do("needControl", c), Do("expireLease", c), Do("takeLease", c)>>
    BY <1>8 DEF Program
  <2> QED
    BY <2>1
<1>9. CASE r = "lease_renew"
  <2>1. Program(r, c) = <<Do("needControl", c), Do("renewLease", c)>>
    BY <1>9 DEF Program
  <2> QED
    BY <2>1
<1>10. CASE r = "lease_release"
  <2>1. Program(r, c) = <<Do("releaseLease", c)>>
    BY <1>10 DEF Program
  <2> QED
    BY <2>1
<1>11. CASE r = "mox_on"
  <2>1. Program(r, c) = <<Do("needControl", c), Do("needLease", c), Do("needAudio", c),
                          Do("moxOn", c), Do("pushMoxOn", c)>>
    BY <1>11 DEF Program
  <2> QED
    BY <2>1
<1>12. CASE r = "tune_on"
  <2>1. Program(r, c) = <<Do("needControl", c), Do("needLease", c), Do("tuneOn", c),
                          Do("pushTuneOn", c)>>
    BY <1>12 DEF Program
  <2> QED
    BY <2>1
<1>13. CASE r = "key_off"
  <2>1. Program(r, c) = <<Do("off", c), Do("pushOff", c)>>
    BY <1>13 DEF Program
  <2> QED
    BY <2>1
<1> QED
  BY <1>4, <1>5, <1>6, <1>7, <1>8, <1>9, <1>10, <1>11, <1>12, <1>13 DEF AllRequests
\* An idle thread is given its list.
LEMMA StartOrder ==
    ASSUME Order, NEW t \in Threads, todo[t] = << >>, NEW n, List(t, n), Then(t, n),
           UNCHANGED <<connected, leases, remote, media, armed, idles, txState>>,
           running' \in BOOLEAN,
           t = Gtk => running,
           running' = running \/ (t = Gtk /\ n # << >> /\ n[1].op = "stopped"),
           \A c \in Clients : t = Worker(c) \/ t = Decoder(c) => c \in connected,
           \A c \in Clients : t = Worker(c) /\ Parts(n) =>
               Holds(n, Do("releaseControl", c)) /\ Holds(n, Do("releaseLease", c))
    PROVE  Order'
<1>0. Lists /\ Sockets /\ Parting /\ LeaseDiesWithSocket /\ TypeOK
  BY DEF Order
<1>1. /\ DOMAIN todo' = Threads /\ todo'[t] = n
      /\ \A u \in Threads : u # t => todo'[u] = todo[u]
  BY <1>0 DEF Lists, Then
<1>2. Lists'
  BY <1>0, <1>1 DEF Lists
<1>3. TypeOK'
  BY <1>0, <1>1 DEF TypeOK, leases, media
<1>4. Sockets'
  <2>1. ASSUME NEW c \in Clients, todo'[Worker(c)] # << >> \/ todo'[Decoder(c)] # << >>
        PROVE  c \in connected
    BY <1>0, <1>1, <2>1, ThreadKinds DEF Sockets
  <2>2. ASSUME ~running'
        PROVE  connected = {} \/ (todo'[Gtk] # << >> /\ todo'[Gtk][1].op = "stopped")
    <3>1. CASE t = Gtk
      BY <1>1, <2>2, <3>1
    <3>2. CASE t # Gtk
      BY <1>0, <1>1, <2>2, <3>2, ThreadKinds DEF Sockets
    <3> QED
      BY <3>1, <3>2
  <2> QED
    BY <2>1, <2>2 DEF Sockets
<1>5. LeaseDiesWithSocket'
  BY <1>0 DEF LeaseDiesWithSocket, leases
<1>6. Parting'
  <2> SUFFICES ASSUME NEW c \in Clients, Parts(todo'[Worker(c)])
               PROVE  /\ controlOwner = c => Holds(todo'[Worker(c)], Do("releaseControl", c))
                      /\ txOwner = c => Holds(todo'[Worker(c)], Do("releaseLease", c))
    BY DEF Parting, leases
  <2>1. CASE t = Worker(c)
    BY <1>1, <2>1
  <2>2. CASE t # Worker(c)
    <3>1. todo'[Worker(c)] = todo[Worker(c)]
      BY <1>1, <2>2, ThreadKinds
    <3> QED
      BY <1>0, <3>1 DEF Parting
  <2> QED
    BY <2>1, <2>2
<1> QED
  BY <1>2, <1>3, <1>4, <1>5, <1>6 DEF Order

\* Every action that gives an idle thread its list, and what the list begins with.
Starts(t, n) ==
    /\ todo[t] = << >> /\ List(t, n) /\ Then(t, n)
    /\ n # << >> /\ n[1].op \notin Window
    /\ UNCHANGED <<connected, leases, remote, media, armed, idles, txState>>

LEMMA Starters ==
    ASSUME Order,
           \/ \E c \in Clients, r \in Events \cap AllRequests : Receive(c, r)
           \/ \E c \in Clients : HangUp(c) \/ Packet(c)
           \/ StateTick \/ Stop
    PROVE  Order' /\ \E t \in Threads : \E n : Starts(t, n)
<1>0. TypeOK /\ running \in BOOLEAN
  BY DEF Order, TypeOK
<1>1. ASSUME NEW c \in Clients, NEW r \in AllRequests, Receive(c, r)
      PROVE  Order' /\ \E t \in Threads : \E n : Starts(t, n)
  <2> DEFINE n == Program(r, c)
  <2>1. List(Worker(c), n) /\ ~Parts(n) /\ n # << >> /\ n[1].op \notin Window
    BY ProgramLists
  <2> HIDE DEF n
  <2>2. /\ c \in connected /\ todo[Worker(c)] = << >> /\ Then(Worker(c), n)
        /\ UNCHANGED <<running, connected, leases, remote, media, armed, idles, txState>>
    BY <1>1 DEF Receive, n
  <2>3. Worker(c) \in Threads /\ Worker(c) # Gtk
        /\ \A d \in Clients : Worker(c) = Worker(d) \/ Worker(c) = Decoder(d) => c = d
    BY ThreadKinds
  <2>4. Order'
    BY <1>0, <2>1, <2>2, <2>3, StartOrder
  <2> QED
    BY <2>1, <2>2, <2>3, <2>4 DEF Starts
<1>2. ASSUME NEW c \in Clients, HangUp(c)
      PROVE  Order' /\ \E t \in Threads : \E n : Starts(t, n)
  <2> DEFINE n == <<Do("releaseControl", c), Do("releaseLease", c), Do("freeSlot", c)>>
  <2>1. /\ n # << >> /\ n[1].op \notin Window
        /\ Holds(n, Do("releaseControl", c)) /\ Holds(n, Do("releaseLease", c))
    BY DEF Holds, Do, Window
  <2>2. List(Worker(c), n)
    BY StartLists
  <2> HIDE DEF n
  <2>3. /\ c \in connected /\ todo[Worker(c)] = << >> /\ Then(Worker(c), n)
        /\ UNCHANGED <<running, connected, leases, remote, media, armed, idles, txState>>
    BY <1>2 DEF HangUp, n
  <2>4. Worker(c) \in Threads /\ Worker(c) # Gtk
        /\ \A d \in Clients : Worker(c) = Worker(d) \/ Worker(c) = Decoder(d) => c = d
    BY ThreadKinds
  <2>5. Order'
    BY <1>0, <2>1, <2>2, <2>3, <2>4, StartOrder
  <2> QED
    BY <2>1, <2>2, <2>3, <2>4, <2>5 DEF Starts
<1>3. ASSUME NEW c \in Clients, Packet(c)
      PROVE  Order' /\ \E t \in Threads : \E n : Starts(t, n)
  <2> DEFINE n == <<Do("heardFrom", c), Do("putAudio", c)>>
  <2>1. n # << >> /\ n[1].op \notin Window
    BY DEF Do, Window
  <2>2. List(Decoder(c), n)
    BY StartLists
  <2> HIDE DEF n
  <2>3. /\ c \in connected /\ todo[Decoder(c)] = << >> /\ Then(Decoder(c), n)
        /\ UNCHANGED <<running, connected, leases, remote, media, armed, idles, txState>>
    BY <1>3 DEF Packet, n
  <2>4. Decoder(c) \in Threads /\ Decoder(c) # Gtk
        /\ \A d \in Clients : /\ Decoder(c) # Worker(d)
                              /\ Decoder(c) = Decoder(d) => c = d
    BY ThreadKinds
  <2>5. Order'
    BY <1>0, <2>2, <2>3, <2>4, StartOrder
  <2> QED
    BY <2>1, <2>2, <2>3, <2>4, <2>5 DEF Starts
<1>4. Gtk \in Threads /\ \A c \in Clients : Gtk # Worker(c) /\ Gtk # Decoder(c)
  BY ThreadKinds
<1>5. CASE StateTick
  <2> DEFINE n == <<Do("tickControl", None), Do("tickLease", None), Do("tickArm", None),
                    Do("tickMedia", None), Do("tickSync", None)>>
  <2>1. n # << >> /\ n[1].op \notin Window
    BY DEF Do, Window
  <2>2. List(Gtk, n)
    BY StartLists
  <2> HIDE DEF n
  <2>3. /\ running /\ todo[Gtk] = << >> /\ Then(Gtk, n)
        /\ UNCHANGED <<running, connected, leases, remote, media, armed, idles, txState>>
    BY <1>5 DEF StateTick, n
  <2>4. Order'
    BY <1>0, <1>4, <2>2, <2>3, StartOrder
  <2> QED
    BY <1>4, <2>1, <2>2, <2>3, <2>4 DEF Starts
<1>6. CASE Stop
  <2> DEFINE n == <<Do("stopped", None), Do("unkey", None)>>
  <2>1. n # << >> /\ n[1].op = "stopped" /\ n[1].op \notin Window
    BY DEF Do, Window
  <2>2. List(Gtk, n)
    BY StartLists
  <2> HIDE DEF n
  <2>3. /\ running /\ todo[Gtk] = << >> /\ Then(Gtk, n) /\ running' = FALSE
        /\ UNCHANGED <<connected, leases, remote, media, armed, idles, txState>>
    BY <1>6 DEF Stop, n
  <2>4. Order'
    BY <1>4, <2>1, <2>2, <2>3, StartOrder
  <2> QED
    BY <1>4, <2>1, <2>2, <2>3, <2>4 DEF Starts
<1> QED
  BY <1>1, <1>2, <1>3, <1>5, <1>6

\* What leaves every list as it is.
LEMMA OtherOrder ==
    ASSUME Order,
           \/ \E c \in Clients : Connect(c)
           \/ Dispatch \/ DeskUnkey \/ DeskArm \/ Start
           \/ ControlTimeout \/ LeaseTimeout \/ AudioGap \/ UNCHANGED vars
    PROVE  Order' /\ todo' = todo
<1> USE DEF Connect, Dispatch, DeskUnkey, DeskArm, Start, ControlTimeout, LeaseTimeout,
            AudioGap, vars, leases, media
<1>0. Lists /\ Sockets /\ Parting /\ LeaseDiesWithSocket /\ TypeOK /\ None \notin Clients
  BY WebConstants DEF Order
<1>1. todo' = todo
  OBVIOUS
<1>2. /\ controlOwner' \in {controlOwner, None} /\ txOwner' \in {txOwner, None}
      /\ connected \subseteq connected'
  OBVIOUS
<1>3. running' \in BOOLEAN /\ (~running' => ~running /\ connected' = connected)
  BY <1>0 DEF TypeOK
<1>4. idles' \in Seq(TxStates) /\ txState' \in TxStates
  BY <1>0 DEF TypeOK, TxStates
<1>5. TypeOK'
  <2>1. connected' \subseteq Clients /\ armed' \in BOOLEAN
    BY <1>0 DEF TypeOK
  <2>2. remote' \in [DOMAIN Quiet -> BOOLEAN]
    BY <1>0, QuietFlags DEF TypeOK
  <2>3. audio' \in {"none", "fresh", "stale"} /\ audioActive' \in BOOLEAN
    BY <1>0 DEF TypeOK
  <2>4. /\ controlOwner' \in Owners /\ controlLive' \in BOOLEAN
        /\ txOwner' \in Owners /\ txLive' \in BOOLEAN
        /\ controlLive' => controlOwner' # None
        /\ txLive' => txOwner' # None
    <3>1. controlLive' = FALSE \/ (controlLive' = controlLive /\ controlOwner' = controlOwner)
      OBVIOUS
    <3>2. txLive' = FALSE \/ (txLive' = txLive /\ txOwner' = txOwner)
      OBVIOUS
    <3>3. controlOwner' \in Owners /\ txOwner' \in Owners
      BY <1>0, <1>2 DEF TypeOK, Owners
    <3>4. controlLive' \in BOOLEAN /\ (controlLive' => controlOwner' # None)
      <4>1. controlLive \in BOOLEAN /\ (controlLive => controlOwner # None)
        BY <1>0 DEF TypeOK
      <4>2. CASE controlLive' = FALSE
        BY <4>2
      <4>3. CASE controlLive' = controlLive /\ controlOwner' = controlOwner
        BY <4>1, <4>3
      <4> QED
        BY <3>1, <4>2, <4>3
    <3>5. txLive' \in BOOLEAN /\ (txLive' => txOwner' # None)
      <4>1. txLive \in BOOLEAN /\ (txLive => txOwner # None)
        BY <1>0 DEF TypeOK
      <4>2. CASE txLive' = FALSE
        BY <4>2
      <4>3. CASE txLive' = txLive /\ txOwner' = txOwner
        BY <4>1, <4>3
      <4> QED
        BY <3>2, <4>2, <4>3
    <3> QED
      BY <3>3, <3>4, <3>5
  <2> QED
    BY <1>0, <1>1, <1>3, <1>4, <2>1, <2>2, <2>3, <2>4 DEF TypeOK
<1>6. Lists'
  BY <1>0, <1>1 DEF Lists
<1>7. Sockets'
  BY <1>0, <1>1, <1>2, <1>3 DEF Sockets
<1>8. LeaseDiesWithSocket' /\ Parting'
  BY <1>0, <1>1, <1>2 DEF LeaseDiesWithSocket, Parting
<1> QED
  BY <1>1, <1>5, <1>6, <1>7, <1>8 DEF Order

LEMMA InitOrder == Init => Order
<1> SUFFICES ASSUME Init PROVE Order
  OBVIOUS
<1> USE DEF Init
<1>1. \A t \in Threads : todo[t] = << >>
  OBVIOUS
<1>2. Lists
  BY <1>1 DEF Lists, List, Ordered, Parts
<1>3. Sockets /\ Parting
  BY <1>1, ThreadKinds DEF Sockets, Parting, Parts
<1>4. LeaseDiesWithSocket
  BY WebConstants DEF LeaseDiesWithSocket
<1>5. TypeOK
  <2>1. /\ running \in BOOLEAN /\ armed \in BOOLEAN /\ audioActive \in BOOLEAN
        /\ connected \subseteq Clients /\ audio \in {"none", "fresh", "stale"}
    OBVIOUS
  <2>2. remote \in [DOMAIN Quiet -> BOOLEAN]
    BY QuietFlags
  <2>3. idles \in Seq(TxStates) /\ txState \in TxStates /\ DOMAIN todo = Threads
    BY DEF TxStates
  <2>4. /\ controlOwner \in Owners /\ controlLive \in BOOLEAN /\ ~controlLive
        /\ txOwner \in Owners /\ txLive \in BOOLEAN /\ ~txLive
    BY DEF Owners
  <2> QED
    BY <2>1, <2>2, <2>3, <2>4 DEF TypeOK
<1> QED
  BY <1>2, <1>3, <1>4, <1>5 DEF Order

LEMMA StepsKeepOrder == Order /\ [Next]_vars => Order'
BY StepOrder, Starters, OtherOrder DEF Next

LEMMA AlwaysOrder == Safety => []Order
BY InitOrder, StepsKeepOrder, PTL DEF Safety

\* Every reachable state is well typed: a deadline runs only for an owner.
THEOREM TypesHold == Safety => []TypeOK
<1>1. Order => TypeOK
  BY DEF Order
<1> QED
  BY <1>1, AlwaysOrder, PTL

\* web_client_release: no lease outlives its connection, whatever the other
\* threads are in the middle of when the socket closes.
THEOREM LeasesDieWithSockets == Safety => []LeaseDiesWithSocket
<1>1. Order => LeaseDiesWithSocket
  BY DEF Order
<1> QED
  BY <1>1, AlwaysOrder, PTL
-----------------------------------------------------------------------------
(* The keys, while no keying request is interrupted in its window *)

LEMMA Windowed ==
    ASSUME Lists, NEW c \in Clients
    PROVE  /\ InWindow(c) <=> todo[Worker(c)] # << >> /\ todo[Worker(c)][1].op \in Window
           /\ todo[Worker(c)] # << >> /\ todo[Worker(c)][1].op \in {"pushMoxOn", "pushTuneOn"}
                 => BeforePush
<1>1. todo[Worker(c)] # << >> => Head(todo[Worker(c)]) = todo[Worker(c)][1]
  BY ThreadKinds, FirstStep DEF Lists
<1> QED
  BY <1>1 DEF InWindow, BeforePush, Window

LEMMA BeforePushList ==
    ASSUME Lists, BeforePush
    PROVE  \E c \in Clients : /\ todo[Worker(c)] # << >>
                             /\ todo[Worker(c)][1].op \in {"pushMoxOn", "pushTuneOn"}
<1>1. \A c \in Clients : todo[Worker(c)] # << >> => Head(todo[Worker(c)]) = todo[Worker(c)][1]
  BY ThreadKinds, FirstStep DEF Lists
<1> QED
  BY <1>1 DEF BeforePush

\* A step that lets nobody into a window but the owner of the TX lease.
LEMMA OwnerKeepsWindow ==
    ASSUME Order, Windows, WindowIsAtomic, NEW t \in Threads, todo[t] # << >>,
           Moved(t), TxLeaseMoved(t),
           todo[t][1].op = "needLease" =>
              \/ todo'[t] = << >> \/ Unkeying(todo'[t])
              \/ txOwner = todo[t][1].who /\ txOwner' = txOwner
    PROVE  \A c \in Clients : InWindow(c)' => txOwner' = c
<1>0. Lists /\ Lists' /\ None \notin Clients /\ Onward(t, todo[t], todo'[t])
      /\ \A u \in Threads : u # t => todo'[u] = todo[u]
  BY Movement, WebConstants DEF Order, Moved
<1>1. todo[t][1] \in StepsOf(t)
  BY <1>0, FirstStep DEF Lists
<1> SUFFICES ASSUME NEW c \in Clients, InWindow(c)'
             PROVE  txOwner' = c
  OBVIOUS
<1>2. todo'[Worker(c)] # << >> /\ todo'[Worker(c)][1].op \in Window
  <2>1. todo'[Worker(c)] # << >> => Head(todo'[Worker(c)]) = todo'[Worker(c)][1]
    BY <1>0, ThreadKinds, FirstStep DEF Lists
  <2> QED
    BY <2>1 DEF InWindow, Window
<1>3. InWindow(c) => txOwner = c
  BY DEF Windows
<1>4. txOwner = c => ~(txOwner' = None /\ ~(WindowIsAtomic /\ InWindow(txOwner)) /\ InWindow(c))
  OBVIOUS
<1>5. CASE t # Worker(c)
  <2>1. InWindow(c)
    BY <1>0, <1>2, <1>5, Windowed, ThreadKinds
  <2> QED
    BY <1>0, <1>3, <1>4, <2>1 DEF TxLeaseMoved
<1>6. CASE t = Worker(c)
  <2>1. Joins(todo[t][1].op, todo'[t][1].op)
    BY <1>0, <1>2, <1>6 DEF Onward
  <2>2. todo[t][1].op \in {"needLease", "needAudio", "moxOn", "tuneOn"}
    BY <1>2, <1>6, <2>1 DEF Joins, Window
  <2>3. ~Unkeying(todo'[t])
    BY <1>2, <1>6 DEF Unkeying, Window
  <2>4. CASE todo[t][1].op = "needLease"
    <3>1. todo[t][1].who = c
      BY <1>1, <1>6, <2>4, Whose, ThreadKinds DEF WorkerOps
    <3> QED
      BY <1>2, <1>6, <2>3, <2>4, <3>1
  <2>5. CASE todo[t][1].op # "needLease"
    <3>1. InWindow(c)
      BY <1>0, <1>6, <2>2, <2>5, Windowed DEF Window
    <3> QED
      BY <1>0, <1>3, <2>3, <3>1 DEF TxLeaseMoved
  <2> QED
    BY <2>4, <2>5
<1> QED
  BY <1>5, <1>6

\* Somebody new stands before a push only after publishing the flags.
LEMMA PushFollowsFlags ==
    ASSUME Lists, NEW t \in Threads, todo[t] # << >>, Moved(t),
           todo[t][1].op \notin {"moxOn", "tuneOn"}, BeforePush'
    PROVE  BeforePush
<1>0. Lists' /\ Onward(t, todo[t], todo'[t])
      /\ \A u \in Threads : u # t => todo'[u] = todo[u]
  BY Movement DEF Moved
<1>1. PICK c \in Clients : Head(todo'[Worker(c)]).op \in {"pushMoxOn", "pushTuneOn"}
                         /\ todo'[Worker(c)] # << >>
  BY DEF BeforePush
<1>2. Head(todo'[Worker(c)]) = todo'[Worker(c)][1]
  BY <1>0, <1>1, ThreadKinds, FirstStep DEF Lists
<1>3. CASE t = Worker(c)
  BY <1>0, <1>1, <1>2, <1>3 DEF Onward, Joins, Window
<1>4. CASE t # Worker(c)
  BY <1>0, <1>1, <1>2, <1>4, Windowed, ThreadKinds
<1> QED
  BY <1>3, <1>4

\* A step that publishes no key: the flag, the lease and what is headed for the
\* radio go on answering for each other.
LEMMA KeysMove ==
    ASSUME Order, Keys, WindowIsAtomic, NEW t \in Threads, todo[t] # << >>,
           Moved(t), TxLeaseMoved(t), remote'.ptt = remote.ptt,
           Headed' # "rx" => remote.ptt \/ (Headed' = Headed /\ todo[t][1].op # "pushOff"),
           todo[t][1].op \notin {"moxOn", "tuneOn", "unkey"},
           todo[t][1].op = "resetAudio" => todo'[t] = Tail(todo[t]),
           todo[t][1].op = "needLease" =>
              \/ todo'[t] = << >> \/ Unkeying(todo'[t])
              \/ txOwner = todo[t][1].who /\ txOwner' = txOwner
    PROVE  Keys'
<1> USE DEF Keys
<1>0. Lists /\ \A u \in Threads : u # t => todo'[u] = todo[u]
  BY Movement DEF Order
<1>1. Windows'
  <2>1. \A c \in Clients : InWindow(c)' => txOwner' = c
    BY OwnerKeepsWindow
  <2>2. BeforePush' => remote'.ptt
    BY <1>0, PushFollowsFlags DEF Windows
  <2> QED
    BY <2>1, <2>2 DEF Windows
<1>2. ASSUME remote'.ptt, txOwner' = None
      PROVE  \E u \in Threads : Unkeying(todo'[u])
  <2>1. CASE txOwner # None
    BY <1>2, <2>1 DEF TxLeaseMoved
  <2>2. CASE txOwner = None
    <3>1. PICK u \in Threads : Unkeying(todo[u])
      BY <1>2, <2>2 DEF Answered
    <3>2. CASE u # t
      BY <1>0, <3>1, <3>2
    <3>3. CASE u = t
      <4>1. todo[t][1].op = "resetAudio" /\ Len(todo[t]) > 1 /\ todo[t][2].op = "unkey"
        BY <3>1, <3>3 DEF Unkeying
      <4>2. /\ todo'[t] = Tail(todo[t]) /\ Len(todo[t]) \in Nat
            /\ Len(Tail(todo[t])) = Len(todo[t]) - 1
            /\ \A i \in 1..Len(Tail(todo[t])) : Tail(todo[t])[i] = todo[t][i + 1]
        BY <1>0, <4>1, FirstStep DEF Lists
      <4>3. 1 \in 1..Len(Tail(todo[t]))
        BY <4>1, <4>2
      <4>4. Tail(todo[t])[1] = todo[t][2] /\ Tail(todo[t]) # << >>
        BY <4>2, <4>3
      <4> QED
        BY <4>1, <4>2, <4>4 DEF Unkeying
    <3> QED
      BY <3>2, <3>3
  <2> QED
    BY <2>1, <2>2
<1>3. ASSUME Headed' # "rx", ~remote'.ptt
      PROVE  \E u \in Threads : Releasing(todo'[u])
  <2>1. PICK u \in Threads : Releasing(todo[u])
    BY <1>3 DEF Answered
  <2>2. u # t
    BY <1>3, <2>1 DEF Releasing
  <2> QED
    BY <1>0, <2>1, <2>2
<1> QED
  BY <1>1, <1>2, <1>3 DEF Answered

\* Queueing a callback decides what the radio is headed for.
LEMMA HeadedFor ==
    ASSUME idles \in Seq(TxStates), NEW state
    PROVE  /\ idles' = Append(idles, state) => Headed' = state
           /\ idles' = idles \o <<"rx", "rx">> => Headed' = "rx"
<1>1. idles' = Append(idles, state) => idles' # << >> /\ idles'[Len(idles')] = state
  OBVIOUS
<1>2. idles' = idles \o <<"rx", "rx">> => idles' # << >> /\ idles'[Len(idles')] = "rx"
  OBVIOUS
<1> QED
  BY <1>1, <1>2 DEF Headed

LEMMA KeyStepKeys ==
    ASSUME Order, Keys, WindowIsAtomic, NEW t \in Threads, todo[t] # << >>,
           KeyStep(t, Head(todo[t]), Tail(todo[t])), UNCHANGED txState
    PROVE  Keys'
<1> DEFINE s == todo[t][1]
           rest == Tail(todo[t])
<1>0. Lists /\ TypeOK /\ Windows /\ Answered /\ None \notin Clients /\ List(t, todo[t])
  BY WebConstants DEF Order, Keys, Lists
<1>1. s = Head(todo[t]) /\ s \in StepsOf(t)
  BY <1>0, FirstStep
<1>2. /\ Moved(t) /\ UNCHANGED leases /\ s.op \in KeyOps
      /\ todo'[t] = rest \/ (s.op = "off" /\ ~armed /\ todo'[t] = << >>)
  BY KeyStepMoves
<1>3. TxLeaseMoved(t) /\ txOwner' = txOwner
  BY <1>2 DEF TxLeaseMoved, leases
<1>4. \A u \in Threads : u # t => todo'[u] = todo[u]
  BY <1>0, <1>2, Movement
<1>5. rest # << >> => Joins(s.op, rest[1].op)
  BY <1>0, RestGoesOn
<1>6. s.op \in Unended => rest # << >>
  BY <1>0, RestGoesOn
<1> HIDE DEF rest
<1>7. KeyStep(t, s, rest)
  BY <1>1 DEF rest
<1>8. \A c \in Clients : InWindow(c)' => txOwner' = c
  BY <1>0, <1>2, <1>3, OwnerKeepsWindow DEF KeyOps
<1>9. s.op \notin {"moxOn", "tuneOn"} /\ BeforePush' => BeforePush
  BY <1>0, <1>2, PushFollowsFlags
<1>10. CASE s.op = "unkey" /\ Unkey(t, rest)
  <2>1. /\ remote' = Quiet /\ ~BeforePush
        /\ idles' = IF remote.ptt THEN idles \o <<"rx", "rx">> ELSE idles
    BY <1>10 DEF Unkey
  <2>2. remote'.ptt = FALSE
    BY <2>1, QuietFlags
  <2>3. Windows'
    BY <1>8, <1>9, <1>10, <2>1 DEF Windows
  <2>4. ASSUME Headed' # "rx"
        PROVE  \E u \in Threads : Releasing(todo'[u])
    <3>1. ~remote.ptt
      BY <1>0, <2>1, <2>4, HeadedFor DEF TypeOK
    <3>2. Headed' = Headed
      BY <2>1, <3>1 DEF Headed
    <3>3. PICK u \in Threads : Releasing(todo[u])
      BY <1>0, <2>4, <3>1, <3>2 DEF Answered
    <3>4. u # t
      BY <1>10, <3>3 DEF Releasing
    <3> QED
      BY <1>4, <3>3, <3>4
  <2> QED
    BY <2>2, <2>3, <2>4 DEF Keys, Answered
<1>11. ASSUME NEW state \in {"mox", "tune"}, SetFlags(t, state, rest), s.op \in {"moxOn", "tuneOn"}
       PROVE  Keys'
  <2>1. remote' = [Quiet EXCEPT !.ptt = state # "rx", !.mox = state = "mox",
                                !.tune = state = "tune"]
    BY <1>11 DEF SetFlags
  <2>2. remote'.ptt
    BY <1>11, <2>1, QuietFlags
  <2>3. s.who \in Clients /\ t = Worker(s.who)
    BY <1>1, <1>11, Whose DEF WorkerOps, Window
  <2>4. InWindow(s.who)
    BY <1>0, <1>11, <2>3, Windowed DEF Window
  <2>5. txOwner' # None
    BY <1>0, <1>3, <2>3, <2>4 DEF Windows
  <2> QED
    BY <1>8, <2>2, <2>5 DEF Keys, Windows, Answered
<1>12. CASE s.op = "off" /\ armed /\ SetFlags(t, "rx", rest)
  <2>1. /\ remote' = [Quiet EXCEPT !.ptt = "rx" # "rx", !.mox = "rx" = "mox",
                                    !.tune = "rx" = "tune"]
        /\ ~BeforePush
        /\ Then(t, rest)
    BY <1>12 DEF SetFlags
  <2>2. ~remote'.ptt
    BY <2>1, QuietFlags
  <2>3. Windows'
    BY <1>8, <1>9, <1>12, <2>1 DEF Windows
  <2>4. rest # << >> /\ rest[1].op = "pushOff"
    BY <1>5, <1>6, <1>12 DEF Joins, Unended
  <2>5. Releasing(todo'[t])
    BY <1>2, <1>12, <2>4 DEF Releasing
  <2> QED
    BY <2>2, <2>3, <2>5 DEF Keys, Answered
<1>13. CASE s.op = "off" /\ ~armed /\ Then(t, << >>) /\ UNCHANGED <<remote, idles>>
  <2>1. Headed' = Headed
    BY <1>13 DEF Headed
  <2> QED
    BY <1>0, <1>2, <1>3, <1>13, <2>1, KeysMove
<1>14. ASSUME NEW state \in TxStates, Push(t, state, rest),
              \/ s.op = "pushOff" /\ state = "rx"
              \/ s.op \in {"pushMoxOn", "pushTuneOn"}
       PROVE  Keys'
  <2>1. remote' = remote /\ Headed' = state
    BY <1>0, <1>14, HeadedFor DEF Push, TypeOK
  <2>2. s.op \in {"pushMoxOn", "pushTuneOn"} => remote.ptt
    <3>1. s.op \in {"pushMoxOn", "pushTuneOn"} => s.who \in Clients /\ t = Worker(s.who)
      BY <1>1, Whose DEF WorkerOps, Window
    <3> QED
      BY <1>0, <3>1, Windowed DEF Windows
  <2>3. Headed' # "rx" => remote.ptt
    BY <1>14, <2>1, <2>2
  <2> QED
    BY <1>2, <1>3, <1>14, <2>1, <2>3, KeysMove
<1>15. "rx" \in TxStates /\ "mox" \in TxStates /\ "tune" \in TxStates
  BY DEF TxStates
<1> QED
  BY <1>7, <1>10, <1>11, <1>12, <1>13, <1>14, <1>15 DEF KeyStep

LEMMA StepKeys ==
    ASSUME Order, Keys, WindowIsAtomic, NEW t \in Threads, Step(t)
    PROVE  Keys'
<1>0. /\ Lists /\ Sockets /\ TypeOK /\ todo[t] # << >> /\ List(t, todo[t])
      /\ UNCHANGED <<running, armed, txState>>
  BY DEF Order, Lists, Step
<1>1. idles' = idles => Headed' = Headed
  BY <1>0 DEF Headed
<1>2. CASE LeaseStep(t, Head(todo[t]), Tail(todo[t]))
  BY <1>0, <1>1, <1>2, LeaseStepMoves, KeysMove DEF LeaseOps
<1>3. CASE KeyStep(t, Head(todo[t]), Tail(todo[t]))
  BY <1>0, <1>3, KeyStepKeys
<1>4. CASE MediaStep(t, Head(todo[t]), Tail(todo[t]))
  <2>1. /\ Moved(t) /\ UNCHANGED <<leases, remote, idles>>
        /\ todo[t][1].op \in {"resetAudio", "needAudio", "putAudio"}
        /\ todo'[t] = Tail(todo[t]) \/ (todo[t][1].op = "needAudio" /\ todo'[t] = << >>)
    BY <1>0, <1>4, MediaStepMoves
  <2>2. TxLeaseMoved(t)
    BY <2>1 DEF TxLeaseMoved, leases
  <2> QED
    BY <1>0, <1>1, <2>1, <2>2, KeysMove
<1>5. CASE FreeSlot(t, Head(todo[t]), Tail(todo[t]))
  <2>1. Moved(t) /\ todo[t][1].op = "freeSlot"
    BY <1>0, <1>5, FreeSlotStep
  <2>2. UNCHANGED <<leases, remote, idles>>
    BY <1>5 DEF FreeSlot
  <2>3. TxLeaseMoved(t)
    BY <2>2 DEF TxLeaseMoved, leases
  <2> QED
    BY <1>0, <1>1, <2>1, <2>2, <2>3, KeysMove
<1>6. CASE t = Gtk /\ TickStep(Head(todo[t]), Tail(todo[t]))
  BY <1>0, <1>1, <1>6, TickStepMoves, KeysMove DEF GtkOps
<1>7. CASE t = Gtk /\ StopStep(Head(todo[t]), Tail(todo[t]))
  <2>1. /\ Moved(t) /\ UNCHANGED <<remote, idles>> /\ todo[t][1].op = "stopped"
        /\ connected = {} /\ txOwner' = None /\ Unkeying(todo'[t])
    BY <1>0, <1>7, StopStepMoves
  <2>2. \A c \in Clients : ~InWindow(c)
    BY <1>0, <2>1 DEF Sockets, InWindow
  <2>3. TxLeaseMoved(t)
    BY <1>0, <2>1, <2>2 DEF TxLeaseMoved, TypeOK, Owners
  <2> QED
    BY <1>0, <1>1, <2>1, <2>3, KeysMove
<1> QED
  BY <1>2, <1>3, <1>4, <1>5, <1>6, <1>7 DEF Step

\* A thread that starts has nothing pending yet and keys nothing at once.
LEMMA StartKeys ==
    ASSUME Order, Keys, NEW t \in Threads, NEW n, Starts(t, n), Order'
    PROVE  Keys'
<1>0. Lists /\ Lists' /\ Windows /\ Answered
  BY DEF Order, Keys
<1>1. /\ todo'[t] = n /\ todo[t] = << >> /\ n # << >> /\ n[1].op \notin Window
      /\ \A u \in Threads : u # t => todo'[u] = todo[u]
      /\ UNCHANGED <<leases, remote, idles, txState>>
  BY <1>0 DEF Starts, Then, Lists
<1>2. \A c \in Clients : todo'[Worker(c)] # << >> => Head(todo'[Worker(c)]) = todo'[Worker(c)][1]
  BY <1>0, ThreadKinds, FirstStep DEF Lists
<1>3. \A c \in Clients : InWindow(c)' => InWindow(c)
  BY <1>1, <1>2, ThreadKinds DEF InWindow, Window
<1>4. BeforePush' => BeforePush
  BY <1>1, <1>2, ThreadKinds DEF BeforePush, Window
<1>5. \A u \in Threads : Unkeying(todo[u]) \/ Releasing(todo[u]) => todo'[u] = todo[u]
  BY <1>1 DEF Unkeying, Releasing
<1>6. Headed' = Headed
  BY <1>1 DEF Headed
<1> QED
  <2>1. Windows'
    BY <1>0, <1>1, <1>3, <1>4 DEF Windows, leases
  <2>2. Answered'
    <3>1. remote' = remote /\ txOwner' = txOwner
      BY <1>1 DEF leases
    <3>2. remote.ptt /\ txOwner = None => \E u \in Threads : Unkeying(todo'[u])
      <4> SUFFICES ASSUME remote.ptt, txOwner = None
                   PROVE  \E u \in Threads : Unkeying(todo'[u])
        OBVIOUS
      <4>1. PICK u \in Threads : Unkeying(todo[u])
        BY <1>0 DEF Answered
      <4> QED
        BY <1>5, <4>1
    <3>3. Headed' # "rx" /\ ~remote.ptt => \E u \in Threads : Releasing(todo'[u])
      <4> SUFFICES ASSUME Headed' # "rx", ~remote.ptt
                   PROVE  \E u \in Threads : Releasing(todo'[u])
        OBVIOUS
      <4>1. PICK u \in Threads : Releasing(todo[u])
        BY <1>0, <1>6 DEF Answered
      <4> QED
        BY <1>5, <4>1
    <3> QED
      BY <3>1, <3>2, <3>3 DEF Answered
  <2> QED
    BY <2>1, <2>2 DEF Keys

\* The radio's own steps only ever bring it nearer to receive.
LEMMA OtherKeys ==
    ASSUME Order, Keys,
           \/ \E c \in Clients : Connect(c)
           \/ Dispatch \/ DeskUnkey \/ DeskArm \/ Start
           \/ ControlTimeout \/ LeaseTimeout \/ AudioGap \/ UNCHANGED vars
    PROVE  Keys'
<1>0. /\ Lists /\ Sockets /\ TypeOK /\ LeaseDiesWithSocket /\ Windows /\ Answered
      /\ None \notin Clients
  BY WebConstants DEF Order, Keys
<1>1. todo' = todo
  BY OtherOrder
<1>2. (\A c \in Clients : InWindow(c)' <=> InWindow(c)) /\ (BeforePush' <=> BeforePush)
  BY <1>1 DEF InWindow, BeforePush
<1>3. CASE Start
  <2>1. connected = {} /\ todo[Gtk] = << >> /\ remote' = Quiet /\ UNCHANGED <<idles, txState>>
    BY <1>0, <1>3 DEF Start, Sockets
  <2>2. \A t \in Threads : todo[t] = << >>
    BY <1>0, <2>1, ThreadKinds DEF Sockets
  <2>3. txOwner = None
    BY <1>0, <2>1 DEF LeaseDiesWithSocket, TypeOK, Owners
  <2>4. Headed = "rx"
    BY <1>0, <2>2, <2>3 DEF Answered, Unkeying, Releasing
  <2>5. Headed' = "rx" /\ remote'.ptt = FALSE
    BY <2>1, <2>4, QuietFlags DEF Headed
  <2>6. (\A c \in Clients : ~InWindow(c)) /\ ~BeforePush
    BY <2>2, ThreadKinds DEF InWindow, BeforePush
  <2> QED
    BY <1>2, <2>5, <2>6 DEF Keys, Windows, Answered
<1>4. CASE ~Start
  <2>1. remote' = remote /\ txOwner' = txOwner
    BY <1>4 DEF Connect, Dispatch, DeskUnkey, DeskArm, ControlTimeout, LeaseTimeout, AudioGap,
                vars, leases
  <2>2. Headed' = Headed \/ Headed' = "rx"
    <3>1. CASE Dispatch
      <4>1. /\ idles # << >> /\ txState' = Head(idles) /\ idles' = Tail(idles)
            /\ idles \in Seq(TxStates)
        BY <1>0, <3>1 DEF Dispatch, TypeOK
      <4>2. CASE Tail(idles) = << >>
        <5>1. Len(idles) = 1 /\ Head(idles) = idles[Len(idles)]
          <6>1. Len(Tail(idles)) = Len(idles) - 1 /\ Len(idles) \in Nat
                /\ Head(idles) = idles[1]
            BY <4>1
          <6>2. Len(Tail(idles)) = 0
            <7>1. Len(<< >>) = 0
              OBVIOUS
            <7> QED
              BY <4>2, <7>1, Zenon
          <6> QED
            BY <6>1, <6>2
        <5> QED
          BY <4>1, <4>2, <5>1 DEF Headed
      <4>3. CASE Tail(idles) # << >>
        <5>1. Tail(idles)[Len(Tail(idles))] = idles[Len(idles)]
          BY <4>1, <4>3
        <5> QED
          BY <4>1, <4>3, <5>1 DEF Headed
      <4> QED
        BY <4>2, <4>3
    <3>2. CASE DeskUnkey
      BY <3>2 DEF DeskUnkey, Headed
    <3>3. CASE ~Dispatch /\ ~DeskUnkey
      <4>1. UNCHANGED <<idles, txState>>
        BY <1>4, <3>3 DEF Connect, DeskArm, ControlTimeout, LeaseTimeout, AudioGap, vars
      <4> QED
        BY <4>1 DEF Headed
    <3> QED
      BY <3>1, <3>2, <3>3
  <2> QED
    BY <1>0, <1>1, <1>2, <2>1, <2>2 DEF Keys, Windows, Answered
<1> QED
  BY <1>3, <1>4

LEMMA InitKeys == Init => Keys
<1> SUFFICES ASSUME Init PROVE Keys
  OBVIOUS
<1>1. \A t \in Threads : todo[t] = << >>
  BY DEF Init
<1>2. remote.ptt = FALSE /\ Headed = "rx"
  BY QuietFlags DEF Init, Headed
<1>3. Windows
  BY <1>1, ThreadKinds DEF Windows, InWindow, BeforePush
<1> QED
  BY <1>2, <1>3 DEF Keys, Answered

LEMMA StepsKeepKeys ==
    ASSUME WindowIsAtomic
    PROVE  Order /\ Keys /\ [Next]_vars => Keys'
<1> SUFFICES ASSUME Order, Keys, [Next]_vars PROVE Keys'
  OBVIOUS
<1>1. ASSUME NEW t \in Threads, Step(t) PROVE Keys'
  BY <1>1, StepKeys
<1>2. ASSUME \/ \E c \in Clients, r \in Events \cap AllRequests : Receive(c, r)
             \/ \E c \in Clients : HangUp(c) \/ Packet(c)
             \/ StateTick \/ Stop
      PROVE  Keys'
  BY <1>2, Starters, StartKeys
<1>3. ASSUME \/ \E c \in Clients : Connect(c)
             \/ Dispatch \/ DeskUnkey \/ DeskArm \/ Start
             \/ ControlTimeout \/ LeaseTimeout \/ AudioGap \/ UNCHANGED vars
      PROVE  Keys'
  BY <1>3, OtherKeys
<1> QED
  BY <1>1, <1>2, <1>3 DEF Next

\* What the flag and the lease answer for, in the words of the property.
LEMMA KeysAnswer == Order /\ Keys => KeyIsAnsweredFor
<1> SUFFICES ASSUME Order, Keys, Headed # "rx", txOwner = None
             PROVE  UnkeyPending
  BY DEF KeyIsAnsweredFor
<1>0. \A t \in Threads : todo[t] # << >> => 1 \in 1..Len(todo[t]) /\ Len(todo[t]) \in Nat
  BY FirstStep DEF Order, Lists
<1>1. CASE remote.ptt
  <2>1. PICK t \in Threads : Unkeying(todo[t])
    BY <1>1 DEF Keys, Answered
  <2>2. CASE todo[t][1].op = "unkey"
    BY <1>0, <2>1, <2>2 DEF Unkeying, UnkeyPending
  <2>3. CASE Len(todo[t]) > 1 /\ todo[t][2].op = "unkey"
    <3>1. 2 \in 1..Len(todo[t])
      BY <1>0, <2>1, <2>3 DEF Unkeying
    <3> QED
      BY <2>3, <3>1 DEF UnkeyPending
  <2> QED
    BY <2>1, <2>2, <2>3 DEF Unkeying
<1>2. CASE ~remote.ptt
  <2>1. PICK t \in Threads : Releasing(todo[t])
    BY <1>2 DEF Keys, Answered
  <2> QED
    BY <1>0, <2>1 DEF Releasing, UnkeyPending
<1> QED
  BY <1>1, <1>2

\* web_remote_unkey and the keying requests: a remote key always has a lease or
\* an unkey that answers for it, over any interleaving of any number of threads
\* in which no request is interrupted between its check and its callback.
THEOREM KeysAreAnsweredFor ==
    ASSUME WindowIsAtomic
    PROVE  Safety => []KeyIsAnsweredFor
<1>1. Init => Order /\ Keys
  BY InitOrder, InitKeys
<1>2. Order /\ Keys /\ [Next]_vars => (Order /\ Keys)'
  BY StepsKeepOrder, StepsKeepKeys
<1> QED
  BY <1>1, <1>2, KeysAnswer, PTL DEF Safety
=============================================================================
