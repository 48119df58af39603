------------------------------ MODULE WebLease ------------------------------
(***************************************************************************)
(* Remote control and remote transmit of proto/web_server.c: the control   *)
(* lease, the TX lease, the web_remote_* flags, the microphone watchdog,   *)
(* and the idle queue through which the server's threads key the radio.    *)
(*                                                                         *)
(* A thread is the sequence of steps it still has to make, todo[t].  A step*)
(* is one critical section of web_lease_mutex or web_tx_audio_mutex, one   *)
(* run of stores to the web_remote_* atomics, or one g_idle_add; between   *)
(* two steps every other thread may run.  A deadline is a Boolean that     *)
(* time may clear at any moment and a renewal sets.                        *)
(***************************************************************************)
EXTENDS Naturals, Sequences, FiniteSets

CONSTANTS
    Clients,        \* connection slots whose login has the control role
    None,           \* the NULL owner
    Events,         \* what happens in this instance: the requests browsers send,
                    \* and what the desk, the network and the clock do
    QueueMax,       \* bound: no request starts while more idles are pending
    WindowIsAtomic  \* no unkey lands between web_lease_is_owner and the
                    \* g_idle_add of a keying request: a handler never stalls
                    \* there.  The code does not enforce it; see the run
                    \* that set it FALSE

ASSUME WebConstants ==
    /\ None \notin Clients
    /\ QueueMax \in Nat
    /\ WindowIsAtomic \in BOOLEAN

VARIABLES
    running,        \* web_running
    connected,      \* slots in use (fd >= 0)
    controlOwner,   \* web_control_owner
    controlLive,    \* now < web_control_deadline_us
    txOwner,        \* web_tx_lease_owner
    txLive,         \* now < web_tx_lease_deadline_us
    remote,         \* the five web_remote_* atomics
    audio,          \* web_tx_audio_last_us: none, fresh, or stale
    audioActive,    \* web_tx_audio_active
    armed,          \* radio->web_tx_enable, the desktop arm
    idles,          \* pending g_idle_add callbacks that key or unkey, FIFO
    txState,        \* what the radio transmits: rx, mox or tune
    todo            \* the steps each thread still has to make

leases == <<controlOwner, controlLive, txOwner, txLive>>
media  == <<audio, audioActive>>
vars   == <<running, connected, leases, remote, media, armed, idles, txState,
            todo>>

-----------------------------------------------------------------------------
\* A slot's WebSocket worker, its libdatachannel thread, and the main loop.
Worker(c)  == <<"worker", c>>
Decoder(c) == <<"decoder", c>>
Gtk        == <<"gtk", None>>
Threads    == {Worker(c) : c \in Clients} \cup {Decoder(c) : c \in Clients} \cup {Gtk}

\* One step, and whose it is.
Do(op, c) == [op |-> op, who |-> c]

Quiet == [ptt |-> FALSE, mox |-> FALSE, moxSeen |-> FALSE,
          tune |-> FALSE, tuneSeen |-> FALSE]

\* Past the ownership check of web_lease_is_owner, short of the g_idle_add.
InWindow(c) ==
    /\ todo[Worker(c)] # << >>
    /\ Head(todo[Worker(c)]).op
         \in {"needAudio", "moxOn", "tuneOn", "pushMoxOn", "pushTuneOn"}

\* Flags published, callback not queued yet.
BeforePush ==
    \E c \in Clients : /\ todo[Worker(c)] # << >>
                       /\ Head(todo[Worker(c)]).op \in {"pushMoxOn", "pushTuneOn"}

Then(t, steps) == todo' = [todo EXCEPT ![t] = steps]

-----------------------------------------------------------------------------
(* The leases.  Each operator is one critical section of web_lease_mutex, by
   thread t, with `rest` the steps that follow it. *)

\* Seed of a mutant: the owner is cleared and the deadline is not.
BugClearTxOwner ==
    /\ ~(WindowIsAtomic /\ InWindow(txOwner))
    /\ txOwner' = None
    /\ UNCHANGED txLive

\* Taking the TX lease from its owner.
ClearTxOwner ==
    /\ ~(WindowIsAtomic /\ InWindow(txOwner))
    /\ txOwner' = None
    /\ txLive' = FALSE

\* What follows a revocation: web_tx_audio_reset, then web_remote_unkey.
FailSafe == <<Do("resetAudio", None), Do("unkey", None)>>

\* Seed of a mutant: only the lease is dropped, the radio is left keyed.
BugReleaseLease(t, c, rest) ==
    /\ IF txOwner = c
       THEN ClearTxOwner /\ Then(t, rest)
       ELSE UNCHANGED <<txOwner, txLive>> /\ Then(t, rest)
    /\ UNCHANGED <<controlOwner, controlLive>>

\* web_lease_release_client
ReleaseLease(t, c, rest) ==
    /\ IF txOwner = c
       THEN ClearTxOwner /\ Then(t, FailSafe \o rest)
       ELSE UNCHANGED <<txOwner, txLive>> /\ Then(t, rest)
    /\ UNCHANGED <<controlOwner, controlLive>>

\* Seed of a mutant: an expired lease is only answered, never taken away.
BugIsLeaseOwner(t, c, renew, yes, no) ==
    /\ IF txOwner = c /\ txLive
       THEN /\ txLive' = (renew \/ txLive)
            /\ Then(t, yes)
            /\ UNCHANGED txOwner
       ELSE /\ Then(t, no)
            /\ UNCHANGED <<txOwner, txLive>>
    /\ UNCHANGED <<controlOwner, controlLive>>

\* web_lease_is_owner: expire a silent holder, else answer and perhaps renew.
IsLeaseOwner(t, c, renew, yes, no) ==
    /\ IF txOwner # None /\ ~txLive
       THEN ClearTxOwner /\ Then(t, FailSafe \o no)
       ELSE IF txOwner = c
       THEN /\ txLive' = (renew \/ txLive)
            /\ Then(t, yes)
            /\ UNCHANGED txOwner
       ELSE /\ Then(t, no)
            /\ UNCHANGED <<txOwner, txLive>>
    /\ UNCHANGED <<controlOwner, controlLive>>

\* web_control_is_owner; an expired holder loses its TX lease with control
\* (web_control_lost).
IsControlOwner(t, c, renew, yes, no) ==
    /\ IF controlOwner # None /\ ~controlLive
       THEN /\ controlOwner' = None
            /\ controlLive' = FALSE
            /\ Then(t, <<Do("releaseLease", controlOwner)>> \o no)
       ELSE IF controlOwner = c
       THEN /\ controlLive' = (renew \/ controlLive)
            /\ Then(t, yes)
            /\ UNCHANGED controlOwner
       ELSE /\ Then(t, no)
            /\ UNCHANGED <<controlOwner, controlLive>>
    /\ UNCHANGED <<txOwner, txLive>>

\* control_acquire: take it if free, renew it if held, take it over by force.
TakeControl(t, c, force, rest) ==
    /\ IF controlOwner \in {None, c} \/ force
       THEN /\ controlOwner' = c
            /\ controlLive' = TRUE
            /\ Then(t, IF controlOwner \in {None, c} THEN rest
                       ELSE <<Do("releaseLease", controlOwner)>> \o rest)
       ELSE UNCHANGED <<controlOwner, controlLive>> /\ Then(t, rest)
    /\ UNCHANGED <<txOwner, txLive>>

\* web_control_release_client
ReleaseControl(t, c, rest) ==
    /\ IF controlOwner = c
       THEN /\ controlOwner' = None
            /\ controlLive' = FALSE
            /\ Then(t, <<Do("releaseLease", c)>> \o rest)
       ELSE UNCHANGED <<controlOwner, controlLive>> /\ Then(t, rest)
    /\ UNCHANGED <<txOwner, txLive>>

\* lease_acquire, its own critical section; a taker starts with no audio.
TakeLease(t, c, rest) ==
    /\ IF txOwner \in {None, c}
       THEN /\ txOwner' = c
            /\ txLive' = TRUE
            /\ Then(t, <<Do("resetAudio", c)>> \o rest)
       ELSE UNCHANGED <<txOwner, txLive>> /\ Then(t, rest)
    /\ UNCHANGED <<controlOwner, controlLive>>

-----------------------------------------------------------------------------
(* Keying *)

\* Seed of a mutant: the two callbacks are queued only while the flag that the
\* GTK thread has confirmed is up.
BugUnkey(t, rest) ==
    /\ remote' = Quiet
    /\ idles' = IF remote.ptt /\ (remote.moxSeen \/ remote.tuneSeen)
                THEN idles \o <<"rx", "rx">> ELSE idles
    /\ ~(WindowIsAtomic /\ BeforePush)
    /\ Then(t, rest)

\* web_remote_unkey: clear the flags; if ptt was up, queue tune-off and mox-off,
\* either of which puts the radio in receive.
Unkey(t, rest) ==
    /\ remote' = Quiet
    /\ idles' = IF remote.ptt THEN idles \o <<"rx", "rx">> ELSE idles
    /\ ~(WindowIsAtomic /\ BeforePush)
    /\ Then(t, rest)

\* The flag stores of SET_MOX and SET_TUNE; the g_idle_add is the next step.
SetFlags(t, state, rest) ==
    /\ remote' = [Quiet EXCEPT !.ptt = state # "rx", !.mox = state = "mox",
                               !.tune = state = "tune"]
    /\ ~(WindowIsAtomic /\ state = "rx" /\ BeforePush)
    /\ UNCHANGED idles
    /\ Then(t, rest)

Push(t, state, rest) ==
    /\ idles' = Append(idles, state)
    /\ Then(t, rest)
    /\ UNCHANGED remote

-----------------------------------------------------------------------------
(* The steps of the workers and decoders *)

LeaseStep(t, s, rest) ==
    /\ \/ /\ s.op = "needControl"       \* the access check of dispatch_request
          /\ IsControlOwner(t, s.who, TRUE, rest, << >>)
       \/ /\ s.op = "expireControl"
          /\ IsControlOwner(t, s.who, FALSE, rest, rest)
       \/ /\ s.op \in {"takeControl", "forceControl"}
          /\ TakeControl(t, s.who, s.op = "forceControl", rest)
       \/ s.op = "releaseControl" /\ ReleaseControl(t, s.who, rest)
       \/ s.op = "releaseLease" /\ ReleaseLease(t, s.who, rest)
       \/ s.op = "takeLease" /\ TakeLease(t, s.who, rest)
       \/ /\ s.op = "expireLease"       \* lease_acquire's arm check, then expiry
          /\ IF armed THEN IsLeaseOwner(t, s.who, FALSE, rest, rest)
             ELSE Then(t, << >>) /\ UNCHANGED leases
       \/ s.op = "renewLease" /\ IsLeaseOwner(t, s.who, TRUE, rest, << >>)
       \/ /\ s.op = "needLease"         \* the arm check of SET_MOX and SET_TUNE
          /\ IF armed THEN IsLeaseOwner(t, s.who, TRUE, rest, << >>)
             ELSE Then(t, << >>) /\ UNCHANGED leases
       \/ /\ s.op = "heardFrom"         \* web_rtc_on_tx_audio's check
          /\ IsLeaseOwner(t, s.who, FALSE, IF armed THEN rest ELSE << >>, << >>)
    /\ UNCHANGED <<connected, remote, media, idles>>

KeyStep(t, s, rest) ==
    /\ \/ s.op = "unkey" /\ Unkey(t, rest)
       \/ s.op = "moxOn" /\ SetFlags(t, "mox", rest)
       \/ s.op = "tuneOn" /\ SetFlags(t, "tune", rest)
       \/ /\ s.op = "off"               \* MOX off or Tune off, from any controller
          /\ IF armed THEN SetFlags(t, "rx", rest)
             ELSE Then(t, << >>) /\ UNCHANGED <<remote, idles>>
       \/ s.op = "pushMoxOn" /\ Push(t, "mox", rest)
       \/ s.op = "pushTuneOn" /\ Push(t, "tune", rest)
       \/ s.op = "pushOff" /\ Push(t, "rx", rest)
    /\ UNCHANGED <<connected, leases, media>>

MediaStep(t, s, rest) ==
    /\ \/ /\ s.op = "resetAudio"        \* web_tx_audio_reset
          /\ audio' = "none" /\ audioActive' = FALSE
          /\ Then(t, rest)
       \/ /\ s.op = "needAudio"         \* web_tx_audio_fresh
          /\ Then(t, IF audio = "fresh" THEN rest ELSE << >>)
          /\ UNCHANGED media
       \/ /\ s.op = "putAudio"          \* web_rtc_on_tx_audio's ring write
          /\ audio' = "fresh" /\ audioActive' = TRUE
          /\ Then(t, rest)
    /\ UNCHANGED <<connected, leases, remote, idles>>

\* The end of web_client_release: the RTC session is joined, the slot is free.
FreeSlot(t, s, rest) ==
    /\ s.op = "freeSlot"
    /\ todo[Decoder(s.who)] = << >>
    /\ connected' = connected \ {s.who}
    /\ Then(t, rest)
    /\ UNCHANGED <<leases, remote, media, idles>>

-----------------------------------------------------------------------------
(* The steps of web_state_tick and web_server_stop, on the GTK thread *)

\* The operator withdrew the arm: whoever holds the lease now loses it.
TickArm(rest) ==
    Then(Gtk, IF txOwner # None /\ ~armed
              THEN <<Do("releaseLease", txOwner)>> \o rest ELSE rest)

\* The media watchdog: audio was arriving and has stopped.  A packet may still
\* land between the test and what follows from it.
TickMedia(rest) ==
    Then(Gtk, IF audioActive /\ audio # "fresh"
              THEN <<Do("mediaGap", None)>> \o rest ELSE rest)

MediaGap(rest) ==
    /\ audioActive' = FALSE
    /\ Then(Gtk, IF ~remote.mox THEN rest
                 ELSE IF txOwner # None
                 THEN <<Do("releaseLease", txOwner)>> \o rest
                 ELSE <<Do("unkey", None)>> \o rest)

\* The radio is back in receive after a remote key was seen on the air: the
\* operator at the desk let it go.
LetGo(flag, seen, state) == remote[flag] /\ txState # state /\ remote[seen]

\* Follow the radio: note a remote key on the air, end one that was let go.
TickSync(rest) ==
    /\ remote' = [remote EXCEPT
                    !.moxSeen = @ \/ (remote.mox /\ txState = "mox"),
                    !.tuneSeen = @ \/ (remote.tune /\ txState = "tune")]
    /\ Then(Gtk, IF LetGo("mox", "moxSeen", "mox") \/ LetGo("tune", "tuneSeen", "tune")
                 THEN <<Do("unkey", None)>> \o rest ELSE rest)

TickStep(s, rest) ==
    /\ \/ /\ s.op = "tickControl"
          /\ IF controlOwner = None
             THEN Then(Gtk, rest) /\ UNCHANGED leases
             ELSE IsControlOwner(Gtk, controlOwner, FALSE, rest, rest)
          /\ UNCHANGED <<remote, audioActive>>
       \/ /\ s.op = "tickLease"
          /\ IF txOwner = None         \* nothing for tickArm to take either
             THEN Then(Gtk, Tail(rest)) /\ UNCHANGED leases
             ELSE IsLeaseOwner(Gtk, txOwner, FALSE, rest, rest)
          /\ UNCHANGED <<remote, audioActive>>
       \/ s.op = "tickArm" /\ TickArm(rest) /\ UNCHANGED <<leases, remote, audioActive>>
       \/ s.op = "tickMedia" /\ TickMedia(rest) /\ UNCHANGED <<leases, remote, audioActive>>
       \/ s.op = "mediaGap" /\ MediaGap(rest) /\ UNCHANGED <<leases, remote>>
       \/ s.op = "tickSync" /\ TickSync(rest) /\ UNCHANGED <<leases, audioActive>>
    /\ UNCHANGED <<connected, audio, idles>>

\* web_server_stop waits for the last worker, then clears both leases.
StopStep(s, rest) ==
    /\ s.op = "stopped"
    /\ connected = {}
    /\ controlOwner' = None /\ controlLive' = FALSE
    /\ txOwner' = None /\ txLive' = FALSE
    /\ Then(Gtk, rest)
    /\ UNCHANGED <<connected, remote, media, idles>>

\* Thread t makes its next step.
Step(t) ==
    /\ todo[t] # << >>
    /\ LET s == Head(todo[t])
           rest == Tail(todo[t])
       IN  \/ LeaseStep(t, s, rest)
           \/ KeyStep(t, s, rest)
           \/ MediaStep(t, s, rest)
           \/ FreeSlot(t, s, rest)
           \/ t = Gtk /\ TickStep(s, rest)
           \/ t = Gtk /\ StopStep(s, rest)
    /\ UNCHANGED <<running, armed, txState>>

-----------------------------------------------------------------------------
(* What starts a thread *)

\* The steps of each request of a control-role connection, from
\* web_request_access and dispatch_request.  Every radio-changing request that
\* does not key only renews control, as control_renew does.
Program(r, c) ==
    CASE r = "control_acquire" ->
            <<Do("expireControl", c), Do("takeControl", c)>>
      [] r = "control_force" ->
            <<Do("expireControl", c), Do("forceControl", c)>>
      [] r = "control_renew" -> <<Do("needControl", c)>>
      [] r = "control_release" -> <<Do("releaseControl", c)>>
      [] r = "lease_acquire" ->
            <<Do("needControl", c), Do("expireLease", c), Do("takeLease", c)>>
      [] r = "lease_renew" -> <<Do("needControl", c), Do("renewLease", c)>>
      [] r = "lease_release" -> <<Do("releaseLease", c)>>
      [] r = "mox_on" ->
            <<Do("needControl", c), Do("needLease", c), Do("needAudio", c),
              Do("moxOn", c), Do("pushMoxOn", c)>>
      [] r = "tune_on" ->
            <<Do("needControl", c), Do("needLease", c), Do("tuneOn", c),
              Do("pushTuneOn", c)>>
      [] r = "key_off" -> <<Do("off", c), Do("pushOff", c)>>

AllRequests ==
    {"control_acquire", "control_force", "control_renew", "control_release",
     "lease_acquire", "lease_renew", "lease_release", "mox_on", "tune_on", "key_off"}

Receive(c, r) ==
    /\ running
    /\ c \in connected
    /\ todo[Worker(c)] = << >>
    /\ Len(idles) <= QueueMax
    /\ Then(Worker(c), Program(r, c))
    /\ UNCHANGED <<running, connected, leases, remote, media, armed, idles, txState>>

\* Seed of a mutant: a closed socket frees its slot and nothing else.
BugHangUp(c) ==
    /\ c \in connected
    /\ todo[Worker(c)] = << >>
    /\ Then(Worker(c), <<Do("freeSlot", c)>>)
    /\ UNCHANGED <<running, connected, leases, remote, media, armed, idles, txState>>

\* web_client_release, when the socket closes or the server stops.
HangUp(c) ==
    /\ c \in connected
    /\ todo[Worker(c)] = << >>
    /\ Then(Worker(c), <<Do("releaseControl", c), Do("releaseLease", c),
                         Do("freeSlot", c)>>)
    /\ UNCHANGED <<running, connected, leases, remote, media, armed, idles, txState>>

\* A new connection takes a free slot and logs in.
Connect(c) ==
    /\ running
    /\ c \notin connected
    /\ connected' = connected \cup {c}
    /\ UNCHANGED <<running, leases, remote, media, armed, idles, txState, todo>>

\* A decoded microphone packet.  The lease holder alone sends audio.
Packet(c) ==
    /\ "packet" \in Events
    /\ c \in connected
    /\ c = txOwner
    /\ todo[Decoder(c)] = << >>
    /\ audio # "fresh" \/ ~audioActive
    /\ Then(Decoder(c), <<Do("heardFrom", c), Do("putAudio", c)>>)
    /\ UNCHANGED <<running, connected, leases, remote, media, armed, idles, txState>>

\* The 50 ms timer dispatches web_state_tick.
StateTick ==
    /\ running
    /\ todo[Gtk] = << >>
    /\ Then(Gtk, <<Do("tickControl", None), Do("tickLease", None), Do("tickArm", None),
                   Do("tickMedia", None), Do("tickSync", None)>>)
    /\ UNCHANGED <<running, connected, leases, remote, media, armed, idles, txState>>

\* The main loop runs the oldest ext_set_mox or web_set_tune_idle: set_mox and
\* set_tune each drop the other.
Dispatch ==
    /\ todo[Gtk] = << >>
    /\ idles # << >>
    /\ txState' = Head(idles)
    /\ idles' = Tail(idles)
    /\ UNCHANGED <<running, connected, leases, remote, media, armed, todo>>

\* The operator at the desk: MOX off, and the arm in the Web dialog.
DeskUnkey ==
    /\ "desk_unkey" \in Events
    /\ todo[Gtk] = << >>
    /\ txState # "rx"
    /\ txState' = "rx"
    /\ UNCHANGED <<running, connected, leases, remote, media, armed, idles, todo>>

DeskArm ==
    /\ "desk_arm" \in Events
    /\ todo[Gtk] = << >>
    /\ armed' = ~armed
    /\ UNCHANGED <<running, connected, leases, remote, media, idles, txState, todo>>

\* web_server_stop: no new connection, every worker is told to go.
Stop ==
    /\ "restart" \in Events
    /\ running
    /\ todo[Gtk] = << >>
    /\ running' = FALSE
    /\ Then(Gtk, <<Do("stopped", None), Do("unkey", None)>>)
    /\ UNCHANGED <<connected, leases, remote, media, armed, idles, txState>>

\* web_server_start
Start ==
    /\ ~running
    /\ todo[Gtk] = << >>
    /\ running' = TRUE
    /\ controlOwner' = None /\ controlLive' = FALSE
    /\ txOwner' = None /\ txLive' = FALSE
    /\ remote' = Quiet
    /\ audio' = "none" /\ audioActive' = FALSE
    /\ UNCHANGED <<connected, armed, idles, txState, todo>>

\* Time: five seconds without a renewal, half a second without a packet.
ControlTimeout ==
    /\ controlOwner # None /\ controlLive
    /\ controlLive' = FALSE
    /\ UNCHANGED <<running, connected, controlOwner, txOwner, txLive, remote, media,
                   armed, idles, txState, todo>>

LeaseTimeout ==
    /\ txOwner # None /\ txLive
    /\ txLive' = FALSE
    /\ UNCHANGED <<running, connected, controlOwner, controlLive, txOwner, remote, media,
                   armed, idles, txState, todo>>

AudioGap ==
    /\ audio = "fresh"
    /\ audio' = "stale"
    /\ UNCHANGED <<running, connected, leases, remote, audioActive, armed, idles, txState,
                   todo>>

-----------------------------------------------------------------------------
\* A server just started; the arm is off, unless the instance leaves it alone.
Init ==
    /\ running = TRUE
    /\ connected = {}
    /\ controlOwner = None /\ controlLive = FALSE
    /\ txOwner = None /\ txLive = FALSE
    /\ remote = Quiet
    /\ audio = "none" /\ audioActive = FALSE
    /\ armed = ("desk_arm" \notin Events)
    /\ idles = << >>
    /\ txState = "rx"
    /\ todo = [t \in Threads |-> << >>]

Next ==
    \/ \E t \in Threads : Step(t)
    \/ \E c \in Clients, r \in Events \cap AllRequests : Receive(c, r)
    \/ \E c \in Clients : Connect(c) \/ HangUp(c) \/ Packet(c)
    \/ StateTick \/ Dispatch \/ DeskUnkey \/ DeskArm \/ Stop \/ Start
    \/ ControlTimeout \/ LeaseTimeout \/ AudioGap

\* Every thread runs to the end of what it has begun; the main loop dispatches
\* its timer and its idles infinitely often (the tick's period is far longer
\* than the tick); a worker whose server is stopping sees its socket shut down.
\* Nothing is assumed of the browsers, the operator or the deadlines.
Fairness ==
    /\ \A t \in Threads : WF_vars(Step(t))
    /\ SF_vars(StateTick)
    /\ SF_vars(Dispatch)
    /\ \A c \in Clients : WF_vars(~running /\ HangUp(c))

Safety == Init /\ [][Next]_vars
Spec   == Safety /\ Fairness

-----------------------------------------------------------------------------
(* Properties *)

Owners == Clients \cup {None}
TxStates == {"rx", "mox", "tune"}

\* Type invariant; a deadline runs only for an owner, as every critical section
\* of web_lease_mutex leaves it.
TypeOK ==
    /\ running \in BOOLEAN
    /\ connected \subseteq Clients
    /\ controlOwner \in Owners /\ controlLive \in BOOLEAN
    /\ txOwner \in Owners /\ txLive \in BOOLEAN
    /\ remote \in [DOMAIN Quiet -> BOOLEAN]
    /\ audio \in {"none", "fresh", "stale"} /\ audioActive \in BOOLEAN
    /\ armed \in BOOLEAN
    /\ idles \in Seq(TxStates) /\ txState \in TxStates
    /\ DOMAIN todo = Threads
    /\ controlLive => controlOwner # None
    /\ txLive => txOwner # None

\* What the radio will transmit once the main loop has caught up.
Headed == IF idles = << >> THEN txState ELSE idles[Len(idles)]

\* Some thread is still going to put the radio in receive.
UnkeyPending ==
    \E t \in Threads : \E i \in 1..Len(todo[t]) : todo[t][i].op \in {"unkey", "pushOff"}

\* A remote key always has somebody to answer for it: whenever the radio is, or
\* is about to be, keyed from a browser, a connection holds the TX lease or an
\* unkey is on its way -- through takeovers, expiries, releases, hang-ups, a
\* withdrawn arm, a restart of the server, and any interleaving of their
\* threads.  ("Losing control takes the TX lease with it (and so unkeys) -- a
\* viewer can never be left holding the transmitter".)
KeyIsAnsweredFor ==
    Headed # "rx" => txOwner # None \/ UnkeyPending

\* No lease outlives its connection: a slot that is not in use owns neither
\* lease, so no later connection in the same slot inherits one.
LeaseDiesWithSocket ==
    \A c \in Clients \ connected : controlOwner # c /\ txOwner # c

\* A key without a lease ends: the radio goes back to receive (or somebody takes
\* the lease over), whichever thread took the lease away.
LostLeaseUnkeys ==
    (txState # "rx" /\ txOwner = None) ~> (txState = "rx" \/ txOwner # None)

\* The lease of c has to end: its holder is silent, or the arm was withdrawn.
Doomed(c, why) == txOwner = c /\ IF why = "silent" THEN ~txLive ELSE ~armed

\* A holder that stops renewing loses the lease, even when no other browser ever
\* asks for it; so does every holder once the operator has withdrawn the arm.
SilentHolderExpires ==
    \A c \in Clients, why \in {"silent", "disarmed"} : Doomed(c, why) ~> ~Doomed(c, why)

\* "The TX lease can only be taken by the control holder, and losing control
\* drops it" (web_server.c): outside every handler, the TX lease is where
\* control is.
LeaseNeedsControl ==
    (\A t \in Threads : todo[t] = << >>) => txOwner \in {None, controlOwner}

\* "A 500 ms media gap while browser PTT is active revokes the lease and unkeys"
\* (doc/web-remote-status.md): browser MOX with no audio does not last.
MediaGapUnkeys ==
    (txState = "mox" /\ audio # "fresh" /\ running)
        ~> (txState # "mox" \/ audio = "fresh" \/ ~running)
=============================================================================
