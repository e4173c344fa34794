------------------------------ MODULE Lifecycle ------------------------------
(***************************************************************************)
(* One run of the program from start to exit (app/lifecycle.rs, the quit   *)
(* and set-up parts of lib.rs, the loop of app/heartbeat_worker.rs).       *)
(* Start-up is a task of its own; a click on the tray or in the settings   *)
(* panel can begin a quit at any moment, during start-up and during        *)
(* another quit included.  Meanwhile the three long-running tasks work:    *)
(* the clipboard thread, the HTTP server and the heartbeat worker.  Beside *)
(* them dials run that nothing waits for: those of join_group, of an       *)
(* announce (handlers/peers.rs), and the stub dials that any dial starts   *)
(* when it has its answer (network/client.rs).                             *)
(*                                                                         *)
(* Time is not modelled: a deadline may pass at any moment while its wait  *)
(* lasts, and nothing but the deadlines obliges a task to end.             *)
(***************************************************************************)
EXTENDS Naturals, FiniteSets

CONSTANTS
    Peers,      \* devices that shake hands with this one, or that it dials
    Quits,      \* calls of quit_app
    MaxEvents   \* bound: quits, handshakes, announces, joins and rounds of pings begun

ASSUME MaxEventsIsNat == MaxEvents \in Nat

Tasks == {"watcher", "server", "beat"}

VARIABLES
    phase,      \* Lifecycle.phase
    boot,       \* where start() is
    quit,       \* where each call of shutdown() is
    run,        \* each task: not spawned, running, or ended
    held,       \* the handles in the Lifecycle's slots; "tx" is server_shutdown_tx
    stops,      \* the tasks that were told to stop
    peers,      \* the registry: the known peers, each of them approved
    reqs,       \* handshakes the server is handling
    pings,      \* pings of the heartbeat's round in flight
    redials,    \* rebuild dials of that round in flight
    loose,      \* dials in flight that nothing waits for: of join_group, of announces
    stubs,      \* gossip dials in flight, which nothing waits for either
    events,     \* quits, handshakes, announces, joins and rounds of pings so far
    owed,       \* history: the peers known when a quit began and not sent a leave yet
    hasty,      \* history: the quits that began during start-up or met a deadline
    adrift,     \* history: the devices of the loose and stub dials in flight when the
                \* registry was last cleared, or begun since
    ended       \* the process has exited

tasks == <<run, held, stops>>
flights == <<reqs, pings, redials, loose, stubs>>
work  == <<flights, events>>
ghost == <<owed, hasty, adrift>>
vars  == <<phase, boot, quit, tasks, peers, work, ghost, ended>>

Phases  == {"Booting", "Running", "Shutting", "Dead"}
Boots   == {"watcher", "bind", "tx", "serve", "beat", "ready", "done", "failed"}
Waiting == {"leaving", "beating", "watching", "serving"}
Steps   == {"unused", "passed", "marked", "leave", "beat", "watch",
            "tx", "task", "clear", "last", "returned"} \cup Waiting

TypeOK ==
    /\ phase \in Phases
    /\ boot \in Boots
    /\ quit \in [Quits -> Steps]
    /\ run \in [Tasks -> {"off", "on", "gone"}]
    /\ held \subseteq Tasks \cup {"tx"}
    /\ stops \subseteq Tasks
    /\ peers \subseteq Peers
    /\ reqs \subseteq Peers
    /\ pings \subseteq Peers
    /\ redials \subseteq Peers
    /\ loose \subseteq Peers
    /\ stubs \subseteq Peers
    /\ events \in 0..MaxEvents
    /\ owed \subseteq Peers
    /\ hasty \subseteq Quits
    /\ adrift \subseteq Peers
    /\ ended \in BOOLEAN

Init ==
    /\ phase = "Booting"
    /\ boot = "watcher"
    /\ quit = [q \in Quits |-> "unused"]
    /\ run = [t \in Tasks |-> "off"]
    /\ held = {}
    /\ stops = {}
    /\ peers = {}
    /\ reqs = {}
    /\ pings = {}
    /\ redials = {}
    /\ loose = {}
    /\ stubs = {}
    /\ events = 0
    /\ owed = {}
    /\ hasty = {}
    /\ adrift = {}
    /\ ended = FALSE

\* The process exits: its memory is gone, which the model writes as the initial
\* values (no step follows).
Exit ==
    /\ phase' = "Booting"
    /\ boot' = "watcher"
    /\ quit' = [q \in Quits |-> "unused"]
    /\ run' = [t \in Tasks |-> "off"]
    /\ held' = {}
    /\ stops' = {}
    /\ peers' = {}
    /\ reqs' = {}
    /\ pings' = {}
    /\ redials' = {}
    /\ loose' = {}
    /\ stubs' = {}
    /\ events' = 0
    /\ owed' = {}
    /\ hasty' = {}
    /\ adrift' = {}
    /\ ended' = TRUE

-----------------------------------------------------------------------------
(* start(): every slot is filled in a lock section of its own. *)

\* Step 4: the thread is spawned and its handle stored, or spawning fails.
BootWatcher ==
    /\ boot = "watcher"
    /\ \/ /\ run' = [run EXCEPT !["watcher"] = "on"]
          /\ held' = held \cup {"watcher"}
          /\ boot' = "bind"
          /\ UNCHANGED phase
       \/ /\ phase' = "Dead"
          /\ boot' = "failed"
          /\ UNCHANGED <<run, held>>
    /\ UNCHANGED <<quit, stops, peers, work, ghost, ended>>

\* Step 5a: the port is bound, or is taken: then the clipboard thread, if its
\* handle is still there, is told to stop.
BootBind ==
    /\ boot = "bind"
    /\ \/ /\ boot' = "tx"
          /\ UNCHANGED <<phase, held, stops>>
       \/ /\ boot' = "failed"
          /\ phase' = "Dead"
          /\ stops' = stops \cup (held \cap {"watcher"})
          /\ held' = held \ {"watcher"}
    /\ UNCHANGED <<quit, run, peers, work, ghost, ended>>

\* Step 5b: the sender of the shutdown signal is stored, then the server runs.
BootTx ==
    /\ boot = "tx"
    /\ held' = held \cup {"tx"}
    /\ boot' = "serve"
    /\ UNCHANGED <<phase, quit, run, stops, peers, work, ghost, ended>>

BootServe ==
    /\ boot = "serve"
    /\ run' = [run EXCEPT !["server"] = "on"]
    /\ held' = held \cup {"server"}
    /\ boot' = "beat"
    /\ UNCHANGED <<phase, quit, stops, peers, work, ghost, ended>>

\* Step 6.
BootBeat ==
    /\ boot = "beat"
    /\ run' = [run EXCEPT !["beat"] = "on"]
    /\ held' = held \cup {"beat"}
    /\ boot' = "ready"
    /\ UNCHANGED <<phase, quit, stops, peers, work, ghost, ended>>

\* Step 7 does not look at the phase it overwrites.
BootReady ==
    /\ boot = "ready"
    /\ phase' = "Running"
    /\ boot' = "done"
    /\ UNCHANGED <<quit, tasks, peers, work, ghost, ended>>

\* A failed start-up shows its dialog and ends the process.
BootExit ==
    /\ boot = "failed"
    /\ Exit

Boot == BootWatcher \/ BootBind \/ BootTx \/ BootServe \/ BootBeat \/ BootReady \/ BootExit

-----------------------------------------------------------------------------
(* shutdown(), by any number of callers. *)

GoTo(q, step) == quit' = [quit EXCEPT ![q] = step]

Begun == events < MaxEvents /\ events' = events + 1

\* The guard against a second quit reads the phase (a call that it refuses
\* changes nothing) ...
QuitCheck(q) ==
    /\ quit[q] = "unused"
    /\ Begun
    /\ phase \notin {"Shutting", "Dead"}
    /\ GoTo(q, "passed")
    /\ hasty' = IF boot = "done" THEN hasty ELSE hasty \cup {q}
    /\ UNCHANGED <<phase, boot, tasks, peers, flights, owed, adrift, ended>>

\* ... and step 1 writes it in another lock section.
QuitMark(q) ==
    /\ quit[q] = "passed"
    /\ phase' = "Shutting"
    /\ owed' = peers
    /\ GoTo(q, "marked")
    /\ UNCHANGED <<boot, tasks, peers, work, hasty, adrift, ended>>

\* Step 2: health_cancel.cancel().
QuitCancel(q) ==
    /\ quit[q] = "marked"
    /\ stops' = stops \cup {"beat"}
    /\ GoTo(q, "leave")
    /\ UNCHANGED <<phase, boot, run, held, peers, work, ghost, ended>>

\* Mutant of QuitLeave: the filter on approved peers is the wrong way round.
QuitLeaveNobody(q) ==
    /\ quit[q] = "leave"
    /\ GoTo(q, "leaving")
    /\ UNCHANGED <<phase, boot, tasks, peers, work, ghost, ended>>

\* Step 3: a leave to every approved peer of one snapshot, all at once.
QuitLeave(q) ==
    /\ quit[q] = "leave"
    /\ owed' = owed \ peers
    /\ GoTo(q, "leaving")
    /\ UNCHANGED <<phase, boot, tasks, peers, work, hasty, adrift, ended>>

\* Each of them was answered, failed, or gave up.
QuitLeft(q) ==
    /\ quit[q] = "leaving"
    /\ GoTo(q, "beat")
    /\ UNCHANGED <<phase, boot, tasks, peers, work, ghost, ended>>

\* Steps 4 and 5 take the handle of a task out of its slot and wait for the
\* task; a handle that is not there (not stored yet, or taken by another quit)
\* is not waited for.
Take(q, t, at, wait, next) ==
    /\ quit[q] = at
    /\ held' = held \ {t}
    /\ GoTo(q, IF t \in held THEN wait ELSE next)
    /\ UNCHANGED <<phase, boot, run, peers, work, ghost, ended>>

\* Mutant of TakeBeat: the heartbeat's task is not waited for.
TakeBeatNoWait(q) == Take(q, "beat", "beat", "watch", "watch") /\ UNCHANGED stops

TakeBeat(q) == Take(q, "beat", "beat", "beating", "watch") /\ UNCHANGED stops

\* ClipboardWatcher::shutdown sets the thread's cancel flag first.
TakeWatcher(q) ==
    /\ Take(q, "watcher", "watch", "watching", "tx")
    /\ stops' = stops \cup (held \cap {"watcher"})

\* Step 5 sends the shutdown signal, if the sender is there ...
QuitSignal(q) ==
    /\ quit[q] = "tx"
    /\ held' = held \ {"tx"}
    /\ stops' = IF "tx" \in held THEN stops \cup {"server"} ELSE stops
    /\ GoTo(q, "task")
    /\ UNCHANGED <<phase, boot, run, peers, work, ghost, ended>>

\* Mutant of TakeServer: the server's task is not waited for.
TakeServerNoWait(q) == Take(q, "server", "task", "clear", "clear") /\ UNCHANGED stops

\* ... and only then takes the server's handle.
TakeServer(q) == Take(q, "server", "task", "serving", "clear") /\ UNCHANGED stops

Joined(q, t, wait, next) ==
    /\ quit[q] = wait
    /\ run[t] = "gone"
    /\ GoTo(q, next)
    /\ UNCHANGED <<phase, boot, tasks, peers, work, ghost, ended>>

QuitJoined(q) ==
    \/ Joined(q, "beat", "beating", "watch")
    \/ Joined(q, "watcher", "watching", "tx")
    \/ Joined(q, "server", "serving", "clear")

\* Mutant of QuitLate: the server's task is waited for without a deadline.
QuitLateButServer(q) ==
    /\ quit[q] \in Waiting \ {"serving"}
    /\ hasty' = hasty \cup {q}
    /\ GoTo(q, CASE quit[q] = "leaving"  -> "beat"
                 [] quit[q] = "beating"  -> "watch"
                 [] quit[q] = "watching" -> "tx")
    /\ UNCHANGED <<phase, boot, tasks, peers, work, owed, adrift, ended>>

\* A deadline passes: 1500 ms for the leaves, 500, 100 and 500 ms for the tasks.
\* What was waited for goes on by itself.
QuitLate(q) ==
    /\ quit[q] \in Waiting
    /\ hasty' = hasty \cup {q}
    /\ GoTo(q, CASE quit[q] = "leaving"  -> "beat"
                 [] quit[q] = "beating"  -> "watch"
                 [] quit[q] = "watching" -> "tx"
                 [] quit[q] = "serving"  -> "clear")
    /\ UNCHANGED <<phase, boot, tasks, peers, work, owed, adrift, ended>>

\* Step 6.
QuitClear(q) ==
    /\ quit[q] = "clear"
    /\ peers' = {}
    /\ adrift' = loose \cup stubs
    /\ GoTo(q, "last")
    /\ UNCHANGED <<phase, boot, tasks, work, owed, hasty, ended>>

\* Mutant of QuitDead: the phase is set back for another start.
QuitBooting(q) ==
    /\ quit[q] = "last"
    /\ phase' = "Booting"
    /\ GoTo(q, "returned")
    /\ UNCHANGED <<boot, tasks, peers, work, ghost, ended>>

\* Step 7; quit_app then returns to the settings panel, which does nothing.
QuitDead(q) ==
    /\ quit[q] = "last"
    /\ phase' = "Dead"
    /\ GoTo(q, "returned")
    /\ UNCHANGED <<boot, tasks, peers, work, ghost, ended>>

QuitStep(q) ==
    \/ QuitMark(q) \/ QuitCancel(q) \/ QuitLeave(q) \/ QuitLeft(q)
    \/ TakeBeat(q) \/ TakeWatcher(q) \/ QuitSignal(q) \/ TakeServer(q)
    \/ QuitJoined(q) \/ QuitLate(q) \/ QuitClear(q) \/ QuitDead(q)

\* The tray's quit item exits at once: no leave, no shutdown.
TrayQuit == Exit

-----------------------------------------------------------------------------
(* The long-running tasks and what they do to the registry. *)

Idle(t) ==
    CASE t = "watcher" -> TRUE
      [] t = "server"  -> reqs = {}
      [] t = "beat"    -> pings \cup redials = {}

\* A task that was told to stop ends when the work it waits for is done.
TaskEnds(t) ==
    /\ run[t] = "on"
    /\ t \in stops
    /\ Idle(t)
    /\ run' = [run EXCEPT ![t] = "gone"]
    /\ UNCHANGED <<phase, boot, quit, held, stops, peers, work, ghost, ended>>

\* A quit has cleared the registry.
Past(q) == quit[q] \in {"last", "returned"}

Drift(S) == adrift' = IF \E q \in Quits : Past(q) THEN adrift \cup S ELSE adrift

\* The server takes a request until it is told to stop, whatever the phase.
HandshakeArrives(p) ==
    /\ run["server"] = "on"
    /\ "server" \notin stops
    /\ Begun
    /\ reqs' = reqs \cup {p}
    /\ UNCHANGED <<phase, boot, quit, tasks, peers, pings, redials, loose, stubs, ghost, ended>>

\* A handshake that is answered makes its peer known and approved at once.
HandshakeHandled(p) ==
    /\ p \in reqs
    /\ reqs' = reqs \ {p}
    /\ peers' = peers \cup {p}
    /\ UNCHANGED <<phase, boot, quit, tasks, pings, redials, loose, stubs, events, ghost, ended>>

Forget(p) ==
    /\ peers' = peers \ {p}
    /\ owed' = owed \ {p}
    /\ UNCHANGED <<phase, boot, quit, tasks, work, hasty, adrift, ended>>

\* A peer leaves the group, or a peer bans another.  A request that was taken
\* before the server was told to stop may be handled after it.
LeaveHandled(p) ==
    /\ run["server"] = "on"
    /\ Forget(p)

\* A peer announces a device: it is dialled if it is unknown, by a task that
\* neither the handler nor a quit waits for.
AnnounceHandled(p) ==
    /\ run["server"] = "on"
    /\ peers # {}
    /\ p \notin peers
    /\ Begun
    /\ loose' = loose \cup {p}
    /\ Drift({p})
    /\ UNCHANGED <<phase, boot, quit, tasks, peers, reqs, pings, redials, stubs, owed, hasty,
                   ended>>

\* The commands of the front end do not look at the phase either: reject_peer
\* (its ban list is in PeerRegistry; here a banned peer may shake hands again) ...
Reject(p) == Forget(p)

\* ... and join_group, whose dial no quit waits for.
JoinGroup(p) ==
    /\ Begun
    /\ loose' = loose \cup {p}
    /\ Drift({p})
    /\ UNCHANGED <<phase, boot, quit, tasks, peers, reqs, pings, redials, stubs, owed, hasty,
                   ended>>

\* A tick of the heartbeat pings every approved peer, unless the phase is
\* Shutting or the worker was told to stop.
Tick ==
    /\ run["beat"] = "on"
    /\ "beat" \notin stops
    /\ phase # "Shutting"
    /\ Idle("beat")
    /\ Begun
    /\ pings' = peers
    /\ UNCHANGED <<phase, boot, quit, tasks, peers, reqs, redials, loose, stubs, ghost, ended>>

\* A ping is answered, or fails; after enough failures the peer is dialled
\* again, unless the phase is Shutting or the peer is gone.
PingReported(p) ==
    /\ p \in pings
    /\ pings' = pings \ {p}
    /\ \/ UNCHANGED redials
       \/ /\ phase # "Shutting"
          /\ p \in peers
          /\ redials' = redials \cup {p}
    /\ UNCHANGED <<phase, boot, quit, tasks, peers, reqs, loose, stubs, events, ghost, ended>>

\* A dial ends.
DialEnds(p) ==
    \/ p \in redials /\ redials' = redials \ {p} /\ UNCHANGED loose
    \/ p \in loose /\ loose' = loose \ {p} /\ UNCHANGED redials

\* It failed: refused, timed out, or the peer is banned.
DialFailed(p) ==
    /\ DialEnds(p)
    /\ UNCHANGED <<phase, boot, quit, tasks, peers, reqs, pings, stubs, events, ghost, ended>>

\* It has an answer: the peer is inserted and approved, and some devices that
\* the answer names and that are not known are dialled by tasks of their own.
DialReported(p) ==
    /\ DialEnds(p)
    /\ peers' = peers \cup {p}
    /\ \E S \in SUBSET (Peers \ peers') :
        /\ stubs' = stubs \cup S
        /\ Drift(S)
    /\ UNCHANGED <<phase, boot, quit, tasks, reqs, pings, events, owed, hasty, ended>>

\* A stub dial ends: it failed, its peer is known by now, or the peer is
\* inserted and approved.  It starts no other dial.
StubReported(p) ==
    /\ p \in stubs
    /\ stubs' = stubs \ {p}
    /\ \/ UNCHANGED peers
       \/ peers' = peers \cup {p}
    /\ UNCHANGED <<phase, boot, quit, tasks, reqs, pings, redials, loose, events, ghost, ended>>

PeerStep(p) ==
    \/ HandshakeArrives(p) \/ HandshakeHandled(p) \/ LeaveHandled(p) \/ AnnounceHandled(p)
    \/ Reject(p) \/ JoinGroup(p) \/ PingReported(p)
    \/ DialFailed(p) \/ DialReported(p) \/ StubReported(p)

-----------------------------------------------------------------------------
Step ==
    \/ Boot
    \/ \E q \in Quits : QuitCheck(q) \/ QuitStep(q)
    \/ TrayQuit
    \/ \E t \in Tasks : TaskEnds(t)
    \/ \E p \in Peers : PeerStep(p)
    \/ Tick

\* Nothing happens in a process that has exited.
Next == ~ended /\ Step

Spec == Init /\ [][Next]_vars

\* Start-up goes on, and so does a quit: by its deadlines whatever it waits for.
Fairness ==
    /\ WF_vars(~ended /\ Boot)
    /\ \A q \in Quits : WF_vars(~ended /\ QuitStep(q))

FairSpec == Spec /\ Fairness

-----------------------------------------------------------------------------
(* Properties *)

\* No other quit passed the check.
Solo(q) == \A r \in Quits \ {q} : quit[r] = "unused"

\* A quit that began after start-up, met no deadline and had no rival.
Orderly(q) == q \notin hasty /\ Solo(q)

\* After an orderly quit has cleared the registry no task of the program runs
\* and no work that a task waits for is in flight: the order of steps 4 to 6
\* (lifecycle.rs:579).  Loose and stub dials may still be.
OrderlyStopsAll ==
    \A q \in Quits : Orderly(q) /\ Past(q) =>
        /\ \A t \in Tasks : run[t] = "gone"
        /\ reqs \cup pings \cup redials = {}

\* ... and nobody comes back into the registry that it cleared but by a loose or
\* stub dial that was in flight then or began since.  Without one the keys that
\* were wiped stay wiped, whatever handshakes, pings and re-dials were under way
\* when the quit began.
OrderlyStaysClear ==
    \A q \in Quits : Orderly(q) /\ Past(q) => peers \subseteq adrift

PhaseRank == [f \in Phases |->
    CASE f = "Booting" -> 0 [] f = "Running" -> 1 [] f = "Shutting" -> 2 [] f = "Dead" -> 3]

\* The phase moves forward through Booting, Running, Shutting, Dead
\* (lifecycle.rs:45), when quits neither begin during start-up nor race.
ForwardUnlessHasty ==
    [][(hasty = {} /\ \A q, r \in Quits : q # r => Solo(q) \/ Solo(r))
         => ended' \/ PhaseRank[phase'] >= PhaseRank[phase]]_vars

\* A quit without a rival forgets nobody without a word: each peer that was
\* known when it began was sent a leave, or left first.
ForgottenWereTold ==
    \A q \in Quits : Solo(q) /\ Past(q) => owed = {}

\* A quit that passed the check comes to its end, whatever hangs: the leaves,
\* the ping of a dead peer, the clipboard, a request in progress.
QuitReturns ==
    \A q \in Quits : quit[q] = "passed" ~> (quit[q] = "returned" \/ ended)

=============================================================================
