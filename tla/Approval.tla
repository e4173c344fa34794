-------------------------------- MODULE Approval --------------------------------
(***************************************************************************)
(* The dialogue that asks the user of one device about a new peer: the     *)
(* handshake handler that announces it (handlers/handshake.rs), the queue  *)
(* and its timer (stores/approval.svelte.ts), the dialogue                 *)
(* (ApprovalDialog.svelte) and the commands behind its buttons             *)
(* (approve_peer, reject_peer).                                            *)
(*                                                                         *)
(* A peer is installed before the user is asked: approving it changes      *)
(* nothing, rejecting it bans it.  The queue is shown one head at a time;  *)
(* the timer belongs to the head and may fire at any moment.  A decision   *)
(* is awaited while queue, timer and dialogue live on.                     *)
(*                                                                         *)
(* Other devices write to the same registry: a peer leaves                 *)
(* (handlers/leave.rs), or any known peer says that one is trusted or      *)
(* banned (handlers/peers.rs).  The lock sections of one installation,     *)
(* ban or removal are one step here: PeerRegistry has them.                *)
(***************************************************************************)
EXTENDS Naturals, Sequences, FiniteSets

CONSTANTS
    Peers,          \* device ids of other devices
    MaxEvents       \* bound: handshakes, messages, decisions and changes of view

ASSUME MaxEventsIsNat == MaxEvents \in Nat

None == 0      \* no timer

Call     == [peer : Peers, new : BOOLEAN, dial : BOOLEAN, phase : {"install", "announce"}, no : Nat]
Message  == [what : {"leave", "trust", "ban"}, peer : Peers, no : Nat]
Request  == [id : Nat, peer : Peers]        \* PeerPendingPayload
Decision == [id : Nat, peer : Peers, yes : BOOLEAN, own : BOOLEAN, no : Nat,
             phase : {"called", "approve", "answered"}]

VARIABLES
    known,      \* ids in PeerRegistry.inner
    banned,     \* ids in PeerRegistry.banned
    calls,      \* handshakes past the screen; new: is_new_peer; dial: begun here
    messages,   \* messages whose origin was found in the registry, and not yet acted on
    listening,  \* the page has subscribed to peer-pending
    queue,      \* approvalStore.queue
    timer,      \* autoTimer: the request it was started for
    main,       \* the main view is open, which shows the dialogue if queue is not empty
    decisions,  \* calls of decide() that are not over; own: of the dialogue on screen
    vetted,     \* history: peers announced or dialled since they became known
    lost,       \* history: peers announced before the page listened
    rejected,   \* history: peers banned, and not said to be trusted since
    crossed,    \* history: peers whose last ban met another call about them
    revived,    \* history: peers whose last removal met an installation
    numbers     \* numbers given to calls, messages, requests, decisions; moves made

vars == <<known, banned, calls, messages, listening, queue, timer, main, decisions,
          vetted, lost, rejected, crossed, revived, numbers>>
removals == <<rejected, crossed, revived>>
registry == <<known, banned, calls, messages, vetted, lost, removals>>
store    == <<listening, queue, timer, main>>
dialogue == <<store, decisions>>

Init ==
    /\ known = {} /\ banned = {} /\ calls = {} /\ messages = {}
    /\ listening = FALSE /\ queue = <<>> /\ timer = None /\ main = TRUE /\ decisions = {}
    /\ vetted = {} /\ lost = {} /\ rejected = {} /\ crossed = {} /\ revived = {}
    /\ numbers = [call |-> 0, message |-> 0, request |-> 0, decision |-> 0, move |-> 0]

Counted(what) == numbers' = [numbers EXCEPT ![what] = @ + 1]

(* One more handshake, message, decision or change of view.                *)
Begun(what) ==
    /\ numbers.call + numbers.message + numbers.decision + numbers.move < MaxEvents
    /\ Counted(what)

-----------------------------------------------------------------------------
(* handle_handshake: a banned peer is refused; is it new?                  *)
Screen(p) ==
    /\ Begun("call")
    /\ p \notin banned
    /\ calls' = calls \cup {[peer |-> p, new |-> p \notin known, dial |-> FALSE,
                             phase |-> "install", no |-> numbers.call + 1]}
    /\ UNCHANGED <<known, banned, messages, vetted, lost, removals, dialogue>>

(* dial_handshake has an answer, for a join or for the group: a banned     *)
(* peer is refused, and nobody is asked.                                   *)
Dial(p) ==
    /\ Begun("call")
    /\ p \notin banned
    /\ calls' = calls \cup {[peer |-> p, new |-> FALSE, dial |-> TRUE,
                             phase |-> "install", no |-> numbers.call + 1]}
    /\ UNCHANGED <<known, banned, messages, vetted, lost, removals, dialogue>>

(* Mutant of Install: whether the peer is new is asked when it is in.      *)
InstallThenAsk(c) ==
    /\ c \in calls /\ c.phase = "install"
    /\ known' = known \cup {c.peer} /\ banned' = banned \ {c.peer}
    /\ calls' = calls \ {c}
    /\ vetted' = IF c.dial THEN vetted \cup {c.peer} ELSE vetted
    /\ UNCHANGED <<messages, lost, removals, dialogue, numbers>>

(* ... and installs it: known, approved, no longer banned.                 *)
Install(c) ==
    /\ c \in calls /\ c.phase = "install"
    /\ known' = known \cup {c.peer} /\ banned' = banned \ {c.peer}
    /\ calls' = (calls \ {c}) \cup (IF c.new THEN {[c EXCEPT !.phase = "announce"]} ELSE {})
    /\ vetted' = IF c.dial THEN vetted \cup {c.peer} ELSE vetted
    /\ UNCHANGED <<messages, lost, removals, dialogue, numbers>>

-----------------------------------------------------------------------------
Due(q) == IF q = <<>> THEN None ELSE Head(q).id

(* Mutants of Enqueue: the timer starts in any case, or the newest request *)
(* is shown first.                                                         *)
EnqueueTimed(r) == queue' = Append(queue, r) /\ timer' = r.id
EnqueueFirst(r) == queue' = <<r>> \o queue /\ timer' = r.id

(* pushPending: a request of its own id joins the queue; the timer starts  *)
(* when the queue was empty.                                               *)
Enqueue(r) ==
    /\ queue' = Append(queue, r)
    /\ timer' = IF queue = <<>> THEN r.id ELSE timer

(* Mutant of Shift: the timer of the next request is not started.          *)
ShiftUntimed ==
    /\ queue' = IF queue = <<>> THEN <<>> ELSE Tail(queue)
    /\ timer' = None

(* shiftQueue: the head goes, the timer starts anew for the next.  Nothing *)
(* happens to an empty queue.                                              *)
Shift ==
    /\ queue' = IF queue = <<>> THEN <<>> ELSE Tail(queue)
    /\ timer' = Due(queue')

(* The dialogue is unmounted: no decision is its own any more.             *)
Disowned(S) == {[d EXCEPT !.own = FALSE] : d \in S}

(* What is left of the decisions S when the queue becomes q.               *)
Mounted(S, q) == IF q = <<>> THEN Disowned(S) ELSE S

(* The handler announces a new peer: peer-pending, with a fresh id.        *)
Announce(c) ==
    /\ c \in calls /\ c.phase = "announce" /\ calls' = calls \ {c}
    /\ Counted("request")
    /\ IF listening
         THEN /\ Enqueue([id |-> numbers.request + 1, peer |-> c.peer])
              /\ vetted' = vetted \cup {c.peer}
              /\ UNCHANGED lost
         ELSE lost' = lost \cup {c.peer} /\ UNCHANGED <<queue, timer, vetted>>
    /\ UNCHANGED <<known, banned, messages, removals, listening, main, decisions>>

(* onMount subscribes, after the status and the history were fetched.      *)
Listen ==
    /\ ~listening /\ listening' = TRUE
    /\ UNCHANGED <<registry, queue, timer, main, decisions, numbers>>

(* The 30 s of the head are over.                                          *)
Expire ==
    /\ timer # None
    /\ Shift
    /\ decisions' = Mounted(decisions, queue')
    /\ UNCHANGED <<registry, listening, main, numbers>>

-----------------------------------------------------------------------------
Shown == main /\ queue # <<>>

(* Mutant of Decide: a second click is not ignored.                        *)
DecideAgain(yes) ==
    /\ Shown
    /\ Begun("decision")
    /\ decisions' = decisions \cup {[id |-> Head(queue).id, peer |-> Head(queue).peer,
            yes |-> yes, own |-> TRUE, no |-> numbers.decision + 1, phase |-> "called"]}
    /\ UNCHANGED <<registry, store>>

(* The user presses a button: decide() calls the command.                  *)
Decide(yes) ==
    /\ Shown /\ \A d \in decisions : ~d.own
    /\ Begun("decision")
    /\ decisions' = decisions \cup {[id |-> Head(queue).id, peer |-> Head(queue).peer,
            yes |-> yes, own |-> TRUE, no |-> numbers.decision + 1, phase |-> "called"]}
    /\ UNCHANGED <<registry, store>>

To(d, phase) == decisions' = (decisions \ {d}) \cup {[d EXCEPT !.phase = phase]}

(* approve_peer: not_found when the peer is not known, ...                 *)
LookUp(d) ==
    /\ d \in decisions /\ d.phase = "called" /\ d.yes
    /\ To(d, IF d.peer \in known THEN "approve" ELSE "answered")
    /\ UNCHANGED <<registry, store, numbers>>

(* ... else approved, which lifts a ban.                                   *)
Approve(d) ==
    /\ d \in decisions /\ d.phase = "approve"
    /\ banned' = banned \ {d.peer}
    /\ To(d, "answered")
    /\ UNCHANGED <<known, calls, messages, vetted, lost, removals, store, numbers>>

(* An installation of p that has looked at the registry and is to come.    *)
Installing(p) == \E c \in calls : c.peer = p /\ c.phase = "install"

(* A call that has looked at the registry and will lift a ban of p.        *)
Meets(p) ==
    \/ Installing(p)
    \/ \E d \in decisions : d.peer = p /\ d.phase = "approve"
    \/ \E m \in messages : m.peer = p /\ m.what = "leave"

Marked(S, p, yes) == IF yes THEN S \cup {p} ELSE S \ {p}

(* The peer goes, and with it what the user was told of it.                *)
Forget(p) ==
    /\ known' = known \ {p}
    /\ vetted' = vetted \ {p} /\ lost' = lost \ {p}
    /\ revived' = Marked(revived, p, Installing(p))

(* PeerRegistry.ban: the peer is banned and forgotten.                     *)
Ban(p) ==
    /\ Forget(p)
    /\ banned' = banned \cup {p}
    /\ rejected' = rejected \cup {p}
    /\ crossed' = Marked(crossed, p, Meets(p))

(* reject_peer: the peer is banned, whether it is known or not.            *)
Reject(d) ==
    /\ d \in decisions /\ d.phase = "called" /\ ~d.yes
    /\ Ban(d.peer)
    /\ To(d, "answered")
    /\ UNCHANGED <<calls, messages, store, numbers>>

Others(d) == decisions \ {d}

(* decide() has its answer, whatever it is: dismissCurrent, which takes    *)
(* away the head of the queue as it is now.                                *)
Finish(d) ==
    /\ d \in decisions /\ d.phase = "answered"
    /\ Shift
    /\ decisions' = Mounted(Others(d), queue')
    /\ UNCHANGED <<registry, listening, main, numbers>>

(* The user opens the settings, the join dialogue or the ball, or comes    *)
(* back.                                                                   *)
Move ==
    /\ Begun("move")
    /\ main' = ~main
    /\ decisions' = Disowned(decisions)
    /\ UNCHANGED <<registry, listening, queue, timer>>

-----------------------------------------------------------------------------
Told(what, p) ==
    /\ Begun("message")
    /\ messages' = messages \cup {[what |-> what, peer |-> p, no |-> numbers.message + 1]}
    /\ UNCHANGED <<known, banned, calls, vetted, lost, removals, dialogue>>

(* Mutant of HearLeave: the leave of an unknown peer is not refused.       *)
HearAnyLeave(p) == Told("leave", p)

(* handle_leave: the peer that leaves is known.  A number that was seen    *)
(* before changes nothing, here and below.                                 *)
HearLeave(p) == p \in known /\ Told("leave", p)

(* handle_trust, handle_ban: the origin, any peer and be it p itself, is   *)
(* known and not banned; p may be unknown.                                 *)
HearOf(what, p) == known \ banned # {} /\ Told(what, p)

(* ... and acts.  PeerRegistry.remove, which lifts a ban too.              *)
Leave(m) ==
    /\ m \in messages /\ m.what = "leave" /\ messages' = messages \ {m}
    /\ Forget(m.peer)
    /\ banned' = banned \ {m.peer}
    /\ UNCHANGED <<calls, rejected, crossed, dialogue, numbers>>

(* PeerRegistry.approve: trust overrides a ban.                            *)
Trust(m) ==
    /\ m \in messages /\ m.what = "trust" /\ messages' = messages \ {m}
    /\ banned' = banned \ {m.peer} /\ rejected' = rejected \ {m.peer}
    /\ UNCHANGED <<known, calls, vetted, lost, crossed, revived, dialogue, numbers>>

(* PeerRegistry.ban, which asks nobody.                                    *)
Shun(m) ==
    /\ m \in messages /\ m.what = "ban" /\ messages' = messages \ {m}
    /\ Ban(m.peer)
    /\ UNCHANGED <<calls, dialogue, numbers>>

-----------------------------------------------------------------------------
System ==
    \/ \E c \in calls : Install(c) \/ Announce(c)
    \/ \E m \in messages : Leave(m) \/ Trust(m) \/ Shun(m)
    \/ Listen \/ Expire
    \/ \E d \in decisions : LookUp(d) \/ Approve(d) \/ Reject(d) \/ Finish(d)

Next ==
    \/ System
    \/ \E p \in Peers : Screen(p) \/ Dial(p) \/ HearLeave(p) \/ HearOf("trust", p) \/ HearOf("ban", p)
    \/ \E yes \in BOOLEAN : Decide(yes)
    \/ Move

Spec == Init /\ [][Next]_vars

(* Handlers and commands run to their end, and timers fire; nobody has to  *)
(* shake hands, decide or look.                                            *)
FairSpec == Spec /\ WF_vars(System)

-----------------------------------------------------------------------------
(* Requests have ids of their own, in the order of the queue, and the      *)
(* dialogue on screen awaits one decision at most (`sending`).             *)
TypeOK ==
    /\ known \subseteq Peers /\ banned \subseteq Peers
    /\ calls \subseteq Call /\ messages \subseteq Message /\ decisions \subseteq Decision
    /\ queue \in Seq(Request) /\ timer \in Nat
    /\ main \in BOOLEAN /\ listening \in BOOLEAN
    /\ vetted \subseteq Peers /\ lost \subseteq Peers
    /\ rejected \subseteq Peers /\ crossed \subseteq Peers /\ revived \subseteq Peers
    /\ numbers \in [{"call", "message", "request", "decision", "move"} -> Nat]
    /\ \A i, j \in 1..Len(queue) : i < j => queue[i].id < queue[j].id
    /\ \A d, e \in decisions : d.own /\ e.own => d = e

(* The timer runs for the head whenever there is one: it was started when  *)
(* the head joined an empty queue or became the head, so a request is      *)
(* neither left waiting nor cut short by the timer of one before it        *)
(* (approval.svelte.ts:28).                                                *)
TimerIsOfHead == timer = Due(queue)

(* A decision that is awaited while its request still waits is about the   *)
(* head, so the dismissal after it takes away the right request, however   *)
(* often the dialogue is closed and opened and whatever timers fire.  Once *)
(* its request is gone, the dismissal takes away another that nobody has   *)
(* decided.                                                                *)
AwaitedIsHead ==
    \A d \in decisions : \A i \in 1..Len(queue) : queue[i].id = d.id => i = 1

(* A peer is in the registry only if this device dialled it or its user    *)
(* was or will be told since it last came, however often it left, was      *)
(* banned or was trusted before; unless the page was not listening yet, or *)
(* the peer was removed (its leave, a ban) while an installation of it was *)
(* past the test for a new peer: is_new_peer is read long before the       *)
(* event, and the peer comes back unannounced (handshake.rs:114).          *)
NewPeerIsTold ==
    \A p \in known \ (vetted \cup lost \cup revived) :
        \E c \in calls : c.peer = p /\ c.new

(* A peer banned by the user, or at the word of another peer, stays out    *)
(* until some peer says that it is trusted, which overrides a ban          *)
(* (ADR-009:239): whatever the user decides about other requests of it     *)
(* later, and whatever the peer itself sends.  Unless the ban met a        *)
(* handshake, an approval or a leave of it that had looked at the registry *)
(* before and lifts the ban after.                                         *)
RejectionStands == \A p \in rejected \ crossed : p \in banned /\ p \notin known

(* No pending request waits for ever, the user looking or not.             *)
QueueDrains == []<>(queue = <<>>)

(* Handling one request does not touch another                             *)
(* (specs/group-approval.md:63): a request that leaves the queue was       *)
(* decided, or its time was up.  Refuted: a decision that is answered      *)
(* after the time of its request dismisses the next one.                   *)
OthersUntouched ==
    [][\A d \in decisions : Finish(d) /\ queue # <<>> => Head(queue).id = d.id]_vars
=============================================================================
