------------------------------- MODULE PeerLinks -------------------------------
(***************************************************************************)
(* How two devices keep hold of each other: dial_handshake and             *)
(* handle_handshake agree on a session key, the heartbeat worker pings     *)
(* every known peer and, after Limit failures in a row, dials the address  *)
(* of the peer again (force_rebuild_connection), and a device that quits   *)
(* tells its peers (broadcast_leave, handle_leave).                        *)
(*                                                                         *)
(* A device is one run of the program: AppState::new draws a new device id *)
(* at every start, so a host that restarts comes back as another device.   *)
(* What a device stores for a peer is an address, and an address is        *)
(* answered by whichever device is up at that host.                        *)
(*                                                                         *)
(* A handshake is an exchange: a request, an answer, or a late request,    *)
(* one whose dialler has timed out or is gone.  The responder installs the *)
(* key before it answers, the dialler when it has the answer.  The network *)
(* may lose a request, an answer or a ping; MaxLoss bounds how often.      *)
(* Gossip (stubs and announces) and bans are not part of this module.      *)
(***************************************************************************)
EXTENDS Naturals, FiniteSets

CONSTANTS
    Ids,       \* device ids, numbered in the order they are drawn
    Home,      \* Home[d]: the host device d runs on
    Limit,     \* FORCE_REBUILD_LIMIT (3 in the code)
    MaxKey,    \* bound: session keys in use at the same time
    MaxJoins,  \* bound: dials by the user
    MaxStops,  \* bound: devices that crash or quit
    MaxLoss    \* bound: requests, answers and pings that are lost

Hosts == {Home[d] : d \in Ids}
Others(d) == {e \in Ids : Home[e] # Home[d]}
NoId  == 0
NoKey == 0
Keys  == 1..MaxKey

ASSUME IdAssumption == Ids \subseteq Nat \ {NoId} /\ Home \in [Ids -> Hosts]
ASSUME LimitAssumption == Limit \in Nat \ {0}
ASSUME BoundsAssumption == MaxKey \in Nat /\ MaxJoins \in Nat /\ MaxStops \in Nat /\ MaxLoss \in Nat

Exchange == [by : Ids, host : Hosts, about : Ids \cup {NoId},
             phase : {"request", "answer", "late"},
             resp : Ids \cup {NoId}, key : Keys \cup {NoKey}, alone : BOOLEAN]

VARIABLES
    status,     \* status[d]: off, up, or gone for good
    key,        \* key[d][e]: aes_key device d holds for peer e
    fails,      \* fails[d][e]: consecutive_heartbeat_failures, capped at Limit
    ping,       \* ping[d][e]: the ping task of d for e in the current round
    exch,       \* handshakes under way
    suspect,    \* history: pairs of hosts whose last handshakes crossed or failed halfway
    joins, losses   \* counters of the bounds

vars == <<status, key, fails, ping, exch, suspect, joins, losses>>

Init ==
    /\ status = [d \in Ids |-> "off"]
    /\ key = [d \in Ids |-> [e \in Ids |-> NoKey]]
    /\ fails = [d \in Ids |-> [e \in Ids |-> 0]]
    /\ ping = [d \in Ids |-> [e \in Ids |-> "idle"]]
    /\ exch = {} /\ suspect = {}
    /\ joins = 0 /\ losses = 0

Up(d)       == status[d] = "up"
Knows(d, e) == key[d][e] # NoKey
Residents(h) == {d \in Ids : Up(d) /\ Home[d] = h}
Route(x)    == {Home[x.by], x.host}
Between(d, e) == {Home[d], Home[e]}
Lose        == losses < MaxLoss /\ losses' = losses + 1
InUse       == {key[d][e] : d, e \in Ids} \cup {x.key : x \in exch}

-----------------------------------------------------------------------------
(* PeerRegistry::insert of a fresh PeerState: a key and no failures.       *)
Install(d, e, k) ==
    /\ key' = [key EXCEPT ![d][e] = k]
    /\ fails' = [fails EXCEPT ![d][e] = 0]

(* dial_handshake sends its request.  (alone: no other handshake between   *)
(* the two hosts is under way while this one is.)                          *)
Open(d, h, e) ==
    LET rivals == {x \in exch : Route(x) = {Home[d], h}}
        new == [by |-> d, host |-> h, about |-> e, phase |-> "request",
                resp |-> NoId, key |-> NoKey, alone |-> rivals = {}]
    IN  exch' = (exch \ rivals) \cup {[x EXCEPT !.alone = FALSE] : x \in rivals} \cup {new}

(* A ping task that waited for a rebuild dial ends with it.                *)
Settled(x) == IF x.about = NoId THEN ping ELSE [ping EXCEPT ![x.by][x.about] = "idle"]

(* A run of the program: AppState::new with an id never used before.       *)
Start(d) ==
    /\ status[d] = "off" /\ Residents(Home[d]) = {}
    /\ \A e \in Ids : Home[e] = Home[d] /\ e < d => status[e] = "gone"
    /\ status' = [status EXCEPT ![d] = "up"]
    /\ UNCHANGED <<key, fails, ping, exch, suspect, joins, losses>>

(* What is left of the handshakes when d is no more: requests of d that    *)
(* have left may still arrive.                                             *)
Orphaned(d, sent) ==
    {x \in exch : x.by # d} \cup
    {[x EXCEPT !.phase = "late", !.about = NoId, !.alone = FALSE] : x \in sent}

Vanish(d, hearers) ==
    /\ Up(d) /\ Cardinality({e \in Ids : status[e] = "gone"}) < MaxStops
    /\ status' = [status EXCEPT ![d] = "gone"]
    /\ key' = [e \in Ids |-> [f \in Ids |->
                 IF e = d \/ (e \in hearers /\ f = d) THEN NoKey ELSE key[e][f]]]
    /\ fails' = [e \in Ids |-> [f \in Ids |->
                 IF e = d \/ (e \in hearers /\ f = d) THEN 0 ELSE fails[e][f]]]
    /\ ping' = [ping EXCEPT ![d] = [e \in Ids |-> "idle"]]
    /\ \E sent \in SUBSET {x \in exch : x.by = d /\ x.phase = "request"} :
          exch' = Orphaned(d, sent)
    /\ UNCHANGED <<suspect, joins, losses>>

Crash(d) == Vanish(d, {})

(* The user quits: broadcast_leave reaches some of the devices at the      *)
(* addresses d knows, and those that know d remove it.                     *)
Leave(d) ==
    LET told == UNION {Residents(Home[e]) : e \in {e \in Ids : Knows(d, e)}}
    IN  \E hearers \in SUBSET {e \in told : Knows(e, d)} \ {{}} : Vanish(d, hearers)

-----------------------------------------------------------------------------
(* The user gives the address of a host (join_group).                      *)
Join(d, h) ==
    /\ Up(d) /\ h # Home[d]
    /\ joins < MaxJoins /\ joins' = joins + 1
    /\ ~ \E x \in exch : x.by = d /\ x.host = h /\ x.about = NoId
    /\ Open(d, h, NoId)
    /\ UNCHANGED <<status, key, fails, ping, suspect, losses>>

(* Mutant of Answer: a known peer keeps the key it had.                    *)
AnswerKeepsKey(x, u) ==
    /\ x.phase \in {"request", "late"} /\ u \in Residents(x.host)
    /\ \E k \in Keys \ InUse :
          /\ IF Knows(u, x.by) THEN UNCHANGED <<key, fails>> ELSE Install(u, x.by, k)
          /\ exch' = (exch \ {x}) \cup
                IF x.phase = "late" THEN {}
                ELSE {[x EXCEPT !.phase = "answer", !.resp = u, !.key = k]}
    /\ UNCHANGED <<status, ping, suspect, joins, losses>>

(* handle_handshake on the device that is up at the address.               *)
Answer(x, u) ==
    /\ x.phase \in {"request", "late"} /\ u \in Residents(x.host)
    /\ \E k \in Keys \ InUse :
          /\ \A l \in Keys \ InUse : k <= l
          /\ Install(u, x.by, k)
          /\ exch' = (exch \ {x}) \cup
                IF x.phase = "late" THEN {}
                ELSE {[x EXCEPT !.phase = "answer", !.resp = u, !.key = k]}
    /\ UNCHANGED <<status, ping, suspect, joins, losses>>

(* dial_handshake has the answer: it installs the key for the id that      *)
(* answered; a rebuild then clears the counter of the id it was about.     *)
Finish(x) ==
    /\ x.phase = "answer"
    /\ key' = [key EXCEPT ![x.by][x.resp] = x.key]
    /\ fails' = [fails EXCEPT ![x.by] =
                   [e \in Ids |-> IF e \in {x.resp, x.about} THEN 0 ELSE @[e]]]
    /\ exch' = exch \ {x}
    /\ ping' = Settled(x)
    /\ suspect' = IF x.alone THEN suspect \ {Route(x)} ELSE suspect \cup {Route(x)}
    /\ UNCHANGED <<status, joins, losses>>

(* No program listens at the address.                                      *)
Refused(x) ==
    /\ x.phase = "request" /\ Residents(x.host) = {}
    /\ exch' = exch \ {x}
    /\ ping' = Settled(x)
    /\ UNCHANGED <<status, key, fails, suspect, joins, losses>>

(* HANDSHAKE_TIMEOUT_MS pass, or the answer is an error (429): the dialler *)
(* gives up.  A request that was only slow arrives later.                  *)
DialLost(x) ==
    /\ x.phase \in {"request", "answer"} /\ Lose
    /\ ping' = Settled(x)
    /\ \/ exch' = exch \ {x}
       \/ /\ x.phase = "request"
          /\ exch' = (exch \ {x}) \cup
                     {[x EXCEPT !.phase = "late", !.about = NoId, !.alone = FALSE]}
    /\ suspect' = IF exch' = exch \ {x} /\ x.phase = "request" THEN suspect
                  ELSE suspect \cup {Route(x)}
    /\ UNCHANGED <<status, key, fails, joins>>

(* A late request that never arrives.                                      *)
LateLost(x) ==
    /\ x.phase = "late"
    /\ exch' = exch \ {x}
    /\ UNCHANGED <<status, key, fails, ping, suspect, joins, losses>>

-----------------------------------------------------------------------------
(* run_ping_round: one task for every peer of the snapshot.                *)
BeginRound(d) ==
    /\ Up(d) /\ \A e \in Ids : ping[d][e] = "idle"
    /\ \E e \in Ids : Knows(d, e)
    /\ ping' = [ping EXCEPT ![d] = [e \in Ids |-> IF Knows(d, e) THEN "sent" ELSE "idle"]]
    /\ UNCHANGED <<status, key, fails, exch, suspect, joins, losses>>

Pinged(d, e, outcome) == ping[d][e] = "sent" /\ ping' = [ping EXCEPT ![d][e] = outcome]

(* Mutant of PingRefused: any answer counts as a success.                  *)
PingRefusedCounts(d, e) ==
    /\ ~ \E u \in Residents(Home[e]) : Knows(u, d)
    /\ Pinged(d, e, IF Residents(Home[e]) = {} THEN "failed" ELSE "ok")
    /\ UNCHANGED <<status, key, fails, exch, suspect, joins, losses>>

(* handle_heartbeat: the device at the address of e knows the sender.  Its *)
(* own counter for the sender is cleared; the 200 may get lost.            *)
PingArrives(d, e) ==
    /\ \E u \in Residents(Home[e]) :
          Knows(u, d) /\ fails' = [fails EXCEPT ![u][d] = 0]
    /\ \/ Pinged(d, e, "ok") /\ UNCHANGED losses
       \/ Pinged(d, e, "failed") /\ Lose
    /\ UNCHANGED <<status, key, exch, suspect, joins>>

(* Nobody listens at the address of e, or who does answers 403.            *)
PingRefused(d, e) ==
    /\ ~ \E u \in Residents(Home[e]) : Knows(u, d)
    /\ Pinged(d, e, "failed")
    /\ UNCHANGED <<status, key, fails, exch, suspect, joins, losses>>

PingLost(d, e) ==
    /\ Pinged(d, e, "failed") /\ Lose
    /\ UNCHANGED <<status, key, fails, exch, suspect, joins>>

(* handle_ping_result after a 200: update_heartbeat_success.               *)
PingOk(d, e) ==
    /\ ping[d][e] = "ok"
    /\ ping' = [ping EXCEPT ![d][e] = "idle"]
    /\ fails' = [fails EXCEPT ![d][e] = 0]
    /\ UNCHANGED <<status, key, exch, suspect, joins, losses>>

(* handle_ping_result after anything else: one failure more, and from      *)
(* Limit on force_rebuild_connection.  A peer forgotten in the meantime    *)
(* counts nothing.  detect_hidden_dead, which ends a result, returns at    *)
(* its first test: last_successful_sync_at is written by                   *)
(* broadcast_clipboard alone, which has no caller.  So it has no step.     *)
Counted(d, e) ==
    IF ~ Knows(d, e) THEN 0 ELSE IF fails[d][e] = Limit THEN Limit ELSE fails[d][e] + 1

(* Mutant of PingFailed: the limit is tested with =, so one dial is made.  *)
PingFailedOnce(d, e) ==
    /\ ping[d][e] = "failed"
    /\ fails' = [fails EXCEPT ![d][e] = Counted(d, e)]
    /\ IF Counted(d, e) = Limit /\ fails[d][e] < Limit
       THEN Open(d, Home[e], e) /\ ping' = [ping EXCEPT ![d][e] = "rebuild"]
       ELSE ping' = [ping EXCEPT ![d][e] = "idle"] /\ UNCHANGED exch
    /\ UNCHANGED <<status, key, suspect, joins, losses>>

PingFailed(d, e) ==
    /\ ping[d][e] = "failed"
    /\ fails' = [fails EXCEPT ![d][e] = Counted(d, e)]
    /\ IF Counted(d, e) = Limit
       THEN Open(d, Home[e], e) /\ ping' = [ping EXCEPT ![d][e] = "rebuild"]
       ELSE ping' = [ping EXCEPT ![d][e] = "idle"] /\ UNCHANGED exch
    /\ UNCHANGED <<status, key, suspect, joins, losses>>

-----------------------------------------------------------------------------
Replies(x) == \E u \in Ids : Answer(x, u)
DialStep(d, h, e) ==
    \E x \in exch : /\ x.by = d /\ x.host = h /\ x.about = e /\ x.phase # "late"
                    /\ Replies(x) \/ Finish(x) \/ Refused(x)
PingStep(d, e) == PingArrives(d, e) \/ PingRefused(d, e)
ResultStep(d, e) == PingOk(d, e) \/ PingFailed(d, e)

Next ==
    \/ \E d \in Ids : Start(d) \/ Crash(d) \/ Leave(d) \/ BeginRound(d)
    \/ \E d \in Ids, h \in Hosts : Join(d, h)
    \/ \E x \in exch : Replies(x) \/ Finish(x) \/ Refused(x) \/ DialLost(x) \/ LateLost(x)
    \/ \E d, e \in Ids : PingStep(d, e) \/ PingLost(d, e) \/ ResultStep(d, e)

Spec == Init /\ [][Next]_vars

(* Every dial ends, by an answer, a refusal or its timeout, and every ping *)
(* by a result; the worker begins round after round.  Starts, quits,       *)
(* crashes and joins need not happen.                                      *)
FairSpec ==
    /\ Spec
    /\ \A d \in Ids : \A h \in Hosts \ {Home[d]} : WF_vars(DialStep(d, h, NoId))
    /\ \A d \in Ids : \A e \in Others(d) : WF_vars(DialStep(d, Home[e], e))
    /\ \A d \in Ids : WF_vars(BeginRound(d))
    /\ \A d \in Ids : \A e \in Others(d) : WF_vars(PingStep(d, e)) /\ WF_vars(ResultStep(d, e))

-----------------------------------------------------------------------------
TypeOK ==
    /\ status \in [Ids -> {"off", "up", "gone"}]
    /\ key \in [Ids -> [Ids -> Keys \cup {NoKey}]]
    /\ fails \in [Ids -> [Ids -> 0..Limit]]
    /\ ping \in [Ids -> [Ids -> {"idle", "sent", "ok", "failed", "rebuild"}]]
    /\ exch \subseteq Exchange
    /\ suspect \subseteq {{g, h} : g, h \in Hosts}
    /\ \A d, e \in Ids : ~ Knows(d, e) => fails[d][e] = 0
    /\ joins \in 0..MaxJoins /\ losses \in 0..MaxLoss

Mutual(d, e) == Up(d) /\ Up(e) /\ Knows(d, e) /\ Knows(e, d)

(* Two devices that know each other hold the same key whenever no answer   *)
(* is on its way between them, whatever rebuilds, restarts and lost        *)
(* requests came before, provided that their last handshake neither        *)
(* crossed another one nor failed halfway (specs/e2e-encryption.md:50).    *)
KeysAgreeUnlessCrossed ==
    \A d, e \in Ids :
        /\ Mutual(d, e) /\ Between(d, e) \notin suspect
        /\ \A x \in exch : Route(x) = Between(d, e) => x.phase # "answer"
        => key[d][e] = key[e][d]

(* Knowledge on one side only does not last: the heartbeat of the side     *)
(* that knows is refused until a rebuild dial makes it mutual.  The        *)
(* exception is a device that still holds a dead id of the other's host:   *)
(* its pings of that id reach the other one and clear the counter there.   *)
OneSidedHeals ==
    \A d \in Ids : \A e \in Others(d) :
        Up(d) /\ Up(e) /\ Knows(d, e) /\ ~ Knows(e, d)
            ~> \/ Knows(e, d) \/ ~ Knows(d, e) \/ ~ Up(d) \/ ~ Up(e)
               \/ \E g \in Ids : Home[g] = Home[d] /\ status[g] = "gone" /\ Knows(e, g)

(* A device that knew a run of the program which is over gets in touch     *)
(* with the next run at the same address, without the user.                *)
RestartedIsFound ==
    \A d \in Ids : \A e \in Others(d) : \A f \in {f \in Ids : Home[f] = Home[e] /\ e < f} :
        Up(d) /\ Knows(d, e) /\ status[e] = "gone" /\ Up(f)
            ~> Knows(d, f) \/ Knows(f, d) \/ ~ Knows(d, e) \/ ~ Up(d) \/ ~ Up(f)

=============================================================================
