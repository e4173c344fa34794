---------------------------------- MODULE Mesh ----------------------------------
(***************************************************************************)
(* How a group of devices becomes a complete mesh (group discovery).  A    *)
(* user joins one member; dial_handshake (network/client.rs) learns the    *)
(* other members from the answer and dials at most Fanout of them, each in *)
(* a task of its own (gossip_dial_stub), and then tells the peers it had   *)
(* before of the member it dialled (broadcast_announce).  Each of them     *)
(* that does not know the member dials it in turn (handle_peers_announce). *)
(*                                                                         *)
(* The session key of a handshake, fresh each time, is named after the two *)
(* devices, with a number that tells the handshakes of the pair apart.     *)
(* The network is slow but loses nothing, and nobody leaves or is banned:  *)
(* losses and restarts are in PeerLinks, bans in PeerRegistry.  Nothing    *)
(* removes a peer here, so the three sections of an installation (pool,    *)
(* map, approved) are one step; what is read after it is read in another.  *)
(***************************************************************************)
EXTENDS Naturals, FiniteSets

CONSTANTS
    Devices,      \* devices, all of them up
    Fanout,       \* GOSSIP_MAX_CONCURRENT (3 in the code)
    Scenarios,    \* bound: wishes: a set of <<d, e>>: the user of d joins e, once;
                  \* overlaps: the joins that may begin while a dial is under way
    Twins         \* bound: session keys of one dialler and responder in use at once

ASSUME FanoutAssumption == Fanout \in Nat
ASSUME TwinsAssumption == Twins \in Nat

Others(d) == Devices \ {d}
Wishes    == {w \in Devices \X Devices : w[1] # w[2]}

ASSUME ScenarioAssumption == Scenarios \subseteq [wishes : SUBSET Wishes, overlaps : Nat]

NoKey == <<>>
Keys  == Devices \X Devices \X (1..Twins)

Dial == [by : Devices, to : Devices, twin : 1..Twins, stub : BOOLEAN,
         phase : {"request", "offer", "answer", "install",
                  "choose", "announce", "tell"},
         list : SUBSET Devices, tell : SUBSET Devices]

VARIABLES
    key,        \* key[d][e]: aes_key that d holds for e
    dials,      \* dials under way; list: the members an answer offers, later those
                \* still to be dialled; tell: the peers still to be told
    wanted,     \* joins the users have not made yet
    spare,      \* joins that may still begin while a dial is under way
    crowded,    \* history: a join began while a dial was under way
    truncated,  \* history: an answer offered more unknown members than were dialled
    raced       \* history: pairs of devices with two handshakes at the same time

vars == <<key, dials, wanted, spare, crowded, truncated, raced>>

Knows(d, e) == key[d][e] # NoKey
Known(d)    == {e \in Devices : Knows(d, e)}
Key(x)      == <<x.by, x.to, x.twin>>
InUse       == {key[d][e] : d, e \in Devices} \cup {Key(x) : x \in dials}
Free(d, e)  == {n \in 1..Twins : <<d, e, n>> \notin InUse}

Init ==
    /\ key = [d \in Devices |-> [e \in Devices |-> NoKey]]
    /\ dials = {}
    /\ \E s \in Scenarios : wanted = s.wishes /\ spare = s.overlaps
    /\ crowded = FALSE /\ truncated = FALSE /\ raced = {}

-----------------------------------------------------------------------------
Pair(x)     == {x.by, x.to}
Answered(x) == x.phase \in {"offer", "answer", "install"}
Live(x)     == x.phase = "request" \/ Answered(x)

(* A task of d sends a request to e; rest: the other dials.                *)
Open(d, e, stub, rest) ==
    \E n \in Free(d, e) :
        /\ \A m \in Free(d, e) : n <= m
        /\ dials' = rest \cup {[by |-> d, to |-> e, twin |-> n, stub |-> stub,
                               phase |-> "request", list |-> {}, tell |-> {}]}
        /\ raced' = IF \E x \in rest : Live(x) /\ Pair(x) = {d, e}
                      THEN raced \cup {{d, e}} ELSE raced

(* What is left of a dial: nothing when all are dialled and told.          *)
Rest(x) == IF x.phase = "tell" /\ x.list \cup x.tell = {} THEN {} ELSE {x}

(* The user of d gives the address of e (join_group).                      *)
Join(d, e) ==
    /\ <<d, e>> \in wanted /\ wanted' = wanted \ {<<d, e>>}
    /\ \/ dials = {} /\ UNCHANGED <<spare, crowded>>
       \/ dials # {} /\ spare > 0 /\ spare' = spare - 1 /\ crowded' = TRUE
    /\ Open(d, e, FALSE, dials)
    /\ UNCHANGED <<key, truncated>>

(* The dial x goes on in the phase ph.                                     *)
Advance(x, ph) == dials' = (dials \ {x}) \cup {[x EXCEPT !.phase = ph]}

(* Mutants of Answer: the responder leaves the asker out of its registry,  *)
AnswerOnly(x) ==
    /\ x.phase = "request"
    /\ Advance(x, "offer")
    /\ UNCHANGED <<key, wanted, spare, crowded, truncated, raced>>

(* ... or a known asker keeps the key it had.                              *)
AnswerKeepsKey(x) ==
    /\ x.phase = "request"
    /\ key' = IF Knows(x.to, x.by) THEN key ELSE [key EXCEPT ![x.to][x.by] = Key(x)]
    /\ Advance(x, "offer")
    /\ UNCHANGED <<wanted, spare, crowded, truncated, raced>>

(* handle_handshake: install the asker, ...                                *)
Answer(x) ==
    /\ x.phase = "request"
    /\ key' = [key EXCEPT ![x.to][x.by] = Key(x)]
    /\ Advance(x, "offer")
    /\ UNCHANGED <<wanted, spare, crowded, truncated, raced>>

(* The members an answer offers: all approved peers but the asker.         *)
Offered(x) == Known(x.to) \ {x.by}

(* ... then offer the other peers to it.                                   *)
Offer(x) ==
    /\ x.phase = "offer"
    /\ dials' = (dials \ {x}) \cup {[x EXCEPT !.phase = "answer", !.list = Offered(x)]}
    /\ UNCHANGED <<key, wanted, spare, crowded, truncated, raced>>

(* dial_handshake has the answer: install the responder, ...               *)
Finish(x) ==
    /\ x.phase = "answer" /\ ~ x.stub
    /\ key' = [key EXCEPT ![x.by][x.to] = Key(x)]
    /\ Advance(x, "choose")
    /\ UNCHANGED <<wanted, spare, crowded, truncated, raced>>

(* Mutant of Unknown: the filter is the wrong way round.                   *)
UnknownOnly(x) == x.list \cap Known(x.by)

(* Members that were offered, but not this device and not its peers.       *)
Unknown(x) == x.list \ (Known(x.by) \cup {x.by})

(* ... choose the members to dial, ...                                     *)
Choose(x) ==
    /\ x.phase = "choose"
    /\ \E chosen \in SUBSET Unknown(x) :
          /\ \/ Cardinality(chosen) = Fanout
             \/ chosen = Unknown(x) /\ Cardinality(chosen) < Fanout
          /\ dials' = (dials \ {x}) \cup {[x EXCEPT !.phase = "announce", !.list = chosen]}
    /\ truncated' = (truncated \/ Cardinality(Unknown(x)) > Fanout)
    /\ UNCHANGED <<key, wanted, spare, crowded, raced>>

(* ... and tell all peers but the responder of it (broadcast_announce).    *)
Announce(x) ==
    /\ x.phase = "announce"
    /\ dials' = (dials \ {x}) \cup
                Rest([x EXCEPT !.phase = "tell", !.tell = Known(x.by) \ {x.to}])
    /\ UNCHANGED <<key, wanted, spare, crowded, truncated, raced>>

(* A task of gossip_dial_stub starts: skip a member that is known by now.  *)
BeginStub(x, e) ==
    /\ x.phase \in {"announce", "tell"} /\ e \in x.list
    /\ LET rest == (dials \ {x}) \cup Rest([x EXCEPT !.list = @ \ {e}])
       IN  \/ Knows(x.by, e) /\ dials' = rest /\ UNCHANGED raced
           \/ ~ Knows(x.by, e) /\ Open(x.by, e, TRUE, rest)
    /\ UNCHANGED <<key, wanted, spare, crowded, truncated>>

(* ... and has its answer, which it drops when the member is known by now, *)
FinishStub(x) ==
    /\ x.phase = "answer" /\ x.stub
    /\ IF Knows(x.by, x.to) THEN dials' = dials \ {x} ELSE Advance(x, "install")
    /\ UNCHANGED <<key, wanted, spare, crowded, truncated, raced>>

(* ... else installs the member, without another look.                     *)
InstallStub(x) ==
    /\ x.phase = "install"
    /\ key' = [key EXCEPT ![x.by][x.to] = Key(x)]
    /\ dials' = dials \ {x}
    /\ UNCHANGED <<wanted, spare, crowded, truncated, raced>>

(* Mutant of Heeds: a member that is known is dialled again.               *)
HeedsKnown(r, x) == Knows(r, x.by) /\ r # x.to

(* handle_peers_announce on r: refused when the sender is not approved or  *)
(* the member is r itself, nothing to do when the member is known.         *)
Heeds(r, x) == Knows(r, x.by) /\ r # x.to /\ ~ Knows(r, x.to)

(* r is told of the member x.to, and may dial it in a task of its own.     *)
Tell(x, r) ==
    /\ x.phase = "tell" /\ r \in x.tell
    /\ LET rest == (dials \ {x}) \cup Rest([x EXCEPT !.tell = @ \ {r}])
       IN  \/ ~ Heeds(r, x) /\ dials' = rest /\ UNCHANGED raced
           \/ Heeds(r, x) /\ Open(r, x.to, FALSE, rest)
    /\ UNCHANGED <<key, wanted, spare, crowded, truncated>>

-----------------------------------------------------------------------------
DialStep(x) ==
    \/ Answer(x) \/ Offer(x) \/ FinishStub(x) \/ InstallStub(x)
    \/ Finish(x) \/ Choose(x) \/ Announce(x)
    \/ \E d \in Devices : BeginStub(x, d) \/ Tell(x, d)

Next ==
    \/ \E d, e \in Devices : Join(d, e)
    \/ \E x \in dials : DialStep(x)

Spec == Init /\ [][Next]_vars

(* Requests arrive, answers come back and tasks are polled: of the dials   *)
(* from one device to another, one goes on.                                *)
PairStep(d, e) == \E x \in dials : x.by = d /\ x.to = e /\ DialStep(x)
FairSpec ==
    /\ Spec
    /\ \A d \in Devices : \A e \in Others(d) : WF_vars(PairStep(d, e))

-----------------------------------------------------------------------------
(* No device knows or dials itself, and no two dials share a secret.       *)
TypeOK ==
    /\ key \in [Devices -> [Devices -> Keys \cup {NoKey}]]
    /\ \A d \in Devices : ~ Knows(d, d)
    /\ dials \subseteq Dial
    /\ \A x \in dials : x.by # x.to /\ x.by \notin x.list
    /\ \A x, y \in dials : Key(x) = Key(y) => x = y
    /\ wanted \subseteq Wishes
    /\ spare \in Nat /\ crowded \in BOOLEAN /\ truncated \in BOOLEAN
    /\ raced \subseteq SUBSET Devices

AtRest == dials = {}

(* A device that knows another is known by it, or has its answer on the    *)
(* way: however joins, stubs and announces overlap, and although a stub    *)
(* drops its answer when another task was faster (client.rs:620), nobody   *)
(* is left sending to a peer that refuses it.                              *)
KnownIsMutual ==
    \A d, e \in Devices : Knows(d, e) /\ ~ Knows(e, d) =>
        \E x \in dials : x.by = e /\ x.to = d /\ Answered(x)

(* Two devices hold the same key, unless the answer of a dial between them *)
(* is on its way or two such dials were under way at once                  *)
(* (specs/e2e-encryption.md:50): re-joining a peer is safe, and so is a    *)
(* cascade that reaches it once.                                           *)
KeysMatchUnlessRaced ==
    \A d, e \in Devices :
        /\ {d, e} \notin raced
        /\ \A x \in dials : Pair(x) = {d, e} => ~ Answered(x)
        => key[d][e] = key[e][d]

(* Peers of peers are peers.                                               *)
Complete == \A d, e, f \in Devices : Knows(d, e) /\ Knows(e, f) /\ d # f => Knows(d, f)

(* When joins come one after the other and no answer offers more unknown   *)
(* members than are dialled, the mesh is complete once all is quiet, when  *)
(* groups merge as well (specs/group-discovery.md:50).                     *)
CompleteIfAlone == AtRest /\ ~ crowded /\ ~ truncated => Complete

(* Announces and dials die down after every join.                          *)
CascadeEnds == []<>AtRest

(* The acquaintances of Acquaintances: who has answered or been answered,  *)
(* and the requests under way.                                             *)
Met     == {p \in SUBSET Devices : \E d, e \in Devices : p = {d, e} /\ Knows(d, e)}
Invited == {Pair(x) : x \in {y \in dials : y.phase = "request"}}

A == INSTANCE Acquaintances WITH met <- Met, invited <- Invited,
         Wanted <- {s.wishes : s \in Scenarios}

(* The gossip implements Acquaintances: in whatever order stubs, announces *)
(* and answers come, a device is only ever dialled because a user joined   *)
(* it or a common acquaintance told of it (peers.rs:68), an answer is what *)
(* makes two devices acquainted, and no step takes an acquaintance back.   *)
OnlyAcquainted == A!Spec
(* After joins one after the other any two members hold the same key       *)
(* (specs/e2e-encryption.md:50).  Refuted when a group of three takes in   *)
(* a fourth: two members tell the third of the same device, both of its    *)
(* dials run at once, and the two sides keep the keys of different ones.   *)
KeysMatch == AtRest /\ ~ crowded => \A d, e \in Devices : key[d][e] = key[e][d]
=============================================================================
