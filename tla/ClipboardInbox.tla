---------------------------- MODULE ClipboardInbox ----------------------------
(***************************************************************************)
(* The receiving side of clipboard messages on one device: handle_clipboard*)
(* (network/handlers/clipboard.rs) with the sequence-number map and the    *)
(* session key that PeerRegistry keeps per known peer (peer/mod.rs), and   *)
(* the sending side broadcast_clipboard of the peers (network/client.rs).  *)
(*                                                                         *)
(* A session is a handshake.  The responder installs the new key, with an  *)
(* empty map of seen numbers, before its answer leaves; the dialler        *)
(* installs the same key when the answer has come.  Either side may dial.  *)
(* The network may deliver a message at any time, repeat it or lose it.    *)
(*                                                                         *)
(* A slot is one running invocation of the handler.  It takes the lock of  *)
(* inner once for the gate, once for the sequence number and once for the  *)
(* key, so a handshake can fall between any two of them.  The gate tests   *)
(* known and not banned: a banned id is not known (module PeerRegistry),   *)
(* so key[o] = NoKey stands for both refusals.                             *)
(***************************************************************************)
EXTENDS Naturals, FiniteSets

CONSTANTS
    Origins,    \* the peers that send to this device
    Kinds,      \* AadKind of clipboard messages: text, image_png
    Slots,      \* handler invocations running at once
    MaxKey,     \* bound: handshakes per peer
    MaxSeq,     \* bound: numbers a peer uses in one run of its program
    MaxPending, \* bound: handshakes of one peer in flight, each way
    MaxRestarts \* bound: restarts of this device

ASSUME BoundsAssumption ==
    MaxKey \in Nat /\ MaxSeq \in Nat /\ MaxPending \in Nat /\ MaxRestarts \in Nat

NoKey  == 0     \* the peer is not known
NoSeq  == 0     \* no number seen yet; senders count from 1
Keys   == 1..MaxKey
Seqs   == 1..MaxSeq
Runs   == 0..MaxRestarts     \* runs of this device's program
Answers == [run : Runs, key : Keys]
Message == [origin : Origins, kind : Kinds, key : Keys, seq : Seqs]

VARIABLES
    key,        \* key[o]: session key this device holds for o
    seen,       \* seen[o][k]: last_seen_seq_by_kind of o
    run,        \* the present run of this device's program
    skey,       \* skey[o][r]: session key o holds for the id of run r of this device
    sseq,       \* sseq[o]: last number o used, one counter for all receivers
    issued,     \* issued[o]: handshakes made so far, the newest key
    reply,      \* reply[o]: answers on their way to o
    dial,       \* dial[o]: keys in answers on their way from o to this device
    dialled,    \* history: the peers this device has dialled
    sent,       \* messages that were ever sent
    pc,         \* the section each slot is about to execute
    msg,        \* the message each slot handles
    tested,     \* history: the key held for the peer at the slot's last number test
    accepted,   \* history: messages that were decrypted and pushed to the history list
    firm,       \* history: those pushed by a call whose number test saw their own session
    queued      \* history: messages that were put in the queue of the clipboard thread

vars == <<key, seen, run, skey, sseq, issued, reply, dial, dialled, sent, pc, msg,
          tested, accepted, firm, queued>>
history == <<tested, accepted, firm, queued>>
session == <<key, seen, run, skey, issued, reply, dial, dialled>>
sender  == <<sseq, sent>>

Sections == {"idle", "gate", "seq", "key", "push", "apply"}

Init ==
    /\ key = [o \in Origins |-> NoKey]
    /\ seen = [o \in Origins |-> [k \in Kinds |-> NoSeq]]
    /\ run = 0
    /\ skey = [o \in Origins |-> [r \in Runs |-> NoKey]]
    /\ sseq = [o \in Origins |-> 0]
    /\ issued = [o \in Origins |-> NoKey]
    /\ reply = [o \in Origins |-> {}]
    /\ dial = [o \in Origins |-> {}]
    /\ dialled = {} /\ sent = {}
    /\ pc = [h \in Slots |-> "idle"]
    /\ msg \in [Slots -> Message]
    /\ tested = [h \in Slots |-> NoKey]
    /\ accepted = {} /\ firm = {} /\ queued = {}

-----------------------------------------------------------------------------
(* PeerRegistry::insert of a fresh PeerState: a new key and an empty map.  *)
Install(o, k) ==
    /\ key' = [key EXCEPT ![o] = k]
    /\ seen' = [seen EXCEPT ![o] = [kind \in Kinds |-> NoSeq]]

NewKey(o) ==
    /\ issued[o] < MaxKey
    /\ issued' = [issued EXCEPT ![o] = @ + 1]

(* o dials: handle_handshake installs here, the answer travels to o.       *)
AcceptHandshake(o) ==
    /\ Cardinality(reply[o]) < MaxPending
    /\ NewKey(o)
    /\ Install(o, issued[o] + 1)
    /\ reply' = [reply EXCEPT ![o] = @ \cup {[run |-> run, key |-> issued[o] + 1]}]
    /\ UNCHANGED <<run, skey, dial, dialled, sender, pc, msg, history>>

(* dial_handshake of o gets the answer and installs the key on its side.   *)
AdoptReply(o) ==
    /\ \E a \in reply[o] :
          /\ skey' = [skey EXCEPT ![o][a.run] = a.key]
          /\ reply' = [reply EXCEPT ![o] = @ \ {a}]
    /\ UNCHANGED <<key, seen, run, issued, dial, dialled, sender, pc, msg, history>>

(* The answer is lost, or the dialler's timeout drops it.                  *)
LoseReply(o) ==
    /\ \E a \in reply[o] : reply' = [reply EXCEPT ![o] = @ \ {a}]
    /\ UNCHANGED <<key, seen, run, skey, issued, dial, dialled, sender, pc, msg, history>>

(* This device dials: o, the responder, installs first.                    *)
DialPeer(o) ==
    /\ Cardinality(dial[o]) < MaxPending
    /\ NewKey(o)
    /\ skey' = [skey EXCEPT ![o][run] = issued[o] + 1]
    /\ dial' = [dial EXCEPT ![o] = @ \cup {issued[o] + 1}]
    /\ dialled' = dialled \cup {o}
    /\ UNCHANGED <<key, seen, run, reply, sender, pc, msg, history>>

(* The answer has come, in time: dial_handshake installs here.             *)
CompleteDial(o) ==
    /\ \E k \in dial[o] :
          /\ Install(o, k)
          /\ dial' = [dial EXCEPT ![o] = @ \ {k}]
    /\ UNCHANGED <<run, skey, issued, reply, dialled, sender, pc, msg, history>>

LoseDial(o) ==
    /\ \E k \in dial[o] : dial' = [dial EXCEPT ![o] = @ \ {k}]
    /\ UNCHANGED <<key, seen, run, skey, issued, reply, dialled, sender, pc, msg, history>>

(* A leave of o or a ban of o: inner loses its PeerState.                  *)
Forget(o) ==
    /\ key[o] # NoKey
    /\ key' = [key EXCEPT ![o] = NoKey]
    /\ seen' = [seen EXCEPT ![o] = [k \in Kinds |-> NoSeq]]
    /\ UNCHANGED <<run, skey, issued, reply, dial, dialled, sender, pc, msg, history>>

-----------------------------------------------------------------------------
(* broadcast_clipboard of o: one number for the message, and one copy for  *)
(* each id of this device that o knows, encrypted with the key of that id. *)
Send(o, k) ==
    /\ \E r \in Runs : skey[o][r] # NoKey
    /\ sseq[o] < MaxSeq
    /\ sseq' = [sseq EXCEPT ![o] = @ + 1]
    /\ sent' = sent \cup {[origin |-> o, kind |-> k, key |-> skey[o][r], seq |-> sseq[o] + 1] :
                            r \in {q \in Runs : skey[o][q] # NoKey}}
    /\ UNCHANGED <<session, pc, msg, history>>

(* This program is restarted: every session and every handler is gone, and *)
(* the new run has a new device id (state.rs:152).  The peers keep the     *)
(* entry of the old id beside the new one: same address, old key.  A peer  *)
(* that is restarted is another origin, and the old one falls silent.      *)
RestartSelf ==
    /\ run < MaxRestarts /\ run' = run + 1
    /\ key' = [o \in Origins |-> NoKey]
    /\ seen' = [o \in Origins |-> [k \in Kinds |-> NoSeq]]
    /\ dial' = [o \in Origins |-> {}]
    /\ pc' = [h \in Slots |-> "idle"]
    /\ UNCHANGED <<skey, issued, reply, dialled, sender, msg, history>>

-----------------------------------------------------------------------------
At(h, sec)   == pc[h] = sec
Goto(h, sec) == pc' = [pc EXCEPT ![h] = sec] /\ UNCHANGED msg
Origin(h)    == msg[h].origin
Kind(h)      == msg[h].kind

(* The network hands a message, new or repeated, to the handler.           *)
Deliver(h) ==
    /\ At(h, "idle")
    /\ \E m \in sent : msg' = [msg EXCEPT ![h] = m]
    /\ pc' = [pc EXCEPT ![h] = "gate"]
    /\ UNCHANGED <<session, sender, history>>

(* Steps 1 and 2: unknown or banned, 403.                                  *)
Gate(h) ==
    /\ At(h, "gate")
    /\ Goto(h, IF key[Origin(h)] = NoKey THEN "idle" ELSE "seq")
    /\ UNCHANGED <<session, sender, history>>

(* Mutant: the last number itself counts as new.                           *)
SeenOffByOne(o, k, n) == key[o] = NoKey \/ n < seen[o][k]
(* Mutant: the numbers of all kinds share one counter.                     *)
SeenAnyKind(o, k, n) == key[o] = NoKey \/ \E j \in Kinds : n <= seen[o][j]

(* seen_seq_and_update, one lock section: a number that is not above the   *)
(* last one of the peer and kind is refused, as is a peer that is gone.    *)
SeenSeq(o, k, n) == key[o] = NoKey \/ n <= seen[o][k]

(* Step 3: a refused number ends the call with 200, silently.              *)
CheckSeq(h) ==
    /\ At(h, "seq")
    /\ \/ /\ SeenSeq(Origin(h), Kind(h), msg[h].seq)
          /\ Goto(h, "idle")
          /\ UNCHANGED seen
       \/ /\ ~SeenSeq(Origin(h), Kind(h), msg[h].seq)
          /\ Goto(h, "key")
          /\ seen' = [seen EXCEPT ![Origin(h)][Kind(h)] = msg[h].seq]
    /\ tested' = [tested EXCEPT ![h] = key[Origin(h)]]
    /\ UNCHANGED <<key, run, skey, issued, reply, dial, dialled, sender, accepted, firm, queued>>

(* Steps 4 to 6: get the key and decrypt.  The AAD binds origin, kind and  *)
(* number, so decryption succeeds exactly under the key of encryption;     *)
(* 403 when the peer is gone, 422 under another key.  An image is not      *)
(* UTF-8 and is dropped after decryption, with 200.                        *)
Decrypt(h) ==
    /\ At(h, "key")
    /\ Goto(h, IF msg[h].key = key[Origin(h)] /\ Kind(h) = "text" THEN "push" ELSE "idle")
    /\ UNCHANGED <<session, sender, history>>

(* Step 7: the history first, then the queue of the clipboard thread,      *)
(* which refuses when it is full or the thread is gone; 200 either way.    *)
Push(h) ==
    /\ At(h, "push")
    /\ accepted' = accepted \cup {msg[h]}
    /\ firm' = IF tested[h] = msg[h].key THEN firm \cup {msg[h]} ELSE firm
    /\ Goto(h, "apply")
    /\ UNCHANGED <<session, sender, tested, queued>>

Apply(h) ==
    /\ At(h, "apply")
    /\ queued' \in {queued, queued \cup {msg[h]}}
    /\ Goto(h, "idle")
    /\ UNCHANGED <<session, sender, tested, accepted, firm>>

-----------------------------------------------------------------------------
Handshakes(o) ==
    \/ AcceptHandshake(o) \/ AdoptReply(o) \/ LoseReply(o)
    \/ DialPeer(o) \/ CompleteDial(o) \/ LoseDial(o) \/ Forget(o)
Handle(h) == \/ Deliver(h) \/ Gate(h) \/ CheckSeq(h)
             \/ Decrypt(h) \/ Push(h) \/ Apply(h)

Next ==
    \/ \E o \in Origins : Handshakes(o) \/ \E k \in Kinds : Send(o, k)
    \/ RestartSelf
    \/ \E h \in Slots : Handle(h)

Spec == Init /\ [][Next]_vars

-----------------------------------------------------------------------------
(* The types of the maps of PeerState and of the handlers' locals.         *)
TypeOK ==
    /\ key \in [Origins -> Keys \cup {NoKey}]
    /\ seen \in [Origins -> [Kinds -> Seqs \cup {NoSeq}]]
    /\ run \in Runs /\ skey \in [Origins -> [Runs -> Keys \cup {NoKey}]]
    /\ sseq \in [Origins -> Seqs \cup {0}]
    /\ issued \in [Origins -> Keys \cup {NoKey}]
    /\ reply \in [Origins -> SUBSET Answers] /\ dial \in [Origins -> SUBSET Keys]
    /\ dialled \subseteq Origins
    /\ sent \subseteq Message /\ accepted \subseteq sent
    /\ firm \subseteq accepted /\ queued \subseteq accepted
    /\ tested \in [Slots -> Keys \cup {NoKey}]
    /\ pc \in [Slots -> Sections] /\ msg \in [Slots -> Message]

(* One session and kind of one peer: the scope of a sequence number.       *)
SameStream(m, n) == m.origin = n.origin /\ m.kind = n.kind /\ m.key = n.key

Pushing(h) == At(h, "push") /\ pc'[h] = "apply"

(* Whatever handshakes either side makes: the calls whose number test saw  *)
(* the session a message belongs to push it at most once, however often    *)
(* the network delivers it (the map of numbers lives and dies with a key). *)
OncePerSession ==
    [][\A h \in Slots : Pushing(h) /\ tested[h] = msg[h].key => msg[h] \notin firm]_vars

(* A message is pushed to the history at most once, however often the      *)
(* network delivers it (mod.rs:450-457), when it comes from a peer this    *)
(* device never dialled: whatever handshakes of that peer, leaves and      *)
(* restarts fall between the sections of the handlers, this device learns  *)
(* each key before the peer does.                                          *)
OnceUnlessDialled ==
    [][\A h \in Slots : Pushing(h) /\ Origin(h) \notin dialled => msg[h] \notin accepted]_vars

(* A number that is let through in its own session is above those of all   *)
(* texts of the session that were pushed before: no old text comes back.   *)
OnlyNewer ==
    [][\A h \in Slots :
          At(h, "seq") /\ pc'[h] = "key" /\ msg[h].key = key[Origin(h)] =>
              \A m \in firm : SameStream(m, msg[h]) => m.seq < msg[h].seq]_vars

(* The peer has used its keys in the order they were made.  It has not     *)
(* when it adopts the answers of two handshakes in the wrong order, or     *)
(* keeps the id of an earlier run of this device beside the new one: then  *)
(* it sends copies under two keys with one number.                         *)
KeysInOrder(o) ==
    \A m, n \in sent :
        m.origin = o /\ n.origin = o /\ m.key < n.key => m.seq < n.seq

(* A text that decrypts under the current key is refused by its number     *)
(* only when a text of the same session with that number or a later one is *)
(* in the history or on its way there, when it comes from a peer this      *)
(* device never dialled and that used its keys in order: a message that    *)
(* fails to decrypt does no harm to those that follow                      *)
(* (specs/clipboard-text-sync.md:61).  Otherwise one that does not decrypt *)
(* has stored a number that the good ones are below.                       *)
Overtaken(m) ==
    \/ \E n \in accepted : SameStream(m, n) /\ n.seq >= m.seq
    \/ \E h \in Slots : /\ pc[h] \in {"key", "push"}
                        /\ SameStream(m, msg[h]) /\ msg[h].seq >= m.seq
Refused(h) == At(h, "seq") /\ pc'[h] = "idle" /\ key' = key
Current(h) == Kind(h) = "text" /\ msg[h].key = key[Origin(h)]
DropsOnlyStaleInOrder ==
    [][\A h \in Slots :
          /\ Origin(h) \notin dialled /\ KeysInOrder(Origin(h))
          /\ Refused(h) /\ Current(h)
          => Overtaken(msg[h])]_vars
=============================================================================
