-------------------------- MODULE ClipboardProofs --------------------------
(***************************************************************************)
(* The theorems about ClipboardInbox and ClipboardWatcher.                 *)
(*                                                                         *)
(* What ClipboardInbox guarantees for any number of peers, kinds, handlers *)
(* and handshakes.  The argument: a key is installed at most once on this  *)
(* device, because an accepted handshake makes a key above all others and  *)
(* a completed dial takes its key out of dial; so the map of seen numbers  *)
(* that goes with a key never starts over, and a number that was let       *)
(* through under a key stays at or below the map's number of that key.     *)
(*                                                                         *)
(* And the suppression of echoes by ClipboardWatcher for any texts, channel*)
(* capacities and number of copies, arrivals and faults.  HashTracksBoard  *)
(* is inductive together with the types: the only steps that make a text on*)
(* the clipboard not fresh, ApplyText and Report, set the hash in the same *)
(* step.                                                                   *)
(***************************************************************************)
EXTENDS ClipboardInbox, ClipboardWatcher, TLAPS

Busy(h)   == pc[h] # "idle"
InPipe(h) == pc[h] \in {"key", "push"}

(* What a handler in progress carries.                                     *)
Carried ==
    \A h \in Slots : /\ Busy(h) => msg[h] \in sent
                     /\ pc[h] = "apply" => msg[h] \in accepted

(* No key exists above issued.                                             *)
Issued ==
    /\ \A o \in Origins : /\ key[o] <= issued[o]
                          /\ \A r \in Runs : skey[o][r] <= issued[o]
                          /\ \A a \in reply[o] : a.key <= issued[o]
                          /\ \A k \in dial[o] : k <= issued[o]
    /\ \A m \in sent : m.key <= issued[m.origin]
    /\ \A h \in Slots : InPipe(h) => tested[h] <= issued[msg[h].origin]

(* A key that a dial will install was never installed before.              *)
Unused ==
    /\ \A o \in Origins : key[o] \notin dial[o]
    /\ \A h \in Slots : InPipe(h) =>
          tested[h] # NoKey /\ tested[h] \notin dial[msg[h].origin]
    /\ \A m \in firm : m.key \notin dial[m.origin]

(* The map that goes with the current key covers what it let through.      *)
Covered ==
    /\ \A h \in Slots : InPipe(h) /\ tested[h] = key[msg[h].origin] =>
          msg[h].seq <= seen[msg[h].origin][msg[h].kind]
    /\ \A m \in firm : m.key = key[m.origin] => m.seq <= seen[m.origin][m.kind]

(* Each message is in one place: at most one handler, or the history.      *)
Firm(h) == InPipe(h) /\ tested[h] = msg[h].key
Exclusive ==
    /\ \A h \in Slots : Firm(h) => msg[h] \notin firm
    /\ \A g, h \in Slots : g # h /\ Firm(g) /\ Firm(h) => msg[g] # msg[h]

IInv == TypeOK /\ Carried /\ Issued /\ Unused /\ Covered /\ Exclusive

-----------------------------------------------------------------------------
(* What the fields of a message range over.                                *)
LEMMA MessageFields ==
    ASSUME NEW m \in Message
    PROVE  /\ m.origin \in Origins /\ m.kind \in Kinds
           /\ m.key \in Nat /\ m.key # NoKey /\ m.key \in Keys
           /\ m.seq \in Nat /\ m.seq # NoSeq /\ m.seq \in Seqs
BY BoundsAssumption DEF Message, Keys, Seqs, NoKey, NoSeq

(* Keys and numbers are naturals, so they can be compared.                 *)
LEMMA NumbersAreNat ==
    ASSUME TypeOK
    PROVE  /\ \A o \in Origins : key[o] \in Nat /\ issued[o] \in Nat
           /\ \A o \in Origins, r \in Runs : skey[o][r] \in Nat
           /\ \A o \in Origins : \A a \in reply[o] :
                 a.run \in Runs /\ a.key \in Keys /\ a.key \in Nat
           /\ \A o \in Origins : \A k \in dial[o] : k \in Nat /\ k # NoKey
           /\ \A o \in Origins, k \in Kinds : seen[o][k] \in Nat
           /\ \A h \in Slots : tested[h] \in Nat
BY BoundsAssumption DEF TypeOK, Keys, Seqs, Answers, NoKey, NoSeq

(* A new key is one of the keys.                                           *)
LEMMA NewKeyIsKey ==
    ASSUME issued \in [Origins -> Keys \cup {NoKey}], NEW o \in Origins, NewKey(o)
    PROVE  issued[o] + 1 \in Keys
<1>1. issued[o] \in 1..MaxKey \cup {0} /\ issued[o] < MaxKey
  BY DEF NewKey, Keys, NoKey
<1> QED
  BY <1>1, BoundsAssumption DEF Keys

(* The types hold initially and every step keeps them.                     *)
LEMMA TypeStep == TypeOK /\ Carried /\ [Next]_vars => TypeOK' /\ Carried'
<1> SUFFICES ASSUME TypeOK, Carried, [Next]_vars PROVE TypeOK' /\ Carried'
  OBVIOUS
<1> USE BoundsAssumption DEF TypeOK, Carried, Busy, Keys, Seqs, Runs, Answers, NoKey, NoSeq, Sections,
        session, sender, history
<1>1. CASE UNCHANGED vars
  BY <1>1 DEF vars
<1>2. ASSUME NEW o \in Origins, Handshakes(o) PROVE TypeOK' /\ Carried'
  <2>1. CASE AcceptHandshake(o)
    <3>1. [run |-> run, key |-> issued[o] + 1] \in Answers /\ issued[o] + 1 \in 1..MaxKey
      BY <2>1, NewKeyIsKey DEF AcceptHandshake
    <3>2. reply' \in [Origins -> SUBSET Answers]
      BY <2>1, <3>1 DEF AcceptHandshake
    <3>3. key' \in [Origins -> Keys \cup {NoKey}] /\ issued' \in [Origins -> Keys \cup {NoKey}]
      BY <2>1, <3>1 DEF AcceptHandshake, Install, NewKey
    <3>4. seen' \in [Origins -> [Kinds -> Seqs \cup {NoSeq}]]
      BY <2>1 DEF AcceptHandshake, Install
    <3>5. UNCHANGED <<run, skey, sseq, dial, dialled, sent, pc, msg, tested, accepted, firm, queued>>
      BY <2>1 DEF AcceptHandshake
    <3> QED
      BY <3>2, <3>3, <3>4, <3>5
  <2>2. CASE AdoptReply(o)
    BY <2>2 DEF AdoptReply
  <2>3. CASE LoseReply(o)
    BY <2>3 DEF LoseReply
  <2>4. CASE DialPeer(o)
    <3>1. issued[o] + 1 \in 1..MaxKey
      BY <2>4, NewKeyIsKey DEF DialPeer
    <3> DEFINE row == [skey[o] EXCEPT ![run] = issued[o] + 1]
    <3>2. row \in [Runs -> Keys \cup {NoKey}] /\ skey' = [skey EXCEPT ![o] = row]
      BY <2>4, <3>1 DEF DialPeer
    <3>3. skey' \in [Origins -> [Runs -> Keys \cup {NoKey}]]
      BY <3>2
    <3>4. issued' \in [Origins -> Keys \cup {NoKey}] /\ dial' \in [Origins -> SUBSET Keys]
            /\ dialled' \subseteq Origins
      BY <2>4, <3>1 DEF DialPeer, NewKey
    <3>5. UNCHANGED <<key, seen, run, reply, sseq, sent, pc, msg, tested, accepted, firm, queued>>
      BY <2>4 DEF DialPeer
    <3> QED
      BY <3>3, <3>4, <3>5
  <2>5. CASE CompleteDial(o)
    BY <2>5 DEF CompleteDial, Install
  <2>6. CASE LoseDial(o)
    BY <2>6 DEF LoseDial
  <2>7. CASE Forget(o)
    BY <2>7 DEF Forget
  <2> QED
    BY <1>2, <2>1, <2>2, <2>3, <2>4, <2>5, <2>6, <2>7 DEF Handshakes
<1>4. ASSUME NEW o \in Origins, NEW k \in Kinds, Send(o, k) PROVE TypeOK' /\ Carried'
  <2>1. sseq[o] + 1 \in 1..MaxSeq
    BY <1>4 DEF Send
  <2>2. \A m \in sent' \ sent : m \in Message
    BY <1>4, <2>1 DEF Send, Message
  <2>3. sent \subseteq sent' /\ sseq' \in [Origins -> Seqs \cup {0}]
    BY <1>4, <2>1 DEF Send
  <2>4. UNCHANGED <<session, pc, msg, history>>
    BY <1>4 DEF Send
  <2> QED
    BY <2>2, <2>3, <2>4
<1>5. CASE RestartSelf
  BY <1>5 DEF RestartSelf
<1>6. ASSUME NEW h \in Slots, Handle(h) PROVE TypeOK' /\ Carried'
  <2> msg[h] \in Message
    OBVIOUS
  <2> USE MessageFields DEF At, Goto, Origin, Kind
  <2>1. CASE Deliver(h)
    BY <2>1 DEF Deliver
  <2>2. CASE Gate(h)
    BY <2>2 DEF Gate
  <2>3. CASE CheckSeq(h)
    <3>1. /\ msg[h].origin \in Origins /\ msg[h].kind \in Kinds
          /\ msg[h].seq \in 1..MaxSeq /\ key[msg[h].origin] \in 1..MaxKey \cup {0}
      OBVIOUS
    <3>2. seen' \in [Origins -> [Kinds -> 1..MaxSeq \cup {0}]]
      <4>1. CASE UNCHANGED seen
        BY <4>1
      <4>2. CASE seen' = [seen EXCEPT ![msg[h].origin][msg[h].kind] = msg[h].seq]
        <5> DEFINE row == [seen[msg[h].origin] EXCEPT ![msg[h].kind] = msg[h].seq]
        <5>1. row \in [Kinds -> 1..MaxSeq \cup {0}]
          BY <3>1
        <5>2. seen' = [seen EXCEPT ![msg[h].origin] = row]
          BY <4>2
        <5> QED
          BY <5>1, <5>2
      <4> QED
        BY <2>3, <4>1, <4>2 DEF CheckSeq
    <3>3. tested' \in [Slots -> 1..MaxKey \cup {0}] /\ pc' \in [Slots -> Sections]
      BY <2>3, <3>1 DEF CheckSeq
    <3>4. UNCHANGED <<key, run, skey, sseq, issued, reply, dial, dialled, sent, accepted, firm, queued, msg>>
      BY <2>3 DEF CheckSeq
    <3>5. \A g \in Slots : pc'[g] # "apply" \/ pc'[g] = pc[g]
      BY <2>3 DEF CheckSeq
    <3>6. \A g \in Slots : pc'[g] # "idle" => pc[g] # "idle"
      BY <2>3 DEF CheckSeq
    <3> QED
      BY <3>2, <3>3, <3>4, <3>5, <3>6
  <2>4. CASE Decrypt(h)
    BY <2>4 DEF Decrypt
  <2>5. CASE Push(h)
    BY <2>5 DEF Push
  <2>6. CASE Apply(h)
    BY <2>6 DEF Apply
  <2> QED
    BY <1>6, <2>1, <2>2, <2>3, <2>4, <2>5, <2>6 DEF Handle
<1> QED
  BY <1>1, <1>2, <1>4, <1>5, <1>6 DEF Next

-----------------------------------------------------------------------------
Sessions == Issued /\ Unused /\ Covered /\ Exclusive

(* A handshake of o, in either direction, or the loss of one.              *)
LEMMA HandshakeStep ==
    ASSUME IInv, NEW o \in Origins, Handshakes(o)
    PROVE  Sessions'
<1> USE DEF IInv, Sessions
<1>1. /\ UNCHANGED <<sent, pc, msg, tested, firm>>
      /\ \A m \in sent \cup firm : m \in Message
      /\ \A h \in Slots : msg[h] \in Message
  BY DEF Handshakes, AcceptHandshake, AdoptReply, LoseReply, DialPeer, CompleteDial,
         LoseDial, Forget, sender, history, TypeOK
<1>2. Exclusive'
  BY <1>1 DEF Exclusive, Firm, InPipe
<1> USE NumbersAreNat, MessageFields, BoundsAssumption DEF Issued, Unused, Covered, InPipe, NoKey
<1>3. CASE AcceptHandshake(o)
  <2>1. Issued'
    BY <1>1, <1>3 DEF TypeOK, AcceptHandshake, Install, NewKey
  <2>2. Unused'
    BY <1>1, <1>3 DEF TypeOK, AcceptHandshake, Install, NewKey
  <2>3. Covered'
    BY <1>1, <1>3 DEF TypeOK, AcceptHandshake, Install, NewKey
  <2> QED
    BY <1>2, <2>1, <2>2, <2>3
<1>4. CASE AdoptReply(o)
  <2>1. Issued'
    BY <1>1, <1>4 DEF TypeOK, AdoptReply
  <2>2. Unused'
    BY <1>1, <1>4 DEF TypeOK, AdoptReply
  <2>3. Covered'
    BY <1>1, <1>4 DEF TypeOK, AdoptReply
  <2> QED
    BY <1>2, <2>1, <2>2, <2>3
<1>5. CASE LoseReply(o)
  <2>1. Issued'
    BY <1>1, <1>5 DEF TypeOK, LoseReply
  <2>2. Unused'
    BY <1>1, <1>5 DEF TypeOK, LoseReply
  <2>3. Covered'
    BY <1>1, <1>5 DEF TypeOK, LoseReply
  <2> QED
    BY <1>2, <2>1, <2>2, <2>3
<1>6. CASE DialPeer(o)
  <2>1. Issued'
    BY <1>1, <1>6 DEF TypeOK, DialPeer, NewKey
  <2>2. Unused'
    BY <1>1, <1>6 DEF TypeOK, DialPeer, NewKey
  <2>3. Covered'
    BY <1>1, <1>6 DEF TypeOK, DialPeer, NewKey
  <2> QED
    BY <1>2, <2>1, <2>2, <2>3
<1>7. CASE CompleteDial(o)
  <2>1. Issued'
    BY <1>1, <1>7 DEF TypeOK, CompleteDial, Install
  <2>2. Unused'
    BY <1>1, <1>7 DEF TypeOK, CompleteDial, Install
  <2>3. Covered'
    BY <1>1, <1>7 DEF TypeOK, CompleteDial, Install
  <2> QED
    BY <1>2, <2>1, <2>2, <2>3
<1>8. CASE LoseDial(o)
  <2>1. Issued'
    BY <1>1, <1>8 DEF TypeOK, LoseDial
  <2>2. Unused'
    BY <1>1, <1>8 DEF TypeOK, LoseDial
  <2>3. Covered'
    BY <1>1, <1>8 DEF TypeOK, LoseDial
  <2> QED
    BY <1>2, <2>1, <2>2, <2>3
<1>9. CASE Forget(o)
  <2>1. Issued'
    BY <1>1, <1>9 DEF TypeOK, Forget
  <2>2. Unused'
    BY <1>1, <1>9 DEF TypeOK, Forget
  <2>3. Covered'
    BY <1>1, <1>9 DEF TypeOK, Forget
  <2> QED
    BY <1>2, <2>1, <2>2, <2>3
<1> QED
  BY <1>3, <1>4, <1>5, <1>6, <1>7, <1>8, <1>9 DEF Handshakes

(* A number let through: the slot h becomes firm when the key it saw is    *)
(* the one of its message, and then no other place holds that message.     *)
LEMMA PassStep ==
    ASSUME IInv, NEW h \in Slots, CheckSeq(h), ~SeenSeq(Origin(h), Kind(h), msg[h].seq)
    PROVE  Sessions'
<1> DEFINE o == msg[h].origin
           k == msg[h].kind
<1> USE DEF IInv, Sessions
<1>1. /\ pc[h] = "seq" /\ pc' = [pc EXCEPT ![h] = "key"]
      /\ seen' = [seen EXCEPT ![o][k] = msg[h].seq]
      /\ tested' = [tested EXCEPT ![h] = key[o]]
      /\ UNCHANGED <<key, skey, issued, reply, dial, sent, msg, firm>>
      /\ key[o] # NoKey /\ ~(msg[h].seq <= seen[o][k])
  BY DEF CheckSeq, SeenSeq, At, Goto, Origin, Kind, sender
<1>2. /\ \A m \in sent \cup firm : m \in Message
      /\ \A g \in Slots : msg[g] \in Message
  BY DEF TypeOK
<1>3. o \in Origins /\ k \in Kinds /\ msg[h].seq \in Nat
  BY <1>2, MessageFields
<1>4. /\ \A p \in Origins, j \in Kinds :
            seen'[p][j] = IF p = o /\ j = k THEN msg[h].seq ELSE seen[p][j]
      /\ \A p \in Origins, j \in Kinds : seen[p][j] \in Nat /\ seen[p][j] <= seen'[p][j]
  BY <1>1, <1>3, NumbersAreNat DEF TypeOK
<1>5. /\ \A g \in Slots \ {h} : tested'[g] = tested[g] /\ pc'[g] = pc[g]
      /\ tested'[h] = key[o] /\ pc'[h] = "key"
  BY <1>1 DEF TypeOK
<1>6. Issued'
  BY <1>1, <1>2, <1>3, <1>5 DEF Issued, InPipe
<1>7. Unused'
  BY <1>1, <1>2, <1>3, <1>5 DEF Unused, InPipe
<1>8. Covered'
  <2>1. ASSUME NEW g \in Slots, InPipe(g)', tested'[g] = key[msg[g].origin]
        PROVE  msg[g].seq <= seen'[msg[g].origin][msg[g].kind]
    <3>1. CASE g = h
      BY <3>1, <1>3, <1>4
    <3>2. CASE g # h
      <4>1. msg[g].seq <= seen[msg[g].origin][msg[g].kind]
        BY <2>1, <3>2, <1>1, <1>5 DEF Covered, InPipe
      <4> QED
        BY <4>1, <1>2, <1>4, MessageFields
    <3> QED
      BY <3>1, <3>2
  <2>2. ASSUME NEW m \in firm, m.key = key[m.origin]
        PROVE  m.seq <= seen'[m.origin][m.kind]
    <3>1. m.seq <= seen[m.origin][m.kind]
      BY <2>2 DEF Covered
    <3> QED
      BY <3>1, <1>2, <1>4, MessageFields
  <2> QED
    BY <2>1, <2>2, <1>1 DEF Covered
<1>9. Exclusive'
  <2>1. ASSUME key[o] = msg[h].key PROVE msg[h] \notin firm
    BY <2>1, <1>1 DEF Covered
  <2>2. ASSUME key[o] = msg[h].key, NEW g \in Slots \ {h}, Firm(g) PROVE msg[g] # msg[h]
    BY <2>2, <1>1 DEF Covered, Firm
  <2> QED
    BY <2>1, <2>2, <1>1, <1>5 DEF Exclusive, Firm, InPipe
<1> QED
  BY <1>6, <1>7, <1>8, <1>9

(* Every other section of a handler.                                       *)
LEMMA HandleStep ==
    ASSUME IInv, NEW h \in Slots, Handle(h)
    PROVE  Sessions'
<1> USE DEF IInv, Sessions
<1>1. CASE Deliver(h) \/ Gate(h) \/ Decrypt(h) \/ Apply(h)
  <2>1. UNCHANGED <<key, seen, skey, issued, reply, dial, sent, tested, firm>>
    BY <1>1 DEF Deliver, Gate, Decrypt, Apply, session, sender, history
  <2>2. \A g \in Slots : InPipe(g)' => InPipe(g) /\ msg'[g] = msg[g]
    BY <1>1 DEF Deliver, Gate, Decrypt, Apply, InPipe, At, Goto, TypeOK
  <2> QED
    BY <2>1, <2>2 DEF Issued, Unused, Covered, Exclusive, Firm
<1>2. CASE CheckSeq(h)
  <2>1. CASE ~SeenSeq(Origin(h), Kind(h), msg[h].seq)
    BY <2>1, <1>2, PassStep
  <2>2. CASE SeenSeq(Origin(h), Kind(h), msg[h].seq)
    <3>1. /\ UNCHANGED <<key, seen, skey, issued, reply, dial, sent, msg, firm>>
          /\ pc' = [pc EXCEPT ![h] = "idle"]
          /\ tested' = [tested EXCEPT ![h] = key[Origin(h)]]
      BY <2>2, <1>2 DEF CheckSeq, At, Goto, sender
    <3>2. \A g \in Slots : InPipe(g)' => InPipe(g) /\ tested'[g] = tested[g]
      BY <3>1 DEF InPipe, TypeOK
    <3> QED
      BY <3>1, <3>2 DEF Issued, Unused, Covered, Exclusive, Firm
  <2> QED
    BY <2>1, <2>2
<1>3. CASE Push(h)
  <2>1. /\ UNCHANGED <<key, seen, skey, issued, reply, dial, sent, msg, tested>>
        /\ pc[h] = "push" /\ pc' = [pc EXCEPT ![h] = "apply"]
        /\ firm' = IF tested[h] = msg[h].key THEN firm \cup {msg[h]} ELSE firm
    BY <1>3 DEF Push, At, Goto, session, sender
  <2>2. \A g \in Slots : InPipe(g)' => InPipe(g) /\ g # h
    BY <2>1 DEF InPipe, TypeOK
  <2>3. Issued' /\ Unused' /\ Covered'
    BY <2>1, <2>2 DEF Issued, Unused, Covered, InPipe
  <2>4. Exclusive'
    BY <2>1, <2>2 DEF Exclusive, Firm, InPipe
  <2> QED
    BY <2>3, <2>4
<1> QED
  BY <1>1, <1>2, <1>3 DEF Handle

(* IInv is inductive.                                                      *)
LEMMA Inductive == IInv /\ [Next]_vars => IInv'
<1> SUFFICES ASSUME IInv, [Next]_vars PROVE IInv'
  OBVIOUS
<1>1. TypeOK' /\ Carried'
  BY TypeStep DEF IInv
<1>2. Sessions'
  <2>1. CASE UNCHANGED vars
    BY <2>1 DEF IInv, Sessions, Issued, Unused, Covered, Exclusive, Firm, InPipe, vars
  <2>2. ASSUME NEW o \in Origins, Handshakes(o) PROVE Sessions'
    BY <2>2, HandshakeStep
  <2>4. ASSUME NEW o \in Origins, NEW k \in Kinds, Send(o, k) PROVE Sessions'
    <3>1. UNCHANGED <<session, pc, msg, history>>
      BY <2>4 DEF Send
    <3>2. \A m \in sent' \ sent : m.origin = o /\ \E r \in Runs : m.key = skey[o][r]
      BY <2>4 DEF Send
    <3> QED
      BY <3>1, <3>2 DEF IInv, Sessions, Issued, Unused, Covered, Exclusive, Firm, InPipe,
         session, history
  <2>5. CASE RestartSelf
    <3>1. /\ UNCHANGED <<skey, issued, reply, sent, msg, tested, firm>>
          /\ key' = [o \in Origins |-> NoKey] /\ dial' = [o \in Origins |-> {}]
          /\ \A h \in Slots : ~InPipe(h)'
      BY <2>5 DEF RestartSelf, sender, history, InPipe
    <3>2. \A m \in sent \cup firm : m \in Message
      BY DEF IInv, TypeOK
    <3> QED
      BY <3>1, <3>2, MessageFields, NumbersAreNat
         DEF IInv, Sessions, Issued, Unused, Covered, Exclusive, Firm, NoKey
  <2>6. ASSUME NEW h \in Slots, Handle(h) PROVE Sessions'
    BY <2>6, HandleStep
  <2> QED
    BY <2>1, <2>2, <2>4, <2>5, <2>6 DEF Next
<1> QED
  BY <1>1, <1>2 DEF IInv, Sessions

LEMMA Initial == Init => IInv
BY BoundsAssumption DEF Init, Runs, Answers, IInv, TypeOK, Carried, Busy, Issued, Unused, Covered, Exclusive,
   Firm, InPipe, Sections, Keys, Seqs, NoKey, NoSeq

(* IInv holds in every reachable state.                                    *)
THEOREM InboxInvariant == Spec => []IInv
BY Initial, Inductive, PTL DEF Spec

(* For any number of peers, handlers and handshakes, dialled or accepted:  *)
(* the calls whose number test saw a message's own session push it once.   *)
THEOREM OnceInItsSession == Spec => OncePerSession
<1>1. IInv /\ [Next]_vars => [\A h \in Slots :
         Pushing(h) /\ tested[h] = msg[h].key => msg[h] \notin firm]_vars
  BY DEF IInv, Exclusive, Firm, InPipe, Pushing, At
<1> QED
  BY <1>1, InboxInvariant, PTL DEF Spec, OncePerSession

-----------------------------------------------------------------------------
(* This device learns each key of a peer it never dials before the peer    *)
(* does, so the peer's messages decrypt only under the session that tested *)
(* their number.                                                           *)
Undialled(o) == o \notin dialled
OwnSession ==
    /\ \A o \in Origins : Undialled(o) => dial[o] = {}
    /\ \A h \in Slots : Undialled(msg[h].origin) =>
          /\ pc[h] = "key" /\ msg[h].key = key[msg[h].origin] => tested[h] = msg[h].key
          /\ pc[h] = "push" => tested[h] = msg[h].key
    /\ \A m \in accepted : Undialled(m.origin) => m \in firm

(* A handshake of o, dialled or accepted.                                  *)
LEMMA OwnHandshake ==
    ASSUME IInv, OwnSession, NEW o \in Origins, Handshakes(o)
    PROVE  OwnSession'
<1> USE DEF IInv, Undialled
<1> \A h \in Slots : msg[h] \in Message
  BY DEF TypeOK
<1>1. UNCHANGED <<pc, msg, tested, accepted, firm>> /\ dialled \subseteq dialled'
  BY DEF Handshakes, AcceptHandshake, AdoptReply, LoseReply, DialPeer, CompleteDial,
     LoseDial, Forget, sender, history
<1>2. \A p \in Origins : Undialled(p)' => dial'[p] = {}
  <2>1. CASE AcceptHandshake(o) \/ AdoptReply(o) \/ LoseReply(o) \/ Forget(o)
    BY <2>1 DEF OwnSession, AcceptHandshake, AdoptReply, LoseReply, Forget
  <2>2. CASE DialPeer(o)
    BY <2>2 DEF OwnSession, DialPeer, TypeOK
  <2>3. CASE CompleteDial(o) \/ LoseDial(o)
    BY <2>3 DEF OwnSession, CompleteDial, LoseDial, TypeOK
  <2> QED
    BY <2>1, <2>2, <2>3 DEF Handshakes
<1>3. \A p \in Origins : Undialled(p)' =>
         key'[p] = key[p] \/ key'[p] = NoKey \/ key'[p] > issued[p]
  <2>1. CASE AcceptHandshake(o)
    BY <2>1, NumbersAreNat DEF AcceptHandshake, Install, NewKey, TypeOK
  <2>2. CASE CompleteDial(o)
    BY <2>2 DEF CompleteDial, Install, OwnSession, TypeOK
  <2>3. CASE AdoptReply(o) \/ LoseReply(o) \/ DialPeer(o) \/ LoseDial(o) \/ Forget(o)
    BY <2>3 DEF AdoptReply, LoseReply, DialPeer, LoseDial, Forget, TypeOK
  <2> QED
    BY <2>1, <2>2, <2>3 DEF Handshakes
<1>4. ASSUME NEW h \in Slots, pc[h] = "key", msg[h].origin \notin dialled',
             msg[h].key = key'[msg[h].origin]
      PROVE  msg[h].key = key[msg[h].origin]
  <2>1. /\ msg[h].origin \in Origins /\ msg[h].key \in Nat /\ msg[h].key # NoKey
        /\ msg[h].key <= issued[msg[h].origin]
    BY <1>4, MessageFields DEF Carried, Busy, Issued
  <2>2. issued[msg[h].origin] \in Nat
    BY <2>1, NumbersAreNat
  <2> QED
    BY <1>3, <1>4, <2>1, <2>2
<1> QED
  BY <1>1, <1>2, <1>4 DEF OwnSession

LEMMA OwnSessionStep ==
    ASSUME IInv, OwnSession, [Next]_vars
    PROVE  OwnSession'
<1> USE DEF OwnSession, Undialled
<1> \A h \in Slots : msg[h] \in Message
  BY DEF IInv, TypeOK
<1>1. CASE UNCHANGED vars
  BY <1>1 DEF vars
<1>2. ASSUME NEW o \in Origins, Handshakes(o) PROVE OwnSession'
  BY <1>2, OwnHandshake
<1>4. ASSUME NEW o \in Origins, NEW k \in Kinds, Send(o, k) PROVE OwnSession'
  BY <1>4 DEF Send, session, history
<1>5. CASE RestartSelf
  BY <1>5 DEF RestartSelf, history
<1>6. ASSUME NEW h \in Slots, Handle(h) PROVE OwnSession'
  <2> USE DEF At, Goto, Origin, Kind, session, sender, history
  <2>1. CASE Deliver(h)
    BY <2>1 DEF Deliver, IInv, TypeOK
  <2>2. CASE Gate(h)
    BY <2>2 DEF Gate, IInv, TypeOK
  <2>3. CASE CheckSeq(h)
    BY <2>3 DEF CheckSeq, IInv, TypeOK
  <2>4. CASE Decrypt(h)
    BY <2>4 DEF Decrypt, IInv, TypeOK
  <2>5. CASE Push(h)
    BY <2>5 DEF Push, IInv, TypeOK
  <2>6. CASE Apply(h)
    BY <2>6 DEF Apply, IInv, TypeOK
  <2> QED
    BY <1>6, <2>1, <2>2, <2>3, <2>4, <2>5, <2>6 DEF Handle
<1> QED
  BY <1>1, <1>2, <1>4, <1>5, <1>6 DEF Next

(* No message of a peer this device never dialled is pushed twice.         *)
THEOREM OnceWhenDialled == Spec => OnceUnlessDialled
<1>1. Init => OwnSession
  BY DEF Init, OwnSession
<1>2. IInv /\ OwnSession /\ [Next]_vars => OwnSession'
  BY OwnSessionStep
<1>3. IInv /\ OwnSession /\ [Next]_vars =>
         [\A h \in Slots : Pushing(h) /\ Origin(h) \notin dialled => msg[h] \notin accepted]_vars
  BY DEF IInv, OwnSession, Undialled, Exclusive, Firm, InPipe, Pushing, At, Origin
<1> QED
  BY <1>1, <1>2, <1>3, InboxInvariant, PTL DEF Spec, OnceUnlessDialled

(* A number let through in its own session is above those of all texts of  *)
(* the session that were pushed before, for any handshakes either way.     *)
THEOREM NoOldTextReturns == Spec => OnlyNewer
<1>1. ASSUME IInv, [Next]_vars, NEW h \in Slots, At(h, "seq"), pc'[h] = "key",
             msg[h].key = key[Origin(h)], NEW m \in firm, SameStream(m, msg[h])
      PROVE  m.seq < msg[h].seq
  <2>1. m \in Message /\ msg[h] \in Message
    BY <1>1 DEF IInv, TypeOK
  <2>2. m.seq \in Nat /\ msg[h].seq \in Nat /\ seen[m.origin][m.kind] \in Nat
    BY <1>1, <2>1, MessageFields, NumbersAreNat DEF IInv
  <2>3. m.seq <= seen[m.origin][m.kind]
    BY <1>1 DEF IInv, Covered, SameStream, Origin
  <2>4. CheckSeq(h)
    <3>1. pc \in [Slots -> Sections] /\ pc' # pc
      BY <1>1 DEF IInv, TypeOK, At
    <3>2. PICK g \in Slots : Handle(g) \/ RestartSelf
      BY <1>1, <3>1 DEF Next, vars, Handshakes, AcceptHandshake, AdoptReply, LoseReply,
         DialPeer, CompleteDial, LoseDial, Forget, Send
    <3>3. ~RestartSelf
      BY <1>1 DEF RestartSelf
    <3>4. g = h
      BY <1>1, <3>1, <3>2, <3>3 DEF Handle, Deliver, Gate, CheckSeq, Decrypt, Push, Apply, Goto, At
    <3> QED
      BY <1>1, <3>1, <3>2, <3>3, <3>4
         DEF Handle, Deliver, Gate, CheckSeq, Decrypt, Push, Apply, Goto, At
  <2>5. ~SeenSeq(Origin(h), Kind(h), msg[h].seq)
    BY <2>4, <1>1 DEF CheckSeq, Goto, At, IInv, TypeOK
  <2> QED
    BY <2>2, <2>3, <2>5, <1>1 DEF SeenSeq, SameStream, Origin, Kind
<1>2. IInv /\ [Next]_vars =>
        [\A h \in Slots :
          At(h, "seq") /\ pc'[h] = "key" /\ msg[h].key = key[Origin(h)] =>
              \A m \in firm : SameStream(m, msg[h]) => m.seq < msg[h].seq]_vars
  BY <1>1
<1> QED
  BY <1>2, InboxInvariant, PTL DEF Spec, OnlyNewer

-----------------------------------------------------------------------------
(* A number that was stored belongs to a message of an older session, or   *)
(* its text is pushed or on the way.  A peer this device never dialled has *)
(* no key newer than the one held here.                                    *)
Follows(n, o) ==
    \/ n.key # key[o]
    \/ n \in accepted
    \/ \E h \in Slots : InPipe(h) /\ msg[h] = n

StoredFor(o) ==
    key[o] # NoKey =>
        /\ key[o] = issued[o]
        /\ seen[o]["text"] # NoSeq =>
              \E n \in sent : /\ n.origin = o /\ n.kind = "text"
                              /\ n.seq = seen[o]["text"] /\ Follows(n, o)
Stored == "text" \in Kinds => \A o \in Origins : Undialled(o) => StoredFor(o)

LEMMA StoredHandshake ==
    ASSUME IInv, OwnSession, Stored, NEW p \in Origins, Handshakes(p)
    PROVE  Stored'
<1> SUFFICES ASSUME "text" \in Kinds, NEW o \in Origins, Undialled(o)' PROVE StoredFor(o)'
  BY DEF Stored
<1>1. /\ UNCHANGED <<sent, pc, msg, accepted>> /\ dialled \subseteq dialled'
  BY DEF Handshakes, AcceptHandshake, AdoptReply, LoseReply, DialPeer, CompleteDial,
     LoseDial, Forget, sender, history
<1>2. Undialled(o) /\ StoredFor(o)
  BY <1>1 DEF Stored, Undialled
<1>3. CASE key'[o] = key[o] /\ issued'[o] = issued[o] /\ seen'[o] = seen[o]
  BY <1>1, <1>2, <1>3 DEF StoredFor, Follows, InPipe
<1>4. CASE key'[o] = NoKey
  BY <1>4 DEF StoredFor
<1>5. CASE key'[o] = issued'[o] /\ seen'[o]["text"] = NoSeq
  BY <1>5 DEF StoredFor
<1>6. CASE o # p
  <2>1. key'[o] = key[o] /\ issued'[o] = issued[o] /\ seen'[o] = seen[o]
    BY <1>6 DEF IInv, TypeOK, Handshakes, AcceptHandshake, AdoptReply, LoseReply, DialPeer,
       CompleteDial, LoseDial, Forget, Install, NewKey
  <2> QED
    BY <1>3, <2>1
<1>7. CASE o = p
  <2>1. CASE AcceptHandshake(o)
    BY <1>5, <2>1 DEF IInv, TypeOK, AcceptHandshake, Install, NewKey
  <2>2. CASE AdoptReply(o) \/ LoseReply(o)
    BY <1>3, <2>2 DEF AdoptReply, LoseReply
  <2>3. CASE Forget(o)
    BY <1>4, <2>3 DEF IInv, TypeOK, Forget
  <2>4. ~DialPeer(o)
    BY DEF DialPeer, Undialled
  <2>5. ~CompleteDial(o) /\ ~LoseDial(o)
    BY <1>2 DEF CompleteDial, LoseDial, OwnSession
  <2> QED
    BY <1>7, <2>1, <2>2, <2>3, <2>4, <2>5 DEF Handshakes
<1> QED
  BY <1>6, <1>7

LEMMA StoredHandle ==
    ASSUME IInv, Stored, NEW g \in Slots, Handle(g)
    PROVE  Stored'
<1> SUFFICES ASSUME "text" \in Kinds, NEW o \in Origins, Undialled(o)' PROVE StoredFor(o)'
  BY DEF Stored
<1>1. /\ UNCHANGED <<key, issued, sent, dialled>> /\ accepted \subseteq accepted'
      /\ \A h \in Slots : h # g => pc'[h] = pc[h] /\ msg'[h] = msg[h]
  BY DEF Handle, Deliver, Gate, CheckSeq, Decrypt, Push, Apply, Goto, session, sender, history,
     IInv, TypeOK
<1>2. Undialled(o) /\ StoredFor(o)
  BY <1>1 DEF Stored, Undialled
<1>3. ASSUME NEW n \in sent, n.origin = o, n.kind = "text", Follows(n, o)  PROVE Follows(n, o)'
  <2>1. CASE n.key # key[o] \/ n \in accepted
    BY <1>1, <2>1 DEF Follows
  <2>2. ASSUME n.key = key[o], NEW h \in Slots, InPipe(h), msg[h] = n  PROVE Follows(n, o)'
    <3>1. CASE h # g
      BY <1>1, <2>2, <3>1 DEF Follows, InPipe
    <3>2. CASE h = g
      <4>1. Decrypt(g) \/ Push(g)
        BY <2>2, <3>2 DEF InPipe, Handle, Deliver, Gate, CheckSeq, Apply, At
      <4>2. CASE Decrypt(g)
        <5>1. InPipe(g)' /\ msg'[g] = msg[g]
          BY <1>3, <2>2, <3>2, <4>2 DEF Decrypt, Goto, Origin, Kind, InPipe, IInv, TypeOK
        <5> QED
          BY <2>2, <3>2, <5>1 DEF Follows
      <4>3. CASE Push(g)
        BY <2>2, <3>2, <4>3 DEF Push, Follows
      <4> QED
        BY <4>1, <4>2, <4>3
    <3> QED
      BY <3>1, <3>2
  <2> QED
    BY <1>3, <2>1, <2>2 DEF Follows
<1>4. CASE seen'[o]["text"] = seen[o]["text"]
  <2>1. SUFFICES ASSUME key[o] # NoKey, seen[o]["text"] # NoSeq
                 PROVE  \E n \in sent : /\ n.origin = o /\ n.kind = "text"
                                        /\ n.seq = seen[o]["text"] /\ Follows(n, o)'
    BY <1>1, <1>2, <1>4 DEF StoredFor
  <2>2. PICK n \in sent : /\ n.origin = o /\ n.kind = "text"
                          /\ n.seq = seen[o]["text"] /\ Follows(n, o)
    BY <1>2, <2>1 DEF StoredFor
  <2>3. Follows(n, o)'
    BY <1>3, <2>2
  <2> QED
    BY <2>2, <2>3
<1>5. CASE seen'[o]["text"] # seen[o]["text"]
  <2>1. CheckSeq(g) /\ ~SeenSeq(Origin(g), Kind(g), msg[g].seq)
    BY <1>5 DEF Handle, Deliver, Gate, CheckSeq, Decrypt, Push, Apply, session
  <2>2. /\ seen' = [seen EXCEPT ![Origin(g)][Kind(g)] = msg[g].seq]
        /\ pc'[g] = "key" /\ msg'[g] = msg[g] /\ msg[g] \in sent
    BY <2>1 DEF CheckSeq, Goto, At, IInv, TypeOK, Carried, Busy
  <2>3. /\ msg[g].origin = o /\ msg[g].kind = "text"
        /\ seen'[o]["text"] = msg[g].seq
    BY <1>5, <2>2 DEF IInv, TypeOK, Origin, Kind
  <2>4. Follows(msg[g], o)'
    BY <2>2 DEF Follows, InPipe
  <2> QED
    BY <1>1, <1>2, <2>2, <2>3, <2>4 DEF StoredFor
<1> QED
  BY <1>4, <1>5

LEMMA StoredStep ==
    ASSUME IInv, OwnSession, Stored, [Next]_vars
    PROVE  Stored'
<1>1. CASE UNCHANGED vars
  BY <1>1 DEF vars, Stored, StoredFor, Follows, InPipe, Undialled
<1>2. ASSUME NEW o \in Origins, Handshakes(o) PROVE Stored'
  BY <1>2, StoredHandshake
<1>3. ASSUME NEW o \in Origins, NEW k \in Kinds, Send(o, k) PROVE Stored'
  <2>1. UNCHANGED <<key, seen, issued, dialled, pc, msg, accepted>> /\ sent \subseteq sent'
    BY <1>3 DEF Send, session, history
  <2> QED
    BY <2>1 DEF Stored, StoredFor, Follows, InPipe, Undialled
<1>4. CASE RestartSelf
  <2>1. \A o \in Origins : key'[o] = NoKey
    BY <1>4 DEF RestartSelf
  <2> QED
    BY <2>1 DEF Stored, StoredFor
<1>5. ASSUME NEW h \in Slots, Handle(h) PROVE Stored'
  BY <1>5, StoredHandle
<1> QED
  BY <1>1, <1>2, <1>3, <1>4, <1>5 DEF Next

(* For any number of peers, handlers and handshakes: a number drops a text *)
(* of the current session only when that text is overtaken, unless the     *)
(* peer was dialled or used its keys out of order.                         *)
THEOREM OnlyStaleDropped == Spec => DropsOnlyStaleInOrder
<1>1. ASSUME IInv, Stored, [Next]_vars, NEW h \in Slots,
             Origin(h) \notin dialled, KeysInOrder(Origin(h)), Refused(h), Current(h)
      PROVE  Overtaken(msg[h])
  <2> DEFINE o == msg[h].origin
             m == msg[h]
  <2>1. m \in Message /\ m \in sent /\ pc[h] = "seq" /\ pc'[h] = "idle"
    BY <1>1 DEF IInv, TypeOK, Carried, Busy, Refused, At
  <2>2. /\ o \in Origins /\ m.kind = "text" /\ "text" \in Kinds
        /\ m.key = key[o] /\ m.key \in Nat /\ m.key # NoKey
        /\ m.seq \in Nat /\ m.seq # NoSeq
    BY <1>1, <2>1, MessageFields DEF Current, Origin, Kind
  <2>3. CheckSeq(h)
    <3>1. pc \in [Slots -> Sections] /\ pc' # pc
      BY <1>1, <2>1 DEF IInv, TypeOK
    <3>2. PICK g \in Slots : Handle(g) \/ RestartSelf
      BY <1>1, <3>1 DEF Next, vars, Handshakes, AcceptHandshake, AdoptReply, LoseReply,
         DialPeer, CompleteDial, LoseDial, Forget, Send
    <3>3. ~RestartSelf
      BY <1>1, <2>2 DEF RestartSelf, Refused
    <3>4. g = h
      BY <2>1, <3>1, <3>2, <3>3 DEF Handle, Deliver, Gate, CheckSeq, Decrypt, Push, Apply, Goto, At
    <3> QED
      BY <2>1, <3>1, <3>2, <3>3, <3>4
         DEF Handle, Deliver, Gate, CheckSeq, Decrypt, Push, Apply, Goto, At
  <2>4. SeenSeq(o, m.kind, m.seq)
    BY <1>1, <2>1, <2>3 DEF CheckSeq, Goto, At, IInv, TypeOK, Origin, Kind
  <2>5. m.seq <= seen[o]["text"] /\ seen[o]["text"] \in Nat
    BY <1>1, <2>2, <2>4, NumbersAreNat DEF SeenSeq, IInv
  <2>6. key[o] # NoKey /\ seen[o]["text"] # NoSeq /\ StoredFor(o)
    BY <1>1, <2>2, <2>5 DEF Stored, Undialled, NoSeq, Origin
  <2>7. PICK n \in sent : /\ n.origin = o /\ n.kind = "text"
                          /\ n.seq = seen[o]["text"] /\ Follows(n, o)
    BY <2>6 DEF StoredFor
  <2>8. n \in Message /\ n.key \in Nat /\ n.seq \in Nat /\ n.key <= key[o]
    <3>1. n \in Message /\ n.key <= issued[n.origin]
      BY <1>1, <2>7 DEF IInv, TypeOK, Issued
    <3>2. key[o] = issued[o]
      BY <2>6 DEF StoredFor
    <3> QED
      BY <2>7, <3>1, <3>2, MessageFields
  <2>9. CASE n.key # key[o]
    <3>1. n.key < m.key
      BY <2>2, <2>8, <2>9
    <3>2. n.seq < m.seq
      BY <1>1, <2>1, <2>7, <3>1 DEF KeysInOrder, Origin
    <3> QED
      BY <2>2, <2>5, <2>7, <2>8, <3>2
  <2>10. CASE n.key = key[o]
    <3>1. SameStream(m, n) /\ n.seq >= m.seq
      BY <2>2, <2>5, <2>7, <2>8, <2>10 DEF SameStream
    <3> QED
      BY <2>7, <2>10, <3>1 DEF Follows, Overtaken, InPipe
  <2> QED
    BY <2>9, <2>10
<1>2. IInv /\ Stored /\ [Next]_vars =>
        [\A h \in Slots :
            /\ Origin(h) \notin dialled /\ KeysInOrder(Origin(h))
            /\ Refused(h) /\ Current(h)
            => Overtaken(msg[h])]_vars
  BY <1>1
<1>3. Init => OwnSession /\ Stored
  BY DEF Init, OwnSession, Stored, StoredFor
<1>4. Spec => [](OwnSession /\ Stored)
  BY <1>3, OwnSessionStep, StoredStep, InboxInvariant, PTL DEF Spec
<1> QED
  BY <1>2, <1>4, InboxInvariant, PTL DEF Spec, DropsOnlyStaleInOrder

-----------------------------------------------------------------------------
(* The clipboard thread.                                                   *)

(* The types hold in every reachable state.                                *)
THEOREM WatcherTypes == WatcherSpec => []WatcherTypeOK
<1>1. WatcherInit => WatcherTypeOK
  <2>1. <<>> \in Seq(Texts) /\ Len(<<>>) = 0
    OBVIOUS
  <2>2. ASSUME WatcherInit
        PROVE  /\ applyQ \in Seq(Texts) /\ Len(applyQ) <= ApplyCap
               /\ events \in Seq(Texts) /\ Len(events) <= EventCap
    BY <2>1, <2>2, CapAssumption DEF WatcherInit
  <2> QED
    BY <2>2 DEF WatcherInit, WatcherTypeOK, Contents
<1>2. WatcherTypeOK /\ [WatcherNext]_watcherVars => WatcherTypeOK'
  <2> SUFFICES ASSUME WatcherTypeOK, [WatcherNext]_watcherVars PROVE WatcherTypeOK'
    OBVIOUS
  <2> USE CapAssumption DEF WatcherTypeOK, counters
  <2>1. CASE UNCHANGED watcherVars
    BY <2>1 DEF watcherVars
  <2>2. CASE UserCopy
    BY <2>2 DEF UserCopy
  <2>3. ASSUME NEW t \in Texts, Offer(t) PROVE WatcherTypeOK'
    BY <2>3 DEF Offer
  <2>4. CASE Shutdown \/ TimePasses
    BY <2>4 DEF Shutdown, TimePasses
  <2>5. CASE CheckCancel
    BY <2>5 DEF CheckCancel
  <2>6. CASE ApplyText \/ FailedApply
    <3>1. applyQ # <<>> /\ applyQ' = Tail(applyQ)
      BY <2>6 DEF ApplyText, FailedApply
    <3>2. Head(applyQ) \in Texts /\ applyQ' \in Seq(Texts) /\ Len(applyQ') <= ApplyCap
      BY <3>1
    <3> QED
      BY <2>6, <3>2 DEF ApplyText, FailedApply, Contents
  <2>7. CASE Drained \/ FailedPoll \/ SkipPoll
    BY <2>7 DEF Drained, FailedPoll, SkipPoll
  <2>8. CASE Report
    <3>1. board \in Texts
      BY <2>8 DEF Report, Unchanged
    <3>2. events' \in Seq(Texts) /\ Len(events') <= EventCap
      <4>1. CASE Len(events) < EventCap
        <5>1. events' = Append(events, board)
          BY <2>8, <4>1 DEF Report
        <5>2. events' \in Seq(Texts) /\ Len(events') = Len(events) + 1 /\ Len(events) \in Nat
          BY <3>1, <5>1
        <5> QED
          BY <4>1, <5>2
      <4>2. CASE ~(Len(events) < EventCap)
        BY <2>8, <4>2 DEF Report
      <4> QED
        BY <4>1, <4>2
    <3> QED
      BY <2>8, <3>1, <3>2 DEF Report
  <2>9. CASE Consume
    <3>1. Head(events) \in Texts /\ events' \in Seq(Texts) /\ Len(events') <= EventCap
      BY <2>9 DEF Consume
    <3> QED
      BY <2>9, <3>1 DEF Consume
  <2> QED
    BY <2>1, <2>2, <2>3, <2>4, <2>5, <2>6, <2>7, <2>8, <2>9 DEF WatcherNext, ThreadStep
<1> QED
  BY <1>1, <1>2, PTL DEF WatcherSpec

(* The thread holds the hash of every text that is not the user's news.    *)
THEOREM HashTracks == WatcherSpec => []HashTracksBoard
<1>1. WatcherInit => HashTracksBoard
  BY DEF WatcherInit, HashTracksBoard
<1>2. HashTracksBoard /\ [WatcherNext]_watcherVars => HashTracksBoard'
  BY DEF HashTracksBoard, WatcherNext, watcherVars, counters, ThreadStep, UserCopy, Offer, Shutdown, TimePasses,
     CheckCancel, ApplyText, FailedApply, Drained, FailedPoll, SkipPoll, Report, Consume
<1> QED
  BY <1>1, <1>2, PTL DEF WatcherSpec

(* A step of the thread, its channels or the user is one of LocalNews.  The*)
(* hash tells a copy that waits from what the thread knows.                *)
LEMMA NewsStep ==
    WatcherTypeOK /\ HashTracksBoard /\ [WatcherNext]_watcherVars => [News!Next]_(News!vars)
<1> SUFFICES ASSUME WatcherTypeOK, HashTracksBoard, [WatcherNext]_watcherVars
             PROVE  [News!Next]_(News!vars)
  OBVIOUS
<1>1. CASE UserCopy
  <2>1. Waiting' \in Texts \cup {Nothing} /\ UNCHANGED <<events, local>>
    BY <1>1 DEF UserCopy, Waiting
  <2> QED
    BY <2>1 DEF News!Next, News!Copy
<1>2. CASE ApplyText
  <2>1. Waiting' = Nothing /\ UNCHANGED <<events, local>>
    BY <1>2 DEF ApplyText, Waiting
  <2> QED
    BY <2>1 DEF News!Next, News!Copy
<1>3. CASE Report
  <2>1. fresh /\ board \in Texts
    BY <1>3 DEF Report, Unchanged, HashTracksBoard
  <2>2. Waiting = board /\ Waiting # Nothing
    BY <2>1, TextAssumption DEF Waiting
  <2>3. Waiting' = Nothing
    BY <1>3 DEF Report, Waiting
  <2> QED
    BY <1>3, <2>2, <2>3 DEF Report, News!Next, News!Tell
<1>4. CASE Consume
  <2>1. Waiting' = Waiting
    BY <1>4 DEF Consume, Waiting
  <2> QED
    BY <1>4, <2>1 DEF Consume, News!Next, News!Arrive
<1>5. CASE UNCHANGED <<board, fresh, events, local>>
  BY <1>5 DEF Waiting, News!vars
<1> QED
  BY <1>1, <1>2, <1>3, <1>4, <1>5
     DEF WatcherNext, watcherVars, ThreadStep, Offer, Shutdown, TimePasses, CheckCancel,
         FailedApply, Drained, FailedPoll, SkipPoll, counters

(* No echo, no second report and no disorder: what reaches the history as  *)
(* local are copies of the user, for any texts and any capacities.         *)
THEOREM NoEcho == WatcherSpec => OnlyLocalNews
<1>1. WatcherInit => News!Init
  BY DEF WatcherInit, News!Init, Waiting
<1> QED
  BY <1>1, NewsStep, WatcherTypes, HashTracks, PTL DEF WatcherSpec, OnlyLocalNews, News!Spec
=============================================================================
