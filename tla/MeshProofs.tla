------------------------------- MODULE MeshProofs -------------------------------
(***************************************************************************)
(* Proofs about Mesh for any devices, joins and fan-out.                   *)
(*                                                                         *)
(* KnownIsMutual and KeysMatchUnlessRaced are not inductive: they say      *)
(* nothing of what a responder holds while its answer is on the way.       *)
(* MeshInv adds that.  CompleteIfAlone says nothing at all while dials are *)
(* under way; MergeInv says how far the merging of two groups has come.    *)
(***************************************************************************)
EXTENDS Mesh, FiniteSetTheorems, TLAPS

Raced(x) == Pair(x) \in raced

(* The responder of an answered dial knows the dialler, ...                *)
AnswerRecorded == \A x \in dials : Answered(x) => Knows(x.to, x.by)

(* ... and holds the key of the dial, unless it has a rival.               *)
AnswerHeld ==
    \A x \in dials : Answered(x) /\ ~ Raced(x) => key[x.to][x.by] = Key(x)

(* Two dials between the same devices under way at once are remembered.    *)
RaceNoticed ==
    \A x, y \in dials : Live(x) /\ Live(y) /\ Pair(x) = Pair(y) => x = y \/ Raced(x)

(* The task of a stub finds the member unknown until it installs it: what  *)
(* it would drop is the answer of a dial with a rival.                     *)
StubIsFirst == \A x \in dials : x.stub /\ Live(x) /\ ~ Raced(x) => ~ Knows(x.by, x.to)

MeshInv ==
    /\ TypeOK /\ AnswerRecorded /\ AnswerHeld /\ RaceNoticed /\ StubIsFirst
    /\ KnownIsMutual /\ KeysMatchUnlessRaced

-----------------------------------------------------------------------------
(* A dial that goes on keeps its ends, its key and its kind.               *)
Same(y, x) == y.by = x.by /\ y.to = x.to /\ y.twin = x.twin /\ y.stub = x.stub

Phases == {"request", "offer", "answer", "install", "choose", "announce", "tell"}

(* What TypeOK says of the dials alone.                                    *)
DialsOK ==
    /\ dials \subseteq Dial
    /\ \A x \in dials : x.by # x.to /\ x.by \notin x.list
    /\ \A x, y \in dials : Key(x) = Key(y) => x = y

(* A dial that goes on, or is over, leaves the dials well formed.          *)
LEMMA ReplaceType ==
    ASSUME DialsOK, NEW x \in dials, NEW y \in Dial, Same(y, x), x.by \notin y.list,
           NEW d2, d2 = (dials \ {x}) \cup {y} \/ d2 = dials \ {x}
    PROVE  /\ d2 \subseteq Dial
           /\ \A u \in d2 : u.by # u.to /\ u.by \notin u.list
           /\ \A u, v \in d2 : Key(u) = Key(v) => u = v
           /\ \A u \in d2 : Key(u) \in InUse
<1>1. Key(y) = Key(x)
  BY DEF Same, Key
<1>2. d2 \subseteq Dial
  BY DEF DialsOK
<1>3. \A u \in d2 : u.by # u.to /\ u.by \notin u.list
  BY DEF DialsOK, Same
<1>4. \A u, v \in d2 : Key(u) = Key(v) => u = v
  BY <1>1 DEF DialsOK
<1>5. \A u \in d2 : Key(u) \in InUse
  BY <1>1 DEF InUse
<1> QED BY <1>2, <1>3, <1>4, <1>5

LEMMA ReplaceDials ==
    ASSUME DialsOK, NEW x \in dials, NEW y \in Dial, Same(y, x), x.by \notin y.list,
           dials' = (dials \ {x}) \cup {y} \/ dials' = dials \ {x}
    PROVE  DialsOK'
<1>1. /\ dials' \subseteq Dial
      /\ \A u \in dials' : u.by # u.to /\ u.by \notin u.list
      /\ \A u, v \in dials' : Key(u) = Key(v) => u = v
  BY ReplaceType
<1> QED BY <1>1 DEF DialsOK, Key

(* So does a dial that starts.                                             *)
LEMMA OpenType ==
    ASSUME NEW d \in Devices, NEW e \in Devices, d # e, NEW stub \in BOOLEAN,
           NEW rest, rest \subseteq Dial,
           \A u \in rest : u.by # u.to /\ u.by \notin u.list,
           \A u, v \in rest : Key(u) = Key(v) => u = v,
           \A u \in rest : Key(u) \in InUse,
           Open(d, e, stub, rest), raced \subseteq SUBSET Devices
    PROVE  /\ DialsOK'
           /\ raced' \subseteq SUBSET Devices
<1>1. PICK n \in Free(d, e) :
          /\ dials' = rest \cup {[by |-> d, to |-> e, twin |-> n, stub |-> stub,
                                 phase |-> "request", list |-> {}, tell |-> {}]}
          /\ raced' = IF \E x \in rest : Live(x) /\ Pair(x) = {d, e}
                        THEN raced \cup {{d, e}} ELSE raced
  BY DEF Open
<1> DEFINE new == [by |-> d, to |-> e, twin |-> n, stub |-> stub,
                   phase |-> "request", list |-> {}, tell |-> {}]
<1>2. n \in 1..Twins /\ <<d, e, n>> \notin InUse
  BY DEF Free
<1>3. new \in Dial /\ new.by = d /\ new.to = e /\ new.list = {} /\ Key(new) = <<d, e, n>>
  BY <1>2 DEF Dial, Key
<1>4. \A u \in rest : Key(u) # Key(new)
  BY <1>2, <1>3
<1> HIDE DEF new
<1>5. dials' = rest \cup {new}
  BY <1>1 DEF new
<1>6. DialsOK'
  <2>1. dials' \subseteq Dial
    BY <1>3, <1>5
  <2>2. \A x \in dials' : x.by # x.to /\ x.by \notin x.list
    BY <1>3, <1>5
  <2>3. \A x, y \in dials' : Key(x) = Key(y) => x = y
    BY <1>4, <1>5
  <2> QED BY <2>1, <2>2, <2>3 DEF DialsOK, Key
<1> QED BY <1>1, <1>6

-----------------------------------------------------------------------------
LEMMA InstallType ==
    ASSUME TypeOK, NEW x \in dials, NEW a \in Devices, NEW b \in Devices, a # b,
           key' = [key EXCEPT ![a][b] = Key(x)]
    PROVE  /\ key' \in [Devices -> [Devices -> Keys \cup {NoKey}]]
           /\ \A d \in Devices : ~ Knows(d, d)'
           /\ \A d, e \in Devices : key'[d][e] = IF d = a /\ e = b THEN Key(x) ELSE key[d][e]
           /\ Key(x) # NoKey
<1>1. Key(x) \in Keys /\ Key(x) # NoKey
  BY DEF TypeOK, Dial, Key, Keys, NoKey
<1> HIDE DEF Key, Keys, NoKey
<1>2. key \in [Devices -> [Devices -> Keys \cup {NoKey}]]
  BY DEF TypeOK
<1>3. \A d, e \in Devices : key'[d][e] = IF d = a /\ e = b THEN Key(x) ELSE key[d][e]
  BY <1>2
<1>4. key' \in [Devices -> [Devices -> Keys \cup {NoKey}]]
  BY <1>1, <1>2
<1>5. \A d \in Devices : ~ Knows(d, d)'
  BY <1>3 DEF TypeOK, Knows
<1> QED BY <1>1, <1>3, <1>4, <1>5

LEMMA TypeInit == Init => TypeOK
BY ScenarioAssumption DEF Init, TypeOK, Knows, NoKey

LEMMA TypeStep == TypeOK /\ [Next]_vars => TypeOK'
<1> SUFFICES ASSUME TypeOK, [Next]_vars PROVE TypeOK'
  OBVIOUS
<1> DEFINE KeysOK == /\ key \in [Devices -> [Devices -> Keys \cup {NoKey}]]
                     /\ \A d \in Devices : ~ Knows(d, d)
           RestOK == /\ wanted \subseteq Wishes
                     /\ spare \in Nat /\ crowded \in BOOLEAN /\ truncated \in BOOLEAN
           RacedOK == raced \subseteq SUBSET Devices
<1>0. /\ TypeOK <=> KeysOK /\ DialsOK /\ RestOK /\ RacedOK
      /\ KeysOK /\ DialsOK /\ RestOK /\ RacedOK
  BY DEF TypeOK, DialsOK
<1>a. KeysOK' /\ DialsOK' /\ RestOK' /\ RacedOK' => TypeOK'
  BY DEF TypeOK, DialsOK, Key
<1>b. ASSUME UNCHANGED key PROVE KeysOK'
  BY <1>0, <1>b DEF Knows
<1>c. ASSUME UNCHANGED <<wanted, spare, crowded, truncated>> PROVE RestOK'
  BY <1>0, <1>c
<1>d. \A x \in dials : x \in Dial /\ x.by \in Devices /\ x.to \in Devices /\ x.by # x.to
                      /\ x.list \subseteq Devices /\ x.by \notin x.list
  BY DEF TypeOK, Dial
<1>e. \A x \in dials, ph \in Phases : Advance(x, ph) => DialsOK'
  <2> SUFFICES ASSUME NEW x \in dials, NEW ph \in Phases, Advance(x, ph) PROVE DialsOK'
    OBVIOUS
  <2>1. /\ [x EXCEPT !.phase = ph] \in Dial /\ Same([x EXCEPT !.phase = ph], x)
        /\ [x EXCEPT !.phase = ph].list = x.list
    BY <1>d DEF Dial, Same, Phases
  <2> QED BY <1>0, <1>d, <2>1, ReplaceDials DEF Advance
<1> HIDE DEF KeysOK, RestOK, RacedOK
<1>1. ASSUME NEW d \in Devices, NEW e \in Devices, Join(d, e) PROVE TypeOK'
  <2>1. d # e /\ RestOK'
    <3>1. wanted \subseteq Wishes /\ <<d, e>> \in wanted
      BY <1>0, <1>1 DEF Join, RestOK
    <3>2. d # e
      BY <3>1 DEF Wishes
    <3>3. wanted' \subseteq Wishes
      BY <3>1, <1>1 DEF Join
    <3>4. spare' \in Nat
      BY <1>0, <1>1 DEF Join, RestOK
    <3>5. crowded' \in BOOLEAN /\ truncated' \in BOOLEAN
      BY <1>0, <1>1, Zenon DEF Join, RestOK
    <3>6. RestOK'
      BY <3>3, <3>4, <3>5 DEF RestOK
    <3> QED BY <3>2, <3>6
  <2>2. DialsOK' /\ RacedOK'
    <3> DEFINE rest == dials
    <3>1. \A u \in rest : Key(u) \in InUse
      BY DEF InUse
    <3>2. rest \subseteq Dial /\ raced \subseteq SUBSET Devices
      BY DEF TypeOK
    <3>3. /\ \A u \in rest : u.by # u.to /\ u.by \notin u.list
          /\ \A u, v \in rest : Key(u) = Key(v) => u = v
      BY <1>0 DEF DialsOK
    <3>4. \E stub \in BOOLEAN : Open(d, e, stub, rest)
      BY <1>1 DEF Join
    <3> HIDE DEF rest
    <3>5. DialsOK' /\ raced' \subseteq SUBSET Devices
      BY <2>1, <3>1, <3>2, <3>3, <3>4, OpenType
    <3> QED BY <3>5 DEF RacedOK
  <2> QED BY <1>a, <1>b, <1>1, <2>1, <2>2 DEF Join
<1>2. ASSUME NEW x \in dials, Answer(x) PROVE TypeOK'
  <2>1. DialsOK'
    BY <1>2, <1>e DEF Answer, Phases
  <2>2. KeysOK'
    BY <1>2, <1>d, InstallType DEF Answer, KeysOK
  <2>3. RacedOK'
    BY <1>0, <1>2 DEF Answer, RacedOK
  <2> QED BY <1>a, <1>c, <1>2, <2>1, <2>2, <2>3 DEF Answer
<1>3. ASSUME NEW x \in dials, Offer(x) PROVE TypeOK'
  <2> DEFINE y == [x EXCEPT !.phase = "answer", !.list = Offered(x)]
  <2>1. Offered(x) \subseteq Devices /\ x.by \notin Offered(x)
    BY DEF Offered, Known
  <2>2. y \in Dial /\ Same(y, x) /\ y.list = Offered(x)
    BY <1>d, <2>1 DEF Dial, Same
  <2>3. dials' = (dials \ {x}) \cup {y}
    BY <1>3 DEF Offer
  <2> HIDE DEF y
  <2>4. DialsOK'
    BY <1>0, <2>1, <2>2, <2>3, ReplaceDials
  <2>5. RacedOK'
    BY <1>0, <1>3 DEF Offer, RacedOK
  <2> QED BY <1>a, <1>b, <1>c, <1>3, <2>4, <2>5 DEF Offer
<1>4. ASSUME NEW x \in dials, Finish(x) PROVE TypeOK'
  <2>1. DialsOK'
    BY <1>4, <1>e DEF Finish, Phases
  <2>2. KeysOK'
    BY <1>4, <1>d, InstallType DEF Finish, KeysOK
  <2>3. RacedOK'
    BY <1>0, <1>4 DEF Finish, RacedOK
  <2> QED BY <1>a, <1>c, <1>4, <2>1, <2>2, <2>3 DEF Finish
<1>5. ASSUME NEW x \in dials, Choose(x) PROVE TypeOK'
  <2>1. PICK chosen \in SUBSET Unknown(x) :
            dials' = (dials \ {x}) \cup {[x EXCEPT !.phase = "announce", !.list = chosen]}
    BY <1>5 DEF Choose
  <2> DEFINE y == [x EXCEPT !.phase = "announce", !.list = chosen]
  <2>2. chosen \subseteq Devices /\ x.by \notin chosen
    BY <1>d DEF Unknown
  <2>3. y \in Dial /\ Same(y, x) /\ y.list = chosen
    BY <1>d, <2>2 DEF Dial, Same
  <2> HIDE DEF y
  <2>4. DialsOK'
    BY <1>0, <2>1, <2>2, <2>3, ReplaceDials DEF y
  <2>5. RacedOK' /\ RestOK'
    BY <1>0, <1>5 DEF Choose, RacedOK, RestOK
  <2> QED BY <1>a, <1>b, <1>5, <2>4, <2>5 DEF Choose
<1>6. ASSUME NEW x \in dials, Announce(x) PROVE TypeOK'
  <2> DEFINE y == [x EXCEPT !.phase = "tell", !.tell = Known(x.by) \ {x.to}]
  <2>1. y \in Dial /\ Same(y, x) /\ y.list = x.list
    BY <1>d DEF Dial, Same, Known
  <2>2. dials' = (dials \ {x}) \cup {y} \/ dials' = dials \ {x}
    BY <1>6 DEF Announce, Rest
  <2> HIDE DEF y
  <2>3. DialsOK'
    BY <1>0, <1>d, <2>1, <2>2, ReplaceDials
  <2>4. RacedOK'
    BY <1>0, <1>6 DEF Announce, RacedOK
  <2> QED BY <1>a, <1>b, <1>c, <1>6, <2>3, <2>4 DEF Announce
<1>7. ASSUME NEW x \in dials, FinishStub(x) PROVE TypeOK'
  <2>1. DialsOK'
    BY <1>0, <1>7, <1>e DEF FinishStub, Phases, DialsOK, Key
  <2>2. RacedOK'
    BY <1>0, <1>7 DEF FinishStub, RacedOK
  <2> QED BY <1>a, <1>b, <1>c, <1>7, <2>1, <2>2 DEF FinishStub
<1>8. ASSUME NEW x \in dials, InstallStub(x) PROVE TypeOK'
  <2>1. DialsOK'
    BY <1>0, <1>8 DEF InstallStub, DialsOK, Key
  <2>2. KeysOK'
    BY <1>8, <1>d, InstallType DEF InstallStub, KeysOK
  <2>3. RacedOK'
    BY <1>0, <1>8 DEF InstallStub, RacedOK
  <2> QED BY <1>a, <1>c, <1>8, <2>1, <2>2, <2>3 DEF InstallStub
<1>9. ASSUME NEW x \in dials, NEW e \in Devices, BeginStub(x, e) PROVE TypeOK'
  <2> DEFINE y == [x EXCEPT !.list = @ \ {e}]
             rest == (dials \ {x}) \cup Rest(y)
  <2>1. y \in Dial /\ Same(y, x) /\ y.list = x.list \ {e}
    BY <1>d DEF Dial, Same
  <2>2. rest = (dials \ {x}) \cup {y} \/ rest = dials \ {x}
    BY DEF Rest
  <2>3. /\ e \in x.list
        /\ \/ dials' = rest /\ UNCHANGED raced
           \/ Open(x.by, e, TRUE, rest)
    BY <1>9 DEF BeginStub
  <2> HIDE DEF y, rest
  <2>4. /\ rest \subseteq Dial
        /\ \A u \in rest : u.by # u.to /\ u.by \notin u.list
        /\ \A u, v \in rest : Key(u) = Key(v) => u = v
        /\ \A u \in rest : Key(u) \in InUse
    BY <1>0, <1>d, <2>1, <2>2, ReplaceType
  <2>5. DialsOK' /\ RacedOK'
    <3>1. CASE dials' = rest /\ UNCHANGED raced
      BY <1>0, <2>4, <3>1 DEF DialsOK, Key, RacedOK
    <3>2. CASE Open(x.by, e, TRUE, rest)
      <4>1. x.by \in Devices /\ x.by # e
        BY <1>d, <2>3
      <4>2. raced \subseteq SUBSET Devices
        BY DEF TypeOK
      <4> QED BY <2>4, <3>2, <4>1, <4>2, OpenType DEF RacedOK
    <3> QED BY <2>3, <3>1, <3>2
  <2> QED BY <1>a, <1>b, <1>c, <1>9, <2>5 DEF BeginStub
<1>10. ASSUME NEW x \in dials, NEW r \in Devices, Tell(x, r) PROVE TypeOK'
  <2> DEFINE y == [x EXCEPT !.tell = @ \ {r}]
             rest == (dials \ {x}) \cup Rest(y)
  <2>0. x.tell \subseteq Devices
    BY <1>d DEF Dial
  <2>1. y \in Dial /\ Same(y, x) /\ y.list = x.list
    BY <1>d, <2>0 DEF Dial, Same
  <2>2. rest = (dials \ {x}) \cup {y} \/ rest = dials \ {x}
    BY DEF Rest
  <2>3. \/ dials' = rest /\ UNCHANGED raced
        \/ r # x.to /\ Open(r, x.to, FALSE, rest)
    BY <1>10 DEF Tell, Heeds
  <2> HIDE DEF y, rest
  <2>4. /\ rest \subseteq Dial
        /\ \A u \in rest : u.by # u.to /\ u.by \notin u.list
        /\ \A u, v \in rest : Key(u) = Key(v) => u = v
        /\ \A u \in rest : Key(u) \in InUse
    BY <1>0, <1>d, <2>1, <2>2, ReplaceType
  <2>5. DialsOK' /\ RacedOK'
    <3>1. CASE dials' = rest /\ UNCHANGED raced
      BY <1>0, <2>4, <3>1 DEF DialsOK, Key, RacedOK
    <3>2. CASE r # x.to /\ Open(r, x.to, FALSE, rest)
      BY <1>0, <1>d, <2>4, <3>2, OpenType DEF RacedOK
    <3> QED BY <2>3, <3>1, <3>2
  <2> QED BY <1>a, <1>b, <1>c, <1>10, <2>5 DEF Tell
<1>11. CASE UNCHANGED vars
  BY <1>0, <1>a, <1>b, <1>c, <1>11 DEF vars, DialsOK, RacedOK, Key
<1> QED
  BY <1>1, <1>2, <1>3, <1>4, <1>5, <1>6, <1>7, <1>8, <1>9, <1>10, <1>11 DEF Next, DialStep

(* The types hold for any devices, joins and fan-out: no device knows,     *)
(* dials or is offered itself (handshake.rs:87, client.rs:434), and every  *)
(* dial has a key of its own.                                              *)
THEOREM TypeCorrect == Spec => []TypeOK
BY TypeInit, TypeStep, PTL DEF Spec

-----------------------------------------------------------------------------
LEMMA PairsMeetAlike ==
    ASSUME NEW a, NEW b, NEW c, NEW d
    PROVE  {a, b} = {c, d} <=> (a = c /\ b = d) \/ (a = d /\ b = c)
OBVIOUS

(* A step that installs no key keeps MeshInv: each dial after it is one    *)
(* from before, no further on than it was, or a request whose rivals are   *)
(* noticed; and an answer is dropped only if the dial has a rival.         *)
LEMMA QuietStep ==
    ASSUME MeshInv, TypeOK', UNCHANGED key, raced \subseteq raced', NEW new,
           \A y \in dials' :
              \/ /\ y = new /\ y.phase = "request"
                 /\ y.stub => ~ Knows(y.by, y.to)
                 /\ \A x \in dials : Live(x) /\ Pair(x) = Pair(y) => Pair(y) \in raced'
              \/ \E x \in dials : Same(y, x) /\ (Live(y) => Live(x)) /\ (Answered(y) => Answered(x)),
           \A x \in dials : Answered(x) =>
              \/ \E y \in dials' : Same(y, x) /\ Answered(y)
              \/ Knows(x.by, x.to) /\ Raced(x)
    PROVE  MeshInv'
<1> USE DEF MeshInv
<1>1. \A d, e \in Devices : Knows(d, e)' <=> Knows(d, e)
  BY DEF Knows
<1>2. \A y, x : Same(y, x) => Key(y) = Key(x) /\ Pair(y) = Pair(x)
  BY DEF Same, Key, Pair
<1>3. \A x \in dials : x.by \in Devices /\ x.to \in Devices
  BY DEF TypeOK, Dial
<1>4. \A y \in dials' : y.by \in Devices /\ y.to \in Devices
  BY DEF TypeOK, Dial
<1>5. AnswerRecorded'
  <2> SUFFICES ASSUME NEW y \in dials', Answered(y) PROVE Knows(y.to, y.by)'
    BY DEF AnswerRecorded, Answered
  <2>1. PICK x \in dials : Same(y, x) /\ Answered(x)
    BY DEF Answered
  <2> QED BY <1>1, <1>3, <2>1 DEF AnswerRecorded, Same
<1>6. AnswerHeld'
  <2> SUFFICES ASSUME NEW y \in dials', Answered(y), Pair(y) \notin raced'
               PROVE  key[y.to][y.by] = Key(y)
    BY DEF AnswerHeld, Answered, Raced, Pair, Key
  <2>1. PICK x \in dials : Same(y, x) /\ Answered(x)
    BY DEF Answered
  <2> QED BY <1>2, <2>1 DEF AnswerHeld, Same, Raced
<1>7. RaceNoticed'
  <2> SUFFICES ASSUME NEW u \in dials', NEW v \in dials', Live(u), Live(v), Pair(u) = Pair(v),
                      Pair(u) \notin raced'
               PROVE  u = v
    BY DEF RaceNoticed, Live, Answered, Raced, Pair
  <2>1. CASE \E x \in dials : Same(u, x) /\ Live(x)
    <3>1. PICK x \in dials : Same(u, x) /\ Live(x)
      BY <2>1
    <3>2. PICK z \in dials : Same(v, z) /\ Live(z)
      BY <1>2, <3>1
    <3>3. x = z
      BY <1>2, <3>1, <3>2 DEF RaceNoticed, Raced
    <3> QED BY <1>2, <3>1, <3>2, <3>3 DEF TypeOK, Key
  <2>2. CASE \E x \in dials : Same(v, x) /\ Live(x)
    <3>1. PICK x \in dials : Same(v, x) /\ Live(x)
      BY <2>2
    <3>2. \E z \in dials : Same(u, z) /\ Live(z)
      BY <1>2, <3>1
    <3> QED BY <2>1, <3>2
  <2>3. CASE u = new /\ v = new
    BY <2>3
  <2> QED BY <2>1, <2>2, <2>3
<1>8. StubIsFirst'
  <2> SUFFICES ASSUME NEW y \in dials', y.stub, Live(y), Pair(y) \notin raced'
               PROVE  ~ Knows(y.by, y.to)
    BY <1>1, <1>4 DEF StubIsFirst, Live, Answered, Raced, Pair
  <2> QED BY <1>2 DEF StubIsFirst, Same, Raced
<1>9. KnownIsMutual'
  <2> SUFFICES ASSUME NEW d \in Devices, NEW e \in Devices, Knows(d, e), ~ Knows(e, d)
               PROVE  \E y \in dials' : y.by = e /\ y.to = d /\ Answered(y)
    BY <1>1 DEF KnownIsMutual, Answered
  <2>1. PICK x \in dials : x.by = e /\ x.to = d /\ Answered(x)
    BY DEF KnownIsMutual
  <2> QED BY <2>1 DEF Same
<1>10. KeysMatchUnlessRaced'
  <2> SUFFICES ASSUME NEW d \in Devices, NEW e \in Devices, {d, e} \notin raced',
                      \A y \in dials' : Pair(y) = {d, e} => ~ Answered(y)
               PROVE  key[d][e] = key[e][d]
    BY DEF KeysMatchUnlessRaced, Pair, Answered
  <2>1. \A x \in dials : Pair(x) = {d, e} => ~ Answered(x)
    BY <1>2 DEF Raced
  <2> QED BY <2>1 DEF KeysMatchUnlessRaced
<1> QED BY <1>5, <1>6, <1>7, <1>8, <1>9, <1>10

(* What an installation under the dial x does to what the devices know.    *)
LEMMA Installed ==
    ASSUME TypeOK, NEW x \in dials, NEW a \in Devices, NEW b \in Devices, a # b,
           key' = [key EXCEPT ![a][b] = Key(x)]
    PROVE  /\ \A d, e \in Devices : key'[d][e] = IF d = a /\ e = b THEN Key(x) ELSE key[d][e]
           /\ \A d, e \in Devices : Knows(d, e)' <=> Knows(d, e) \/ (d = a /\ e = b)
<1>1. /\ \A d, e \in Devices : key'[d][e] = IF d = a /\ e = b THEN Key(x) ELSE key[d][e]
      /\ Key(x) # NoKey
  BY InstallType
<1> QED BY <1>1 DEF Knows

(* The responder installs the dialler.                                     *)
LEMMA AnswerStep ==
    ASSUME MeshInv, TypeOK', NEW x \in dials, Answer(x)
    PROVE  MeshInv'
<1> USE DEF MeshInv
<1> DEFINE y == [x EXCEPT !.phase = "offer"]
<1>1. x \in Dial /\ x.by \in Devices /\ x.to \in Devices /\ x.by # x.to
  BY DEF TypeOK, Dial
<1>2. Same(y, x) /\ y.phase = "offer"
  BY <1>1 DEF Same, Dial
<1>3. dials' = (dials \ {x}) \cup {y} /\ x.phase = "request" /\ UNCHANGED raced
  BY DEF Answer, Advance
<1> HIDE DEF y
<1>4. /\ \A d, e \in Devices :
            key'[d][e] = IF d = x.to /\ e = x.by THEN Key(x) ELSE key[d][e]
      /\ \A d, e \in Devices : Knows(d, e)' <=> Knows(d, e) \/ (d = x.to /\ e = x.by)
  BY <1>1, Installed DEF Answer
<1>5. Key(y) = Key(x) /\ Pair(y) = Pair(x) /\ Answered(y) /\ Live(x) /\ ~ Answered(x)
  BY <1>2, <1>3 DEF Same, Key, Pair, Answered, Live
<1>6. \A u \in dials' : u.by \in Devices /\ u.to \in Devices
  BY DEF TypeOK, Dial
<1>7. \A u \in dials : Live(u) /\ Pair(u) = Pair(x) /\ ~ Raced(u) => u = x
  BY <1>5 DEF RaceNoticed
<1>8. AnswerRecorded'
  <2> SUFFICES ASSUME NEW u \in dials', Answered(u) PROVE Knows(u.to, u.by)'
    BY DEF AnswerRecorded, Answered
  <2> QED BY <1>2, <1>3, <1>4, <1>6 DEF AnswerRecorded, Same
<1>9. AnswerHeld'
  <2> SUFFICES ASSUME NEW u \in dials', Answered(u), Pair(u) \notin raced
               PROVE  key'[u.to][u.by] = Key(u)
    BY <1>3 DEF AnswerHeld, Answered, Raced, Pair, Key
  <2>1. CASE u = y
    BY <1>2, <1>1, <1>4, <1>5, <2>1 DEF Same
  <2>2. CASE u \in dials /\ u # x
    <3>1. Pair(u) # Pair(x)
      BY <1>7, <2>2 DEF Live, Raced
    <3>2. ~ (u.to = x.to /\ u.by = x.by)
      BY <3>1 DEF Pair
    <3>3. key[u.to][u.by] = Key(u)
      BY <2>2 DEF AnswerHeld, Raced
    <3> QED BY <1>4, <1>6, <3>2, <3>3
  <2> QED BY <1>3, <2>1, <2>2
<1>10. RaceNoticed'
  <2> SUFFICES ASSUME NEW u \in dials', NEW v \in dials', Live(u), Live(v), Pair(u) = Pair(v),
                      Pair(u) \notin raced
               PROVE  u = v
    BY <1>3 DEF RaceNoticed, Live, Answered, Raced, Pair
  <2> QED BY <1>3, <1>5, <1>7 DEF RaceNoticed, Raced
<1>11. StubIsFirst'
  <2> SUFFICES ASSUME NEW u \in dials', u.stub, Live(u), Pair(u) \notin raced
               PROVE  ~ Knows(u.by, u.to)'
    BY <1>3 DEF StubIsFirst, Live, Answered, Raced, Pair
  <2>1. CASE u = y
    BY <1>1, <1>2, <1>4, <1>5, <2>1 DEF StubIsFirst, Same, Raced
  <2>2. CASE u \in dials /\ u # x
    <3>1. Pair(u) # Pair(x)
      BY <1>7, <2>2 DEF Raced
    <3>2. ~ (u.by = x.to /\ u.to = x.by)
      BY <3>1, PairsMeetAlike DEF Pair
    <3> QED BY <1>4, <1>6, <2>2, <3>2 DEF StubIsFirst, Raced
  <2> QED BY <1>3, <2>1, <2>2
<1>12. KnownIsMutual'
  <2> SUFFICES ASSUME NEW d \in Devices, NEW e \in Devices, Knows(d, e)', ~ Knows(e, d)'
               PROVE  \E u \in dials' : u.by = e /\ u.to = d /\ Answered(u)
    BY DEF KnownIsMutual, Answered
  <2>1. CASE d = x.to /\ e = x.by
    BY <1>2, <1>3, <1>5, <2>1 DEF Same
  <2>2. CASE ~ (d = x.to /\ e = x.by)
    <3>1. PICK u \in dials : u.by = e /\ u.to = d /\ Answered(u)
      BY <1>4, <2>2 DEF KnownIsMutual
    <3> QED BY <1>3, <1>5, <3>1
  <2> QED BY <2>1, <2>2
<1>13. KeysMatchUnlessRaced'
  <2> SUFFICES ASSUME NEW d \in Devices, NEW e \in Devices, {d, e} \notin raced,
                      \A u \in dials' : Pair(u) = {d, e} => ~ Answered(u)
               PROVE  key'[d][e] = key'[e][d]
    BY <1>3 DEF KeysMatchUnlessRaced, Pair, Answered
  <2>1. Pair(x) # {d, e}
    BY <1>3, <1>5
  <2>2. ~ (d = x.to /\ e = x.by) /\ ~ (e = x.to /\ d = x.by)
    BY <2>1, PairsMeetAlike DEF Pair
  <2>3. key[d][e] = key[e][d]
    BY <1>3, <1>5 DEF KeysMatchUnlessRaced
  <2> QED BY <1>4, <2>2, <2>3
<1> QED BY <1>8, <1>9, <1>10, <1>11, <1>12, <1>13

(* The dialler installs the responder, whose answer it has.                *)
LEMMA DiallerStep ==
    ASSUME MeshInv, TypeOK', NEW x \in dials, Answered(x), NEW y, ~ Live(y),
           key' = [key EXCEPT ![x.by][x.to] = Key(x)], UNCHANGED raced,
           dials' = (dials \ {x}) \cup {y} \/ dials' = dials \ {x}
    PROVE  MeshInv'
<1> USE DEF MeshInv
<1>1. x.by \in Devices /\ x.to \in Devices /\ x.by # x.to
  BY DEF TypeOK, Dial
<1>2. Live(x) /\ ~ Answered(y)
  BY DEF Live
<1>3. /\ \A d, e \in Devices :
            key'[d][e] = IF d = x.by /\ e = x.to THEN Key(x) ELSE key[d][e]
      /\ \A d, e \in Devices : Knows(d, e)' <=> Knows(d, e) \/ (d = x.by /\ e = x.to)
  BY <1>1, Installed
<1>4. \A u \in dials' : u.by \in Devices /\ u.to \in Devices
  BY DEF TypeOK, Dial
<1>5. \A u \in dials' : Live(u) => u \in dials /\ u # x
  BY <1>2
<1>6. \A u \in dials' : Live(u) /\ Pair(u) = Pair(x) => Raced(u)
  BY <1>2, <1>5 DEF RaceNoticed
<1>7. AnswerRecorded'
  <2> SUFFICES ASSUME NEW u \in dials', Answered(u) PROVE Knows(u.to, u.by)'
    BY DEF AnswerRecorded, Answered
  <2> QED BY <1>3, <1>4, <1>5 DEF AnswerRecorded, Live
<1>8. AnswerHeld'
  <2> SUFFICES ASSUME NEW u \in dials', Answered(u), Pair(u) \notin raced
               PROVE  key'[u.to][u.by] = Key(u)
    BY DEF AnswerHeld, Answered, Raced, Pair, Key
  <2>1. Pair(u) # Pair(x)
    BY <1>6 DEF Live, Raced
  <2>2. ~ (u.to = x.by /\ u.by = x.to)
    BY <2>1, PairsMeetAlike DEF Pair
  <2>3. key[u.to][u.by] = Key(u)
    BY <1>5 DEF AnswerHeld, Live, Raced
  <2> QED BY <1>3, <1>4, <2>2, <2>3
<1>9. RaceNoticed'
  <2> SUFFICES ASSUME NEW u \in dials', NEW v \in dials', Live(u), Live(v), Pair(u) = Pair(v),
                      Pair(u) \notin raced
               PROVE  u = v
    BY DEF RaceNoticed, Live, Answered, Raced, Pair
  <2> QED BY <1>5 DEF RaceNoticed, Raced
<1>10. StubIsFirst'
  <2> SUFFICES ASSUME NEW u \in dials', u.stub, Live(u), Pair(u) \notin raced
               PROVE  ~ Knows(u.by, u.to)'
    BY DEF StubIsFirst, Live, Answered, Raced, Pair
  <2>1. Pair(u) # Pair(x)
    BY <1>6 DEF Raced
  <2>2. ~ (u.by = x.by /\ u.to = x.to)
    BY <2>1 DEF Pair
  <2> QED BY <1>3, <1>4, <1>5, <2>2 DEF StubIsFirst, Raced
<1>11. KnownIsMutual'
  <2> SUFFICES ASSUME NEW d \in Devices, NEW e \in Devices, Knows(d, e)', ~ Knows(e, d)'
               PROVE  \E u \in dials' : u.by = e /\ u.to = d /\ Answered(u)
    BY DEF KnownIsMutual, Answered
  <2>1. Knows(x.to, x.by)
    BY DEF AnswerRecorded
  <2>2. Knows(d, e) /\ ~ Knows(e, d)
    BY <1>1, <1>3, <2>1
  <2>3. PICK u \in dials : u.by = e /\ u.to = d /\ Answered(u)
    BY <2>2 DEF KnownIsMutual
  <2>4. u # x
    BY <1>3, <2>3
  <2> QED BY <2>3, <2>4
<1>12. KeysMatchUnlessRaced'
  <2> SUFFICES ASSUME NEW d \in Devices, NEW e \in Devices, {d, e} \notin raced,
                      \A u \in dials' : Pair(u) = {d, e} => ~ Answered(u)
               PROVE  key'[d][e] = key'[e][d]
    BY DEF KeysMatchUnlessRaced, Pair, Answered
  <2>1. CASE Pair(x) = {d, e}
    <3>1. (d = x.by /\ e = x.to) \/ (d = x.to /\ e = x.by)
      BY <2>1, PairsMeetAlike DEF Pair
    <3>2. key[x.to][x.by] = Key(x)
      BY <2>1 DEF AnswerHeld, Raced
    <3> QED BY <1>1, <1>3, <3>1, <3>2
  <2>2. CASE Pair(x) # {d, e}
    <3>1. ~ (d = x.by /\ e = x.to) /\ ~ (e = x.by /\ d = x.to)
      BY <2>2, PairsMeetAlike DEF Pair
    <3>2. \A u \in dials : Pair(u) = {d, e} => ~ Answered(u)
      BY <2>2
    <3>3. key[d][e] = key[e][d]
      BY <3>2 DEF KeysMatchUnlessRaced
    <3> QED BY <1>3, <3>1, <3>3
  <2> QED BY <2>1, <2>2
<1> QED BY <1>7, <1>8, <1>9, <1>10, <1>11, <1>12

(* A dial goes on, or is dropped, and nothing is installed.                *)
LEMMA MoveStep ==
    ASSUME MeshInv, TypeOK', UNCHANGED key, UNCHANGED raced, NEW x \in dials, NEW y, Same(y, x),
           Live(y) => Live(x), Answered(y) <=> Answered(x),
           \/ dials' = (dials \ {x}) \cup {y}
           \/ dials' = dials \ {x} /\ (Answered(x) => Knows(x.by, x.to) /\ Raced(x))
    PROVE  MeshInv'
<1>1. \A u \in dials' : \E v \in dials :
         Same(u, v) /\ (Live(u) => Live(v)) /\ (Answered(u) => Answered(v))
  BY DEF Same
<1>2. \A v \in dials : Answered(v) =>
         \/ \E u \in dials' : Same(u, v) /\ Answered(u)
         \/ Knows(v.by, v.to) /\ Raced(v)
  BY DEF Same
<1>3. raced \subseteq raced'
  OBVIOUS
<1> QED BY <1>1, <1>2, <1>3, QuietStep

(* A dial starts; the dials that are live are kept by rest.                *)
LEMMA OpenStep ==
    ASSUME MeshInv, TypeOK', UNCHANGED key, NEW d \in Devices, NEW e \in Devices,
           NEW stub \in BOOLEAN, NEW rest, Open(d, e, stub, rest), stub => ~ Knows(d, e),
           \A u \in rest : \E v \in dials : Same(u, v) /\ (u = v \/ ~ Live(u)),
           \A v \in dials : Live(v) => v \in rest
    PROVE  MeshInv'
<1>1. PICK n \in Free(d, e) :
          /\ dials' = rest \cup {[by |-> d, to |-> e, twin |-> n, stub |-> stub,
                                 phase |-> "request", list |-> {}, tell |-> {}]}
          /\ raced' = IF \E x \in rest : Live(x) /\ Pair(x) = {d, e}
                        THEN raced \cup {{d, e}} ELSE raced
  BY DEF Open
<1> DEFINE new == [by |-> d, to |-> e, twin |-> n, stub |-> stub,
                   phase |-> "request", list |-> {}, tell |-> {}]
<1>2. /\ new.phase = "request" /\ new.by = d /\ new.to = e /\ Pair(new) = {d, e}
      /\ new.stub => ~ Knows(new.by, new.to)
  BY DEF Pair
<1> HIDE DEF new
<1>3. dials' = rest \cup {new}
  BY <1>1 DEF new
<1>4. \A x \in dials : Live(x) /\ Pair(x) = Pair(new) => Pair(new) \in raced'
  BY <1>1, <1>2
<1>5. \A y \in dials' :
         \/ /\ y = new /\ y.phase = "request"
            /\ y.stub => ~ Knows(y.by, y.to)
            /\ \A x \in dials : Live(x) /\ Pair(x) = Pair(y) => Pair(y) \in raced'
         \/ \E x \in dials : Same(y, x) /\ (Live(y) => Live(x)) /\ (Answered(y) => Answered(x))
  <2> SUFFICES ASSUME NEW y \in rest
               PROVE  \E x \in dials : /\ Same(y, x) /\ (Live(y) => Live(x))
                                       /\ (Answered(y) => Answered(x))
    BY <1>2, <1>3, <1>4
  <2>1. PICK x \in dials : Same(y, x) /\ (y = x \/ ~ Live(y))
    OBVIOUS
  <2> QED BY <2>1 DEF Live
<1>6. \A x \in dials : Answered(x) =>
         \/ \E y \in dials' : Same(y, x) /\ Answered(y)
         \/ Knows(x.by, x.to) /\ Raced(x)
  BY <1>3 DEF Live, Same
<1>7. raced \subseteq raced'
  BY <1>1
<1> QED BY <1>5, <1>6, <1>7, QuietStep

-----------------------------------------------------------------------------
LEMMA InvInit == Init => MeshInv
BY TypeInit DEF Init, MeshInv, AnswerRecorded, AnswerHeld, RaceNoticed, StubIsFirst,
                KnownIsMutual, KeysMatchUnlessRaced, Knows

LEMMA InvStep == MeshInv /\ [Next]_vars => MeshInv'
<1> SUFFICES ASSUME MeshInv, [Next]_vars PROVE MeshInv'
  OBVIOUS
<1>0. TypeOK /\ TypeOK'
  BY TypeStep DEF MeshInv
<1>a. \A x \in dials : x \in Dial /\ x.by \in Devices
  BY <1>0 DEF TypeOK, Dial
<1>1. ASSUME NEW d \in Devices, NEW e \in Devices, Join(d, e) PROVE MeshInv'
  <2> DEFINE rest == dials
  <2>1. \A u \in rest : \E v \in dials : Same(u, v) /\ (u = v \/ ~ Live(u))
    BY DEF Same
  <2>2. \A v \in dials : Live(v) => v \in rest
    OBVIOUS
  <2>3. \E stub \in BOOLEAN : Open(d, e, stub, rest) /\ ~ stub
    BY <1>1 DEF Join
  <2>4. UNCHANGED key
    BY <1>1 DEF Join
  <2> HIDE DEF rest
  <2> QED BY <1>0, <2>1, <2>2, <2>3, <2>4, OpenStep
<1>2. ASSUME NEW x \in dials, Answer(x) PROVE MeshInv'
  BY <1>0, <1>2, AnswerStep
<1>3. ASSUME NEW x \in dials, Offer(x) PROVE MeshInv'
  <2> DEFINE y == [x EXCEPT !.phase = "answer", !.list = Offered(x)]
  <2>1. Same(y, x) /\ y.phase = "answer"
    BY <1>a DEF Dial, Same
  <2>2. dials' = (dials \ {x}) \cup {y} /\ x.phase = "offer" /\ UNCHANGED key /\ UNCHANGED raced
    BY <1>3 DEF Offer
  <2> HIDE DEF y
  <2>3. Answered(x) /\ Answered(y) /\ Live(x)
    BY <2>1, <2>2 DEF Answered, Live
  <2> QED BY <1>0, <2>1, <2>2, <2>3, MoveStep
<1>4. ASSUME NEW x \in dials, Finish(x) PROVE MeshInv'
  <2> DEFINE y == [x EXCEPT !.phase = "choose"]
  <2>1. ~ Live(y) /\ Answered(x)
    BY <1>4, <1>a DEF Finish, Dial, Live, Answered
  <2>2. /\ dials' = (dials \ {x}) \cup {y} /\ UNCHANGED raced
        /\ key' = [key EXCEPT ![x.by][x.to] = Key(x)]
    BY <1>4 DEF Finish, Advance
  <2> HIDE DEF y
  <2> QED BY <1>0, <2>1, <2>2, DiallerStep
<1>5. ASSUME NEW x \in dials, Choose(x) PROVE MeshInv'
  <2>1. PICK chosen : dials' = (dials \ {x}) \cup {[x EXCEPT !.phase = "announce", !.list = chosen]}
    BY <1>5 DEF Choose
  <2> DEFINE y == [x EXCEPT !.phase = "announce", !.list = chosen]
  <2>2. Same(y, x) /\ ~ Live(y) /\ ~ Answered(y) /\ ~ Answered(x)
    BY <1>5, <1>a DEF Choose, Dial, Same, Live, Answered
  <2>3. dials' = (dials \ {x}) \cup {y} /\ UNCHANGED key /\ UNCHANGED raced
    BY <1>5, <2>1 DEF Choose
  <2> HIDE DEF y
  <2> QED BY <1>0, <2>2, <2>3, MoveStep
<1>6. ASSUME NEW x \in dials, Announce(x) PROVE MeshInv'
  <2> DEFINE y == [x EXCEPT !.phase = "tell", !.tell = Known(x.by) \ {x.to}]
  <2>1. Same(y, x) /\ ~ Live(y) /\ ~ Answered(y) /\ ~ Answered(x)
    BY <1>6, <1>a DEF Announce, Dial, Same, Live, Answered
  <2>2. /\ dials' = (dials \ {x}) \cup {y} \/ dials' = dials \ {x}
        /\ UNCHANGED key /\ UNCHANGED raced
    BY <1>6 DEF Announce, Rest
  <2> HIDE DEF y
  <2> QED BY <1>0, <2>1, <2>2, MoveStep
<1>7. ASSUME NEW x \in dials, FinishStub(x) PROVE MeshInv'
  <2> DEFINE y == [x EXCEPT !.phase = "install"]
  <2>1. Same(y, x) /\ Live(x) /\ Answered(y) /\ Answered(x)
    BY <1>7, <1>a DEF FinishStub, Dial, Same, Live, Answered
  <2>2. /\ \/ dials' = (dials \ {x}) \cup {y}
           \/ dials' = dials \ {x} /\ Knows(x.by, x.to)
        /\ UNCHANGED key /\ UNCHANGED raced
    BY <1>7 DEF FinishStub, Advance
  <2>3. Knows(x.by, x.to) => Raced(x)
    BY <1>7, <2>1 DEF FinishStub, MeshInv, StubIsFirst
  <2> HIDE DEF y
  <2> QED BY <1>0, <2>1, <2>2, <2>3, MoveStep
<1>8. ASSUME NEW x \in dials, InstallStub(x) PROVE MeshInv'
  <2> DEFINE y == [x EXCEPT !.phase = "tell"]
  <2>1. ~ Live(y) /\ Answered(x)
    BY <1>8, <1>a DEF InstallStub, Dial, Live, Answered
  <2>2. /\ dials' = dials \ {x} /\ UNCHANGED raced
        /\ key' = [key EXCEPT ![x.by][x.to] = Key(x)]
    BY <1>8 DEF InstallStub
  <2> HIDE DEF y
  <2> QED BY <1>0, <2>1, <2>2, DiallerStep
<1>9. ASSUME NEW x \in dials, NEW e \in Devices, BeginStub(x, e) PROVE MeshInv'
  <2> DEFINE y == [x EXCEPT !.list = @ \ {e}]
             rest == (dials \ {x}) \cup Rest(y)
  <2>1. Same(y, x) /\ ~ Live(y) /\ ~ Live(x) /\ ~ Answered(y) /\ ~ Answered(x)
    BY <1>9, <1>a DEF BeginStub, Dial, Same, Live, Answered
  <2>2. rest = (dials \ {x}) \cup {y} \/ rest = dials \ {x}
    BY DEF Rest
  <2>3. /\ \/ dials' = rest /\ UNCHANGED raced
           \/ ~ Knows(x.by, e) /\ \E stub \in BOOLEAN : Open(x.by, e, stub, rest)
        /\ UNCHANGED key
    BY <1>9 DEF BeginStub
  <2> HIDE DEF y, rest
  <2>4. CASE dials' = rest /\ UNCHANGED raced
    BY <1>0, <2>1, <2>2, <2>3, <2>4, MoveStep
  <2>5. CASE ~ Knows(x.by, e) /\ \E stub \in BOOLEAN : Open(x.by, e, stub, rest)
    <3>1. /\ \A u \in rest : \E v \in dials : Same(u, v) /\ (u = v \/ ~ Live(u))
          /\ \A v \in dials : Live(v) => v \in rest
      BY <2>1, <2>2 DEF Same
    <3> QED BY <1>0, <1>a, <2>3, <2>5, <3>1, OpenStep
  <2> QED BY <2>3, <2>4, <2>5
<1>10. ASSUME NEW x \in dials, NEW r \in Devices, Tell(x, r) PROVE MeshInv'
  <2> DEFINE y == [x EXCEPT !.tell = @ \ {r}]
             rest == (dials \ {x}) \cup Rest(y)
  <2>1. Same(y, x) /\ ~ Live(y) /\ ~ Live(x) /\ ~ Answered(y) /\ ~ Answered(x)
    BY <1>10, <1>a DEF Tell, Dial, Same, Live, Answered
  <2>2. rest = (dials \ {x}) \cup {y} \/ rest = dials \ {x}
    BY DEF Rest
  <2>3. /\ \/ dials' = rest /\ UNCHANGED raced
           \/ ~ Knows(r, x.to) /\ \E stub \in BOOLEAN : Open(r, x.to, stub, rest)
        /\ UNCHANGED key
    BY <1>10 DEF Tell, Heeds
  <2> HIDE DEF y, rest
  <2>4. CASE dials' = rest /\ UNCHANGED raced
    BY <1>0, <2>1, <2>2, <2>3, <2>4, MoveStep
  <2>5. CASE ~ Knows(r, x.to) /\ \E stub \in BOOLEAN : Open(r, x.to, stub, rest)
    <3>1. /\ \A u \in rest : \E v \in dials : Same(u, v) /\ (u = v \/ ~ Live(u))
          /\ \A v \in dials : Live(v) => v \in rest
      BY <2>1, <2>2 DEF Same
    <3>2. x.to \in Devices
      BY <1>a DEF Dial
    <3> QED BY <1>0, <2>3, <2>5, <3>1, <3>2, OpenStep
  <2> QED BY <2>3, <2>4, <2>5
<1>11. CASE UNCHANGED vars
  <2>1. UNCHANGED key /\ UNCHANGED dials /\ UNCHANGED raced
    BY <1>11 DEF vars
  <2>2. \A x \in dials : Same(x, x)
    BY DEF Same
  <2> QED BY <1>0, <2>1, <2>2, QuietStep
<1> QED
  BY <1>1, <1>2, <1>3, <1>4, <1>5, <1>6, <1>7, <1>8, <1>9, <1>10, <1>11 DEF Next, DialStep

THEOREM MeshInvariant == Spec => []MeshInv
BY InvInit, InvStep, PTL DEF Spec

(* For any number of devices, joins at any moment and any fan-out, a       *)
(* device that knows another is known by it or has its answer on the way   *)
(* (handshake.rs:182, client.rs:620).                                      *)
THEOREM MutualKnowledge == Spec => []KnownIsMutual
<1>1. MeshInv => KnownIsMutual
  BY DEF MeshInv
<1> QED BY <1>1, MeshInvariant, PTL

(* For any number of devices, joins at any moment and any fan-out, two     *)
(* devices hold the same key when no answer is on its way between them and *)
(* no two dials between them were ever under way at once                   *)
(* (specs/e2e-encryption.md:50).                                           *)
THEOREM KeysMatchAlone == Spec => []KeysMatchUnlessRaced
<1>1. MeshInv => KeysMatchUnlessRaced
  BY DEF MeshInv
<1> QED BY <1>1, MeshInvariant, PTL

-----------------------------------------------------------------------------
(* What a dial hands on is known to the device that hands it on, and its   *)
(* two ends are acquainted by then.                                        *)
HandsOnKnown ==
    \A x \in dials :
        /\ \A e \in x.list : Knows(x.to, e)
        /\ \A r \in x.tell : Knows(x.by, r)
        /\ x.phase \in {"choose", "announce", "tell"} => Knows(x.by, x.to)

KeysKept == \A d, e \in Devices : Knows(d, e) => Knows(d, e)'

LEMMA KeysAreKept == TypeOK /\ [Next]_vars => KeysKept
<1> SUFFICES ASSUME TypeOK, [Next]_vars PROVE KeysKept
  OBVIOUS
<1>1. \A x \in dials : x.by \in Devices /\ x.to \in Devices /\ x.by # x.to
  BY DEF TypeOK, Dial
<1>2. ASSUME NEW x \in dials, NEW a \in Devices, NEW b \in Devices, a # b,
             key' = [key EXCEPT ![a][b] = Key(x)]
      PROVE  KeysKept
  <2>1. /\ \A d, e \in Devices : key'[d][e] = IF d = a /\ e = b THEN Key(x) ELSE key[d][e]
        /\ Key(x) # NoKey
    BY <1>2, InstallType
  <2> HIDE DEF Key, NoKey
  <2> QED BY <2>1 DEF KeysKept, Knows
<1>3. ASSUME UNCHANGED key PROVE KeysKept
  BY <1>3 DEF KeysKept, Knows
<1>4. CASE UNCHANGED key
  BY <1>3, <1>4
<1>5. CASE \E x \in dials : Answer(x)
  BY <1>1, <1>2, <1>5 DEF Answer
<1>6. CASE \E x \in dials : Finish(x)
  BY <1>1, <1>2, <1>6 DEF Finish
<1>7. CASE \E x \in dials : InstallStub(x)
  BY <1>1, <1>2, <1>7 DEF InstallStub
<1> QED
  BY <1>4, <1>5, <1>6, <1>7
     DEF Next, DialStep, Join, Offer, FinishStub, Choose, Announce, BeginStub, Tell, vars

LEMMA HandsOnInit == Init => HandsOnKnown
BY DEF Init, HandsOnKnown

(* A dial that starts has nothing to hand on.                              *)
LEMMA OpenHandsOn ==
    ASSUME NEW d, NEW e, NEW stub, NEW rest, Open(d, e, stub, rest),
           NEW u \in dials', u \notin rest
    PROVE  u.list = {} /\ u.tell = {} /\ u.phase = "request"
BY DEF Open

LEMMA HandsOnStep == MeshInv /\ HandsOnKnown /\ [Next]_vars => HandsOnKnown'
<1> SUFFICES ASSUME MeshInv, HandsOnKnown, [Next]_vars, NEW u \in dials'
             PROVE  /\ \A e \in u.list : Knows(u.to, e)'
                    /\ \A r \in u.tell : Knows(u.by, r)'
                    /\ u.phase \in {"choose", "announce", "tell"} => Knows(u.by, u.to)'
  BY DEF HandsOnKnown, Knows
<1> DEFINE Good(v) == /\ \A e \in v.list : Knows(v.to, e)'
                      /\ \A r \in v.tell : Knows(v.by, r)'
                      /\ v.phase \in {"choose", "announce", "tell"} => Knows(v.by, v.to)'
<1>0. TypeOK /\ KeysKept
  BY KeysAreKept DEF MeshInv
<1>1. \A x \in dials : /\ x \in Dial /\ x.by \in Devices /\ x.to \in Devices /\ x.by # x.to
                       /\ x.list \subseteq Devices /\ x.tell \subseteq Devices
  BY <1>0 DEF TypeOK, Dial
<1>2. \A x \in dials : Good(x)
  BY <1>0, <1>1 DEF HandsOnKnown, KeysKept
<1>3. CASE u \in dials
  BY <1>2, <1>3
<1>4. ASSUME NEW d, NEW e, NEW stub, NEW rest, Open(d, e, stub, rest), u \notin rest
      PROVE  Good(u)
  BY <1>4, OpenHandsOn
<1>5. ASSUME NEW x \in dials, NEW ph \in {"offer", "install"}, u = [x EXCEPT !.phase = ph]
      PROVE  Good(u)
  BY <1>1, <1>2, <1>5 DEF Dial
<1>6. ASSUME NEW d \in Devices, NEW e \in Devices, Join(d, e), u \notin dials PROVE Good(u)
  BY <1>4, <1>6 DEF Join
<1>7. ASSUME NEW x \in dials, Answer(x), u \notin dials PROVE Good(u)
  BY <1>5, <1>7 DEF Answer, Advance
<1>8. ASSUME NEW x \in dials, Offer(x), u \notin dials PROVE Good(u)
  <2>1. u = [x EXCEPT !.phase = "answer", !.list = Offered(x)] /\ UNCHANGED key
    BY <1>8 DEF Offer
  <2>2. \A e \in Offered(x) : Knows(x.to, e)'
    BY <2>1 DEF Offered, Known, Knows
  <2> QED BY <1>1, <1>2, <2>1, <2>2 DEF Dial
<1>9. ASSUME NEW x \in dials, Finish(x), u \notin dials PROVE Good(u)
  <2>1. u = [x EXCEPT !.phase = "choose"] /\ key' = [key EXCEPT ![x.by][x.to] = Key(x)]
    BY <1>9 DEF Finish, Advance
  <2>2. key'[x.by][x.to] = Key(x) /\ Key(x) # NoKey
    BY <1>0, <1>1, <2>1, InstallType
  <2>3. Knows(x.by, x.to)'
    BY <2>2 DEF Knows
  <2> QED BY <1>1, <1>2, <2>1, <2>3 DEF Dial
<1>10. ASSUME NEW x \in dials, Choose(x), u \notin dials PROVE Good(u)
  <2>1. PICK chosen \in SUBSET Unknown(x) :
            dials' = (dials \ {x}) \cup {[x EXCEPT !.phase = "announce", !.list = chosen]}
    BY <1>10 DEF Choose
  <2>2. u = [x EXCEPT !.phase = "announce", !.list = chosen] /\ chosen \subseteq x.list
    BY <1>10, <2>1 DEF Unknown
  <2>3. Knows(x.by, x.to)'
    BY <1>2, <1>10 DEF Choose
  <2> QED BY <1>1, <1>2, <2>2, <2>3 DEF Dial
<1>11. ASSUME NEW x \in dials, Announce(x), u \notin dials PROVE Good(u)
  <2>1. /\ u = [x EXCEPT !.phase = "tell", !.tell = Known(x.by) \ {x.to}]
        /\ UNCHANGED key
    BY <1>11 DEF Announce, Rest
  <2>2. \A r \in Known(x.by) : Knows(x.by, r)'
    BY <2>1 DEF Known, Knows
  <2>3. Knows(x.by, x.to)'
    BY <1>2, <1>11 DEF Announce
  <2> QED BY <1>1, <1>2, <2>1, <2>2, <2>3 DEF Dial
<1>12. ASSUME NEW x \in dials, FinishStub(x), u \notin dials PROVE Good(u)
  BY <1>5, <1>12 DEF FinishStub, Advance
<1>13. ASSUME NEW x \in dials, InstallStub(x), u \notin dials PROVE Good(u)
  BY <1>13 DEF InstallStub
<1>14. ASSUME NEW x \in dials, NEW e \in Devices, BeginStub(x, e), u \notin dials PROVE Good(u)
  <2> DEFINE y == [x EXCEPT !.list = @ \ {e}]
             rest == (dials \ {x}) \cup Rest(y)
  <2>1. dials' = rest \/ Open(x.by, e, TRUE, rest)
    BY <1>14 DEF BeginStub
  <2>2. u \in rest => u = y
    BY <1>14 DEF Rest
  <2>3. Good(y)
    BY <1>1, <1>2 DEF Dial
  <2> HIDE DEF y, rest, Good
  <2> QED BY <1>4, <2>1, <2>2, <2>3
<1>15. ASSUME NEW x \in dials, NEW r \in Devices, Tell(x, r), u \notin dials PROVE Good(u)
  <2> DEFINE y == [x EXCEPT !.tell = @ \ {r}]
             rest == (dials \ {x}) \cup Rest(y)
  <2>1. dials' = rest \/ Open(r, x.to, FALSE, rest)
    BY <1>15 DEF Tell
  <2>2. u \in rest => u = y
    BY <1>15 DEF Rest
  <2>3. Good(y)
    BY <1>1, <1>2 DEF Dial
  <2> HIDE DEF y, rest, Good
  <2> QED BY <1>4, <2>1, <2>2, <2>3
<1>16. CASE UNCHANGED vars
  BY <1>3, <1>16 DEF vars
<1> QED
  BY <1>3, <1>6, <1>7, <1>8, <1>9, <1>10, <1>11, <1>12, <1>13, <1>14, <1>15, <1>16
     DEF Next, DialStep

LEMMA HandsOnAlways == Spec => []HandsOnKnown
BY MeshInvariant, HandsOnInit, HandsOnStep, PTL DEF Spec

-----------------------------------------------------------------------------
Requests == {y \in dials : y.phase = "request"}

LEMMA MetIs == \A d, e \in Devices : Knows(d, e) => {d, e} \in Met
BY DEF Met

LEMMA MetSame == UNCHANGED key => Met' = Met
BY DEF Met, Knows

LEMMA InvitedSame == Requests' = Requests => Invited' = Invited
BY DEF Requests, Invited, Pair

(* A request under way is an invitation.                                   *)
LEMMA InvitedOpen ==
    ASSUME NEW d, NEW e, NEW stub, NEW rest, Open(d, e, stub, rest),
           \A u : u \in rest /\ u.phase = "request" <=> u \in Requests
    PROVE  Invited' = Invited \cup {{d, e}}
<1>1. PICK n : dials' = rest \cup {[by |-> d, to |-> e, twin |-> n, stub |-> stub,
                                   phase |-> "request", list |-> {}, tell |-> {}]}
  BY DEF Open
<1> DEFINE new == [by |-> d, to |-> e, twin |-> n, stub |-> stub,
                   phase |-> "request", list |-> {}, tell |-> {}]
<1>2. new.phase = "request" /\ Pair(new) = {d, e}
  BY DEF Pair
<1> HIDE DEF new
<1>3. dials' = rest \cup {new}
  BY <1>1 DEF new
<1>4. Requests' = Requests \cup {new}
  BY <1>2, <1>3 DEF Requests
<1> QED BY <1>2, <1>4 DEF Requests, Invited, Pair

LEMMA AcquaintedInit == Init => A!Init
BY DEF Init, A!Init, Met, Invited, Knows

LEMMA AcquaintedStep == MeshInv /\ HandsOnKnown /\ [Next]_vars => [A!Next]_(A!vars)
<1> SUFFICES ASSUME MeshInv, HandsOnKnown, [Next]_vars PROVE [A!Next]_(A!vars)
  OBVIOUS
<1>0. TypeOK
  BY DEF MeshInv
<1>1. \A x \in dials : /\ x \in Dial /\ x.by \in Devices /\ x.to \in Devices /\ x.by # x.to
                       /\ x.list \subseteq Devices /\ x.tell \subseteq Devices
  BY <1>0 DEF TypeOK, Dial
<1>2. ASSUME Met' = Met, Requests' = Requests, wanted' = wanted PROVE [A!Next]_(A!vars)
  BY <1>2, InvitedSame DEF A!vars
<1>3. ASSUME NEW x \in dials, NEW ph, x.phase # "request", ph # "request", Advance(x, ph)
      PROVE  Requests' = Requests
  <2> DEFINE y == [x EXCEPT !.phase = ph]
  <2>1. dials' = (dials \ {x}) \cup {y} /\ y.phase = ph
    BY <1>1, <1>3 DEF Advance, Dial
  <2> HIDE DEF y
  <2> QED BY <1>3, <2>1 DEF Requests
<1>4. ASSUME NEW x \in dials, Answered(x), key' = [key EXCEPT ![x.by][x.to] = Key(x)]
      PROVE  Met' = Met
  <2>1. \A d, e \in Devices : Knows(d, e)' <=> Knows(d, e) \/ (d = x.by /\ e = x.to)
    <3>1. /\ \A d, e \in Devices : key'[d][e] = IF d = x.by /\ e = x.to THEN Key(x) ELSE key[d][e]
          /\ Key(x) # NoKey
      BY <1>0, <1>1, <1>4, InstallType
    <3> HIDE DEF Key, NoKey
    <3> QED BY <3>1 DEF Knows
  <2>2. Knows(x.to, x.by)
    BY <1>4 DEF MeshInv, AnswerRecorded
  <2>3. \A p \in SUBSET Devices : p \in Met' <=> p \in Met
    <3> TAKE p \in SUBSET Devices
    <3>1. p \in Met => p \in Met'
      BY <2>1 DEF Met
    <3>2. ASSUME p \in Met' PROVE p \in Met
      <4>1. PICK d \in Devices, e \in Devices : p = {d, e} /\ Knows(d, e)'
        BY <3>2 DEF Met
      <4>2. CASE Knows(d, e)
        BY <4>1, <4>2 DEF Met
      <4>3. CASE d = x.by /\ e = x.to
        <5>1. p = {x.to, x.by}
          BY <4>1, <4>3
        <5> QED BY <1>1, <2>2, <5>1 DEF Met
      <4> QED BY <2>1, <4>1, <4>2, <4>3
    <3> QED BY <3>1, <3>2
  <2>4. Met \subseteq SUBSET Devices /\ Met' \subseteq SUBSET Devices
    BY DEF Met
  <2> QED BY <2>3, <2>4
<1>5. ASSUME NEW d \in Devices, NEW e \in Devices, Join(d, e) PROVE [A!Next]_(A!vars)
  <2>1. Met' = Met
    BY <1>5, MetSame DEF Join
  <2>2. Invited' = Invited \cup {{d, e}}
    <3>1. Open(d, e, FALSE, dials)
      BY <1>5 DEF Join
    <3>2. \A u : u \in dials /\ u.phase = "request" <=> u \in Requests
      BY DEF Requests
    <3> QED BY <3>1, <3>2, InvitedOpen
  <2>3. A!Invite(d, e)
    BY <1>5, <2>1, <2>2 DEF Join, A!Invite
  <2> QED BY <2>3 DEF A!Next
<1>6. ASSUME NEW x \in dials, Answer(x) PROVE [A!Next]_(A!vars)
  <2>1. \A d, e \in Devices : Knows(d, e)' <=> Knows(d, e) \/ (d = x.to /\ e = x.by)
    <3>1. key' = [key EXCEPT ![x.to][x.by] = Key(x)]
      BY <1>6 DEF Answer
    <3>2. /\ \A d, e \in Devices : key'[d][e] = IF d = x.to /\ e = x.by THEN Key(x) ELSE key[d][e]
          /\ Key(x) # NoKey
      BY <1>0, <1>1, <3>1, InstallType
    <3> HIDE DEF Key, NoKey
    <3> QED BY <3>2 DEF Knows
  <2>2. Pair(x) \in SUBSET Devices /\ Pair(x) = {x.to, x.by}
    BY <1>1 DEF Pair
  <2>3. Met' = Met \cup {Pair(x)}
    <3>1. Met \cup {Pair(x)} \subseteq Met'
      BY <1>1, <2>1, <2>2 DEF Met
    <3>2. ASSUME NEW p \in Met' PROVE p \in Met \cup {Pair(x)}
      <4>1. PICK d \in Devices, e \in Devices : p = {d, e} /\ Knows(d, e)'
        BY <3>2 DEF Met
      <4>2. p \in SUBSET Devices
        BY DEF Met
      <4>3. CASE Knows(d, e)
        BY <4>1, <4>2, <4>3 DEF Met
      <4>4. CASE d = x.to /\ e = x.by
        BY <2>2, <4>1, <4>4
      <4> QED BY <2>1, <4>1, <4>3, <4>4
    <3> QED BY <3>1, <3>2
  <2>4. Requests' = Requests \ {x} /\ x \in Requests
    <3> DEFINE y == [x EXCEPT !.phase = "offer"]
    <3>1. /\ dials' = (dials \ {x}) \cup {y} /\ y.phase = "offer" /\ x.phase = "request"
      BY <1>1, <1>6 DEF Answer, Advance, Dial
    <3> HIDE DEF y
    <3> QED BY <3>1 DEF Requests
  <2>5. Pair(x) \in Invited /\ Invited' \in {Invited, Invited \ {Pair(x)}}
    <3>1. Invited = {Pair(y) : y \in Requests} /\ Invited' = {Pair(y) : y \in Requests \ {x}}
      BY <2>4 DEF Invited, Requests, Pair
    <3>2. CASE \E y \in Requests \ {x} : Pair(y) = Pair(x)
      BY <2>4, <3>1, <3>2
    <3>3. CASE ~ \E y \in Requests \ {x} : Pair(y) = Pair(x)
      BY <2>4, <3>1, <3>3
    <3> QED BY <3>2, <3>3
  <2>6. Pair(x) \in A!Pairs
    BY <1>1 DEF Pair, A!Pairs
  <2>7. A!Meet(Pair(x))
    BY <1>6, <2>3, <2>5 DEF A!Meet, Answer
  <2> QED BY <2>6, <2>7 DEF A!Next
<1>7. ASSUME NEW x \in dials, Offer(x) PROVE [A!Next]_(A!vars)
  <2> DEFINE y == [x EXCEPT !.phase = "answer", !.list = Offered(x)]
  <2>1. dials' = (dials \ {x}) \cup {y} /\ y.phase = "answer" /\ x.phase = "offer"
    BY <1>1, <1>7 DEF Offer, Dial
  <2> HIDE DEF y
  <2>2. Requests' = Requests
    BY <2>1 DEF Requests
  <2> QED BY <1>2, <1>7, <2>2, MetSame DEF Offer
<1>8. ASSUME NEW x \in dials, Finish(x) PROVE [A!Next]_(A!vars)
  BY <1>2, <1>3, <1>4, <1>8 DEF Finish, Answered
<1>9. ASSUME NEW x \in dials, Choose(x) PROVE [A!Next]_(A!vars)
  <2>1. PICK chosen : dials' = (dials \ {x}) \cup {[x EXCEPT !.phase = "announce", !.list = chosen]}
    BY <1>9 DEF Choose
  <2> DEFINE y == [x EXCEPT !.phase = "announce", !.list = chosen]
  <2>2. dials' = (dials \ {x}) \cup {y} /\ y.phase = "announce" /\ x.phase = "choose"
    BY <1>1, <1>9, <2>1 DEF Choose, Dial
  <2> HIDE DEF y
  <2>3. Requests' = Requests
    BY <2>2 DEF Requests
  <2> QED BY <1>2, <1>9, <2>3, MetSame DEF Choose
<1>10. ASSUME NEW x \in dials, Announce(x) PROVE [A!Next]_(A!vars)
  <2> DEFINE y == [x EXCEPT !.phase = "tell", !.tell = Known(x.by) \ {x.to}]
  <2>1. /\ dials' = (dials \ {x}) \cup {y} \/ dials' = dials \ {x}
        /\ y.phase = "tell" /\ x.phase = "announce"
    BY <1>1, <1>10 DEF Announce, Rest, Dial
  <2> HIDE DEF y
  <2>2. Requests' = Requests
    BY <2>1 DEF Requests
  <2> QED BY <1>2, <1>10, <2>2, MetSame DEF Announce
<1>11. ASSUME NEW x \in dials, FinishStub(x) PROVE [A!Next]_(A!vars)
  <2>1. Requests' = Requests
    <3>1. CASE dials' = dials \ {x}
      BY <1>11, <3>1 DEF FinishStub, Requests
    <3>2. CASE Advance(x, "install")
      BY <1>3, <1>11, <3>2 DEF FinishStub
    <3> QED BY <1>11, <3>1, <3>2 DEF FinishStub
  <2> QED BY <1>2, <1>11, <2>1, MetSame DEF FinishStub
<1>12. ASSUME NEW x \in dials, InstallStub(x) PROVE [A!Next]_(A!vars)
  <2>1. Requests' = Requests
    BY <1>12 DEF InstallStub, Requests
  <2> QED BY <1>2, <1>4, <1>12, <2>1 DEF InstallStub, Answered
<1>13. ASSUME NEW x \in dials, NEW e \in Devices, BeginStub(x, e) PROVE [A!Next]_(A!vars)
  <2> DEFINE y == [x EXCEPT !.list = @ \ {e}]
             rest == (dials \ {x}) \cup Rest(y)
  <2>1. x.phase # "request" /\ y.phase # "request" /\ e \in x.list
    BY <1>1, <1>13 DEF BeginStub, Dial
  <2>2. rest = (dials \ {x}) \cup {y} \/ rest = dials \ {x}
    BY DEF Rest
  <2>3. dials' = rest \/ Open(x.by, e, TRUE, rest)
    BY <1>13 DEF BeginStub
  <2>4. Met' = Met /\ wanted' = wanted
    BY <1>13, MetSame DEF BeginStub
  <2> HIDE DEF y, rest
  <2>5. \A u : u \in rest /\ u.phase = "request" <=> u \in Requests
    BY <2>1, <2>2 DEF Requests
  <2>6. CASE dials' = rest
    <3>1. Requests' = Requests
      BY <2>5, <2>6 DEF Requests
    <3> QED BY <1>2, <2>4, <3>1
  <2>7. CASE Open(x.by, e, TRUE, rest)
    <3>1. Invited' = Invited \cup {{x.by, e}}
      BY <2>5, <2>7, InvitedOpen
    <3>2. {x.by, x.to} \in Met /\ {x.to, e} \in Met
      BY <1>1, <1>13, <2>1, MetIs DEF BeginStub, HandsOnKnown
    <3>3. A!Recommend(x.by, e, x.to)
      BY <2>4, <3>1, <3>2 DEF A!Recommend
    <3> QED BY <1>1, <3>3 DEF A!Next
  <2> QED BY <2>3, <2>6, <2>7
<1>14. ASSUME NEW x \in dials, NEW r \in Devices, Tell(x, r) PROVE [A!Next]_(A!vars)
  <2> DEFINE y == [x EXCEPT !.tell = @ \ {r}]
             rest == (dials \ {x}) \cup Rest(y)
  <2>1. x.phase # "request" /\ y.phase # "request" /\ r \in x.tell
    BY <1>1, <1>14 DEF Tell, Dial
  <2>2. rest = (dials \ {x}) \cup {y} \/ rest = dials \ {x}
    BY DEF Rest
  <2>3. dials' = rest \/ Open(r, x.to, FALSE, rest)
    BY <1>14 DEF Tell
  <2>4. Met' = Met /\ wanted' = wanted
    BY <1>14, MetSame DEF Tell
  <2> HIDE DEF y, rest
  <2>5. \A u : u \in rest /\ u.phase = "request" <=> u \in Requests
    BY <2>1, <2>2 DEF Requests
  <2>6. CASE dials' = rest
    <3>1. Requests' = Requests
      BY <2>5, <2>6 DEF Requests
    <3> QED BY <1>2, <2>4, <3>1
  <2>7. CASE Open(r, x.to, FALSE, rest)
    <3>1. Invited' = Invited \cup {{r, x.to}}
      BY <2>5, <2>7, InvitedOpen
    <3>2. {x.by, r} \in Met /\ {x.by, x.to} \in Met
      BY <1>1, <1>14, <2>1, MetIs DEF Tell, HandsOnKnown
    <3>3. {r, x.by} \in Met
      <4>1. {r, x.by} = {x.by, r}
        OBVIOUS
      <4> QED BY <3>2, <4>1
    <3>4. A!Recommend(r, x.to, x.by)
      BY <2>4, <3>1, <3>2, <3>3 DEF A!Recommend
    <3> QED BY <1>1, <3>4 DEF A!Next
  <2> QED BY <2>3, <2>6, <2>7
<1>15. CASE UNCHANGED vars
  BY <1>2, <1>15, MetSame DEF vars, Requests
<1> QED
  BY <1>5, <1>6, <1>7, <1>8, <1>9, <1>10, <1>11, <1>12, <1>13, <1>14, <1>15 DEF Next, DialStep

(* The gossip implements Acquaintances for any devices, joins and fan-out: *)
(* a device is dialled only because a user joined it or a common           *)
(* acquaintance told of it (client.rs:437, peers.rs:68), an answer is what *)
(* makes two devices acquainted, and no step takes that back.              *)
THEOREM GossipImplements == Spec => OnlyAcquainted
BY AcquaintedInit, AcquaintedStep, MeshInvariant, HandsOnAlways, PTL
   DEF Spec, OnlyAcquainted, A!Spec

-----------------------------------------------------------------------------
(* CompleteIfAlone is far from inductive: it says nothing while dials are  *)
(* under way.  While one join is followed up, the group D whose member     *)
(* dialled learns the group E of the member e it dialled.  Each of the two *)
(* was complete, ...                                                       *)
WereComplete(D, E) ==
    /\ \A a, b \in D : a # b => Knows(a, b)
    /\ \A a, b \in E : a # b => Knows(a, b)

(* ... they have no peers elsewhere, and elsewhere all is complete.        *)
Apart(G) ==
    /\ \A a, b \in Devices : Knows(a, b) => (a \in G <=> b \in G)
    /\ \A a, b, c \in Devices \ G : Knows(a, b) /\ Knows(b, c) /\ a # c => Knows(a, c)

Told == {"choose", "announce", "tell"}

(* Dials go from D to E: those of stubs to the members that e offers, all  *)
(* others to e, whose answer lists its group.                              *)
AimedAt(x, D, E, e) ==
    /\ x.by \in D /\ x.to \in E
    /\ x.stub => x.to # e /\ x.phase \notin Told
    /\ ~ x.stub => /\ x.to = e /\ x.phase # "install"
                   /\ x.phase = "answer" => E \ {e, x.by} \subseteq x.list

(* The dial x will make r know e: it is a dial of r, or will tell r.       *)
Reaches(x, r) ==
    ~ x.stub /\ IF x.by = r THEN Live(x) ELSE x.phase = "tell" => r \in x.tell

(* The dial x will make r know f: it is the stub, or is going to start it. *)
Brings(x, r, f) ==
    x.by = r /\ IF x.stub THEN x.to = f ELSE x.phase \in Told /\ f \in x.list

(* A member of D gets to know e, and one that knows e the rest of E.       *)
Merging(D, E, e) ==
    /\ WereComplete(D, E) /\ Apart(D \cup E)
    /\ \A x \in dials : AimedAt(x, D, E, e)
    /\ \A r \in D \ {e} : ~ Knows(r, e) => \E x \in dials : Reaches(x, r)
    /\ \A r \in D : \A f \in E \ {e, r} :
           Knows(r, e) /\ ~ Knows(r, f) => \E x \in dials : Brings(x, r, f)

Merges == \E D, E \in SUBSET Devices : \E e \in E : Merging(D, E, e)

MergeInv == ~ crowded /\ ~ truncated => Merges \/ (AtRest /\ Complete)

(* Nobody offers infinitely many members, so a full choice is all of them. *)
ListsFinite ==
    /\ \A d \in Devices : IsFiniteSet(Known(d))
    /\ \A x \in dials : IsFiniteSet(x.list)

(* A step teaches one end of a dial the other, or nobody anything.         *)
LEMMA OneLearns ==
    ASSUME TypeOK, [Next]_vars
    PROVE  \/ UNCHANGED key
           \/ \E x \in dials : \E a, b \in {x.by, x.to} :
                 \A c, d \in Devices : Knows(c, d)' <=> Knows(c, d) \/ (c = a /\ d = b)
<1>1. \A x \in dials : x.by \in Devices /\ x.to \in Devices /\ x.by # x.to
  BY DEF TypeOK, Dial
<1>2. CASE \E x \in dials : Answer(x)
  <2>1. PICK x \in dials : Answer(x)
    BY <1>2
  <2>2. \A c, d \in Devices : Knows(c, d)' <=> Knows(c, d) \/ (c = x.to /\ d = x.by)
    BY <1>1, <2>1, Installed DEF Answer
  <2> QED BY <2>2
<1>3. CASE \E x \in dials : Finish(x) \/ InstallStub(x)
  <2>1. PICK x \in dials : Finish(x) \/ InstallStub(x)
    BY <1>3
  <2>2. \A c, d \in Devices : Knows(c, d)' <=> Knows(c, d) \/ (c = x.by /\ d = x.to)
    BY <1>1, <2>1, Installed DEF Finish, InstallStub
  <2> QED BY <2>2
<1>4. CASE UNCHANGED key
  BY <1>4
<1> QED
  BY <1>2, <1>3, <1>4
     DEF Next, DialStep, Join, Offer, FinishStub, Choose, Announce, BeginStub, Tell, vars

LEMMA OpenNew ==
    ASSUME NEW d, NEW f, NEW stub, NEW rest, Open(d, f, stub, rest)
    PROVE  \E u : /\ dials' = rest \cup {u}
                  /\ u.by = d /\ u.to = f /\ u.stub = stub
                  /\ u.phase = "request" /\ u.list = {} /\ u.tell = {}
<1>1. PICK n : dials' = rest \cup {[by |-> d, to |-> f, twin |-> n, stub |-> stub,
                                   phase |-> "request", list |-> {}, tell |-> {}]}
  BY DEF Open
<1> DEFINE u == [by |-> d, to |-> f, twin |-> n, stub |-> stub,
                 phase |-> "request", list |-> {}, tell |-> {}]
<1>2. /\ u.by = d /\ u.to = f /\ u.stub = stub
      /\ u.phase = "request" /\ u.list = {} /\ u.tell = {}
  OBVIOUS
<1>3. dials' = rest \cup {u}
  BY <1>1
<1> HIDE DEF u
<1> QED BY <1>2, <1>3

LEMMA FiniteInit == Init => ListsFinite
<1>1. Init => \A d \in Devices : Known(d) = {}
  BY DEF Init, Known, Knows
<1> QED BY <1>1, FS_EmptySet DEF Init, ListsFinite

LEMMA FiniteStep == TypeOK /\ ListsFinite /\ [Next]_vars => ListsFinite'
<1> SUFFICES ASSUME TypeOK, ListsFinite, [Next]_vars PROVE ListsFinite'
  OBVIOUS
<1>1. \A x \in dials : x \in Dial /\ x.by \in Devices /\ x.to \in Devices
  BY DEF TypeOK, Dial
<1>2. ASSUME NEW d \in Devices PROVE IsFiniteSet(Known(d)')
  <2>1. CASE UNCHANGED key
    <3>1. Known(d)' = Known(d)
      BY <2>1 DEF Known, Knows
    <3> QED BY <3>1 DEF ListsFinite
  <2>2. CASE \E x \in dials : \E a, b \in {x.by, x.to} :
               \A c, f \in Devices : Knows(c, f)' <=> Knows(c, f) \/ (c = a /\ f = b)
    <3>1. PICK b : \A f \in Devices : Knows(d, f)' => Knows(d, f) \/ f = b
      BY <2>2
    <3>2. Known(d)' \subseteq Known(d) \cup {b}
      BY <3>1 DEF Known
    <3>3. IsFiniteSet(Known(d) \cup {b})
      BY FS_AddElement DEF ListsFinite
    <3> QED BY <3>2, <3>3, FS_Subset
  <2> QED BY <2>1, <2>2, OneLearns
<1>3. ASSUME NEW u \in dials' PROVE IsFiniteSet(u.list)
  <2>1. CASE u \in dials
    BY <2>1 DEF ListsFinite
  <2>2. CASE u.list = {}
    BY <2>2, FS_EmptySet
  <2>3. CASE \E x \in dials : u.list \subseteq x.list
    BY <2>3, FS_Subset DEF ListsFinite
  <2>4. CASE \E x \in dials : u.list \subseteq Known(x.to)
    BY <1>1, <2>4, FS_Subset DEF ListsFinite
  <2>5. ASSUME NEW d, NEW f, NEW stub, NEW rest, Open(d, f, stub, rest)
        PROVE  u \in rest \/ u.list = {}
    BY <2>5, OpenNew
  <2>6. ASSUME NEW x \in dials, NEW ph, Advance(x, ph)
        PROVE  u \in dials \/ u.list \subseteq x.list
    BY <1>1, <2>6 DEF Advance, Dial
  <2>7. ASSUME NEW x \in dials, Offer(x) PROVE u \in dials \/ u.list \subseteq Known(x.to)
    <3> DEFINE y == [x EXCEPT !.phase = "answer", !.list = Offered(x)]
    <3>1. y.list = Offered(x) /\ dials' = (dials \ {x}) \cup {y}
      BY <1>1, <2>7 DEF Offer, Dial
    <3> HIDE DEF y
    <3> QED BY <3>1 DEF Offered
  <2>8. ASSUME NEW x \in dials, Choose(x) PROVE u \in dials \/ u.list \subseteq x.list
    <3>1. PICK chosen \in SUBSET Unknown(x) :
              dials' = (dials \ {x}) \cup {[x EXCEPT !.phase = "announce", !.list = chosen]}
      BY <2>8 DEF Choose
    <3> DEFINE y == [x EXCEPT !.phase = "announce", !.list = chosen]
    <3>2. y.list \subseteq x.list /\ dials' = (dials \ {x}) \cup {y}
      BY <1>1, <3>1 DEF Dial, Unknown
    <3> HIDE DEF y
    <3> QED BY <3>2
  <2>9. ASSUME NEW x \in dials, Announce(x) PROVE u \in dials \/ u.list \subseteq x.list
    <3> DEFINE y == [x EXCEPT !.phase = "tell", !.tell = Known(x.by) \ {x.to}]
    <3>1. y.list = x.list /\ (dials' = (dials \ {x}) \cup {y} \/ dials' = dials \ {x})
      BY <1>1, <2>9 DEF Announce, Rest, Dial
    <3> HIDE DEF y
    <3> QED BY <3>1
  <2>10. ASSUME NEW x \in dials, NEW f \in Devices, BeginStub(x, f)
         PROVE  u \in dials \/ u.list \subseteq x.list
    <3> DEFINE rest == (dials \ {x}) \cup Rest([x EXCEPT !.list = @ \ {f}])
    <3>1. dials' = rest \/ Open(x.by, f, TRUE, rest)
      BY <2>10 DEF BeginStub
    <3>2. u \in rest => u \in dials \/ u.list \subseteq x.list
      BY <1>1 DEF Rest, Dial
    <3> HIDE DEF rest
    <3> QED BY <2>5, <3>1, <3>2
  <2>11. ASSUME NEW x \in dials, NEW r \in Devices, Tell(x, r)
         PROVE  u \in dials \/ u.list \subseteq x.list
    <3> DEFINE rest == (dials \ {x}) \cup Rest([x EXCEPT !.tell = @ \ {r}])
    <3>1. dials' = rest \/ Open(r, x.to, FALSE, rest)
      BY <2>11 DEF Tell
    <3>2. u \in rest => u \in dials \/ u.list \subseteq x.list
      BY <1>1 DEF Rest, Dial
    <3> HIDE DEF rest
    <3> QED BY <2>5, <3>1, <3>2
  <2>12. CASE \E d, f \in Devices : Join(d, f)
    BY <2>1, <2>2, <2>5, <2>12 DEF Join
  <2>13. CASE UNCHANGED vars
    BY <2>1, <2>13 DEF vars
  <2> QED
    BY <2>1, <2>3, <2>4, <2>6, <2>7, <2>8, <2>9, <2>10, <2>11, <2>12, <2>13
       DEF Next, DialStep, Answer, Finish, FinishStub, InstallStub
<1> QED BY <1>2, <1>3 DEF ListsFinite

-----------------------------------------------------------------------------
(* When the dials are over, everybody knows whom everybody knows.          *)
LEMMA MergedIsComplete ==
    ASSUME TypeOK, KnownIsMutual, Merges, AtRest
    PROVE  Complete
<1>1. PICK D \in SUBSET Devices, E \in SUBSET Devices : \E e \in E : Merging(D, E, e)
  BY DEF Merges
<1>2. PICK e \in E : Merging(D, E, e)
  BY <1>1
<1>3. \A a, b \in Devices : Knows(a, b) => Knows(b, a)
  BY DEF KnownIsMutual, AtRest
<1>4. \A r \in D, f \in E : r # f => Knows(r, f)
  <2> SUFFICES ASSUME NEW r \in D, NEW f \in E, r # f PROVE Knows(r, f)
    OBVIOUS
  <2>1. CASE r \in E
    BY <1>2, <2>1 DEF Merging, WereComplete
  <2>2. CASE r \notin E
    <3>1. Knows(r, e)
      BY <1>2, <2>2 DEF Merging, AtRest
    <3> QED BY <1>2, <3>1 DEF Merging, AtRest
  <2> QED BY <2>1, <2>2
<1> SUFFICES ASSUME NEW a \in Devices, NEW b \in Devices, NEW c \in Devices,
                    Knows(a, b), Knows(b, c), a # c
             PROVE  Knows(a, c)
  BY DEF Complete
<1>5. Apart(D \cup E) /\ WereComplete(D, E)
  BY <1>2 DEF Merging
<1>6. CASE a \in D \cup E
  <2>1. c \in D \cup E
    BY <1>5, <1>6 DEF Apart
  <2> QED BY <1>3, <1>4, <1>5, <1>6, <2>1 DEF WereComplete
<1>7. CASE a \notin D \cup E
  <2>1. b \notin D \cup E /\ c \notin D \cup E
    BY <1>5, <1>7 DEF Apart
  <2> QED BY <1>5, <1>7, <2>1 DEF Apart
<1> QED BY <1>6, <1>7

(* A join when all is quiet and complete: the group of the device that     *)
(* joins is about to learn the group of the one that is joined.            *)
LEMMA JoinMerges ==
    ASSUME MeshInv, Complete, AtRest, NEW d \in Devices, NEW e \in Devices, Join(d, e)
    PROVE  Merges'
<1> SUFFICES ASSUME NEW D \in SUBSET Devices, NEW E \in SUBSET Devices,
                    D = {d} \cup Known(d), E = {e} \cup Known(e)
             PROVE  Merges'
  BY DEF Known
<1>1. d # e
  BY DEF MeshInv, TypeOK, Wishes, Join
<1>2. \A a, b \in Devices : Knows(a, b) => Knows(b, a)
  BY DEF MeshInv, KnownIsMutual, AtRest
<1>3. \A a \in Devices : ~ Knows(a, a)
  BY DEF MeshInv, TypeOK
<1>4. \A a, b \in Devices : Knows(a, b)' <=> Knows(a, b)
  BY DEF Join, Knows
<1>5. \A g \in Devices : \A a, b \in {g} \cup Known(g) : a # b => Knows(a, b)
  BY <1>2 DEF Complete, Known
<1>6. \A g \in Devices : \A a, b \in Devices :
          Knows(a, b) => (a \in {g} \cup Known(g) <=> b \in {g} \cup Known(g))
  BY <1>2 DEF Complete, Known
<1>7. d \in D /\ e \in E
  OBVIOUS
<1>8. /\ \A a, b \in D : a # b => Knows(a, b)
      /\ \A a, b \in E : a # b => Knows(a, b)
  BY <1>5
<1>9. \A a, b \in Devices : Knows(a, b) => (a \in D \cup E <=> b \in D \cup E)
  BY <1>6
<1>10. PICK u : /\ dials' = {u} /\ u.by = d /\ u.to = e /\ u.stub = FALSE
                /\ u.phase = "request"
  <2> DEFINE stub == FALSE
  <2>1. Open(d, e, stub, {})
    BY DEF Join, AtRest
  <2> HIDE DEF stub
  <2>2. \E u : /\ dials' = {} \cup {u} /\ u.by = d /\ u.to = e /\ u.stub = stub
               /\ u.phase = "request" /\ u.list = {} /\ u.tell = {}
    BY <2>1, OpenNew
  <2> QED BY <2>2 DEF stub
<1>11. Merging(D, E, e)'
  <2>1. WereComplete(D, E)'
    BY <1>4, <1>7, <1>8 DEF WereComplete
  <2>2. Apart(D \cup E)'
    <3>1. \A a, b \in Devices : Knows(a, b)' => (a \in D \cup E <=> b \in D \cup E)
      BY <1>4, <1>9
    <3>2. \A a, b, c \in Devices : Knows(a, b)' /\ Knows(b, c)' /\ a # c => Knows(a, c)'
      BY <1>4 DEF Complete
    <3> QED BY <3>1, <3>2 DEF Apart
  <2>3. \A x \in dials' : AimedAt(x, D, E, e)'
    BY <1>7, <1>10 DEF AimedAt, Told
  <2>4. \A r \in D \ {e} : \E x \in dials' : Reaches(x, r)'
    BY <1>10 DEF Reaches, Live
  <2>5. \A r \in D : \A f \in E \ {e, r} : Knows(r, e)' => Knows(r, f)'
    BY <1>3, <1>4, <1>7, <1>8 DEF Complete
  <2> QED BY <2>1, <2>2, <2>3, <2>4, <2>5 DEF Merging
<1> QED BY <1>7, <1>11 DEF Merges

(* The groups stay as they are, and what is left is to show that no member *)
(* is forgotten when a dial gives way to what follows from it.             *)
LEMMA MergeGoesOn ==
    ASSUME TypeOK, [Next]_vars, NEW D \in SUBSET Devices, NEW E \in SUBSET Devices,
           NEW e \in E, Merging(D, E, e),
           \A u \in dials' \ dials : AimedAt(u, D, E, e),
           \A x \in dials \ dials' : \A r \in D \ {e} :
               Reaches(x, r) /\ ~ Knows(r, e)' => \E y \in dials' : Reaches(y, r),
           \A x \in dials \ dials' : \A r \in D : \A f \in E \ {e, r} :
               Brings(x, r, f) /\ ~ Knows(r, f)' => \E y \in dials' : Brings(y, r, f),
           \A r \in D : \A f \in E \ {e, r} :
               Knows(r, e)' /\ ~ Knows(r, e) /\ ~ Knows(r, f)' =>
                   \E y \in dials' : Brings(y, r, f)
    PROVE  Merging(D, E, e)'
<1>1. /\ \A x : AimedAt(x, D, E, e)' <=> AimedAt(x, D, E, e)
      /\ \A x, r : Reaches(x, r)' <=> Reaches(x, r)
      /\ \A x, r, f : Brings(x, r, f)' <=> Brings(x, r, f)
  BY DEF AimedAt, Reaches, Brings, Live, Answered, Told
<1>2. \A a, b \in Devices : Knows(a, b) => Knows(a, b)'
  BY KeysAreKept DEF KeysKept
<1>3. \A a, b \in Devices : Knows(a, b)' =>
          Knows(a, b) \/ (a \in D \cup E /\ b \in D \cup E)
  <2>1. \A x \in dials : x.by \in D /\ x.to \in E
    BY DEF Merging, AimedAt
  <2>2. CASE UNCHANGED key
    BY <2>2 DEF Knows
  <2>3. CASE \E x \in dials : \E a, b \in {x.by, x.to} :
               \A c, d \in Devices : Knows(c, d)' <=> Knows(c, d) \/ (c = a /\ d = b)
    BY <2>1, <2>3
  <2> QED BY <2>2, <2>3, OneLearns
<1>4. WereComplete(D, E)'
  BY <1>2 DEF Merging, WereComplete
<1>5. Apart(D \cup E)'
  <2>1. \A a, b \in Devices : Knows(a, b)' => (a \in D \cup E <=> b \in D \cup E)
    BY <1>3 DEF Merging, Apart
  <2>2. \A a, b, c \in Devices \ (D \cup E) :
            Knows(a, b)' /\ Knows(b, c)' /\ a # c => Knows(a, c)'
    BY <1>2, <1>3 DEF Merging, Apart
  <2> QED BY <2>1, <2>2 DEF Apart
<1>6. \A x \in dials' : AimedAt(x, D, E, e)
  BY DEF Merging
<1>7. ASSUME NEW r \in D \ {e}, ~ Knows(r, e)' PROVE \E y \in dials' : Reaches(y, r)
  <2>1. ~ Knows(r, e)
    BY <1>2, <1>7
  <2>2. PICK x \in dials : Reaches(x, r)
    BY <2>1 DEF Merging
  <2> QED BY <1>7, <2>2
<1>8. ASSUME NEW r \in D, NEW f \in E \ {e, r}, Knows(r, e)', ~ Knows(r, f)'
      PROVE  \E y \in dials' : Brings(y, r, f)
  <2>1. CASE ~ Knows(r, e)
    BY <1>8, <2>1
  <2>2. CASE Knows(r, e)
    <3>1. ~ Knows(r, f)
      BY <1>2, <1>8
    <3>2. PICK x \in dials : Brings(x, r, f)
      BY <2>2, <3>1 DEF Merging
    <3> QED BY <1>8, <3>2
  <2> QED BY <2>1, <2>2
<1> QED BY <1>1, <1>4, <1>5, <1>6, <1>7, <1>8 DEF Merging

(* Every step of a dial keeps the merging going, until an answer offers    *)
(* more than are dialled.                                                  *)
LEMMA MergeStep ==
    ASSUME MeshInv, HandsOnKnown, ListsFinite, ~ truncated',
           NEW D \in SUBSET Devices, NEW E \in SUBSET Devices, NEW e \in E,
           Merging(D, E, e), NEW x \in dials, DialStep(x)
    PROVE  Merging(D, E, e)'
<1>1. TypeOK /\ [Next]_vars
  BY DEF MeshInv, Next
<1>2. /\ x \in Dial /\ x.by \in Devices /\ x.to \in Devices /\ x.by # x.to
      /\ x.by \notin x.list /\ x.list \subseteq Devices /\ x.tell \subseteq Devices
  BY <1>1 DEF TypeOK, Dial
<1>3. AimedAt(x, D, E, e) /\ x.by \in D /\ x.to \in E /\ (~ x.stub => x.to = e)
  BY DEF Merging, AimedAt
<1>4. /\ \A a, b \in D : a # b => Knows(a, b)
      /\ \A a, b \in E : a # b => Knows(a, b)
      /\ \A a, b \in Devices : Knows(a, b) => (a \in D \cup E <=> b \in D \cup E)
  BY DEF Merging, WereComplete, Apart
<1>5. \A a, b \in Devices : Knows(a, b) => Knows(a, b)'
  BY <1>1, KeysAreKept DEF KeysKept
<1>6. \A a \in Devices : ~ Knows(a, a)
  BY <1>1 DEF TypeOK
<1>a. ASSUME \A u \in dials' \ dials : AimedAt(u, D, E, e),
             dials \ dials' \subseteq {x},
             \A r \in D \ {e} :
                 Reaches(x, r) /\ ~ Knows(r, e)' => \E y \in dials' : Reaches(y, r),
             \A r \in D : \A f \in E \ {e, r} :
                 Brings(x, r, f) /\ ~ Knows(r, f)' => \E y \in dials' : Brings(y, r, f),
             \A r \in D : \A f \in E \ {e, r} :
                 Knows(r, e)' /\ ~ Knows(r, e) /\ ~ Knows(r, f)' =>
                     \E y \in dials' : Brings(y, r, f)
      PROVE  Merging(D, E, e)'
  BY <1>1, <1>a, MergeGoesOn
<1>b. UNCHANGED key => \A a, b \in Devices : Knows(a, b)' <=> Knows(a, b)
  BY DEF Knows
<1>7. CASE Answer(x)
  <2> DEFINE y == [x EXCEPT !.phase = "offer"]
  <2>1. y.by = x.by /\ y.to = x.to /\ y.stub = x.stub /\ y.phase = "offer"
    BY <1>2 DEF Dial
  <2>2. x.phase = "request" /\ dials' = (dials \ {x}) \cup {y}
    BY <1>7 DEF Answer, Advance
  <2> HIDE DEF y
  <2>3. AimedAt(y, D, E, e)
    BY <1>3, <2>1 DEF AimedAt, Told
  <2>4. \A r : Reaches(x, r) => Reaches(y, r)
    BY <2>1, <2>2 DEF Reaches, Live, Answered
  <2>5. \A r, f : Brings(x, r, f) => Brings(y, r, f)
    BY <2>1, <2>2 DEF Brings, Told
  <2>6. \A r \in D : \A f \in E \ {e, r} : Knows(r, e)' /\ ~ Knows(r, e) => Knows(r, f)'
    <3>1. \A a, b \in Devices : Knows(a, b)' <=> Knows(a, b) \/ (a = x.to /\ b = x.by)
      BY <1>1, <1>2, <1>7, Installed DEF Answer
    <3> QED BY <1>3, <1>4, <1>5, <3>1
  <2> QED BY <1>a, <2>2, <2>3, <2>4, <2>5, <2>6
<1>8. CASE Offer(x)
  <2> DEFINE y == [x EXCEPT !.phase = "answer", !.list = Offered(x)]
  <2>1. /\ y.by = x.by /\ y.to = x.to /\ y.stub = x.stub /\ y.phase = "answer"
        /\ y.list = Offered(x)
    BY <1>2 DEF Dial
  <2>2. x.phase = "offer" /\ dials' = (dials \ {x}) \cup {y} /\ UNCHANGED key
    BY <1>8 DEF Offer
  <2> HIDE DEF y
  <2>3. AimedAt(y, D, E, e)
    <3>1. ~ x.stub => E \ {e, x.by} \subseteq Offered(x)
      BY <1>3, <1>4 DEF Offered, Known
    <3> QED BY <1>3, <2>1, <3>1 DEF AimedAt, Told
  <2>4. \A r : Reaches(x, r) => Reaches(y, r)
    BY <2>1, <2>2 DEF Reaches, Live, Answered
  <2>5. \A r, f : Brings(x, r, f) => Brings(y, r, f)
    BY <2>1, <2>2 DEF Brings, Told
  <2> QED BY <1>a, <1>b, <2>2, <2>3, <2>4, <2>5
<1>9. CASE Finish(x)
  <2> DEFINE y == [x EXCEPT !.phase = "choose"]
  <2>1. /\ y.by = x.by /\ y.to = x.to /\ y.stub = x.stub /\ y.phase = "choose"
        /\ y.list = x.list
    BY <1>2 DEF Dial
  <2>2. x.phase = "answer" /\ ~ x.stub /\ dials' = (dials \ {x}) \cup {y}
    BY <1>9 DEF Finish, Advance
  <2> HIDE DEF y
  <2>3. AimedAt(y, D, E, e)
    BY <1>3, <2>1, <2>2 DEF AimedAt
  <2>4. \A a, b \in Devices : Knows(a, b)' <=> Knows(a, b) \/ (a = x.by /\ b = x.to)
    BY <1>1, <1>2, <1>9, Installed DEF Finish
  <2>5. \A r \in D \ {e} : Reaches(x, r) /\ ~ Knows(r, e)' => Reaches(y, r)
    BY <1>3, <2>1, <2>2, <2>4 DEF Reaches
  <2>6. \A r, f : ~ Brings(x, r, f)
    BY <2>2 DEF Brings, Told
  <2>7. \A r \in D : \A f \in E \ {e, r} : Knows(r, e)' /\ ~ Knows(r, e) => Brings(y, r, f)
    <3>1. E \ {e, x.by} \subseteq x.list
      BY <1>3, <2>2 DEF AimedAt
    <3>2. \A f \in E \ {e, x.by} : Brings(y, x.by, f)
      BY <2>1, <2>2, <3>1 DEF Brings, Told
    <3> QED BY <1>2, <2>4, <3>2
  <2> QED BY <1>a, <2>2, <2>3, <2>5, <2>6, <2>7
<1>10. CASE FinishStub(x)
  <2>1. x.stub /\ UNCHANGED key
    BY <1>10 DEF FinishStub
  <2>2. \A r : ~ Reaches(x, r)
    BY <2>1 DEF Reaches
  <2>3. CASE Knows(x.by, x.to)
    <3>1. dials' = dials \ {x}
      BY <1>10, <2>3 DEF FinishStub
    <3>2. \A r, f : Brings(x, r, f) => Knows(r, f)'
      BY <1>2, <1>5, <2>1, <2>3 DEF Brings
    <3> QED BY <1>a, <1>b, <2>1, <2>2, <3>1, <3>2
  <2>4. CASE ~ Knows(x.by, x.to)
    <3> DEFINE y == [x EXCEPT !.phase = "install"]
    <3>1. y.by = x.by /\ y.to = x.to /\ y.stub = x.stub /\ y.phase = "install"
      BY <1>2 DEF Dial
    <3>2. dials' = (dials \ {x}) \cup {y}
      BY <1>10, <2>4 DEF FinishStub, Advance
    <3> HIDE DEF y
    <3>3. AimedAt(y, D, E, e)
      BY <1>3, <2>1, <3>1 DEF AimedAt, Told
    <3>4. \A r, f : Brings(x, r, f) => Brings(y, r, f)
      BY <2>1, <3>1 DEF Brings
    <3> QED BY <1>a, <1>b, <2>1, <2>2, <3>2, <3>3, <3>4
  <2> QED BY <2>3, <2>4
<1>11. CASE InstallStub(x)
  <2>1. x.stub /\ dials' = dials \ {x}
    BY <1>3, <1>11 DEF InstallStub, AimedAt
  <2>2. \A a, b \in Devices : Knows(a, b)' <=> Knows(a, b) \/ (a = x.by /\ b = x.to)
    BY <1>1, <1>2, <1>11, Installed DEF InstallStub
  <2>3. \A r : ~ Reaches(x, r)
    BY <2>1 DEF Reaches
  <2>4. \A r, f : Brings(x, r, f) => Knows(r, f)'
    BY <1>2, <2>1, <2>2 DEF Brings
  <2>5. \A r \in D : Knows(r, e)' => Knows(r, e)
    BY <1>3, <2>1, <2>2 DEF AimedAt
  <2> QED BY <1>a, <2>1, <2>3, <2>4, <2>5
<1>12. CASE Choose(x)
  <2>1. PICK chosen \in SUBSET Unknown(x) :
            /\ \/ Cardinality(chosen) = Fanout
               \/ chosen = Unknown(x) /\ Cardinality(chosen) < Fanout
            /\ dials' = (dials \ {x}) \cup {[x EXCEPT !.phase = "announce", !.list = chosen]}
    BY <1>12 DEF Choose
  <2>2. chosen = Unknown(x)
    <3>1. IsFiniteSet(Unknown(x))
      BY FS_Subset DEF Unknown, ListsFinite
    <3>2. ~ (Cardinality(Unknown(x)) > Fanout)
      BY <1>12 DEF Choose
    <3>3. /\ Cardinality(Unknown(x)) \in Nat /\ Cardinality(chosen) \in Nat
          /\ Cardinality(chosen) <= Cardinality(Unknown(x))
          /\ Cardinality(chosen) = Cardinality(Unknown(x)) => chosen = Unknown(x)
      BY <2>1, <3>1, FS_Subset, FS_CardinalityType
    <3> QED BY <2>1, <3>2, <3>3, FanoutAssumption
  <2> DEFINE y == [x EXCEPT !.phase = "announce", !.list = chosen]
  <2>3. /\ y.by = x.by /\ y.to = x.to /\ y.stub = x.stub /\ y.phase = "announce"
        /\ y.list = chosen
    BY <1>2 DEF Dial
  <2>4. dials' = (dials \ {x}) \cup {y} /\ x.phase = "choose" /\ ~ x.stub /\ UNCHANGED key
    BY <1>3, <1>12, <2>1 DEF Choose, AimedAt, Told
  <2> HIDE DEF y
  <2>5. AimedAt(y, D, E, e)
    BY <1>3, <2>3, <2>4 DEF AimedAt
  <2>6. \A r : Reaches(x, r) => Reaches(y, r)
    BY <2>3, <2>4 DEF Reaches, Live, Answered
  <2>7. \A r \in D : \A f \in E \ {e, r} : Brings(x, r, f) /\ ~ Knows(r, f) => Brings(y, r, f)
    BY <2>2, <2>3, <2>4 DEF Brings, Told, Unknown, Known
  <2> QED BY <1>a, <1>b, <2>4, <2>5, <2>6, <2>7
<1>13. CASE Announce(x)
  <2> DEFINE y == [x EXCEPT !.phase = "tell", !.tell = Known(x.by) \ {x.to}]
  <2>1. /\ y.by = x.by /\ y.to = x.to /\ y.stub = x.stub /\ y.phase = "tell"
        /\ y.list = x.list /\ y.tell = Known(x.by) \ {x.to}
    BY <1>2 DEF Dial
  <2>2. /\ dials' = (dials \ {x}) \cup Rest(y)
        /\ x.phase = "announce" /\ ~ x.stub /\ UNCHANGED key
    BY <1>3, <1>13 DEF Announce, AimedAt, Told
  <2> HIDE DEF y
  <2>3. /\ \A u \in Rest(y) : u = y
        /\ y.list \cup y.tell # {} => y \in dials'
    BY <2>2 DEF Rest
  <2>4. AimedAt(y, D, E, e)
    BY <1>3, <2>1, <2>2 DEF AimedAt
  <2>5. \A r \in D \ {e} : Reaches(x, r) => Reaches(y, r) /\ y \in dials'
    <3> SUFFICES ASSUME NEW r \in D \ {e}, Reaches(x, r)
                 PROVE  Reaches(y, r) /\ y \in dials'
      OBVIOUS
    <3>1. x.by # r
      BY <2>2 DEF Reaches, Live, Answered
    <3>2. r \in y.tell
      BY <1>3, <1>4, <2>1, <2>2, <3>1 DEF Known
    <3> QED BY <2>1, <2>2, <2>3, <3>1, <3>2 DEF Reaches
  <2>6. \A r, f : Brings(x, r, f) => Brings(y, r, f) /\ y \in dials'
    BY <2>1, <2>2, <2>3 DEF Brings, Told
  <2> QED BY <1>a, <1>b, <2>2, <2>3, <2>4, <2>5, <2>6
<1>14. ASSUME NEW g \in Devices, BeginStub(x, g) PROVE Merging(D, E, e)'
  <2> DEFINE y == [x EXCEPT !.list = @ \ {g}]
             rest == (dials \ {x}) \cup Rest(y)
             stub == TRUE
  <2>1. /\ y.by = x.by /\ y.to = x.to /\ y.stub = x.stub /\ y.phase = x.phase
        /\ y.list = x.list \ {g} /\ y.tell = x.tell
    BY <1>2 DEF Dial
  <2>2. /\ x.phase \in {"announce", "tell"} /\ g \in x.list /\ ~ x.stub /\ UNCHANGED key
        /\ \/ Knows(x.by, g) /\ dials' = rest
           \/ ~ Knows(x.by, g) /\ Open(x.by, g, stub, rest)
    BY <1>3, <1>14 DEF BeginStub, AimedAt, Told
  <2>3. /\ rest \subseteq (dials \ {x}) \cup {y} /\ dials \ {x} \subseteq rest
        /\ x.phase = "announce" \/ y.list \cup y.tell # {} => y \in rest
    BY <2>1 DEF Rest
  <2>4. stub = TRUE
    OBVIOUS
  <2> HIDE DEF y, rest, stub
  <2>5. rest \subseteq dials'
    BY <2>2, OpenNew
  <2>6. AimedAt(y, D, E, e)
    BY <1>3, <2>1, <2>2 DEF AimedAt
  <2>7. \A r : Reaches(x, r) => Reaches(y, r) /\ y \in rest
    BY <2>1, <2>2, <2>3 DEF Reaches, Live, Answered
  <2>8. \A r, f : Brings(x, r, f) /\ f # g => Brings(y, r, f) /\ y \in rest
    BY <2>1, <2>2, <2>3 DEF Brings
  <2>9. CASE Knows(x.by, g)
    <3>1. dials' = rest
      BY <2>2, <2>9
    <3>2. \A r, f : Brings(x, r, f) /\ ~ Knows(r, f) => f # g
      BY <2>2, <2>9 DEF Brings
    <3> QED BY <1>a, <1>b, <2>2, <2>3, <2>6, <2>7, <2>8, <3>1, <3>2
  <2>10. CASE ~ Knows(x.by, g)
    <3>1. PICK u : /\ dials' = rest \cup {u} /\ u.by = x.by /\ u.to = g /\ u.stub = stub
                   /\ u.phase = "request" /\ u.list = {} /\ u.tell = {}
      BY <2>2, <2>10, OpenNew
    <3>2. g \in E /\ g # e
      <4>1. Knows(x.to, g) /\ g # x.by
        BY <1>2, <2>2 DEF HandsOnKnown
      <4>2. g \in D \cup E /\ g \notin D
        BY <1>2, <1>3, <1>4, <2>10, <4>1
      <4> QED BY <1>3, <1>6, <2>2, <4>1, <4>2
    <3>3. AimedAt(u, D, E, e)
      BY <1>3, <2>4, <3>1, <3>2 DEF AimedAt, Told
    <3>4. \A r, f : Brings(x, r, f) /\ f = g => Brings(u, r, f)
      BY <2>4, <3>1 DEF Brings
    <3> QED BY <1>a, <1>b, <2>2, <2>3, <2>5, <2>6, <2>7, <2>8, <3>1, <3>3, <3>4
  <2> QED BY <2>9, <2>10
<1>15. ASSUME NEW g \in Devices, Tell(x, g) PROVE Merging(D, E, e)'
  <2> DEFINE y == [x EXCEPT !.tell = @ \ {g}]
             rest == (dials \ {x}) \cup Rest(y)
             stub == FALSE
  <2>1. /\ y.by = x.by /\ y.to = x.to /\ y.stub = x.stub /\ y.phase = x.phase
        /\ y.list = x.list /\ y.tell = x.tell \ {g}
    BY <1>2 DEF Dial
  <2>2. /\ x.phase = "tell" /\ g \in x.tell /\ ~ x.stub /\ x.to = e /\ UNCHANGED key
        /\ \/ ~ Heeds(g, x) /\ dials' = rest
           \/ Heeds(g, x) /\ Open(g, x.to, stub, rest)
    BY <1>3, <1>15 DEF Tell, AimedAt, Told
  <2>3. /\ rest \subseteq (dials \ {x}) \cup {y} /\ dials \ {x} \subseteq rest
        /\ y.list \cup y.tell # {} => y \in rest
    BY DEF Rest
  <2>4. stub = FALSE
    OBVIOUS
  <2> HIDE DEF y, rest, stub
  <2>5. rest \subseteq dials'
    BY <2>2, OpenNew
  <2>6. AimedAt(y, D, E, e)
    BY <1>3, <2>1, <2>2 DEF AimedAt, Told
  <2>7. \A r : Reaches(x, r) /\ r # g => Reaches(y, r) /\ y \in rest
    BY <2>1, <2>2, <2>3 DEF Reaches, Live, Answered
  <2>8. \A r, f : Brings(x, r, f) => Brings(y, r, f) /\ y \in rest
    BY <2>1, <2>2, <2>3 DEF Brings
  <2>9. Knows(x.by, g)
    BY <1>2, <2>2 DEF HandsOnKnown
  <2>10. CASE ~ Heeds(g, x)
    <3>1. dials' = rest
      BY <2>2, <2>10
    <3>2. \A r \in D \ {e} : r = g => Knows(r, e)'
      <4> SUFFICES ASSUME g \in D \ {e} PROVE Knows(g, e)'
        OBVIOUS
      <4>1. Knows(g, x.by)
        BY <1>2, <1>3, <1>4, <1>6, <2>9
      <4>2. Knows(g, e)
        BY <2>2, <2>10, <4>1 DEF Heeds
      <4> QED BY <1>5, <4>2
    <3> QED BY <1>a, <1>b, <2>2, <2>3, <2>6, <2>7, <2>8, <3>1, <3>2
  <2>11. CASE Heeds(g, x)
    <3>1. PICK u : /\ dials' = rest \cup {u} /\ u.by = g /\ u.to = x.to /\ u.stub = stub
                   /\ u.phase = "request" /\ u.list = {} /\ u.tell = {}
      BY <2>2, <2>11, OpenNew
    <3>2. g \in D
      <4>1. g \in D \cup E
        BY <1>2, <1>3, <1>4, <2>9
      <4>2. g \notin E
        BY <1>3, <1>4, <2>11 DEF Heeds
      <4> QED BY <4>1, <4>2
    <3>3. AimedAt(u, D, E, e)
      BY <1>3, <2>2, <2>4, <3>1, <3>2 DEF AimedAt, Told
    <3>4. \A r : r = g => Reaches(u, r)
      BY <2>4, <3>1 DEF Reaches, Live
    <3> QED BY <1>a, <1>b, <2>2, <2>3, <2>5, <2>6, <2>7, <2>8, <3>1, <3>3, <3>4
  <2> QED BY <2>10, <2>11
<1> QED
  BY <1>7, <1>8, <1>9, <1>10, <1>11, <1>12, <1>13, <1>14, <1>15 DEF DialStep

LEMMA MergeInvInit == Init => MergeInv
BY DEF Init, MergeInv, AtRest, Complete, Knows

LEMMA MergeInvStep ==
    MeshInv /\ HandsOnKnown /\ ListsFinite /\ MergeInv /\ [Next]_vars => MergeInv'
<1> SUFFICES ASSUME MeshInv, HandsOnKnown, ListsFinite, MergeInv, [Next]_vars,
                    ~ crowded', ~ truncated'
             PROVE  Merges' \/ (AtRest /\ Complete)'
  BY DEF MergeInv
<1>1. CASE UNCHANGED vars
  <2>1. ~ crowded /\ ~ truncated
    BY <1>1 DEF vars
  <2>2. CASE AtRest /\ Complete
    BY <1>1, <2>2 DEF vars, AtRest, Complete, Knows
  <2>3. CASE Merges
    <3>1. PICK D \in SUBSET Devices, E \in SUBSET Devices : \E e \in E : Merging(D, E, e)
      BY <2>3 DEF Merges
    <3>2. PICK e \in E : Merging(D, E, e)
      BY <3>1
    <3>3. /\ \A x : AimedAt(x, D, E, e)' <=> AimedAt(x, D, E, e)
          /\ \A x, r : Reaches(x, r)' <=> Reaches(x, r)
          /\ \A x, r, f : Brings(x, r, f)' <=> Brings(x, r, f)
          /\ \A a, b : Knows(a, b)' <=> Knows(a, b)
      BY <1>1 DEF vars, AimedAt, Reaches, Brings, Live, Answered, Told, Knows
    <3>4. WereComplete(D, E)' /\ Apart(D \cup E)'
      BY <3>2, <3>3 DEF Merging, WereComplete, Apart
    <3>5. Merging(D, E, e)'
      BY <1>1, <3>2, <3>3, <3>4 DEF vars, Merging
    <3> QED BY <3>5 DEF Merges
  <2> QED BY <2>1, <2>2, <2>3 DEF MergeInv
<1>2. ASSUME NEW d \in Devices, NEW e \in Devices, Join(d, e) PROVE Merges'
  <2>1. AtRest /\ ~ crowded /\ ~ truncated
    BY <1>2 DEF Join, AtRest
  <2>2. Complete
    BY <2>1, MergedIsComplete DEF MergeInv, MeshInv
  <2> QED BY <1>2, <2>1, <2>2, JoinMerges
<1>3. ASSUME NEW x \in dials, DialStep(x) PROVE Merges'
  <2>1. ~ crowded /\ ~ truncated
    BY <1>3 DEF DialStep, Answer, Offer, FinishStub, InstallStub, Finish, Choose, Announce,
                BeginStub, Tell, MeshInv, TypeOK
  <2>2. PICK D \in SUBSET Devices, E \in SUBSET Devices : \E e \in E : Merging(D, E, e)
    BY <1>3, <2>1 DEF MergeInv, AtRest, Merges
  <2>3. PICK e \in E : Merging(D, E, e)
    BY <2>2
  <2>4. Merging(D, E, e)'
    BY <1>3, <2>3, MergeStep
  <2> QED BY <2>4 DEF Merges
<1> QED BY <1>1, <1>2, <1>3 DEF Next

(* Joins that are made one after the other leave a complete mesh once all  *)
(* is quiet, whatever groups they merge and in whatever order dials,       *)
(* answers, stubs and announces come (specs/group-discovery.md:50), as     *)
(* long as no answer offers more unknown members than are dialled.         *)
THEOREM CompleteAlone == Spec => []CompleteIfAlone
<1>1. MeshInv /\ MergeInv => CompleteIfAlone
  BY MergedIsComplete DEF MeshInv, MergeInv, CompleteIfAlone
<1>2. Spec => []ListsFinite
  BY FiniteInit, FiniteStep, TypeCorrect, PTL DEF Spec
<1>3. Spec => []MergeInv
  BY <1>2, MergeInvInit, MergeInvStep, MeshInvariant, HandsOnAlways, PTL DEF Spec
<1> QED BY <1>1, <1>3, MeshInvariant, PTL

=============================================================================
