---------------------------- MODULE PeerLinksProofs ----------------------------
(***************************************************************************)
(* Proofs about PeerLinks for any devices, hosts and bounds.               *)
(*                                                                         *)
(* KeysAgreeUnlessCrossed is not inductive: it says nothing while an       *)
(* answer is on its way.  AgreeInv adds what holds in between.             *)
(***************************************************************************)
EXTENDS PeerLinks, TLAPS

(* One program runs per host, and only a running one holds keys.           *)
OnePerHost  == \A d, e \in Ids : Up(d) /\ Up(e) /\ Home[d] = Home[e] => d = e
OnlyUpHolds == \A d, e \in Ids : Knows(d, e) => Up(d)

(* What the fields of an exchange say about each other and about status.   *)
Wellformed ==
    \A x \in exch :
        /\ status[x.by] # "off"
        /\ x.phase # "late" => Up(x.by)
        /\ x.phase = "late" => ~ x.alone
        /\ x.phase = "answer" => x.resp \in Ids /\ Home[x.resp] = x.host

(* alone means what it says.                                               *)
AloneIsAlone == \A x, y \in exch : x.alone /\ Route(x) = Route(y) => x = y

(* The only key the dialler's peers can hold for it is the answered one.   *)
AnswerHeld ==
    \A x \in exch : x.alone /\ x.phase = "answer" =>
        \A e \in Residents(x.host) :
            Knows(e, x.by) => e = x.resp /\ key[e][x.by] = x.key

(* A late request of a device that still runs keeps its route suspect.     *)
LateIsSuspect == \A x \in exch : x.phase = "late" /\ Up(x.by) => Route(x) \in suspect

AgreeInv ==
    /\ TypeOK /\ OnePerHost /\ OnlyUpHolds /\ Wellformed
    /\ AloneIsAlone /\ AnswerHeld /\ LateIsSuspect /\ KeysAgreeUnlessCrossed

-----------------------------------------------------------------------------
(* An exchange with its phase, answer or solitude changed is an exchange.  *)
LEMMA ExchangeEdits ==
    ASSUME NEW x \in Exchange
    PROVE  /\ [x EXCEPT !.alone = FALSE] \in Exchange
           /\ [x EXCEPT !.phase = "late", !.about = NoId, !.alone = FALSE] \in Exchange
           /\ \A u \in Ids, k \in Keys :
                 [x EXCEPT !.phase = "answer", !.resp = u, !.key = k] \in Exchange
BY DEF Exchange

(* What Open leaves in exch: the other routes, the rivals marked, a request.*)
LEMMA Opened ==
    ASSUME TypeOK, NEW d \in Ids, NEW h \in Hosts, NEW e \in Ids \cup {NoId}, Open(d, h, e)
    PROVE  \E new \in Exchange :
              /\ new.by = d /\ new.host = h /\ new.phase = "request"
              /\ new.alone => \A x \in exch : Route(x) # {Home[d], h}
              /\ new \in exch'
              /\ \A y \in exch' :
                    \/ y = new
                    \/ y \in exch /\ Route(y) # {Home[d], h}
                    \/ \E x \in exch : /\ y = [x EXCEPT !.alone = FALSE] /\ y \in Exchange
                                       /\ Route(x) = {Home[d], h}
              /\ \A x \in exch : x \in exch' \/ [x EXCEPT !.alone = FALSE] \in exch'
<1> DEFINE rivals == {x \in exch : Route(x) = {Home[d], h}}
           new == [by |-> d, host |-> h, about |-> e, phase |-> "request",
                   resp |-> NoId, key |-> NoKey, alone |-> rivals = {}]
<1>1. exch' = (exch \ rivals) \cup {[x EXCEPT !.alone = FALSE] : x \in rivals} \cup {new}
  BY DEF Open
<1>2. /\ new \in Exchange /\ new.by = d /\ new.host = h /\ new.phase = "request"
      /\ new.alone => \A x \in exch : Route(x) # {Home[d], h}
  BY DEF Exchange
<1>3. \A x \in rivals : [x EXCEPT !.alone = FALSE] \in Exchange
  <2> SUFFICES ASSUME NEW x \in rivals PROVE [x EXCEPT !.alone = FALSE] \in Exchange
    OBVIOUS
  <2>1. x \in Exchange
    BY DEF TypeOK
  <2> QED BY <2>1, ExchangeEdits
<1> HIDE DEF new
<1>4. new \in exch'
  BY <1>1
<1>5. \A y \in exch' :
         \/ y = new
         \/ y \in exch /\ Route(y) # {Home[d], h}
         \/ \E x \in exch : /\ y = [x EXCEPT !.alone = FALSE] /\ y \in Exchange
                            /\ Route(x) = {Home[d], h}
  BY <1>1, <1>3
<1>6. \A x \in exch : x \in exch' \/ [x EXCEPT !.alone = FALSE] \in exch'
  BY <1>1
<1> HIDE DEF rivals
<1> QED BY <1>2, <1>4, <1>5, <1>6

LEMMA OpenedType ==
    ASSUME TypeOK, NEW d \in Ids, NEW h \in Hosts, NEW e \in Ids \cup {NoId}, Open(d, h, e)
    PROVE  exch' \subseteq Exchange
<1>1. exch \subseteq Exchange
  BY DEF TypeOK
<1> QED BY <1>1, Opened

LEMMA RouteType ==
    ASSUME TypeOK, NEW x \in exch
    PROVE  Route(x) \in {{g, h} : g, h \in Hosts}
<1>1. x.by \in Ids /\ x.host \in Hosts
  BY DEF TypeOK, Exchange
<1>2. Home[x.by] \in Hosts
  BY <1>1 DEF Hosts
<1> QED BY <1>1, <1>2 DEF Route

LEMMA InstallType ==
    ASSUME TypeOK, NEW d \in Ids, NEW e \in Ids, NEW k \in Keys, Install(d, e, k)
    PROVE  /\ key' \in [Ids -> [Ids -> Keys \cup {NoKey}]]
           /\ fails' \in [Ids -> [Ids -> 0..Limit]]
           /\ \A a, b \in Ids : key'[a][b] = IF a = d /\ b = e THEN k ELSE key[a][b]
           /\ \A a, b \in Ids : fails'[a][b] = IF a = d /\ b = e THEN 0 ELSE fails[a][b]
BY LimitAssumption DEF TypeOK, Install

(* Clearing one counter, or counting one failure, keeps the counters.      *)
LEMMA FailsType ==
    ASSUME TypeOK, NEW d \in Ids, NEW e \in Ids, NEW n \in 0..Limit,
           fails' = [fails EXCEPT ![d][e] = n], Knows(d, e) \/ n = 0, UNCHANGED key
    PROVE  /\ fails' \in [Ids -> [Ids -> 0..Limit]]
           /\ \A a, b \in Ids : ~ Knows(a, b)' => fails'[a][b] = 0
BY DEF TypeOK, Knows

LEMMA PingType ==
    ASSUME TypeOK, NEW d \in Ids, NEW e \in Ids,
           NEW t \in {"idle", "sent", "ok", "failed", "rebuild"},
           ping' = [ping EXCEPT ![d][e] = t]
    PROVE  ping' \in [Ids -> [Ids -> {"idle", "sent", "ok", "failed", "rebuild"}]]
BY DEF TypeOK

LEMMA SettledType ==
    ASSUME TypeOK, NEW x \in exch, ping' = Settled(x)
    PROVE  ping' \in [Ids -> [Ids -> {"idle", "sent", "ok", "failed", "rebuild"}]]
<1>1. x.by \in Ids /\ x.about \in Ids \cup {NoId}
  BY DEF TypeOK, Exchange
<1> QED BY <1>1 DEF TypeOK, Settled

-----------------------------------------------------------------------------
LEMMA TypeInit == Init => TypeOK
BY LimitAssumption, BoundsAssumption DEF Init, TypeOK, Knows

LEMMA TypeStep == TypeOK /\ [Next]_vars => TypeOK'
<1> SUFFICES ASSUME TypeOK, [Next]_vars PROVE TypeOK'
  OBVIOUS
<1> USE BoundsAssumption, LimitAssumption
<1>0. 0 \in 0..Limit
  OBVIOUS
<1>1. ASSUME NEW d \in Ids, Start(d) PROVE TypeOK'
  BY <1>1 DEF Start, TypeOK, Knows
<1>2. ASSUME NEW d \in Ids, NEW hearers, Vanish(d, hearers) PROVE TypeOK'
  <2>1. PICK sent \in SUBSET {x \in exch : x.by = d /\ x.phase = "request"} :
            exch' = Orphaned(d, sent)
    BY <1>2 DEF Vanish
  <2>2. \A x \in sent : [x EXCEPT !.phase = "late", !.about = NoId, !.alone = FALSE] \in Exchange
    <3> SUFFICES ASSUME NEW x \in sent
        PROVE [x EXCEPT !.phase = "late", !.about = NoId, !.alone = FALSE] \in Exchange
      OBVIOUS
    <3>1. x \in Exchange
      BY DEF TypeOK
    <3> QED BY <3>1, ExchangeEdits
  <2>3. exch' \subseteq Exchange
    <3>1. exch \subseteq Exchange
      BY DEF TypeOK
    <3> QED BY <2>1, <2>2, <3>1 DEF Orphaned
  <2>4. status' \in [Ids -> {"off", "up", "gone"}]
    BY <1>2 DEF Vanish, TypeOK
  <2> DEFINE lost(e, f) == e = d \/ (e \in hearers /\ f = d)
  <2>5. /\ key' = [e \in Ids |-> [f \in Ids |-> IF lost(e, f) THEN NoKey ELSE key[e][f]]]
        /\ fails' = [e \in Ids |-> [f \in Ids |-> IF lost(e, f) THEN 0 ELSE fails[e][f]]]
    BY <1>2 DEF Vanish
  <2> HIDE DEF lost
  <2>6. key' \in [Ids -> [Ids -> Keys \cup {NoKey}]]
    BY <2>5 DEF TypeOK
  <2>7. fails' \in [Ids -> [Ids -> 0..Limit]]
    BY <2>5 DEF TypeOK
  <2>8. \A a, b \in Ids : ~ Knows(a, b)' => fails'[a][b] = 0
    BY <2>5 DEF TypeOK, Knows
  <2>9. ping' \in [Ids -> [Ids -> {"idle", "sent", "ok", "failed", "rebuild"}]]
    BY <1>2 DEF Vanish, TypeOK
  <2> QED BY <1>2, <2>3, <2>4, <2>6, <2>7, <2>8, <2>9 DEF Vanish, TypeOK
<1>3. ASSUME NEW d \in Ids, NEW h \in Hosts, Join(d, h) PROVE TypeOK'
  <2>1. exch' \subseteq Exchange
    BY <1>3, OpenedType DEF Join
  <2> QED BY <1>3, <2>1 DEF Join, TypeOK, Knows
<1>4. ASSUME NEW x \in exch, NEW u \in Ids, Answer(x, u) PROVE TypeOK'
  <2>1. PICK k \in Keys :
            /\ Install(u, x.by, k)
            /\ exch' = (exch \ {x}) \cup
                 IF x.phase = "late" THEN {}
                 ELSE {[x EXCEPT !.phase = "answer", !.resp = u, !.key = k]}
    BY <1>4 DEF Answer
  <2>2. x \in Exchange /\ x.by \in Ids
    BY DEF TypeOK, Exchange
  <2>3. [x EXCEPT !.phase = "answer", !.resp = u, !.key = k] \in Exchange
    BY <2>2, ExchangeEdits
  <2>4. exch' \subseteq Exchange
    BY <2>1, <2>3 DEF TypeOK
  <2>5. \A a, b \in Ids : ~ Knows(a, b)' => fails'[a][b] = 0
    BY <2>1, <2>2, InstallType DEF Knows, TypeOK, Keys, NoKey
  <2> QED BY <1>4, <2>1, <2>2, <2>4, <2>5, InstallType DEF Answer, TypeOK
<1>5. ASSUME NEW x \in exch, Finish(x) PROVE TypeOK'
  <2>1. x.by \in Ids /\ x.resp \in Ids \cup {NoId} /\ x.key \in Keys \cup {NoKey}
    BY DEF TypeOK, Exchange
  <2>2. key' \in [Ids -> [Ids -> Keys \cup {NoKey}]]
    <3> DEFINE held == [key[x.by] EXCEPT ![x.resp] = x.key]
    <3>1. key' = [key EXCEPT ![x.by] = held]
      BY <1>5 DEF Finish
    <3>2. key \in [Ids -> [Ids -> Keys \cup {NoKey}]]
      BY DEF TypeOK
    <3>3. key[x.by] \in [Ids -> Keys \cup {NoKey}]
      BY <2>1, <3>2
    <3>4. held \in [Ids -> Keys \cup {NoKey}]
      BY <2>1, <3>3
    <3> HIDE DEF held
    <3> QED BY <2>1, <3>1, <3>2, <3>4
  <2> DEFINE row == [e \in Ids |-> IF e \in {x.resp, x.about} THEN 0 ELSE fails[x.by][e]]
  <2>3. fails' = [fails EXCEPT ![x.by] = row]
    BY <1>5, <2>1 DEF Finish, TypeOK
  <2>4. row \in [Ids -> 0..Limit]
    BY <2>1 DEF TypeOK
  <2>5. \A a, b \in Ids : ~ Knows(a, b)' => fails'[a][b] = 0
    <3> SUFFICES ASSUME NEW a \in Ids, NEW b \in Ids, ~ Knows(a, b)' PROVE fails'[a][b] = 0
      OBVIOUS
    <3>1. CASE a # x.by
      BY <1>5, <2>1, <2>3, <3>1 DEF Finish, TypeOK, Knows
    <3>2. CASE a = x.by /\ b = x.resp
      BY <2>1, <2>3, <3>2 DEF TypeOK
    <3>3. CASE a = x.by /\ b # x.resp
      <4>1. key'[a][b] = key[a][b]
        BY <1>5, <2>1, <3>3 DEF Finish, TypeOK
      <4>2. fails[a][b] = 0
        BY <4>1 DEF Knows, TypeOK
      <4> QED BY <2>1, <2>3, <3>3, <4>2 DEF TypeOK
    <3> QED BY <3>1, <3>2, <3>3
  <2>6. suspect' \subseteq {{g, h} : g, h \in Hosts}
    <3>1. Route(x) \in {{g, h} : g, h \in Hosts}
      BY RouteType
    <3> QED BY <1>5, <3>1 DEF Finish, TypeOK
  <2>7. fails' \in [Ids -> [Ids -> 0..Limit]]
    <3> HIDE DEF row
    <3>1. fails \in [Ids -> [Ids -> 0..Limit]]
      BY DEF TypeOK
    <3> QED BY <2>1, <2>3, <2>4, <3>1
  <2>8. ping' \in [Ids -> [Ids -> {"idle", "sent", "ok", "failed", "rebuild"}]]
    BY <1>5, SettledType DEF Finish
  <2>9. exch' \subseteq exch /\ UNCHANGED <<status, joins, losses>>
    BY <1>5 DEF Finish
  <2> QED BY <2>2, <2>5, <2>6, <2>7, <2>8, <2>9 DEF TypeOK
<1>6. ASSUME NEW x \in exch, Refused(x) PROVE TypeOK'
  <2>1. ping' \in [Ids -> [Ids -> {"idle", "sent", "ok", "failed", "rebuild"}]]
    BY <1>6, SettledType DEF Refused
  <2> QED BY <1>6, <2>1 DEF Refused, TypeOK, Knows
<1>7. ASSUME NEW x \in exch, DialLost(x) PROVE TypeOK'
  <2>1. x \in Exchange
    BY DEF TypeOK
  <2>2. exch' \subseteq Exchange
    <3>1. [x EXCEPT !.phase = "late", !.about = NoId, !.alone = FALSE] \in Exchange
      BY <2>1, ExchangeEdits
    <3> QED BY <1>7, <3>1 DEF DialLost, TypeOK
  <2>3. suspect' \subseteq {{g, h} : g, h \in Hosts}
    <3>1. Route(x) \in {{g, h} : g, h \in Hosts}
      BY RouteType
    <3>2. suspect' \subseteq suspect \cup {Route(x)}
      BY <1>7 DEF DialLost
    <3> QED BY <3>1, <3>2 DEF TypeOK
  <2>4. losses' \in 0..MaxLoss
    BY <1>7 DEF DialLost, Lose, TypeOK
  <2>5. ping' \in [Ids -> [Ids -> {"idle", "sent", "ok", "failed", "rebuild"}]]
    BY <1>7, SettledType DEF DialLost
  <2>6. UNCHANGED <<status, key, fails, joins>>
    BY <1>7 DEF DialLost
  <2> QED BY <2>2, <2>3, <2>4, <2>5, <2>6 DEF TypeOK, Knows
<1>8. ASSUME NEW x \in exch, LateLost(x) PROVE TypeOK'
  BY <1>8 DEF LateLost, TypeOK, Knows
<1>9. ASSUME NEW d \in Ids, BeginRound(d) PROVE TypeOK'
  BY <1>9 DEF BeginRound, TypeOK, Knows
<1>10. ASSUME NEW d \in Ids, NEW e \in Ids, PingArrives(d, e) PROVE TypeOK'
  <2>1. PICK u \in Residents(Home[e]) : Knows(u, d) /\ fails' = [fails EXCEPT ![u][d] = 0]
    BY <1>10 DEF PingArrives
  <2>2. u \in Ids
    BY DEF Residents
  <2>3. /\ fails' \in [Ids -> [Ids -> 0..Limit]]
        /\ \A a, b \in Ids : ~ Knows(a, b)' => fails'[a][b] = 0
    <3>1. UNCHANGED key
      BY <1>10 DEF PingArrives
    <3> QED BY <1>0, <2>1, <2>2, <3>1, FailsType
  <2>4. losses' \in 0..MaxLoss
    BY <1>10 DEF PingArrives, Lose, TypeOK
  <2>5. ping' \in [Ids -> [Ids -> {"idle", "sent", "ok", "failed", "rebuild"}]]
    BY <1>10, PingType DEF PingArrives, Pinged
  <2> QED BY <1>10, <2>3, <2>4, <2>5 DEF PingArrives, TypeOK
<1>11. ASSUME NEW d \in Ids, NEW e \in Ids, PingRefused(d, e) \/ PingLost(d, e) PROVE TypeOK'
  <2>1. losses' \in 0..MaxLoss
    BY <1>11 DEF PingRefused, PingLost, Lose, TypeOK
  <2>2. ping' \in [Ids -> [Ids -> {"idle", "sent", "ok", "failed", "rebuild"}]]
    BY <1>11, PingType DEF PingRefused, PingLost, Pinged
  <2> QED BY <1>11, <2>1, <2>2 DEF PingRefused, PingLost, TypeOK, Knows
<1>12. ASSUME NEW d \in Ids, NEW e \in Ids, PingOk(d, e) PROVE TypeOK'
  <2>1. ping' \in [Ids -> [Ids -> {"idle", "sent", "ok", "failed", "rebuild"}]]
    BY <1>12, PingType DEF PingOk
  <2>2. /\ fails' \in [Ids -> [Ids -> 0..Limit]]
        /\ \A a, b \in Ids : ~ Knows(a, b)' => fails'[a][b] = 0
    <3>1. fails' = [fails EXCEPT ![d][e] = 0] /\ UNCHANGED key
      BY <1>12 DEF PingOk
    <3> QED BY <1>0, <3>1, FailsType
  <2> QED BY <1>12, <2>1, <2>2 DEF PingOk, TypeOK
<1>13. ASSUME NEW d \in Ids, NEW e \in Ids, PingFailed(d, e) PROVE TypeOK'
  <2>1. Counted(d, e) \in 0..Limit /\ (Knows(d, e) \/ Counted(d, e) = 0)
    <3>1. fails[d][e] \in 0..Limit
      BY DEF TypeOK
    <3> QED BY <3>1 DEF Counted
  <2>2. /\ fails' \in [Ids -> [Ids -> 0..Limit]]
        /\ \A a, b \in Ids : ~ Knows(a, b)' => fails'[a][b] = 0
    <3>1. fails' = [fails EXCEPT ![d][e] = Counted(d, e)] /\ UNCHANGED key
      BY <1>13 DEF PingFailed
    <3> QED BY <2>1, <3>1, FailsType
  <2>3. exch' \subseteq Exchange
    <3>1. Home[e] \in Hosts
      BY DEF Hosts
    <3>2. CASE Open(d, Home[e], e)
      BY <3>1, <3>2, OpenedType
    <3>3. CASE exch' = exch
      BY <3>3 DEF TypeOK
    <3> QED BY <1>13, <3>2, <3>3 DEF PingFailed
  <2>4. ping' \in [Ids -> [Ids -> {"idle", "sent", "ok", "failed", "rebuild"}]]
    BY <1>13, PingType DEF PingFailed
  <2> QED BY <1>13, <2>2, <2>3, <2>4 DEF PingFailed, TypeOK
<1>14. CASE UNCHANGED vars
  BY <1>14 DEF vars, TypeOK, Knows
<1> QED
  BY <1>1, <1>2, <1>3, <1>4, <1>5, <1>6, <1>7, <1>8, <1>9, <1>10, <1>11, <1>12, <1>13, <1>14
  DEF Next, Crash, Leave, Replies, PingStep, ResultStep

(* The types of all variables; counters belong to known peers only.        *)
THEOREM TypeCorrect == Spec => []TypeOK
BY TypeInit, TypeStep, PTL DEF Spec

-----------------------------------------------------------------------------
LEMMA SamePair ==
    \A a, b, c, d : {a, b} = {c, d} => (a = c /\ b = d) \/ (a = d /\ b = c)
OBVIOUS

LEMMA AgreeInit == Init => AgreeInv
<1> SUFFICES ASSUME Init PROVE AgreeInv
  OBVIOUS
<1>1. TypeOK
  BY TypeInit
<1>2. \A d, e \in Ids : ~ Knows(d, e) /\ ~ Up(d)
  BY DEF Init, Knows, Up
<1>3. exch = {}
  BY DEF Init
<1> QED
  BY <1>1, <1>2, <1>3 DEF AgreeInv, OnePerHost, OnlyUpHolds, Wellformed, AloneIsAlone,
     AnswerHeld, LateIsSuspect, KeysAgreeUnlessCrossed, Mutual

(* A step that leaves status, key, suspect and exch alone.                 *)
LEMMA AgreeFrame ==
    ASSUME AgreeInv, TypeOK', UNCHANGED <<status, key, exch, suspect>>
    PROVE  AgreeInv'
<1> USE DEF Knows, Up, Residents, Route, Between
<1>1. OnePerHost' /\ OnlyUpHolds' /\ Wellformed'
  BY DEF AgreeInv, OnePerHost, OnlyUpHolds, Wellformed
<1>2. AloneIsAlone' /\ LateIsSuspect'
  BY DEF AgreeInv, AloneIsAlone, LateIsSuspect
<1>3. AnswerHeld'
  BY DEF AgreeInv, AnswerHeld
<1>4. KeysAgreeUnlessCrossed'
  BY DEF AgreeInv, KeysAgreeUnlessCrossed, Mutual
<1> QED BY <1>1, <1>2, <1>3, <1>4 DEF AgreeInv

(* An exchange that is no answer ends.                                     *)
LEMMA AgreeDrop ==
    ASSUME AgreeInv, TypeOK', UNCHANGED <<status, key, suspect>>,
           NEW x \in exch, x.phase # "answer", exch' = exch \ {x}
    PROVE  AgreeInv'
<1> USE DEF Knows, Up, Residents, Route, Between
<1>1. OnePerHost' /\ OnlyUpHolds' /\ Wellformed'
  BY DEF AgreeInv, OnePerHost, OnlyUpHolds, Wellformed
<1>2. AloneIsAlone' /\ LateIsSuspect'
  BY DEF AgreeInv, AloneIsAlone, LateIsSuspect
<1>3. AnswerHeld'
  BY DEF AgreeInv, AnswerHeld
<1>4. KeysAgreeUnlessCrossed'
  BY DEF AgreeInv, KeysAgreeUnlessCrossed, Mutual
<1> QED BY <1>1, <1>2, <1>3, <1>4 DEF AgreeInv

(* A new request joins exch and takes the solitude of its rivals.          *)
LEMMA AgreeOpen ==
    ASSUME AgreeInv, TypeOK', UNCHANGED <<status, key, suspect>>,
           NEW d \in Ids, NEW h \in Hosts, NEW e \in Ids \cup {NoId},
           Up(d), Open(d, h, e)
    PROVE  AgreeInv'
<1> DEFINE route == {Home[d], h}
<1>1. PICK new \in Exchange :
              /\ new.by = d /\ new.host = h /\ new.phase = "request"
              /\ new.alone => \A x \in exch : Route(x) # route
              /\ new \in exch'
              /\ \A y \in exch' :
                    \/ y = new
                    \/ y \in exch /\ Route(y) # route
                    \/ \E x \in exch : /\ y = [x EXCEPT !.alone = FALSE] /\ y \in Exchange
                                       /\ Route(x) = route
              /\ \A x \in exch : x \in exch' \/ [x EXCEPT !.alone = FALSE] \in exch'
  BY Opened DEF AgreeInv
<1>2. Route(new) = route
  BY <1>1 DEF Route
<1>3. \A y \in exch' :
         \/ y = new
         \/ y \in exch /\ Route(y) # route
         \/ /\ ~ y.alone /\ Route(y) = route
            /\ \E x \in exch : /\ y.by = x.by /\ y.host = x.host /\ y.phase = x.phase
                               /\ y.resp = x.resp /\ y.key = x.key /\ Route(y) = Route(x)
  <2> SUFFICES ASSUME NEW y \in exch', NEW x \in exch, y = [x EXCEPT !.alone = FALSE],
                      Route(x) = route
               PROVE  /\ ~ y.alone /\ Route(y) = route
                      /\ y.by = x.by /\ y.host = x.host /\ y.phase = x.phase
                      /\ y.resp = x.resp /\ y.key = x.key
    BY <1>1 DEF Route
  <2>1. x \in Exchange
    BY DEF AgreeInv, TypeOK
  <2> QED BY <2>1 DEF Exchange, Route
<1>4. \A x \in exch : \E y \in exch' : Route(y) = Route(x) /\ y.phase = x.phase
  <2> SUFFICES ASSUME NEW x \in exch, [x EXCEPT !.alone = FALSE] \in exch'
               PROVE  \E y \in exch' : Route(y) = Route(x) /\ y.phase = x.phase
    BY <1>1
  <2>1. x \in Exchange
    BY DEF AgreeInv, TypeOK
  <2>2. /\ [x EXCEPT !.alone = FALSE].by = x.by /\ [x EXCEPT !.alone = FALSE].host = x.host
        /\ [x EXCEPT !.alone = FALSE].phase = x.phase
    BY <2>1 DEF Exchange
  <2> QED BY <2>2 DEF Route
<1>5. /\ Home' = Home /\ \A a, b : Knows(a, b)' = Knows(a, b) /\ Up(a)' = Up(a)
      /\ \A y : Route(y)' = Route(y)
      /\ \A g : Residents(g)' = Residents(g)
  BY DEF Knows, Up, Route, Residents
<1>6. OnePerHost' /\ OnlyUpHolds'
  BY DEF AgreeInv, OnePerHost, OnlyUpHolds, Knows, Up
<1>7. Wellformed'
  BY <1>1, <1>3, <1>5 DEF AgreeInv, Wellformed, Up
<1>8. AloneIsAlone'
  <2> SUFFICES ASSUME NEW x \in exch', NEW y \in exch', x.alone, Route(x) = Route(y)
               PROVE  x = y
    BY <1>5 DEF AloneIsAlone
  <2>1. CASE x = new
    BY <1>1, <1>2, <1>3, <2>1
  <2>2. CASE x # new
    <3>1. x \in exch /\ Route(x) # route
      BY <1>3, <2>2
    <3>2. y \in exch
      BY <1>2, <1>3, <3>1
    <3> QED BY <3>1, <3>2 DEF AgreeInv, AloneIsAlone
  <2> QED BY <2>1, <2>2
<1>9. AnswerHeld'
  BY <1>1, <1>3, <1>5 DEF AgreeInv, AnswerHeld
<1>10. LateIsSuspect'
  BY <1>1, <1>3, <1>5 DEF AgreeInv, LateIsSuspect
<1>11. KeysAgreeUnlessCrossed'
  BY <1>4, <1>5 DEF AgreeInv, KeysAgreeUnlessCrossed, Mutual, Between
<1> QED BY <1>6, <1>7, <1>8, <1>9, <1>10, <1>11 DEF AgreeInv

LEMMA AgreeStart ==
    ASSUME AgreeInv, TypeOK', NEW d \in Ids, Start(d)
    PROVE  AgreeInv'
<1>1. /\ status[d] = "off" /\ Residents(Home[d]) = {} /\ UNCHANGED <<key, exch, suspect>>
      /\ \A e \in Ids : Up(e)' <=> Up(e) \/ e = d
      /\ \A e \in Ids : e # d => status'[e] = status[e]
  BY DEF Start, Up, AgreeInv, TypeOK
<1>2. \A a, b \in Ids : Knows(a, b)' = Knows(a, b)
  BY <1>1 DEF Knows
<1>3. \A a \in Ids : ~ Knows(d, a)
  BY <1>1 DEF AgreeInv, OnlyUpHolds, Up
<1>4. OnePerHost' /\ OnlyUpHolds'
  BY <1>1, <1>2 DEF AgreeInv, OnePerHost, OnlyUpHolds, Residents
<1>5. \A x \in exch : x.by \in Ids /\ x.by # d
  BY <1>1 DEF AgreeInv, Wellformed, TypeOK, Exchange
<1>6. Wellformed'
  BY <1>1, <1>5 DEF AgreeInv, Wellformed
<1>7. AloneIsAlone' /\ LateIsSuspect'
  BY <1>1, <1>5 DEF AgreeInv, AloneIsAlone, LateIsSuspect, Route
<1>8. AnswerHeld'
  BY <1>1, <1>2, <1>3, <1>5 DEF AgreeInv, AnswerHeld, Residents
<1>9. KeysAgreeUnlessCrossed'
  BY <1>1, <1>2, <1>3 DEF AgreeInv, KeysAgreeUnlessCrossed, Mutual, Between, Route
<1> QED BY <1>4, <1>6, <1>7, <1>8, <1>9 DEF AgreeInv

LEMMA AgreeVanish ==
    ASSUME AgreeInv, TypeOK', NEW d \in Ids, NEW hearers, Vanish(d, hearers)
    PROVE  AgreeInv'
<1>1. PICK sent \in SUBSET {x \in exch : x.by = d /\ x.phase = "request"} :
          exch' = Orphaned(d, sent)
  BY DEF Vanish
<1>2. /\ UNCHANGED suspect /\ Up(d)
      /\ \A e \in Ids : Up(e)' <=> Up(e) /\ e # d
      /\ \A e \in Ids : status'[e] # "off" <=> status[e] # "off"
  BY DEF Vanish, Up, AgreeInv, TypeOK
<1>3. \A a, b \in Ids : Knows(a, b)' => a # d /\ Knows(a, b) /\ key'[a][b] = key[a][b]
  BY DEF Vanish, Knows
<1>4. \A y \in exch' :
         \/ y \in exch /\ y.by # d
         \/ /\ y.by = d /\ y.phase = "late" /\ ~ y.alone
            /\ \E z \in exch : z.by = d /\ Route(z) = Route(y)
  <2>1. ASSUME NEW z \in exch, z.by = d, NEW y,
               y = [z EXCEPT !.phase = "late", !.about = NoId, !.alone = FALSE]
        PROVE  /\ y.by = d /\ y.phase = "late" /\ ~ y.alone
               /\ Route(z) = Route(y)
    <3>1. z \in Exchange
      BY DEF AgreeInv, TypeOK
    <3> QED BY <2>1, <3>1 DEF Exchange, Route
  <2> SUFFICES ASSUME NEW y \in exch', ~ (y \in exch /\ y.by # d)
               PROVE  /\ y.by = d /\ y.phase = "late" /\ ~ y.alone
                      /\ \E z \in exch : z.by = d /\ Route(z) = Route(y)
    OBVIOUS
  <2>2. PICK z \in sent : y = [z EXCEPT !.phase = "late", !.about = NoId, !.alone = FALSE]
    BY <1>1 DEF Orphaned
  <2> QED BY <2>1, <2>2
<1>5. \A x \in exch : x.by # d => x \in exch'
  BY <1>1 DEF Orphaned
<1>6. \A y \in exch' : y.by \in Ids
  BY DEF TypeOK, Exchange
<1>7. OnePerHost' /\ OnlyUpHolds'
  BY <1>2, <1>3 DEF AgreeInv, OnePerHost, OnlyUpHolds
<1>8. Wellformed'
  <2>1. ASSUME NEW y \in exch', y \in exch, y.by # d
        PROVE  /\ status'[y.by] # "off" /\ (y.phase # "late" => Up(y.by)')
               /\ (y.phase = "late" => ~ y.alone)
               /\ (y.phase = "answer" => y.resp \in Ids /\ Home[y.resp] = y.host)
    BY <1>2, <1>6, <2>1 DEF AgreeInv, Wellformed
  <2> QED BY <1>2, <1>4, <2>1 DEF Wellformed, Up
<1>9. AloneIsAlone'
  <2> SUFFICES ASSUME NEW x \in exch', NEW y \in exch', x.alone, Route(x) = Route(y)
               PROVE  x = y
    BY DEF AloneIsAlone, Route
  <2>1. x \in exch /\ x.by # d
    BY <1>4
  <2>2. CASE y \in exch
    BY <2>1, <2>2 DEF AgreeInv, AloneIsAlone
  <2>3. CASE y \notin exch
    <3>1. PICK z \in exch : z.by = d /\ Route(z) = Route(y)
      BY <1>4, <2>3
    <3> QED BY <2>1, <3>1 DEF AgreeInv, AloneIsAlone
  <2> QED BY <2>2, <2>3
<1>10. AnswerHeld'
  <2> SUFFICES ASSUME NEW x \in exch', x.alone, x.phase = "answer",
                      NEW e \in Residents(x.host)', Knows(e, x.by)'
               PROVE  e = x.resp /\ key'[e][x.by] = x.key
    BY DEF AnswerHeld
  <2>1. x \in exch /\ e \in Ids /\ x.by \in Ids
    BY <1>4, <1>6 DEF Residents
  <2>2. e \in Residents(x.host)
    BY <1>2 DEF Residents
  <2> QED BY <1>3, <2>1, <2>2 DEF AgreeInv, AnswerHeld
<1>11. LateIsSuspect'
  BY <1>2, <1>4, <1>6 DEF AgreeInv, LateIsSuspect, Route
<1>12. KeysAgreeUnlessCrossed'
  <2> SUFFICES ASSUME NEW a \in Ids, NEW b \in Ids, Mutual(a, b)', Between(a, b) \notin suspect,
                      \A x \in exch' : Route(x) = Between(a, b) => x.phase # "answer"
               PROVE  key'[a][b] = key'[b][a]
    BY <1>2 DEF KeysAgreeUnlessCrossed, Between, Route
  <2>1. a # d /\ b # d /\ Mutual(a, b)
    BY <1>2, <1>3 DEF Mutual
  <2>2. ASSUME NEW x \in exch, Route(x) = Between(a, b) PROVE x.by # d
    <3>1. Home[a] # Home[d] /\ Home[b] # Home[d]
      BY <1>2, <2>1 DEF Mutual, AgreeInv, OnePerHost
    <3> QED BY <2>2, <3>1, SamePair DEF Route, Between
  <2>3. key[a][b] = key[b][a]
    BY <1>5, <2>1, <2>2 DEF AgreeInv, KeysAgreeUnlessCrossed
  <2> QED BY <1>3, <2>3 DEF Mutual
<1> QED BY <1>7, <1>8, <1>9, <1>10, <1>11, <1>12 DEF AgreeInv

LEMMA AgreeAnswer ==
    ASSUME AgreeInv, TypeOK', NEW x \in exch, NEW u \in Ids, Answer(x, u)
    PROVE  AgreeInv'
<1>1. PICK k \in Keys :
          /\ Install(u, x.by, k)
          /\ exch' = (exch \ {x}) \cup
               IF x.phase = "late" THEN {}
               ELSE {[x EXCEPT !.phase = "answer", !.resp = u, !.key = k]}
  BY DEF Answer
<1>2. /\ x.phase \in {"request", "late"} /\ Up(u) /\ Home[u] = x.host
      /\ UNCHANGED <<status, suspect>>
      /\ \A e : Up(e)' = Up(e)
  BY DEF Answer, Residents, Up
<1>3. x \in Exchange /\ x.by \in Ids
  BY DEF AgreeInv, TypeOK, Exchange
<1>4. \A a, b \in Ids : key'[a][b] = IF a = u /\ b = x.by THEN k ELSE key[a][b]
  BY <1>1, <1>3, InstallType DEF AgreeInv
<1>5. \A a, b \in Ids : Knows(a, b)' <=> Knows(a, b) \/ (a = u /\ b = x.by)
  BY <1>4 DEF Knows, Keys, NoKey
<1> DEFINE ans == [x EXCEPT !.phase = "answer", !.resp = u, !.key = k]
<1>6. /\ ans.by = x.by /\ ans.host = x.host /\ ans.alone = x.alone /\ Route(ans) = Route(x)
      /\ ans.phase = "answer" /\ ans.resp = u /\ ans.key = k
  BY <1>3 DEF Exchange, Route
<1> HIDE DEF ans
<1>7. \A y \in exch' : (y \in exch /\ y # x) \/ (y = ans /\ x.phase = "request")
  BY <1>1, <1>2 DEF ans
<1>8. \A y \in exch : y # x => y \in exch'
  BY <1>1
<1>9. x.phase = "request" => ans \in exch'
  BY <1>1 DEF ans
<1>10. OnePerHost' /\ OnlyUpHolds'
  BY <1>2, <1>5 DEF AgreeInv, OnePerHost, OnlyUpHolds
<1>11. Wellformed'
  BY <1>2, <1>6, <1>7 DEF AgreeInv, Wellformed
<1>12. AloneIsAlone'
  <2> SUFFICES ASSUME NEW y \in exch', NEW z \in exch', y.alone, Route(y) = Route(z)
               PROVE  y = z
    BY DEF AloneIsAlone, Route
  <2> QED BY <1>6, <1>7 DEF AgreeInv, AloneIsAlone
<1>13. AnswerHeld'
  <2> SUFFICES ASSUME NEW y \in exch', y.alone, y.phase = "answer",
                      NEW e \in Residents(y.host)', Knows(e, y.by)'
               PROVE  e = y.resp /\ key'[e][y.by] = y.key
    BY DEF AnswerHeld
  <2>1. e \in Residents(y.host) /\ e \in Ids /\ Up(e) /\ Home[e] = y.host
    BY <1>2 DEF Residents
  <2>2. CASE y = ans
    <3>1. e = u
      BY <1>2, <1>6, <2>1, <2>2 DEF AgreeInv, OnePerHost
    <3> QED BY <1>3, <1>4, <1>6, <2>2, <3>1
  <2>3. CASE y # ans
    <3>1. y \in exch /\ y # x /\ y.by \in Ids
      BY <1>7, <2>3 DEF AgreeInv, TypeOK, Exchange
    <3>2. ~ (e = u /\ y.by = x.by)
      BY <1>2, <2>1, <3>1 DEF AgreeInv, AloneIsAlone, Route
    <3> QED BY <1>3, <1>4, <1>5, <2>1, <3>1, <3>2 DEF AgreeInv, AnswerHeld
  <2> QED BY <2>2, <2>3
<1>14. LateIsSuspect'
  BY <1>2, <1>6, <1>7 DEF AgreeInv, LateIsSuspect, Route
<1>15. KeysAgreeUnlessCrossed'
  <2> SUFFICES ASSUME NEW a \in Ids, NEW b \in Ids, Mutual(a, b)', Between(a, b) \notin suspect,
                      \A y \in exch' : Route(y) = Between(a, b) => y.phase # "answer"
               PROVE  key'[a][b] = key'[b][a]
    BY <1>2 DEF KeysAgreeUnlessCrossed, Between, Route
  <2>1. Route(x) = Between(u, x.by)
    BY <1>2 DEF Route, Between
  <2>2. Up(a) /\ Up(b)
    BY <1>2 DEF Mutual
  <2>3. ~ (a = u /\ b = x.by) /\ ~ (b = u /\ a = x.by)
    <3>1. ASSUME Up(x.by), Between(a, b) = Route(x) PROVE FALSE
      <4>1. CASE x.phase = "late"
        BY <1>3, <3>1, <4>1 DEF AgreeInv, LateIsSuspect
      <4>2. CASE x.phase = "request"
        BY <1>6, <1>9, <3>1, <4>2
      <4> QED BY <1>2, <4>1, <4>2
    <3> QED BY <2>1, <2>2, <3>1 DEF Between
  <2>4. Mutual(a, b)
    BY <1>5, <2>2, <2>3 DEF Mutual
  <2>5. \A y \in exch : Route(y) = Between(a, b) => y.phase # "answer"
    BY <1>2, <1>8
  <2>6. key[a][b] = key[b][a]
    BY <2>4, <2>5 DEF AgreeInv, KeysAgreeUnlessCrossed
  <2> QED BY <1>3, <1>4, <2>3, <2>6
<1> QED BY <1>10, <1>11, <1>12, <1>13, <1>14, <1>15 DEF AgreeInv

LEMMA AgreeFinish ==
    ASSUME AgreeInv, TypeOK', NEW x \in exch, Finish(x)
    PROVE  AgreeInv'
<1>1. /\ x.phase = "answer" /\ exch' = exch \ {x} /\ UNCHANGED status
      /\ suspect' = IF x.alone THEN suspect \ {Route(x)} ELSE suspect \cup {Route(x)}
      /\ \A e : Up(e)' = Up(e)
  BY DEF Finish, Up
<1>2. x.by \in Ids /\ x.resp \in Ids /\ x.key \in Keys \cup {NoKey} /\ Up(x.by) /\ Home[x.resp] = x.host
  BY <1>1 DEF AgreeInv, TypeOK, Exchange, Wellformed
<1>3. \A a, b \in Ids : key'[a][b] = IF a = x.by /\ b = x.resp THEN x.key ELSE key[a][b]
  BY <1>2 DEF Finish, AgreeInv, TypeOK
<1>4. \A a, b \in Ids : Knows(a, b)' => Knows(a, b) \/ (a = x.by /\ b = x.resp)
  BY <1>3 DEF Knows
<1>5. OnePerHost' /\ OnlyUpHolds'
  BY <1>1, <1>2, <1>4 DEF AgreeInv, OnePerHost, OnlyUpHolds
<1>6. Wellformed' /\ AloneIsAlone'
  BY <1>1 DEF AgreeInv, Wellformed, AloneIsAlone, Route
<1>7. AnswerHeld'
  <2> SUFFICES ASSUME NEW y \in exch', y.alone, y.phase = "answer",
                      NEW e \in Residents(y.host)', Knows(e, y.by)'
               PROVE  e = y.resp /\ key'[e][y.by] = y.key
    BY DEF AnswerHeld
  <2>1. e \in Residents(y.host) /\ e \in Ids /\ Home[e] = y.host
    BY <1>1 DEF Residents
  <2>2. y \in exch /\ y # x /\ y.by \in Ids
    BY <1>1 DEF AgreeInv, TypeOK, Exchange
  <2>3. ~ (e = x.by /\ y.by = x.resp)
    BY <1>2, <2>1, <2>2 DEF AgreeInv, AloneIsAlone, Route
  <2> QED BY <1>3, <1>4, <2>1, <2>2, <2>3 DEF AgreeInv, AnswerHeld
<1>8. LateIsSuspect'
  <2> SUFFICES ASSUME NEW y \in exch', y.phase = "late", Up(y.by) PROVE Route(y) \in suspect'
    BY <1>1 DEF LateIsSuspect, Route
  <2>1. y \in exch /\ Route(y) \in suspect
    BY <1>1 DEF AgreeInv, LateIsSuspect
  <2>2. CASE x.alone
    BY <1>1, <2>1, <2>2 DEF AgreeInv, AloneIsAlone
  <2>3. CASE ~ x.alone
    BY <1>1, <2>1, <2>3
  <2> QED BY <2>2, <2>3
<1>9. KeysAgreeUnlessCrossed'
  <2> SUFFICES ASSUME NEW a \in Ids, NEW b \in Ids, Mutual(a, b)', Between(a, b) \notin suspect',
                      \A y \in exch' : Route(y) = Between(a, b) => y.phase # "answer"
               PROVE  key'[a][b] = key'[b][a]
    BY DEF KeysAgreeUnlessCrossed, Between, Route
  <2>1. Up(a) /\ Up(b)
    BY <1>1 DEF Mutual
  <2>2. CASE Route(x) # Between(a, b)
    <3>1. ~ (a = x.by /\ b = x.resp) /\ ~ (b = x.by /\ a = x.resp)
      BY <1>2, <2>2 DEF Route, Between
    <3>2. Mutual(a, b)
      BY <1>4, <2>1, <3>1 DEF Mutual
    <3>3. Between(a, b) \notin suspect
      BY <1>1, <2>2
    <3>4. key[a][b] = key[b][a]
      BY <1>1, <2>2, <3>2, <3>3 DEF AgreeInv, KeysAgreeUnlessCrossed
    <3> QED BY <1>3, <3>1, <3>4
  <2>3. CASE Route(x) = Between(a, b)
    <3>1. x.alone
      BY <1>1, <2>3
    <3>2. ASSUME NEW e \in Ids, Mutual(x.by, e)', Home[e] = x.host
          PROVE  key'[x.by][e] = key'[e][x.by]
      <4>1. e \in Residents(x.host)
        BY <1>1, <3>2 DEF Residents, Mutual
      <4>2. CASE e = x.by
        BY <4>2
      <4>3. CASE e # x.by
        <5>1. Knows(e, x.by)
          BY <1>2, <1>4, <3>2, <4>3 DEF Mutual
        <5>2. e = x.resp /\ key[e][x.by] = x.key
          BY <1>1, <3>1, <4>1, <5>1 DEF AgreeInv, AnswerHeld
        <5> QED BY <1>2, <1>3, <4>3, <5>2
      <4> QED BY <4>2, <4>3
    <3>3. \/ Home[a] = Home[x.by] /\ Home[b] = x.host
          \/ Home[b] = Home[x.by] /\ Home[a] = x.host
      BY <2>3, SamePair DEF Route, Between
    <3>4. (a = x.by /\ Home[b] = x.host) \/ (b = x.by /\ Home[a] = x.host)
      BY <1>2, <2>1, <3>3 DEF AgreeInv, OnePerHost
    <3>5. Mutual(b, a)'
      BY DEF Mutual
    <3> QED BY <3>2, <3>4, <3>5
  <2> QED BY <2>2, <2>3
<1> QED BY <1>5, <1>6, <1>7, <1>8, <1>9 DEF AgreeInv

LEMMA AgreeDialLost ==
    ASSUME AgreeInv, TypeOK', NEW x \in exch, DialLost(x)
    PROVE  AgreeInv'
<1> DEFINE late == [x EXCEPT !.phase = "late", !.about = NoId, !.alone = FALSE]
<1>1. /\ UNCHANGED <<status, key>> /\ x.phase \in {"request", "answer"}
      /\ exch' = exch \ {x} \/ (x.phase = "request" /\ exch' = (exch \ {x}) \cup {late})
      /\ suspect' = IF exch' = exch \ {x} /\ x.phase = "request" THEN suspect
                    ELSE suspect \cup {Route(x)}
  BY DEF DialLost
<1>2. x \in Exchange
  BY DEF AgreeInv, TypeOK
<1>3. /\ late.by = x.by /\ late.host = x.host /\ ~ late.alone /\ late.phase = "late"
      /\ Route(late) = Route(x)
  BY <1>2 DEF Exchange, Route
<1> HIDE DEF late
<1>4. CASE exch' = exch \ {x} /\ x.phase = "request"
  BY <1>1, <1>4, AgreeDrop
<1>5. CASE ~ (exch' = exch \ {x} /\ x.phase = "request")
  <2>1. suspect' = suspect \cup {Route(x)}
    BY <1>1, <1>5
  <2>2. \A y \in exch' : (y \in exch /\ y # x) \/ y = late
    BY <1>1
  <2>3. \A y \in exch : y # x => y \in exch'
    BY <1>1
  <2>4. /\ \A a, b : Knows(a, b)' = Knows(a, b) /\ Up(a)' = Up(a)
        /\ \A y : Route(y)' = Route(y)
        /\ \A g : Residents(g)' = Residents(g)
    BY <1>1 DEF Knows, Up, Route, Residents
  <2>5. OnePerHost' /\ OnlyUpHolds'
    BY <2>4 DEF AgreeInv, OnePerHost, OnlyUpHolds
  <2>6. Wellformed'
    BY <1>1, <1>3, <2>2, <2>4 DEF AgreeInv, Wellformed
  <2>7. AloneIsAlone'
    BY <1>3, <2>2, <2>4 DEF AgreeInv, AloneIsAlone
  <2>8. AnswerHeld'
    BY <1>1, <1>3, <2>2, <2>4 DEF AgreeInv, AnswerHeld
  <2>9. LateIsSuspect'
    BY <1>3, <2>1, <2>2, <2>4 DEF AgreeInv, LateIsSuspect
  <2>10. KeysAgreeUnlessCrossed'
    BY <1>1, <2>1, <2>3, <2>4 DEF AgreeInv, KeysAgreeUnlessCrossed, Mutual, Between
  <2> QED BY <2>5, <2>6, <2>7, <2>8, <2>9, <2>10 DEF AgreeInv
<1> QED BY <1>4, <1>5

LEMMA AgreeStep == AgreeInv /\ [Next]_vars => AgreeInv'
<1> SUFFICES ASSUME AgreeInv, [Next]_vars PROVE AgreeInv'
  OBVIOUS
<1>1. TypeOK'
  BY TypeStep DEF AgreeInv
<1>2. ASSUME NEW d \in Ids, Start(d) PROVE AgreeInv'
  BY <1>1, <1>2, AgreeStart
<1>3. ASSUME NEW d \in Ids, Crash(d) \/ Leave(d) PROVE AgreeInv'
  BY <1>1, <1>3, AgreeVanish DEF Crash, Leave
<1>4. ASSUME NEW d \in Ids, NEW h \in Hosts, Join(d, h) PROVE AgreeInv'
  BY <1>1, <1>4, AgreeOpen DEF Join
<1>5. ASSUME NEW x \in exch, Replies(x) PROVE AgreeInv'
  BY <1>1, <1>5, AgreeAnswer DEF Replies
<1>6. ASSUME NEW x \in exch, Finish(x) PROVE AgreeInv'
  BY <1>1, <1>6, AgreeFinish
<1>7. ASSUME NEW x \in exch, Refused(x) \/ LateLost(x) PROVE AgreeInv'
  BY <1>1, <1>7, AgreeDrop DEF Refused, LateLost
<1>8. ASSUME NEW x \in exch, DialLost(x) PROVE AgreeInv'
  BY <1>1, <1>8, AgreeDialLost
<1>9. ASSUME NEW d \in Ids, NEW e \in Ids, PingFailed(d, e) PROVE AgreeInv'
  <2>1. UNCHANGED <<status, key, suspect>>
    BY <1>9 DEF PingFailed
  <2>2. CASE Counted(d, e) = Limit
    <3>1. Up(d)
      BY <2>2, LimitAssumption DEF Counted, AgreeInv, OnlyUpHolds
    <3>2. Open(d, Home[e], e) /\ Home[e] \in Hosts
      BY <1>9, <2>2 DEF PingFailed, Hosts
    <3> QED BY <1>1, <2>1, <3>1, <3>2, AgreeOpen
  <2>3. CASE Counted(d, e) # Limit
    BY <1>1, <1>9, <2>1, <2>3, AgreeFrame DEF PingFailed
  <2> QED BY <2>2, <2>3
<1>10. ASSUME NEW d \in Ids, BeginRound(d) PROVE AgreeInv'
  BY <1>1, <1>10, AgreeFrame DEF BeginRound
<1>11. ASSUME NEW d \in Ids, NEW e \in Ids,
              PingStep(d, e) \/ PingLost(d, e) \/ PingOk(d, e) PROVE AgreeInv'
  BY <1>1, <1>11, AgreeFrame DEF PingStep, PingArrives, PingRefused, PingLost, PingOk
<1>12. CASE UNCHANGED vars
  BY <1>1, <1>12, AgreeFrame DEF vars
<1> QED
  BY <1>2, <1>3, <1>4, <1>5, <1>6, <1>7, <1>8, <1>9, <1>10, <1>11, <1>12 DEF Next, ResultStep

(* The invariant from which the agreement of the keys follows.             *)
THEOREM AgreeInvariant == Spec => []AgreeInv
BY AgreeInit, AgreeStep, PTL DEF Spec

(* Two devices that know each other hold the same key, for any number of   *)
(* hosts, restarts, dials and losses, unless their last handshake crossed  *)
(* another one or failed halfway.                                          *)
THEOREM KeysAgreeAlone == Spec => []KeysAgreeUnlessCrossed
<1>1. AgreeInv => KeysAgreeUnlessCrossed
  BY DEF AgreeInv
<1> QED BY <1>1, AgreeInvariant, PTL
=============================================================================
