---------------------------- MODULE AdmissionProofs ----------------------------
(* The theorems about Admission, then those about Approval: the two        *)
(* modules guard the way of a handshake and share no variable.             *)
EXTENDS Admission, Approval, FiniteSetTheorems, TLAPS

-----------------------------------------------------------------------------
(* The loop leaves a tail of the deque, no longer than it was, and every   *)
(* stamp in it that has not expired.                                       *)
LEMMA UnexpiredIsTail ==
    ASSUME NEW q \in Seq(Calls), NEW now \in Nat, NEW kept \in Unexpired(q, now)
    PROVE  /\ kept \in Seq(Calls) /\ Len(kept) <= Len(q)
           /\ Queued(kept) \subseteq Queued(q)
           /\ \A c \in Queued(q) : ~Expired(c, now) => c \in Queued(kept)
<1>1. PICK n \in 0..Len(q) : /\ \A i \in 1..n : Expired(q[i], now)
                             /\ kept = SubSeq(q, n + 1, Len(q))
    BY DEF Unexpired
<1>2. /\ kept \in Seq(Calls) /\ Len(kept) = Len(q) - n
      /\ \A i \in 1..Len(kept) : kept[i] = q[n + i]
    BY <1>1
<1>3. Queued(kept) \subseteq Queued(q)
    BY <1>1, <1>2 DEF Queued
<1>4. ASSUME NEW c \in Queued(q), ~Expired(c, now)  PROVE c \in Queued(kept)
  <2>1. PICK i \in 1..Len(q) : c = q[i]
      BY DEF Queued
  <2>2. i > n
      BY <1>1, <1>4, <2>1
  <2>3. i - n \in 1..Len(kept) /\ kept[i - n] = c
      BY <1>1, <1>2, <2>1, <2>2
  <2>. QED  BY <2>3 DEF Queued
<1>. QED  BY <1>1, <1>2, <1>3, <1>4

LEMMA AppendQueues ==
    ASSUME NEW q \in Seq(Calls), NEW c \in Calls
    PROVE  /\ Append(q, c) \in Seq(Calls) /\ Len(Append(q, c)) = Len(q) + 1
           /\ Queued(Append(q, c)) = Queued(q) \cup {c}
<1>. DEFINE r == Append(q, c)
<1>1. /\ r \in Seq(Calls) /\ Len(r) = Len(q) + 1 /\ r[Len(q) + 1] = c
      /\ \A i \in 1..Len(q) : r[i] = q[i]
    OBVIOUS
<1>2. Queued(r) \subseteq Queued(q) \cup {c}
    BY <1>1 DEF Queued
<1>3. Queued(q) \subseteq Queued(r) /\ c \in Queued(r)
    BY <1>1 DEF Queued
<1>. QED  BY <1>1, <1>2, <1>3

(* A deque holds no more calls than its length.                            *)
LEMMA QueuedBounded ==
    ASSUME NEW q \in Seq(Calls)
    PROVE  IsFiniteSet(Queued(q)) /\ Cardinality(Queued(q)) <= Len(q)
<1>. DEFINE places == 1..Len(q)
<1>1. q \in Surjection(places, Queued(q))
    BY DEF Surjection, Queued
<1>2. IsFiniteSet(places) /\ Cardinality(places) = Len(q)
  <2>1. 1 \in Int /\ Len(q) \in Int /\ Len(q) \in Nat
      OBVIOUS
  <2>2. IsFiniteSet(places) /\ Cardinality(places) = IF 1 > Len(q) THEN 0 ELSE Len(q) - 1 + 1
      BY <2>1, FS_Interval
  <2>. QED  BY <2>1, <2>2
<1>. QED  BY <1>1, <1>2, FS_Surjection

-----------------------------------------------------------------------------
(* LimiterTypeOK is inductive.                                             *)
LEMMA TypesInitially == LimiterInit => LimiterTypeOK
<1>1. <<>> \in Seq(Calls) /\ Len(<<>>) = 0
    OBVIOUS
<1>2. 0 <= MaxPair /\ 0 <= MaxGlobal /\ 0 \in 0..MaxClock /\ 0 \in 0..0
    BY LimitAssumption
<1>. SUFFICES ASSUME LimiterInit  PROVE LimiterTypeOK
    OBVIOUS
<1>3. /\ clock \in 0..MaxClock /\ state \in [Calls -> States]
      /\ pair \in [Calls -> Pairs] /\ at \in [Calls -> 0..clock]
      /\ late \subseteq {"pair", "global"} /\ misrolled \in BOOLEAN
    BY <1>2 DEF LimiterInit, States
<1>4. /\ perPair \in [Pairs -> Seq(Calls)] /\ global \in Seq(Calls)
      /\ \A p \in Pairs : Len(perPair[p]) <= MaxPair
      /\ Len(global) <= MaxGlobal
    BY <1>1, <1>2 DEF LimiterInit
<1>5. \A c \in Calls : state[c] # "rollback"
    BY DEF LimiterInit
<1>. QED  BY <1>3, <1>4, <1>5 DEF LimiterTypeOK

LEMMA TypesKept == LimiterTypeOK /\ [LimiterNext]_limiterVars => LimiterTypeOK'
<1>. SUFFICES ASSUME LimiterTypeOK, [LimiterNext]_limiterVars  PROVE LimiterTypeOK'
    OBVIOUS
<1>. USE LimitAssumption
<1>1. CASE Tick
    BY <1>1 DEF LimiterTypeOK, Tick
<1>2. ASSUME NEW c \in Calls, Begin(c)  PROVE LimiterTypeOK'
    BY <1>2 DEF LimiterTypeOK, Begin, States
<1>3. ASSUME NEW c \in Calls, PairSection(c)  PROVE LimiterTypeOK'
  <2>1. PICK kept \in Unexpired(perPair[pair[c]], at[c]) :
            \/ /\ Len(kept) >= MaxPair
               /\ perPair' = [perPair EXCEPT ![pair[c]] = kept]
               /\ state' = [state EXCEPT ![c] = "pair_full"]
            \/ /\ Len(kept) < MaxPair
               /\ perPair' = [perPair EXCEPT ![pair[c]] = Append(kept, c)]
               /\ state' = [state EXCEPT ![c] = "global"]
      BY <1>3 DEF PairSection
  <2>2. /\ perPair[pair[c]] \in Seq(Calls) /\ at[c] \in Nat /\ pair[c] \in Pairs
        /\ Len(perPair[pair[c]]) <= MaxPair
      BY DEF LimiterTypeOK
  <2>3. kept \in Seq(Calls) /\ Len(kept) <= Len(perPair[pair[c]])
      BY <2>1, <2>2, UnexpiredIsTail
  <2>4. Append(kept, c) \in Seq(Calls) /\ Len(Append(kept, c)) = Len(kept) + 1
      BY <2>3, AppendQueues
  <2>5. /\ perPair' \in [Pairs -> Seq(Calls)]
        /\ \A p \in Pairs : Len(perPair'[p]) <= MaxPair
    <3>1. PICK q \in Seq(Calls) : /\ Len(q) <= MaxPair
                                  /\ perPair' = [perPair EXCEPT ![pair[c]] = q]
      <4>1. Len(kept) \in Nat /\ Len(perPair[pair[c]]) \in Nat /\ MaxPair \in Nat
          BY <2>2, <2>3
      <4>2. Len(kept) <= MaxPair /\ (Len(kept) < MaxPair => Len(Append(kept, c)) <= MaxPair)
          BY <2>2, <2>3, <2>4, <4>1
      <4>3. CASE perPair' = [perPair EXCEPT ![pair[c]] = kept]
          BY <2>3, <4>2, <4>3
      <4>4. CASE Len(kept) < MaxPair /\ perPair' = [perPair EXCEPT ![pair[c]] = Append(kept, c)]
          BY <2>4, <4>2, <4>4
      <4>. QED  BY <2>1, <4>3, <4>4
    <3>. QED  BY <2>2, <3>1 DEF LimiterTypeOK
  <2>6. state' \in [Calls -> States] /\ \A d \in Calls : state'[d] = "rollback" => state[d] = "rollback"
      BY <2>1 DEF LimiterTypeOK, States
  <2>7. late' \subseteq {"pair", "global"}
      BY <1>3 DEF PairSection, LimiterTypeOK
  <2>. QED  BY <1>3, <2>5, <2>6, <2>7 DEF LimiterTypeOK, PairSection
<1>4. ASSUME NEW c \in Calls, GlobalSection(c)  PROVE LimiterTypeOK'
  <2>1. PICK kept \in Unexpired(global, at[c]) :
            \/ /\ Len(kept) >= MaxGlobal /\ global' = kept
               /\ state' = [state EXCEPT ![c] = "rollback"]
            \/ /\ Len(kept) < MaxGlobal /\ global' = Append(kept, c)
               /\ state' = [state EXCEPT ![c] = "allowed"]
      BY <1>4 DEF GlobalSection
  <2>2. kept \in Seq(Calls) /\ Len(kept) <= Len(global)
      BY <2>1, UnexpiredIsTail DEF LimiterTypeOK
  <2>3. Append(kept, c) \in Seq(Calls) /\ Len(Append(kept, c)) = Len(kept) + 1
      BY <2>2, AppendQueues
  <2>4. global' \in Seq(Calls) /\ Len(global') <= MaxGlobal
    <3>1. /\ Len(kept) \in Nat /\ Len(global) \in Nat /\ MaxGlobal \in Nat
          /\ Len(global) <= MaxGlobal
        BY <2>2 DEF LimiterTypeOK
    <3>. QED  BY <2>1, <2>2, <2>3, <3>1
  <2>5. /\ state' \in [Calls -> States]
        /\ \A d \in Calls : state'[d] = "rollback" => d = c
      BY <1>4, <2>1 DEF LimiterTypeOK, States, GlobalSection
  <2>6. late' \subseteq {"pair", "global"}
      BY <1>4 DEF GlobalSection, LimiterTypeOK
  <2>. QED  BY <1>4, <2>4, <2>5, <2>6 DEF LimiterTypeOK, GlobalSection
<1>5. ASSUME NEW c \in Calls, RollBack(c)  PROVE LimiterTypeOK'
  <2>. DEFINE q == perPair[pair[c]]
              front == SubSeq(q, 1, Len(q) - 1)
  <2>1. q \in Seq(Calls) /\ pair[c] \in Pairs /\ Len(q) <= MaxPair
      BY DEF LimiterTypeOK
  <2>2. front \in Seq(Calls) /\ Len(front) <= MaxPair
      BY <2>1
  <2>3. perPair' = [perPair EXCEPT ![pair[c]] = front]
      BY <1>5 DEF RollBack
  <2>4. /\ perPair' \in [Pairs -> Seq(Calls)]
        /\ \A p \in Pairs : Len(perPair'[p]) <= MaxPair
      BY <2>1, <2>2, <2>3 DEF LimiterTypeOK
  <2>5. misrolled' \in BOOLEAN
      BY <1>5 DEF RollBack, LimiterTypeOK
  <2>6. state' \in [Calls -> States] /\ \A d \in Calls : state'[d] = "rollback" => state[d] = "rollback"
      BY <1>5 DEF RollBack, LimiterTypeOK, States
  <2>. QED  BY <1>5, <2>4, <2>5, <2>6 DEF LimiterTypeOK, RollBack
<1>6. CASE UNCHANGED limiterVars
    BY <1>6 DEF LimiterTypeOK, limiterVars
<1>. QED  BY <1>1, <1>2, <1>3, <1>4, <1>5, <1>6 DEF LimiterNext, Check

(* The limits of the deques hold for any number of calls and any limits.   *)
THEOREM TypeCorrect == LimiterSpec => []LimiterTypeOK
BY TypesInitially, TypesKept, PTL DEF LimiterSpec
-----------------------------------------------------------------------------
(* While nobody is late in the section on global, its stamps are those of  *)
(* the handshakes that no call so far has come a window after.             *)
PastIn(past) == {c \in Calls : state[c] \in past}

Remembered ==
    "global" \notin late =>
        \A c \in Allowed :
            (\A d \in PastIn(PastGlobal) : at[d] < at[c] + Window) => c \in Queued(global)

BoundInv == LimiterTypeOK /\ Remembered /\ GlobalBound

(* A step that leaves the calls in the section alone changes nothing here. *)
LEMMA BoundUndisturbed ==
    ASSUME BoundInv, LimiterTypeOK', late' = late \/ late' = late \cup {"pair"}, global' = global,
           Allowed' = Allowed, PastIn(PastGlobal)' = PastIn(PastGlobal),
           \A c \in PastIn(PastGlobal) : at'[c] = at[c]
    PROVE  BoundInv'
<1>1. "global" \notin late' => "global" \notin late
    OBVIOUS
<1>2. Allowed \subseteq PastIn(PastGlobal)
    BY DEF Allowed, PastIn, PastGlobal
<1>3. Remembered'
  <2>. SUFFICES ASSUME "global" \notin late', NEW c \in Allowed',
                       \A d \in PastIn(PastGlobal)' : at'[d] < at'[c] + Window
                PROVE  c \in Queued(global)'
      BY DEF Remembered
  <2>1. c \in Allowed /\ at'[c] = at[c]
      BY <1>2
  <2>2. \A d \in PastIn(PastGlobal) : at[d] < at[c] + Window
      BY <2>1
  <2>3. c \in Queued(global)
      BY <1>1, <2>1, <2>2 DEF BoundInv, Remembered
  <2>. QED  BY <2>3 DEF Queued
<1>4. GlobalBound'
  <2>. SUFFICES ASSUME "global" \notin late', NEW c \in Allowed'
                PROVE  Cardinality({d \in Allowed' : Within(d, c)'}) <= MaxGlobal
      BY DEF GlobalBound
  <2>1. c \in Allowed
      OBVIOUS
  <2>2. {d \in Allowed' : Within(d, c)'} = {d \in Allowed : Within(d, c)}
      BY <1>2, <2>1 DEF Within
  <2>3. Cardinality({d \in Allowed : Within(d, c)}) <= MaxGlobal
      BY <1>1, <2>1 DEF BoundInv, GlobalBound
  <2>. QED  BY <2>2, <2>3
<1>. QED  BY <1>3, <1>4 DEF BoundInv

(* What a call does in the section on global.                              *)
LEMMA SectionKeepsBound ==
    ASSUME BoundInv, LimiterTypeOK', NEW c \in Calls, GlobalSection(c)
    PROVE  BoundInv'
<1>. USE LimitAssumption
<1>1. PICK kept \in Unexpired(global, at[c]) :
          \/ /\ Len(kept) >= MaxGlobal /\ global' = kept
             /\ state' = [state EXCEPT ![c] = "rollback"]
          \/ /\ Len(kept) < MaxGlobal /\ global' = Append(kept, c)
             /\ state' = [state EXCEPT ![c] = "allowed"]
    BY DEF GlobalSection
<1>2. /\ kept \in Seq(Calls)
      /\ \A d \in Queued(global) : ~Expired(d, at[c]) => d \in Queued(kept)
  <2>1. global \in Seq(Calls) /\ at[c] \in Nat
      BY DEF BoundInv, LimiterTypeOK
  <2>. QED  BY <1>1, <2>1, UnexpiredIsTail
<1>3. Queued(kept) \subseteq Queued(global')
    BY <1>1, <1>2, AppendQueues
<1>4. at' = at /\ state \in [Calls -> States] /\ at \in [Calls -> Nat] /\ state[c] = "global"
    BY DEF BoundInv, LimiterTypeOK, GlobalSection
<1>5. PastIn(PastGlobal)' = PastIn(PastGlobal) \cup {c}
    BY <1>1, <1>4 DEF PastIn, PastGlobal
<1>6. SUFFICES ASSUME "global" \notin late'  PROVE Remembered' /\ GlobalBound'
    BY DEF BoundInv, Remembered, GlobalBound
<1>7. "global" \notin late /\ \A d \in PastIn(PastGlobal) : at[d] <= at[c]
  <2>1. late' = late \cup IF Overtaken(c, PastGlobal) THEN {"global"} ELSE {}
      BY DEF GlobalSection
  <2>2. "global" \notin late /\ ~Overtaken(c, PastGlobal)
      BY <1>6, <2>1
  <2>. QED  BY <1>4, <2>2 DEF Overtaken, PastIn
<1>8. Allowed \subseteq PastIn(PastGlobal) /\ Allowed' \subseteq Allowed \cup {c} /\ c \notin Allowed
    BY <1>1, <1>4 DEF Allowed, PastIn, PastGlobal
<1>9. ASSUME NEW d \in Allowed, at[c] < at[d] + Window  PROVE d \in Queued(global')
  <2>1. \A e \in PastIn(PastGlobal) : at[e] < at[d] + Window
      BY <1>4, <1>7, <1>8, <1>9 DEF PastIn, Allowed
  <2>2. d \in Queued(global)
      BY <1>7, <2>1 DEF BoundInv, Remembered
  <2>3. ~Expired(d, at[c])
      BY <1>4, <1>9 DEF Expired, Allowed
  <2>. QED  BY <1>2, <1>3, <2>2, <2>3
<1>10. c \in Allowed' => global' = Append(kept, c) /\ c \in Queued(global')
  <2>1. c \in Allowed' => global' = Append(kept, c)
      BY <1>1, <1>4 DEF Allowed
  <2>. QED  BY <1>2, <2>1, AppendQueues
<1>11. Remembered'
  <2>. SUFFICES ASSUME NEW d \in Allowed', \A e \in PastIn(PastGlobal)' : at[e] < at[d] + Window
                PROVE  d \in Queued(global')
      BY <1>4 DEF Remembered, Queued
  <2>1. at[c] < at[d] + Window
      BY <1>5
  <2>. QED  BY <1>8, <1>9, <1>10, <2>1
<1>12. GlobalBound'
  <2>. DEFINE before(d) == {e \in Allowed' : Within(e, d)}
  <2>1. SUFFICES ASSUME NEW d \in Allowed'  PROVE Cardinality(before(d)) <= MaxGlobal
      BY <1>4 DEF GlobalBound, Within
  <2>2. CASE c \in Allowed' /\ at[d] = at[c]
    <3>1. before(d) \subseteq Queued(global')
        BY <1>8, <1>9, <1>10, <2>2 DEF Within
    <3>2. global' \in Seq(Calls) /\ Len(global') <= MaxGlobal
        BY DEF LimiterTypeOK
    <3>3. IsFiniteSet(Queued(global')) /\ Cardinality(Queued(global')) <= Len(global')
        BY <3>2, QueuedBounded
    <3>4. /\ Cardinality(before(d)) <= Cardinality(Queued(global'))
          /\ Cardinality(before(d)) \in Nat /\ Cardinality(Queued(global')) \in Nat
        BY <3>1, <3>3, FS_Subset, FS_CardinalityType
    <3>. QED  BY <3>2, <3>3, <3>4
  <2>3. CASE ~(c \in Allowed' /\ at[d] = at[c])
    <3>1. d \in Allowed /\ (c \in Allowed' => at[c] > at[d])
      <4>1. d \in Allowed
          BY <1>8, <2>3
      <4>2. at[d] <= at[c] /\ at[c] \in Nat /\ at[d] \in Nat
          BY <1>4, <1>7, <1>8, <4>1 DEF Allowed
      <4>. QED  BY <2>3, <4>1, <4>2
    <3>2. before(d) \subseteq {e \in Allowed : Within(e, d)}
        BY <1>4, <1>8, <3>1 DEF Within, Allowed
    <3>3. {e \in Allowed : Within(e, d)} \subseteq Calls
        BY DEF Allowed
    <3>4. Cardinality({e \in Allowed : Within(e, d)}) <= MaxGlobal
        BY <1>7, <3>1 DEF BoundInv, GlobalBound
    <3>5. IsFiniteSet({e \in Allowed : Within(e, d)})
        BY <3>3, FS_Subset
    <3>6. /\ Cardinality(before(d)) <= Cardinality({e \in Allowed : Within(e, d)})
          /\ Cardinality(before(d)) \in Nat /\ Cardinality({e \in Allowed : Within(e, d)}) \in Nat
        BY <3>2, <3>5, FS_Subset, FS_CardinalityType
    <3>. QED  BY <3>4, <3>6
  <2>. QED  BY <2>2, <2>3
<1>. QED  BY <1>11, <1>12

LEMMA BoundKept == BoundInv /\ [LimiterNext]_limiterVars => BoundInv'
<1>. SUFFICES ASSUME BoundInv, [LimiterNext]_limiterVars  PROVE BoundInv'
    OBVIOUS
<1>0. LimiterTypeOK /\ LimiterTypeOK'
    BY TypesKept DEF BoundInv
<1>1. CASE Tick
  <2>1. state' = state /\ at' = at /\ global' = global /\ late' = late
      BY <1>1 DEF Tick
  <2>2. Allowed' = Allowed /\ PastIn(PastGlobal)' = PastIn(PastGlobal)
      BY <2>1 DEF Allowed, PastIn, PastGlobal
  <2>. QED  BY <1>0, <2>1, <2>2, BoundUndisturbed
<1>2. ASSUME NEW c \in Calls, Begin(c)  PROVE BoundInv'
  <2>1. /\ state[c] = "none" /\ state' = [state EXCEPT ![c] = "pair"] /\ global' = global
        /\ at' = [at EXCEPT ![c] = clock] /\ late' = late
      BY <1>2 DEF Begin
  <2>2. /\ Allowed' = Allowed /\ PastIn(PastGlobal)' = PastIn(PastGlobal)
        /\ \A d \in PastIn(PastGlobal) : at'[d] = at[d]
      BY <1>0, <2>1 DEF Allowed, PastIn, PastGlobal, LimiterTypeOK
  <2>. QED  BY <1>0, <2>1, <2>2, BoundUndisturbed
<1>3. ASSUME NEW c \in Calls, PairSection(c)  PROVE BoundInv'
  <2>1. /\ state[c] = "pair" /\ global' = global /\ at' = at
        /\ \/ state' = [state EXCEPT ![c] = "pair_full"]
           \/ state' = [state EXCEPT ![c] = "global"]
      BY <1>3 DEF PairSection
  <2>2. late' = late \/ late' = late \cup {"pair"}
      BY <1>3 DEF PairSection
  <2>3. Allowed' = Allowed /\ PastIn(PastGlobal)' = PastIn(PastGlobal)
      BY <1>0, <2>1 DEF Allowed, PastIn, PastGlobal, LimiterTypeOK
  <2>. QED  BY <1>0, <2>1, <2>2, <2>3, BoundUndisturbed
<1>4. ASSUME NEW c \in Calls, GlobalSection(c)  PROVE BoundInv'
    BY <1>0, <1>4, SectionKeepsBound
<1>5. ASSUME NEW c \in Calls, RollBack(c)  PROVE BoundInv'
  <2>1. /\ state[c] = "rollback" /\ state' = [state EXCEPT ![c] = "global_full"]
        /\ global' = global /\ at' = at /\ late' = late
      BY <1>5 DEF RollBack
  <2>2. Allowed' = Allowed /\ PastIn(PastGlobal)' = PastIn(PastGlobal)
      BY <1>0, <2>1 DEF Allowed, PastIn, PastGlobal, LimiterTypeOK
  <2>. QED  BY <1>0, <2>1, <2>2, BoundUndisturbed
<1>6. CASE UNCHANGED limiterVars
  <2>1. state' = state /\ at' = at /\ global' = global /\ late' = late
      BY <1>6 DEF limiterVars
  <2>2. Allowed' = Allowed /\ PastIn(PastGlobal)' = PastIn(PastGlobal)
      BY <2>1 DEF Allowed, PastIn, PastGlobal
  <2>. QED  BY <1>0, <2>1, <2>2, BoundUndisturbed
<1>. QED  BY <1>1, <1>2, <1>3, <1>4, <1>5, <1>6 DEF LimiterNext, Check

(* However many calls there are and whatever the limits and the window: no *)
(* window has more handshakes than the global limit while no call is late. *)
THEOREM GlobalBoundAlways == LimiterSpec => []GlobalBound
<1>1. LimiterInit => BoundInv
  <2>. SUFFICES ASSUME LimiterInit  PROVE BoundInv
      OBVIOUS
  <2>1. Allowed = {}
      BY DEF LimiterInit, Allowed
  <2>. QED  BY <2>1, TypesInitially DEF BoundInv, Remembered, GlobalBound
<1>2. BoundInv => GlobalBound
    BY DEF BoundInv
<1>. QED  BY <1>1, <1>2, BoundKept, PTL DEF LimiterSpec

-----------------------------------------------------------------------------
(* No call has two stamps in a deque, which has the stamps in the order of *)
(* their clocks unless somebody was late.                                  *)
Distinct(q) == \A i, j \in 1..Len(q) : i < j => q[i] # q[j]
InOrder(q)  == \A i, j \in 1..Len(q) : i < j => at[q[i]] <= at[q[j]]

LEMMA TailsInOrder ==
    ASSUME NEW q \in Seq(Calls), NEW now \in Nat, NEW kept \in Unexpired(q, now)
    PROVE  /\ Distinct(q) => Distinct(kept)
           /\ InOrder(q) => InOrder(kept)
<1>1. PICK n \in 0..Len(q) : kept = SubSeq(q, n + 1, Len(q))
    BY DEF Unexpired
<1>2. Len(kept) = Len(q) - n /\ \A i \in 1..Len(kept) : kept[i] = q[n + i] /\ n + i \in 1..Len(q)
    BY <1>1
<1>3. ASSUME NEW i \in 1..Len(kept), NEW j \in 1..Len(kept), i < j
      PROVE  /\ kept[i] = q[n + i] /\ kept[j] = q[n + j]
             /\ n + i \in 1..Len(q) /\ n + j \in 1..Len(q) /\ n + i < n + j
    BY <1>2, <1>3
<1>4. Distinct(q) => Distinct(kept)
    BY <1>3 DEF Distinct
<1>5. InOrder(q) => InOrder(kept)
    BY <1>3 DEF InOrder
<1>. QED  BY <1>4, <1>5

(* Of a deque in order nothing expired is left.                            *)
LEMMA OrderedTailIsFresh ==
    ASSUME NEW q \in Seq(Calls), NEW now \in Nat, NEW kept \in Unexpired(q, now),
           InOrder(q), at \in [Calls -> Nat], LimitAssumption
    PROVE  \A d \in Queued(kept) : now < at[d] + Window
<1>1. PICK n \in 0..Len(q) : /\ kept = SubSeq(q, n + 1, Len(q))
                             /\ n < Len(q) => ~Expired(q[n + 1], now)
    BY DEF Unexpired
<1>. SUFFICES ASSUME NEW i \in 1..Len(kept)  PROVE now < at[kept[i]] + Window
    BY DEF Queued
<1>2. Len(kept) = Len(q) - n /\ kept[i] = q[n + i] /\ n + i \in 1..Len(q)
    BY <1>1
<1>3. n + 1 \in 1..Len(q) /\ q[n + 1] \in Calls /\ q[n + i] \in Calls
    BY <1>2
<1>4. at[q[n + 1]] <= at[q[n + i]]
    BY <1>2, <1>3 DEF InOrder
<1>5. now < at[q[n + 1]] + Window
    BY <1>1, <1>3 DEF Expired, LimitAssumption
<1>. QED  BY <1>2, <1>3, <1>4, <1>5 DEF LimitAssumption

LEMMA AppendsInOrder ==
    ASSUME NEW q \in Seq(Calls), NEW c \in Calls
    PROVE  /\ Distinct(q) /\ c \notin Queued(q) => Distinct(Append(q, c))
           /\ InOrder(q) /\ (\A d \in Queued(q) : at[d] <= at[c]) => InOrder(Append(q, c))
<1>. DEFINE r == Append(q, c)
<1>1. /\ Len(r) = Len(q) + 1 /\ r[Len(q) + 1] = c
      /\ \A i \in 1..Len(q) : r[i] = q[i]
    OBVIOUS
<1>2. ASSUME NEW i \in 1..Len(r), NEW j \in 1..Len(r), i < j
      PROVE  /\ i \in 1..Len(q) /\ r[i] = q[i] /\ q[i] \in Queued(q)
             /\ (j \in 1..Len(q) /\ r[j] = q[j]) \/ r[j] = c
    BY <1>1, <1>2 DEF Queued
<1>. HIDE DEF r
<1>3. Distinct(q) /\ c \notin Queued(q) => Distinct(r)
    BY <1>2 DEF Distinct
<1>4. InOrder(q) /\ (\A d \in Queued(q) : at[d] <= at[c]) => InOrder(r)
    BY <1>2 DEF InOrder
<1>. QED  BY <1>3, <1>4 DEF r

(* Popping the last stamp, if there is one.                                *)
Popped(q) == SubSeq(q, 1, Len(q) - 1)

LEMMA PoppedLosesLast ==
    ASSUME NEW q \in Seq(Calls), Distinct(q)
    PROVE  /\ Popped(q) \in Seq(Calls) /\ Distinct(Popped(q))
           /\ InOrder(q) => InOrder(Popped(q))
           /\ q = <<>> => Queued(Popped(q)) = {}
           /\ q # <<>> => q[Len(q)] \in Queued(q) /\ Queued(Popped(q)) = Queued(q) \ {q[Len(q)]}
<1>. DEFINE front == SubSeq(q, 1, Len(q) - 1)
<1>. SUFFICES /\ front \in Seq(Calls) /\ Distinct(front)
              /\ InOrder(q) => InOrder(front)
              /\ q = <<>> => Queued(front) = {}
              /\ q # <<>> => q[Len(q)] \in Queued(q) /\ Queued(front) = Queued(q) \ {q[Len(q)]}
    BY DEF Popped
<1>1. CASE q = <<>>
  <2>1. front = <<>>
      BY <1>1
  <2>. QED  BY <1>1, <2>1 DEF Queued, Distinct, InOrder
<1>2. CASE q # <<>>
  <2>0. Len(q) \in Nat /\ Len(q) # 0
      BY <1>2
  <2>1. /\ Len(q) \in 1..Len(q) /\ front \in Seq(Calls) /\ Len(front) = Len(q) - 1
        /\ \A i \in 1..Len(front) : i \in 1..Len(q) /\ i < Len(q) /\ front[i] = q[i]
    <3>1. Len(q) \in 1..Len(q) /\ Len(q) - 1 \in Nat /\ Len(q) - 1 < Len(q)
        BY <2>0
    <3>2. front \in Seq(Calls) /\ Len(front) = Len(q) - 1
      <4>1. \A n \in 0..Len(q) : SubSeq(q, 1, n) \in Seq(Calls) /\ Len(SubSeq(q, 1, n)) = n
          OBVIOUS
      <4>2. Len(q) - 1 \in 0..Len(q)
          BY <3>1
      <4>. QED  BY <4>1, <4>2
    <3>3. \A i \in 1..(Len(q) - 1) : i \in 1..Len(q) /\ i < Len(q) /\ front[i] = q[i]
        BY <2>0
    <3>. QED  BY <3>1, <3>2, <3>3
  <2>2. Distinct(front) /\ (InOrder(q) => InOrder(front))
    <3>1. Distinct(front)
      <4>. SUFFICES ASSUME NEW i \in 1..Len(front), NEW j \in 1..Len(front), i < j
                    PROVE  front[i] # front[j]
          BY DEF Distinct
      <4>. QED  BY <2>1 DEF Distinct
    <3>2. InOrder(q) => InOrder(front)
        BY <2>1 DEF InOrder
    <3>. QED  BY <3>1, <3>2
  <2>3. q[Len(q)] \in Queued(q)
      BY <2>1 DEF Queued
  <2>4. Queued(front) \subseteq Queued(q) \ {q[Len(q)]}
      BY <2>1 DEF Queued, Distinct
  <2>5. ASSUME NEW d \in Queued(q) \ {q[Len(q)]}  PROVE d \in Queued(front)
    <3>1. PICK i \in 1..Len(q) : d = q[i]
        BY DEF Queued
    <3>2. i \in 1..Len(front)
        BY <2>1, <2>5, <3>1
    <3>. QED  BY <2>1, <3>1, <3>2 DEF Queued
  <2>. QED  BY <1>2, <2>1, <2>2, <2>3, <2>4, <2>5
<1>. QED  BY <1>1, <1>2

(* A deque holds as many calls as it is long.                              *)
LEMMA DistinctCounts ==
    ASSUME NEW q \in Seq(Calls), Distinct(q)
    PROVE  Cardinality(Queued(q)) = Len(q)
<1>. DEFINE places == 1..Len(q)
<1>1. q \in Surjection(places, Queued(q))
    BY DEF Surjection, Queued
<1>2. q \in Injection(places, Queued(q))
    BY DEF Injection, IsInjective, Queued, Distinct
<1>3. IsFiniteSet(places) /\ Cardinality(places) = Len(q)
  <2>1. 1 \in Int /\ Len(q) \in Int /\ Len(q) \in Nat
      OBVIOUS
  <2>2. IsFiniteSet(places) /\ Cardinality(places) = IF 1 > Len(q) THEN 0 ELSE Len(q) - 1 + 1
      BY <2>1, FS_Interval
  <2>. QED  BY <2>1, <2>2
<1>. QED  BY <1>1, <1>2, <1>3, FS_Surjection

-----------------------------------------------------------------------------
(* The deque of a pair has stamps of its calls that were in the section;   *)
(* the deque of all has only those of calls that were allowed.             *)
Deques ==
    /\ \A p \in Pairs : /\ Distinct(perPair[p])
                        /\ Queued(perPair[p]) \subseteq Of(p) \cap PastIn(PastPair)
    /\ Distinct(global) /\ Queued(global) \subseteq Allowed

LEMMA DequesKept ==
    ASSUME LimiterTypeOK, Deques, [LimiterNext]_limiterVars
    PROVE  Deques'
<1>1. ASSUME perPair' = perPair, global' = global, pair' = pair,
             PastIn(PastPair) \subseteq PastIn(PastPair)', Allowed \subseteq Allowed'
      PROVE  Deques'
    BY <1>1 DEF Deques, Distinct, Queued, Of
<1>2. CASE Tick
    BY <1>1, <1>2 DEF Tick, PastIn, Allowed
<1>3. ASSUME NEW c \in Calls, Begin(c)  PROVE Deques'
    BY <1>1, <1>3 DEF Begin, PastIn, PastPair, Allowed, LimiterTypeOK
<1>4. ASSUME NEW c \in Calls, PairSection(c)  PROVE Deques'
  <2>. DEFINE p == pair[c]
  <2>1. PICK kept \in Unexpired(perPair[p], at[c]) :
            \/ /\ perPair' = [perPair EXCEPT ![p] = kept]
               /\ state' = [state EXCEPT ![c] = "pair_full"]
            \/ /\ perPair' = [perPair EXCEPT ![p] = Append(kept, c)]
               /\ state' = [state EXCEPT ![c] = "global"]
      BY <1>4 DEF PairSection
  <2>2. p \in Pairs /\ perPair[p] \in Seq(Calls) /\ at[c] \in Nat /\ state[c] = "pair"
      BY <1>4 DEF LimiterTypeOK, PairSection
  <2>3. /\ kept \in Seq(Calls) /\ Queued(kept) \subseteq Queued(perPair[p]) /\ Distinct(kept)
        /\ c \notin Queued(perPair[p])
      BY <2>2, UnexpiredIsTail, TailsInOrder DEF Deques, PastIn, PastPair
  <2>4. /\ Queued(Append(kept, c)) = Queued(kept) \cup {c} /\ Distinct(Append(kept, c))
      BY <2>3, AppendQueues, AppendsInOrder
  <2>5. PastIn(PastPair)' = PastIn(PastPair) \cup {c} /\ Allowed' = Allowed
      BY <2>1, <2>2 DEF PastIn, PastPair, Allowed, LimiterTypeOK
  <2>6. pair' = pair /\ global' = global
      BY <1>4 DEF PairSection
  <2>7. ASSUME NEW o \in Pairs
        PROVE  /\ Distinct(perPair'[o])
               /\ Queued(perPair'[o]) \subseteq Of(o) \cap (PastIn(PastPair) \cup {c})
    <3>1. CASE o # p
      <4>1. perPair'[o] = perPair[o]
          BY <2>1, <3>1 DEF LimiterTypeOK
      <4>. QED  BY <4>1 DEF Deques
    <3>2. CASE o = p
      <4>1. perPair'[p] = kept \/ perPair'[p] = Append(kept, c)
          BY <2>1, <2>2 DEF LimiterTypeOK
      <4>2. Queued(perPair'[p]) \subseteq Queued(perPair[p]) \cup {c} /\ Distinct(perPair'[p])
          BY <2>3, <2>4, <4>1
      <4>3. c \in Of(p) /\ Queued(perPair[p]) \subseteq Of(p) \cap PastIn(PastPair)
          BY <2>2 DEF Of, Deques
      <4>. QED  BY <3>2, <4>2, <4>3
    <3>. QED  BY <3>1, <3>2
  <2>8. Distinct(global') /\ Queued(global') \subseteq Allowed'
      BY <2>5, <2>6 DEF Deques
  <2>. QED  BY <2>5, <2>6, <2>7, <2>8 DEF Deques, Distinct, Queued, Of
<1>5. ASSUME NEW c \in Calls, GlobalSection(c)  PROVE Deques'
  <2>1. PICK kept \in Unexpired(global, at[c]) :
            \/ /\ global' = kept /\ state' = [state EXCEPT ![c] = "rollback"]
            \/ /\ global' = Append(kept, c) /\ state' = [state EXCEPT ![c] = "allowed"]
      BY <1>5 DEF GlobalSection
  <2>2. global \in Seq(Calls) /\ at[c] \in Nat /\ state[c] = "global"
      BY <1>5 DEF LimiterTypeOK, GlobalSection
  <2>3. /\ kept \in Seq(Calls) /\ Queued(kept) \subseteq Queued(global) /\ Distinct(kept)
        /\ c \notin Queued(global)
      BY <2>2, UnexpiredIsTail, TailsInOrder DEF Deques, Allowed
  <2>4. /\ Queued(Append(kept, c)) = Queued(kept) \cup {c} /\ Distinct(Append(kept, c))
      BY <2>3, AppendQueues, AppendsInOrder
  <2>5. /\ PastIn(PastPair)' = PastIn(PastPair) /\ Allowed \subseteq Allowed'
        /\ global' = Append(kept, c) => c \in Allowed'
        /\ Queued(global) \subseteq Allowed
      BY <2>1, <2>2, <2>3, <2>4 DEF PastIn, PastPair, Allowed, LimiterTypeOK, Deques
  <2>6. Distinct(global') /\ Queued(global') \subseteq Allowed'
    <3>1. CASE global' = kept
        BY <2>3, <2>5, <3>1
    <3>2. CASE global' = Append(kept, c)
        BY <2>3, <2>4, <2>5, <3>2
    <3>. QED  BY <2>1, <3>1, <3>2
  <2>7. pair' = pair /\ perPair' = perPair
      BY <1>5 DEF GlobalSection
  <2>. QED  BY <2>5, <2>6, <2>7 DEF Deques, Distinct, Queued, Of
<1>6. ASSUME NEW c \in Calls, RollBack(c)  PROVE Deques'
  <2>. DEFINE p == pair[c]
              front == Popped(perPair[p])
  <2>1. /\ perPair' = [perPair EXCEPT ![p] = front]
        /\ state' = [state EXCEPT ![c] = "global_full"] /\ state[c] = "rollback"
        /\ pair' = pair /\ global' = global
      BY <1>6 DEF RollBack, Popped
  <2>2. p \in Pairs /\ perPair[p] \in Seq(Calls) /\ Distinct(perPair[p])
      BY DEF LimiterTypeOK, Deques
  <2>3. Distinct(front) /\ Queued(front) \subseteq Queued(perPair[p])
    <3>. HIDE DEF p
    <3>. QED  BY <2>2, PoppedLosesLast
  <2>4. PastIn(PastPair)' = PastIn(PastPair) /\ Allowed' = Allowed
      BY <2>1 DEF PastIn, PastPair, Allowed, LimiterTypeOK
  <2>. HIDE DEF front
  <2>5. \A o \in Pairs : perPair'[o] = IF o = p THEN front ELSE perPair[o]
      BY <2>1, <2>2 DEF LimiterTypeOK
  <2>6. \A o \in Pairs : /\ Distinct(perPair'[o])
                         /\ Queued(perPair'[o]) \subseteq Of(o) \cap PastIn(PastPair)
      BY <2>2, <2>3, <2>5 DEF Deques
  <2>7. Distinct(global) /\ Queued(global) \subseteq Allowed
      BY DEF Deques
  <2>. QED  BY <2>1, <2>4, <2>6, <2>7 DEF Deques, Distinct, Queued, Of
<1>7. CASE UNCHANGED limiterVars
    BY <1>1, <1>7 DEF limiterVars, PastIn, Allowed
<1>. QED  BY <1>2, <1>3, <1>4, <1>5, <1>6, <1>7 DEF LimiterNext, Check

-----------------------------------------------------------------------------
(* The calls of S whose stamps count at the time now.                      *)
Live(S, now) == {d \in S : now < at[d] + Window}

(* The stamps that count are those of the calls not refused.               *)
Left == ~misrolled =>
    \A p \in Pairs : Live(Queued(perPair[p]), clock) = Live(Admitted \cap Of(p), clock)

(* Steps on neither the deques of the pairs nor who is admitted.           *)
LEMMA LeftUndisturbed ==
    ASSUME LimiterTypeOK, LimiterTypeOK', Deques, Left, perPair' = perPair, pair' = pair,
           misrolled' = misrolled, Admitted' = Admitted, clock' >= clock,
           \A d \in PastIn(PastPair) : at'[d] = at[d]
    PROVE  Left'
<1>. SUFFICES ASSUME ~misrolled, NEW p \in Pairs
              PROVE  {d \in Queued(perPair[p]) : clock' < at'[d] + Window} =
                         {d \in Admitted \cap Of(p) : clock' < at'[d] + Window}
    BY DEF Left, Live, Queued, Of
<1>1. Queued(perPair[p]) \subseteq PastIn(PastPair) /\ Admitted \subseteq PastIn(PastPair)
    BY DEF Deques, Admitted, PastIn, PastPair
<1>2. \A d \in PastIn(PastPair) :
          clock' < at'[d] + Window => clock < at[d] + Window /\ at'[d] = at[d]
  <2>1. clock \in Nat /\ clock' \in Nat /\ \A d \in PastIn(PastPair) : at[d] \in Nat
      BY DEF LimiterTypeOK, PastIn
  <2>. QED  BY <2>1, LimitAssumption
<1>3. {d \in Queued(perPair[p]) : clock < at[d] + Window} =
          {d \in Admitted \cap Of(p) : clock < at[d] + Window}
    BY DEF Left, Live
<1>. QED  BY <1>1, <1>2, <1>3

LEMMA LeftKept ==
    ASSUME LimiterTypeOK, LimiterTypeOK', Deques, Left, [LimiterNext]_limiterVars
    PROVE  Left'
<1>. USE LimitAssumption
<1>1. CASE Tick
    BY <1>1, LeftUndisturbed DEF Tick, Admitted, LimiterTypeOK
<1>2. ASSUME NEW c \in Calls, Begin(c)  PROVE Left'
  <2>1. /\ Admitted' = Admitted /\ \A d \in PastIn(PastPair) : at'[d] = at[d]
        /\ perPair' = perPair /\ pair' = pair /\ misrolled' = misrolled /\ clock' = clock
      BY <1>2 DEF Begin, Admitted, PastIn, PastPair, LimiterTypeOK
  <2>2. clock' >= clock
      BY <2>1 DEF LimiterTypeOK
  <2>. QED  BY <2>1, <2>2, LeftUndisturbed
<1>3. ASSUME NEW c \in Calls, PairSection(c)  PROVE Left'
  <2>. DEFINE o == pair[c]
  <2>1. PICK kept \in Unexpired(perPair[o], at[c]) :
            \/ /\ perPair' = [perPair EXCEPT ![o] = kept]
               /\ state' = [state EXCEPT ![c] = "pair_full"]
            \/ /\ perPair' = [perPair EXCEPT ![o] = Append(kept, c)]
               /\ state' = [state EXCEPT ![c] = "global"]
      BY <1>3 DEF PairSection
  <2>2. /\ o \in Pairs /\ perPair[o] \in Seq(Calls) /\ state[c] = "pair"
        /\ at[c] \in Nat /\ clock \in Nat /\ at[c] <= clock /\ at \in [Calls -> Nat]
        /\ clock' = clock /\ at' = at /\ pair' = pair /\ misrolled' = misrolled
      BY <1>3 DEF LimiterTypeOK, PairSection
  <2>3. /\ kept \in Seq(Calls) /\ Queued(kept) \subseteq Queued(perPair[o])
        /\ \A d \in Queued(perPair[o]) : ~Expired(d, at[c]) => d \in Queued(kept)
        /\ Queued(perPair[o]) \subseteq Calls
      BY <2>2, UnexpiredIsTail DEF Deques, Of
  <2>4. Live(Queued(kept), clock) = Live(Queued(perPair[o]), clock)
    <3>1. \A d \in Calls : clock < at[d] + Window => ~Expired(d, at[c])
        BY <2>2 DEF Expired
    <3>. QED  BY <2>3, <3>1 DEF Live
  <2>5. SUFFICES ASSUME ~misrolled, NEW p \in Pairs
                 PROVE  Live(Queued(perPair'[p]), clock) = Live(Admitted' \cap Of(p), clock)
      BY <2>2 DEF Left, Live, Queued, Of
  <2>6. Live(Queued(perPair[p]), clock) = Live(Admitted \cap Of(p), clock)
      BY <2>5 DEF Left
  <2>7. CASE p # o
    <3>1. perPair'[p] = perPair[p]
        BY <2>1, <2>7 DEF LimiterTypeOK
    <3>2. Admitted' \cap Of(p) = Admitted \cap Of(p)
        BY <2>1, <2>2, <2>7 DEF Admitted, Of, LimiterTypeOK
    <3>. QED  BY <2>6, <3>1, <3>2
  <2>8. CASE p = o /\ perPair'[p] = kept /\ state'[c] = "pair_full"
    <3>1. Admitted' = Admitted
        BY <2>1, <2>2, <2>8 DEF Admitted, LimiterTypeOK
    <3>. QED  BY <2>4, <2>6, <2>8, <3>1
  <2>9. CASE p = o /\ perPair'[p] = Append(kept, c) /\ state'[c] = "global"
    <3>1. Queued(perPair'[p]) = Queued(kept) \cup {c}
        BY <2>3, <2>9, AppendQueues
    <3>2. Admitted' \cap Of(p) = (Admitted \cap Of(p)) \cup {c}
        BY <2>1, <2>2, <2>9 DEF Admitted, Of, LimiterTypeOK
    <3>. QED  BY <2>4, <2>6, <2>9, <3>1, <3>2 DEF Live
  <2>. QED  BY <2>1, <2>2, <2>7, <2>8, <2>9 DEF LimiterTypeOK
<1>4. ASSUME NEW c \in Calls, GlobalSection(c)  PROVE Left'
  <2>1. /\ Admitted' = Admitted /\ at' = at
        /\ perPair' = perPair /\ pair' = pair /\ misrolled' = misrolled /\ clock' = clock
      BY <1>4 DEF GlobalSection, Admitted, LimiterTypeOK
  <2>2. clock' >= clock
      BY <2>1 DEF LimiterTypeOK
  <2>. QED  BY <2>1, <2>2, LeftUndisturbed
<1>5. ASSUME NEW c \in Calls, RollBack(c)  PROVE Left'
  <2>. DEFINE o == pair[c]
              q == perPair[o]
              front == Popped(q)
  <2>1. /\ perPair' = [perPair EXCEPT ![o] = front]
        /\ state' = [state EXCEPT ![c] = "global_full"] /\ state[c] = "rollback"
        /\ misrolled' = (misrolled \/ (q # <<>> /\ q[Len(q)] # c))
        /\ pair' = pair /\ at' = at /\ clock' = clock
      BY <1>5 DEF RollBack, Popped
  <2>2. o \in Pairs /\ q \in Seq(Calls) /\ Distinct(q) /\ at \in [Calls -> Nat] /\ clock \in Nat
      BY DEF LimiterTypeOK, Deques
  <2>. HIDE DEF q
  <2>0. ~misrolled' => ~misrolled /\ (q = <<>> \/ q[Len(q)] = c)
      BY <2>1 DEF LimiterTypeOK
  <2>3. SUFFICES ASSUME ~misrolled, q = <<>> \/ q[Len(q)] = c, NEW p \in Pairs
                 PROVE  Live(Queued(perPair'[p]), clock) = Live(Admitted' \cap Of(p), clock)
      BY <2>1, <2>0 DEF Left, Live, Queued, Of
  <2>. USE DEF q
  <2>4. Live(Queued(perPair[p]), clock) = Live(Admitted \cap Of(p), clock)
      BY <2>3 DEF Left
  <2>5. Admitted' = Admitted \ {c} /\ c \in Admitted \cap Of(o)
      BY <2>1, <2>2 DEF Admitted, Of, LimiterTypeOK
  <2>6. Queued(front) = Queued(q) \ {c}
    <3>1. q = <<>> => Queued(q) = {}
        BY DEF Queued
    <3>. HIDE DEF q
    <3>. QED  BY <2>2, <2>3, <3>1, PoppedLosesLast
  <2>. HIDE DEF q, front
  <2>7. CASE p # o
    <3>1. perPair'[p] = perPair[p]
        BY <2>1, <2>7 DEF LimiterTypeOK
    <3>2. Admitted' \cap Of(p) = Admitted \cap Of(p)
        BY <2>5, <2>7 DEF Of
    <3>. QED  BY <2>4, <3>1, <3>2
  <2>8. CASE p = o
    <3>1. Queued(perPair'[p]) = Queued(perPair[p]) \ {c}
        BY <2>1, <2>2, <2>6, <2>8 DEF LimiterTypeOK, q
    <3>. QED  BY <2>4, <2>5, <3>1 DEF Live
  <2>. QED  BY <2>7, <2>8
<1>6. CASE UNCHANGED limiterVars
    BY <1>6, LeftUndisturbed DEF limiterVars, Admitted, LimiterTypeOK
<1>. QED  BY <1>1, <1>2, <1>3, <1>4, <1>5, <1>6 DEF LimiterNext, Check

(* For any calls, pairs, limits and window: as long as no call has taken   *)
(* back the stamp of another, the stamps of a pair that count are those of *)
(* its calls that were not refused, however late calls come to a section.  *)
THEOREM LeaveNothingAlways == LimiterSpec => []RefusalsLeaveNothing
<1>. DEFINE Inv == LimiterTypeOK /\ Deques /\ Left
<1>1. LimiterInit => Inv
  <2>. SUFFICES ASSUME LimiterInit  PROVE Deques /\ Left
      BY TypesInitially
  <2>1. Admitted = {}
      BY DEF LimiterInit, Admitted
  <2>2. Queued(<<>>) = {} /\ Distinct(<<>>)
      BY DEF Queued, Distinct
  <2>3. global = <<>> /\ \A p \in Pairs : perPair[p] = <<>>
      BY DEF LimiterInit
  <2>4. Deques
      BY <2>2, <2>3 DEF Deques
  <2>5. Left
      BY <2>1, <2>2, <2>3 DEF Left, Live
  <2>. QED  BY <2>4, <2>5
<1>2. Inv /\ [LimiterNext]_limiterVars => Inv'
    BY TypesKept, DequesKept, LeftKept
<1>3. Inv => RefusalsLeaveNothing
    BY DEF Left, Live, RefusalsLeaveNothing
<1>. QED  BY <1>1, <1>2, <1>3, PTL DEF LimiterSpec

-----------------------------------------------------------------------------
(* While nobody is late the deques are in the order of the clocks, and at  *)
(* no time do more stamps of a pair count than calls that were not         *)
(* refused.  A roll-back that takes the stamp of another takes the         *)
(* youngest, and leaves one that expires no later.                         *)
Covered(p) == \A now \in Nat :
    Cardinality(Live(Queued(perPair[p]), now)) <= Cardinality(Live(Admitted \cap Of(p), now))

PairsOrdered  == "pair" \notin late => \A p \in Pairs : InOrder(perPair[p]) /\ Covered(p)
GlobalOrdered == "global" \notin late => InOrder(global)

LEMMA LiveFinite ==
    ASSUME LimitAssumption, NEW S \in SUBSET Calls, NEW now
    PROVE  /\ IsFiniteSet(Live(S, now)) /\ Cardinality(Live(S, now)) \in Nat
           /\ Live(S, now) \subseteq S
<1>1. IsFiniteSet(Calls) /\ Live(S, now) \in SUBSET Calls /\ Live(S, now) \subseteq S
    BY DEF LimitAssumption, Live
<1>. QED  BY <1>1, FS_Subset, FS_CardinalityType

(* One more on both sides, and one less.                                   *)
LEMMA MoreOnBothSides ==
    ASSUME NEW A, NEW B, NEW c, NEW C, IsFiniteSet(A), IsFiniteSet(B), C \subseteq A, c \notin B,
           Cardinality(A) <= Cardinality(B)
    PROVE  /\ Cardinality(C) <= Cardinality(B)
           /\ Cardinality(C \cup {c}) <= Cardinality(B \cup {c})
<1>1. /\ IsFiniteSet(C) /\ Cardinality(C) <= Cardinality(A)
      /\ Cardinality(A) \in Nat /\ Cardinality(B) \in Nat /\ Cardinality(C) \in Nat
    BY FS_Subset, FS_CardinalityType
<1>2. Cardinality(C \cup {c}) <= Cardinality(C) + 1 /\ Cardinality(C \cup {c}) \in Nat
  <2>1. /\ IsFiniteSet(C \cup {c})
        /\ Cardinality(C \cup {c}) = IF c \in C THEN Cardinality(C) ELSE Cardinality(C) + 1
      BY <1>1, FS_AddElement
  <2>. QED  BY <1>1, <2>1
<1>3. Cardinality(B \cup {c}) = Cardinality(B) + 1
    BY FS_AddElement
<1>. QED  BY <1>1, <1>2, <1>3

LEMMA LessOnBothSides ==
    ASSUME NEW A, NEW B, NEW c, NEW l \in A, IsFiniteSet(A), IsFiniteSet(B),
           Cardinality(A) <= Cardinality(B)
    PROVE  Cardinality(A \ {l}) <= Cardinality(B \ {c})
<1>1. /\ Cardinality(A \ {l}) = Cardinality(A) - 1 /\ Cardinality(A) \in Nat
      /\ Cardinality(B) \in Nat
      /\ Cardinality(B \ {c}) = IF c \in B THEN Cardinality(B) - 1 ELSE Cardinality(B)
    BY FS_RemoveElement, FS_CardinalityType
<1>. QED  BY <1>1

LEMMA OrderUndisturbed ==
    ASSUME LimiterTypeOK, Deques, PairsOrdered, perPair' = perPair, pair' = pair,
           "pair" \notin late' => "pair" \notin late, Admitted' = Admitted,
           \A d \in PastIn(PastPair) : at'[d] = at[d]
    PROVE  PairsOrdered'
<1>. SUFFICES ASSUME "pair" \notin late', NEW p \in Pairs
              PROVE  /\ \A i, j \in 1..Len(perPair[p]) : i < j => at'[perPair[p][i]] <= at'[perPair[p][j]]
                     /\ \A now \in Nat :
                            Cardinality({d \in Queued(perPair[p]) : now < at'[d] + Window}) <=
                                Cardinality({d \in Admitted \cap Of(p) : now < at'[d] + Window})
    BY DEF PairsOrdered, InOrder, Covered, Live, Queued, Of
<1>1. Queued(perPair[p]) \subseteq PastIn(PastPair) /\ Admitted \subseteq PastIn(PastPair)
    BY DEF Deques, Admitted, PastIn, PastPair
<1>2. \A i \in 1..Len(perPair[p]) : perPair[p][i] \in PastIn(PastPair)
    BY <1>1 DEF Queued
<1>3. InOrder(perPair[p]) /\ Covered(p)
    BY DEF PairsOrdered
<1>4. \A i, j \in 1..Len(perPair[p]) : i < j => at'[perPair[p][i]] <= at'[perPair[p][j]]
    BY <1>2, <1>3 DEF InOrder
<1>5. \A now \in Nat :
          /\ {d \in Queued(perPair[p]) : now < at'[d] + Window} = Live(Queued(perPair[p]), now)
          /\ {d \in Admitted \cap Of(p) : now < at'[d] + Window} = Live(Admitted \cap Of(p), now)
    BY <1>1 DEF Live
<1>. QED  BY <1>3, <1>4, <1>5 DEF Covered

(* Who is not late has a clock no earlier than those who came before.      *)
LEMMA NotLate ==
    ASSUME LimiterTypeOK, NEW c \in Calls, NEW past, ~Overtaken(c, past)
    PROVE  \A d \in PastIn(past) : at[d] <= at[c]
BY DEF LimiterTypeOK, Overtaken, PastIn

LEMMA PairSectionOrdered ==
    ASSUME LimiterTypeOK, LimiterTypeOK', Deques, PairsOrdered, NEW c \in Calls, PairSection(c)
    PROVE  PairsOrdered'
<1>. USE LimitAssumption
<1>. DEFINE o == pair[c]
<1>1. PICK kept \in Unexpired(perPair[o], at[c]) :
          \/ /\ perPair' = [perPair EXCEPT ![o] = kept]
             /\ state' = [state EXCEPT ![c] = "pair_full"]
          \/ /\ perPair' = [perPair EXCEPT ![o] = Append(kept, c)]
             /\ state' = [state EXCEPT ![c] = "global"]
    BY DEF PairSection
<1>2. /\ o \in Pairs /\ perPair[o] \in Seq(Calls) /\ state[c] = "pair"
      /\ at[c] \in Nat /\ at \in [Calls -> Nat]
      /\ at' = at /\ pair' = pair
    BY DEF LimiterTypeOK, PairSection
<1>3. /\ kept \in Seq(Calls) /\ Queued(kept) \subseteq Queued(perPair[o])
      /\ Queued(perPair[o]) \subseteq PastIn(PastPair) /\ Queued(perPair[o]) \subseteq Calls
      /\ Queued(Append(kept, c)) = Queued(kept) \cup {c}
    BY <1>2, UnexpiredIsTail, AppendQueues DEF Deques, Of
<1>4. SUFFICES ASSUME "pair" \notin late', NEW p \in Pairs
               PROVE  /\ InOrder(perPair'[p])
                      /\ \A now \in Nat : Cardinality(Live(Queued(perPair'[p]), now)) <=
                                              Cardinality(Live(Admitted' \cap Of(p), now))
    BY <1>2 DEF PairsOrdered, InOrder, Covered, Live, Queued, Of
<1>5. /\ "pair" \notin late /\ InOrder(perPair[p]) /\ Covered(p) /\ InOrder(perPair[o])
      /\ \A d \in PastIn(PastPair) : at[d] <= at[c]
  <2>1. late' = late \cup IF Overtaken(c, PastPair) THEN {"pair"} ELSE {}
      BY DEF PairSection
  <2>2. "pair" \notin late /\ ~Overtaken(c, PastPair)
      BY <1>4, <2>1
  <2>. QED  BY <1>2, <2>2, NotLate DEF PairsOrdered
<1>6. CASE p # o
  <2>1. perPair'[p] = perPair[p]
      BY <1>1, <1>6 DEF LimiterTypeOK
  <2>2. Admitted' \cap Of(p) = Admitted \cap Of(p)
      BY <1>1, <1>2, <1>6 DEF Admitted, Of, LimiterTypeOK
  <2>. QED  BY <1>5, <2>1, <2>2 DEF Covered
<1>7. CASE p = o
  <2>1. InOrder(kept) /\ InOrder(Append(kept, c))
      BY <1>2, <1>3, <1>5, TailsInOrder, AppendsInOrder
  <2>2. perPair'[p] = kept \/ perPair'[p] = Append(kept, c)
      BY <1>1, <1>2, <1>7 DEF LimiterTypeOK
  <2>3. ASSUME NEW now \in Nat
        PROVE  Cardinality(Live(Queued(perPair'[p]), now)) <= Cardinality(Live(Admitted' \cap Of(p), now))
    <3>. DEFINE A == Live(Queued(perPair[p]), now)
                B == Live(Admitted \cap Of(p), now)
                K == Live(Queued(kept), now)
    <3>1. IsFiniteSet(A) /\ IsFiniteSet(B) /\ Cardinality(A) <= Cardinality(B) /\ K \subseteq A
      <4>1. Admitted \cap Of(p) \subseteq Calls /\ Queued(perPair[p]) \subseteq Calls
          BY <1>3, <1>7 DEF Of
      <4>2. K \subseteq A
          BY <1>3, <1>7 DEF Live
      <4>. QED  BY <1>5, <4>1, <4>2, LiveFinite DEF Covered
    <3>2. c \notin Admitted
        BY <1>2 DEF Admitted
    <3>3. c \notin B
        BY <3>2 DEF Live
    <3>4. Cardinality(K) <= Cardinality(B) /\ Cardinality(K \cup {c}) <= Cardinality(B \cup {c})
      <4>. HIDE DEF A, B, K
      <4>. QED  BY <3>1, <3>3, MoreOnBothSides
    <3>5. CASE perPair'[p] = kept /\ state' = [state EXCEPT ![c] = "pair_full"]
      <4>1. Admitted' = Admitted
          BY <1>2, <3>5 DEF Admitted, LimiterTypeOK
      <4>. QED  BY <3>4, <3>5, <4>1
    <3>6. CASE perPair'[p] = Append(kept, c) /\ state' = [state EXCEPT ![c] = "global"]
      <4>1. Admitted' \cap Of(p) = (Admitted \cap Of(p)) \cup {c}
          BY <1>2, <1>7, <3>6 DEF Admitted, Of, LimiterTypeOK
      <4>2. CASE now < at[c] + Window
        <5>1. Live(Queued(perPair'[p]), now) = K \cup {c}
            BY <1>3, <3>6, <4>2 DEF Live
        <5>2. Live(Admitted' \cap Of(p), now) = B \cup {c}
            BY <4>1, <4>2 DEF Live
        <5>. QED  BY <3>4, <5>1, <5>2
      <4>3. CASE ~(now < at[c] + Window)
        <5>1. Live(Queued(perPair'[p]), now) = K
            BY <1>3, <3>6, <4>3 DEF Live
        <5>2. Live(Admitted' \cap Of(p), now) = B
            BY <4>1, <4>3 DEF Live
        <5>. QED  BY <3>4, <5>1, <5>2
      <4>. QED  BY <4>2, <4>3
    <3>. QED  BY <1>1, <1>2, <1>7, <3>5, <3>6 DEF LimiterTypeOK
  <2>. QED  BY <2>1, <2>2, <2>3
<1>. QED  BY <1>6, <1>7

LEMMA RollBackOrdered ==
    ASSUME LimiterTypeOK, LimiterTypeOK', Deques, PairsOrdered, NEW c \in Calls, RollBack(c)
    PROVE  PairsOrdered'
<1>. USE LimitAssumption
<1>. DEFINE o == pair[c]
            q == perPair[o]
            front == Popped(q)
<1>1. /\ perPair' = [perPair EXCEPT ![o] = front]
      /\ state' = [state EXCEPT ![c] = "global_full"] /\ state[c] = "rollback"
      /\ pair' = pair /\ at' = at /\ late' = late
    BY DEF RollBack, Popped
<1>2. o \in Pairs /\ q \in Seq(Calls) /\ Distinct(q) /\ at \in [Calls -> Nat]
    BY DEF LimiterTypeOK, Deques
<1>3. SUFFICES ASSUME "pair" \notin late, NEW p \in Pairs
               PROVE  /\ InOrder(perPair'[p])
                      /\ \A now \in Nat : Cardinality(Live(Queued(perPair'[p]), now)) <=
                                              Cardinality(Live(Admitted' \cap Of(p), now))
    BY <1>1 DEF PairsOrdered, InOrder, Covered, Live, Queued, Of
<1>4. InOrder(perPair[p]) /\ Covered(p) /\ InOrder(q)
    BY <1>2, <1>3 DEF PairsOrdered
<1>5. Admitted' = Admitted \ {c}
    BY <1>1, <1>2 DEF Admitted, LimiterTypeOK
<1>6. CASE p # o
  <2>1. perPair'[p] = perPair[p]
      BY <1>1, <1>6 DEF LimiterTypeOK
  <2>2. Admitted' \cap Of(p) = Admitted \cap Of(p)
      BY <1>5, <1>6 DEF Of
  <2>. QED  BY <1>4, <2>1, <2>2 DEF Covered
<1>7. CASE p = o
  <2>. HIDE DEF q
  <2>1. /\ front \in Seq(Calls) /\ InOrder(front)
        /\ q = <<>> => Queued(front) = {}
        /\ q # <<>> => q[Len(q)] \in Queued(q) /\ Queued(front) = Queued(q) \ {q[Len(q)]}
    <3>1. /\ front \in Seq(Calls) /\ (InOrder(q) => InOrder(front))
          /\ q = <<>> => Queued(front) = {}
          /\ q # <<>> => q[Len(q)] \in Queued(q) /\ Queued(front) = Queued(q) \ {q[Len(q)]}
        BY <1>2, PoppedLosesLast
    <3>. QED  BY <1>4, <3>1
  <2>2. perPair'[p] = front
      BY <1>1, <1>2, <1>7 DEF LimiterTypeOK
  <2>. HIDE DEF front
  <2>3. ASSUME NEW now \in Nat
        PROVE  Cardinality(Live(Queued(front), now)) <= Cardinality(Live(Admitted' \cap Of(p), now))
    <3>. DEFINE A == Live(Queued(q), now)
                B == Live(Admitted \cap Of(p), now)
    <3>1. /\ IsFiniteSet(A) /\ IsFiniteSet(B) /\ Cardinality(A) <= Cardinality(B)
          /\ Cardinality(Live(Admitted' \cap Of(p), now)) \in Nat
          /\ Queued(q) \subseteq Calls
      <4>1. Admitted \cap Of(p) \subseteq Calls /\ Admitted' \cap Of(p) \subseteq Calls
          BY DEF Of
      <4>2. Queued(q) \subseteq Calls /\ q = perPair[p]
          BY <1>2, <1>7 DEF Deques, Of, q
      <4>. QED  BY <1>4, <4>1, <4>2, LiveFinite DEF Covered
    <3>2. Live(Admitted' \cap Of(p), now) = B \ {c}
        BY <1>5 DEF Live
    <3>3. CASE q # <<>> /\ q[Len(q)] \in A
      <4>1. Live(Queued(front), now) = A \ {q[Len(q)]}
          BY <2>1, <3>3 DEF Live
      <4>2. Cardinality(A \ {q[Len(q)]}) <= Cardinality(B \ {c})
        <5>. HIDE DEF A, B
        <5>. QED  BY <3>1, <3>3, LessOnBothSides
      <4>. QED  BY <3>2, <4>1, <4>2
    <3>4. CASE q # <<>> /\ q[Len(q)] \notin A
      <4>1. q[Len(q)] \in Calls /\ ~(now < at[q[Len(q)]] + Window)
          BY <2>1, <3>1, <3>4 DEF Live
      <4>2. \A d \in Queued(q) : at[d] <= at[q[Len(q)]]
        <5>1. ASSUME NEW i \in 1..Len(q)  PROVE at[q[i]] <= at[q[Len(q)]]
          <6>1. Len(q) \in 1..Len(q) /\ Len(q) \in Nat /\ q[i] \in Calls
              BY <1>2, <5>1
          <6>2. i < Len(q) \/ i = Len(q)
              BY <5>1, <6>1
          <6>3. at[q[i]] \in Nat /\ at[q[Len(q)]] \in Nat
              BY <1>2, <4>1, <6>1
          <6>. QED  BY <1>4, <5>1, <6>1, <6>2, <6>3 DEF InOrder
        <5>. QED  BY <5>1 DEF Queued
      <4>3. \A d \in Queued(front) : ~(now < at[d] + Window)
        <5>1. \A d \in Queued(front) : at[d] \in Nat /\ at[d] <= at[q[Len(q)]]
            BY <1>2, <2>1, <3>1, <3>4, <4>2
        <5>2. at[q[Len(q)]] \in Nat
            BY <1>2, <4>1
        <5>. QED  BY <4>1, <5>1, <5>2
      <4>4. Live(Queued(front), now) = {}
          BY <4>3 DEF Live
      <4>. QED  BY <3>1, <4>4, FS_EmptySet
    <3>5. CASE q = <<>>
      <4>1. Live(Queued(front), now) = {}
          BY <2>1, <3>5 DEF Live
      <4>. QED  BY <3>1, <4>1, FS_EmptySet
    <3>. QED  BY <3>3, <3>4, <3>5
  <2>. QED  BY <2>1, <2>2, <2>3
<1>. QED  BY <1>6, <1>7

LEMMA OrderKept ==
    ASSUME LimiterTypeOK, LimiterTypeOK', Deques, PairsOrdered, GlobalOrdered,
           [LimiterNext]_limiterVars
    PROVE  PairsOrdered' /\ GlobalOrdered'
<1>. USE LimitAssumption
<1>1. ASSUME global' = global, late' = late \/ late' = late \cup {"pair"},
             \A d \in PastIn(PastPair) : at'[d] = at[d]
      PROVE  GlobalOrdered'
  <2>1. \A i \in 1..Len(global) : global[i] \in PastIn(PastPair)
      BY DEF Deques, Queued, Allowed, PastIn, PastPair
  <2>2. "global" \notin late' => "global" \notin late
      BY <1>1
  <2>. QED  BY <1>1, <2>1, <2>2 DEF GlobalOrdered, InOrder
<1>2. CASE Tick
  <2>1. /\ perPair' = perPair /\ pair' = pair /\ late' = late /\ state' = state
        /\ at' = at /\ global' = global
      BY <1>2 DEF Tick
  <2>2. Admitted' = Admitted
      BY <2>1 DEF Admitted
  <2>. QED  BY <1>1, <2>1, <2>2, OrderUndisturbed
<1>3. ASSUME NEW c \in Calls, Begin(c)  PROVE PairsOrdered' /\ GlobalOrdered'
  <2>1. /\ Admitted' = Admitted /\ \A d \in PastIn(PastPair) : at'[d] = at[d]
        /\ perPair' = perPair /\ pair' = pair /\ late' = late /\ global' = global
      BY <1>3 DEF Begin, Admitted, PastIn, PastPair, LimiterTypeOK
  <2>. QED  BY <1>1, <2>1, OrderUndisturbed
<1>4. ASSUME NEW c \in Calls, PairSection(c)  PROVE PairsOrdered' /\ GlobalOrdered'
  <2>1. at' = at /\ global' = global /\ (late' = late \/ late' = late \cup {"pair"})
      BY <1>4 DEF PairSection
  <2>. QED  BY <1>1, <1>4, <2>1, PairSectionOrdered
<1>5. ASSUME NEW c \in Calls, GlobalSection(c)  PROVE PairsOrdered' /\ GlobalOrdered'
  <2>1. PICK kept \in Unexpired(global, at[c]) :
            \/ /\ global' = kept /\ state' = [state EXCEPT ![c] = "rollback"]
            \/ /\ global' = Append(kept, c) /\ state' = [state EXCEPT ![c] = "allowed"]
      BY <1>5 DEF GlobalSection
  <2>2. /\ global \in Seq(Calls) /\ at[c] \in Nat /\ state[c] = "global"
        /\ perPair' = perPair /\ pair' = pair /\ at' = at
        /\ late' = late \cup IF Overtaken(c, PastGlobal) THEN {"global"} ELSE {}
      BY <1>5 DEF LimiterTypeOK, GlobalSection
  <2>3. Admitted' = Admitted
      BY <2>1, <2>2 DEF Admitted, LimiterTypeOK
  <2>4. PairsOrdered'
    <3>1. "pair" \notin late' => "pair" \notin late
        BY <2>2
    <3>. QED  BY <2>2, <2>3, <3>1, OrderUndisturbed
  <2>5. ASSUME "global" \notin late'  PROVE InOrder(global')
    <3>1. "global" \notin late /\ ~Overtaken(c, PastGlobal)
        BY <2>2, <2>5
    <3>2. \A d \in PastIn(PastGlobal) : at[d] <= at[c]
        BY <3>1, NotLate
    <3>3. kept \in Seq(Calls) /\ Queued(kept) \subseteq Queued(global) /\ InOrder(kept)
        BY <2>2, <3>1, UnexpiredIsTail, TailsInOrder DEF GlobalOrdered
    <3>4. Queued(global) \subseteq PastIn(PastGlobal)
        BY DEF Deques, Allowed, PastIn, PastGlobal
    <3>5. InOrder(Append(kept, c))
        BY <3>2, <3>3, <3>4, AppendsInOrder
    <3>. QED  BY <2>1, <3>3, <3>5
  <2>. QED  BY <2>2, <2>4, <2>5 DEF GlobalOrdered, InOrder
<1>6. ASSUME NEW c \in Calls, RollBack(c)  PROVE PairsOrdered' /\ GlobalOrdered'
  <2>1. at' = at /\ global' = global /\ late' = late
      BY <1>6 DEF RollBack
  <2>. QED  BY <1>1, <1>6, <2>1, RollBackOrdered
<1>7. CASE UNCHANGED limiterVars
  <2>1. /\ perPair' = perPair /\ pair' = pair /\ late' = late /\ state' = state
        /\ at' = at /\ global' = global
      BY <1>7 DEF limiterVars
  <2>2. Admitted' = Admitted
      BY <2>1 DEF Admitted
  <2>. QED  BY <1>1, <2>1, <2>2, OrderUndisturbed
<1>. QED  BY <1>2, <1>3, <1>4, <1>5, <1>6, <1>7 DEF LimiterNext, Check

(* The calls of a pair that are not refused and count at the time now.     *)
CountAt(p, now) == {d \in Admitted \cap Of(p) : at[d] <= now /\ now < at[d] + Window}

(* While nobody is late in the section on the pairs and no roll-back goes  *)
(* astray, the deque of a pair has every such call that no call so far has *)
(* come a window after; so a pair never exceeds its limit.                 *)
PairRemembered ==
    "pair" \notin late /\ ~misrolled =>
        \A c \in Admitted :
            (\A d \in PastIn(PastPair) : at[d] < at[c] + Window) => c \in Queued(perPair[pair[c]])

PairBound ==
    "pair" \notin late /\ ~misrolled =>
        \A p \in Pairs : \A now \in Nat : Cardinality(CountAt(p, now)) <= MaxPair

PairBoundInv == PairRemembered /\ PairBound

(* A step that brings nobody into the section.                             *)
LEMMA PairBoundUndisturbed ==
    ASSUME LimiterTypeOK, PairBoundInv, perPair' = perPair, pair' = pair,
           "pair" \notin late' /\ ~misrolled' => "pair" \notin late /\ ~misrolled,
           Admitted' = Admitted, PastIn(PastPair)' = PastIn(PastPair),
           \A d \in PastIn(PastPair) : at'[d] = at[d]
    PROVE  PairBoundInv'
<1>1. Admitted \subseteq PastIn(PastPair)
    BY DEF Admitted, PastIn, PastPair
<1>2. PairRemembered'
  <2>. SUFFICES ASSUME "pair" \notin late', ~misrolled', NEW c \in Admitted,
                       \A d \in PastIn(PastPair) : at'[d] < at'[c] + Window
                PROVE  c \in Queued(perPair[pair[c]])
      BY DEF PairRemembered, Queued
  <2>1. \A d \in PastIn(PastPair) : at[d] < at[c] + Window
      BY <1>1
  <2>. QED  BY <2>1 DEF PairBoundInv, PairRemembered
<1>3. PairBound'
  <2>. SUFFICES ASSUME "pair" \notin late', ~misrolled', NEW p \in Pairs, NEW now \in Nat
                PROVE  Cardinality(CountAt(p, now)') <= MaxPair
      BY DEF PairBound
  <2>1. CountAt(p, now)' = CountAt(p, now)
      BY <1>1 DEF CountAt, Of
  <2>. QED  BY <2>1 DEF PairBoundInv, PairBound
<1>. QED  BY <1>2, <1>3 DEF PairBoundInv

LEMMA CountAtFinite ==
    ASSUME NEW p, NEW now
    PROVE  /\ IsFiniteSet(CountAt(p, now)) /\ Cardinality(CountAt(p, now)) \in Nat
           /\ CountAt(p, now) \subseteq Calls
<1>1. CountAt(p, now) \subseteq Calls /\ IsFiniteSet(Calls)
    BY LimitAssumption DEF CountAt, Of
<1>. QED  BY <1>1, FS_Subset, FS_CardinalityType

(* A call in the section on the pairs: what counts at its time was         *)
(* remembered, and stands in a deque that is not longer than the limit.    *)
LEMMA SectionKeepsPairBound ==
    ASSUME LimiterTypeOK, LimiterTypeOK', PairBoundInv, NEW c \in Calls, PairSection(c)
    PROVE  PairBoundInv'
<1>. USE LimitAssumption
<1>. DEFINE o == pair[c]
<1>1. PICK kept \in Unexpired(perPair[o], at[c]) :
          \/ /\ perPair' = [perPair EXCEPT ![o] = kept]
             /\ state' = [state EXCEPT ![c] = "pair_full"]
          \/ /\ perPair' = [perPair EXCEPT ![o] = Append(kept, c)]
             /\ state' = [state EXCEPT ![c] = "global"]
    BY DEF PairSection
<1>2. /\ o \in Pairs /\ perPair[o] \in Seq(Calls) /\ state[c] = "pair" /\ at \in [Calls -> Nat]
      /\ at' = at /\ pair' = pair /\ misrolled' = misrolled /\ state \in [Calls -> States]
      /\ pair \in [Calls -> Pairs]
    BY DEF LimiterTypeOK, PairSection
<1>3. /\ kept \in Seq(Calls)
      /\ \A d \in Queued(perPair[o]) : ~Expired(d, at[c]) => d \in Queued(kept)
    BY <1>2, UnexpiredIsTail
<1>4. /\ PastIn(PastPair)' = PastIn(PastPair) \cup {c} /\ Admitted \subseteq PastIn(PastPair)
      /\ Admitted' \subseteq Admitted \cup {c} /\ c \notin Admitted
      /\ c \in Admitted' => perPair' = [perPair EXCEPT ![o] = Append(kept, c)]
    BY <1>1, <1>2 DEF PastIn, PastPair, Admitted
<1>5. /\ \A p \in Pairs : p # o => perPair'[p] = perPair[p]
      /\ Queued(kept) \subseteq Queued(perPair'[o])
      /\ c \in Admitted' => c \in Queued(perPair'[o])
  <2>1. perPair \in [Pairs -> Seq(Calls)]
      BY DEF LimiterTypeOK
  <2>2. perPair'[o] = kept \/ perPair'[o] = Append(kept, c)
      BY <1>1, <1>2, <2>1
  <2>3. c \in Admitted' => perPair'[o] = Append(kept, c)
      BY <1>2, <1>4, <2>1
  <2>4. Queued(Append(kept, c)) = Queued(kept) \cup {c}
      BY <1>3, AppendQueues
  <2>. QED  BY <1>1, <2>1, <2>2, <2>3, <2>4
<1>6. SUFFICES ASSUME "pair" \notin late', ~misrolled'  PROVE PairRemembered' /\ PairBound'
    BY DEF PairBoundInv, PairRemembered, PairBound
<1>7. "pair" \notin late /\ ~misrolled /\ \A d \in PastIn(PastPair) : at[d] <= at[c]
  <2>1. late' = late \cup IF Overtaken(c, PastPair) THEN {"pair"} ELSE {}
      BY DEF PairSection
  <2>2. "pair" \notin late /\ ~Overtaken(c, PastPair)
      BY <1>6, <2>1
  <2>. QED  BY <1>2, <1>6, <2>2, NotLate
<1>8. ASSUME NEW d \in Admitted, at[c] < at[d] + Window  PROVE d \in Queued(perPair'[pair[d]])
  <2>1. d \in Calls /\ \A e \in PastIn(PastPair) : at[e] < at[d] + Window
      BY <1>2, <1>7, <1>8 DEF PastIn, Admitted
  <2>2. d \in Queued(perPair[pair[d]])
      BY <1>7, <2>1 DEF PairBoundInv, PairRemembered
  <2>3. ~Expired(d, at[c])
      BY <1>2, <1>8, <2>1 DEF Expired
  <2>4. CASE pair[d] = o
      BY <1>3, <1>5, <2>2, <2>3, <2>4
  <2>5. CASE pair[d] # o
      BY <1>2, <1>5, <2>1, <2>2, <2>5
  <2>. QED  BY <2>4, <2>5
<1>9. PairRemembered'
  <2>. SUFFICES ASSUME NEW d \in Admitted', \A e \in PastIn(PastPair)' : at[e] < at[d] + Window
                PROVE  d \in Queued(perPair'[pair[d]])
      BY <1>2 DEF PairRemembered, Queued
  <2>1. at[c] < at[d] + Window
      BY <1>4
  <2>. QED  BY <1>4, <1>5, <1>8, <2>1
<1>10. PairBound'
  <2>. DEFINE countAt(p, now) == {d \in Admitted' \cap Of(p) : at[d] <= now /\ now < at[d] + Window}
  <2>1. SUFFICES ASSUME NEW p \in Pairs, NEW now \in Nat  PROVE Cardinality(countAt(p, now)) <= MaxPair
      BY <1>2 DEF PairBound, CountAt, Of
  <2>2. CASE c \in countAt(p, now)
    <3>1. p = o /\ at[c] <= now
        BY <2>2 DEF Of
    <3>2. countAt(p, now) \subseteq Queued(perPair'[o])
      <4>. SUFFICES ASSUME NEW d \in countAt(p, now), d # c  PROVE d \in Queued(perPair'[o])
          BY <1>5, <2>2
      <4>1. d \in Admitted /\ pair[d] = o /\ at[c] < at[d] + Window
          BY <1>2, <1>4, <3>1 DEF Of
      <4>. QED  BY <1>8, <4>1
    <3>3. perPair'[o] \in Seq(Calls) /\ Len(perPair'[o]) <= MaxPair
        BY <1>2 DEF LimiterTypeOK
    <3>4. IsFiniteSet(Queued(perPair'[o])) /\ Cardinality(Queued(perPair'[o])) <= Len(perPair'[o])
        BY <3>3, QueuedBounded
    <3>. HIDE DEF countAt
    <3>5. /\ Cardinality(countAt(p, now)) <= Cardinality(Queued(perPair'[o]))
          /\ Cardinality(countAt(p, now)) \in Nat /\ Cardinality(Queued(perPair'[o])) \in Nat
        BY <3>2, <3>4, FS_Subset, FS_CardinalityType
    <3>. QED  BY <3>3, <3>4, <3>5
  <2>3. CASE c \notin countAt(p, now)
    <3>1. countAt(p, now) \subseteq CountAt(p, now)
        BY <1>4, <2>3 DEF CountAt
    <3>2. Cardinality(CountAt(p, now)) <= MaxPair
        BY <1>7 DEF PairBoundInv, PairBound
    <3>. HIDE DEF countAt
    <3>3. /\ Cardinality(countAt(p, now)) <= Cardinality(CountAt(p, now))
          /\ Cardinality(countAt(p, now)) \in Nat /\ Cardinality(CountAt(p, now)) \in Nat
        BY <3>1, CountAtFinite, FS_Subset, FS_CardinalityType
    <3>. QED  BY <3>2, <3>3
  <2>. QED  BY <2>2, <2>3
<1>. QED  BY <1>9, <1>10

(* A call that takes back its own stamp is not admitted any more.          *)
LEMMA RollBackKeepsPairBound ==
    ASSUME LimiterTypeOK, Deques, PairBoundInv, NEW c \in Calls, RollBack(c)
    PROVE  PairBoundInv'
<1>. USE LimitAssumption
<1>. DEFINE o == pair[c]
            q == perPair[o]
            front == Popped(q)
<1>1. /\ perPair' = [perPair EXCEPT ![o] = front]
      /\ state' = [state EXCEPT ![c] = "global_full"] /\ state[c] = "rollback"
      /\ misrolled' = (misrolled \/ (q # <<>> /\ q[Len(q)] # c))
      /\ pair' = pair /\ at' = at /\ late' = late
    BY DEF RollBack, Popped
<1>2. /\ o \in Pairs /\ q \in Seq(Calls) /\ Distinct(q) /\ perPair \in [Pairs -> Seq(Calls)]
      /\ pair \in [Calls -> Pairs] /\ misrolled \in BOOLEAN
    BY DEF LimiterTypeOK, Deques
<1>3. Admitted' = Admitted \ {c} /\ PastIn(PastPair)' = PastIn(PastPair) /\ Admitted \subseteq Calls
    BY <1>1 DEF Admitted, PastIn, PastPair, LimiterTypeOK
<1>. HIDE DEF q
<1>4. SUFFICES ASSUME "pair" \notin late, ~misrolled, q = <<>> \/ q[Len(q)] = c
               PROVE  PairRemembered' /\ PairBound'
    BY <1>1, <1>2 DEF PairBoundInv, PairRemembered, PairBound
<1>5. Queued(q) \ {c} \subseteq Queued(front)
  <2>1. q = <<>> => Queued(q) = {}
      BY DEF Queued
  <2>. QED  BY <1>2, <1>4, <2>1, PoppedLosesLast
<1>. HIDE DEF front
<1>6. PairRemembered'
  <2>. SUFFICES ASSUME NEW d \in Admitted \ {c}, \A e \in PastIn(PastPair) : at[e] < at[d] + Window
                PROVE  d \in Queued(perPair'[pair[d]])
      BY <1>1, <1>3 DEF PairRemembered, Queued
  <2>1. d \in Queued(perPair[pair[d]]) /\ pair[d] \in Pairs
      BY <1>2, <1>3, <1>4 DEF PairBoundInv, PairRemembered
  <2>2. CASE pair[d] = o
      BY <1>1, <1>2, <1>5, <2>1, <2>2 DEF q
  <2>3. CASE pair[d] # o
      BY <1>1, <1>2, <2>1, <2>3
  <2>. QED  BY <2>2, <2>3
<1>7. PairBound'
  <2>. SUFFICES ASSUME NEW p \in Pairs, NEW now \in Nat
                PROVE  Cardinality(CountAt(p, now)') <= MaxPair
      BY DEF PairBound
  <2>1. CountAt(p, now)' \subseteq CountAt(p, now)
      BY <1>1, <1>3 DEF CountAt, Of
  <2>2. Cardinality(CountAt(p, now)) <= MaxPair
      BY <1>4 DEF PairBoundInv, PairBound
  <2>3. /\ Cardinality(CountAt(p, now)') <= Cardinality(CountAt(p, now))
        /\ Cardinality(CountAt(p, now)') \in Nat /\ Cardinality(CountAt(p, now)) \in Nat
      BY <2>1, CountAtFinite, FS_Subset, FS_CardinalityType
  <2>. QED  BY <2>2, <2>3
<1>. QED  BY <1>6, <1>7

LEMMA PairBoundKept ==
    ASSUME LimiterTypeOK, LimiterTypeOK', Deques, PairBoundInv, [LimiterNext]_limiterVars
    PROVE  PairBoundInv'
<1>1. CASE Tick
    BY <1>1, PairBoundUndisturbed DEF Tick, Admitted, PastIn
<1>2. ASSUME NEW c \in Calls, Begin(c)  PROVE PairBoundInv'
  <2>1. /\ Admitted' = Admitted /\ PastIn(PastPair)' = PastIn(PastPair)
        /\ \A d \in PastIn(PastPair) : at'[d] = at[d]
        /\ UNCHANGED <<perPair, pair, late, misrolled>>
      BY <1>2 DEF Begin, Admitted, PastIn, PastPair, LimiterTypeOK
  <2>. QED  BY <2>1, PairBoundUndisturbed
<1>3. ASSUME NEW c \in Calls, PairSection(c)  PROVE PairBoundInv'
    BY <1>3, SectionKeepsPairBound
<1>4. ASSUME NEW c \in Calls, GlobalSection(c)  PROVE PairBoundInv'
  <2>1. /\ Admitted' = Admitted /\ PastIn(PastPair)' = PastIn(PastPair) /\ at' = at
        /\ UNCHANGED <<perPair, pair, misrolled>>
      BY <1>4 DEF GlobalSection, Admitted, PastIn, PastPair, LimiterTypeOK
  <2>2. "pair" \notin late' => "pair" \notin late
      BY <1>4 DEF GlobalSection
  <2>. QED  BY <2>1, <2>2, PairBoundUndisturbed
<1>5. ASSUME NEW c \in Calls, RollBack(c)  PROVE PairBoundInv'
    BY <1>5, RollBackKeepsPairBound
<1>6. CASE UNCHANGED limiterVars
    BY <1>6, PairBoundUndisturbed DEF limiterVars, Admitted, PastIn
<1>. QED  BY <1>1, <1>2, <1>3, <1>4, <1>5, <1>6 DEF LimiterNext, Check

(* A call that a section refuses leaves a full deque behind, all of whose  *)
(* stamps are within the window.                                           *)
LEMMA FullOfFresh ==
    ASSUME LimiterTypeOK, NEW c \in Calls, NEW q \in Seq(Calls), Distinct(q), InOrder(q),
           NEW kept \in Unexpired(q, at[c]), NEW n \in Nat, Len(kept) >= n
    PROVE  Cardinality(Live(Queued(q), at[c])) >= n
<1>. USE LimitAssumption
<1>1. at \in [Calls -> Nat] /\ at[c] \in Nat
    BY DEF LimiterTypeOK
<1>2. kept \in Seq(Calls) /\ Queued(kept) \subseteq Queued(q) /\ Distinct(kept)
    BY <1>1, UnexpiredIsTail, TailsInOrder
<1>3. Queued(kept) \subseteq Live(Queued(q), at[c])
    BY <1>1, <1>2, OrderedTailIsFresh DEF Live
<1>4. IsFiniteSet(Queued(q)) /\ Cardinality(Queued(kept)) = Len(kept)
    BY <1>2, QueuedBounded, DistinctCounts
<1>5. IsFiniteSet(Live(Queued(q), at[c]))
    BY <1>4, FS_Subset DEF Live
<1>6. /\ Cardinality(Queued(kept)) <= Cardinality(Live(Queued(q), at[c]))
      /\ Cardinality(Queued(kept)) \in Nat /\ Cardinality(Live(Queued(q), at[c])) \in Nat
    BY <1>3, <1>5, FS_Subset, FS_CardinalityType
<1>. QED  BY <1>4, <1>6

LEMMA RefusedByPair ==
    ASSUME LimiterTypeOK, Deques, PairsOrdered, NEW c \in Calls, PairSection(c),
           state'[c] = "pair_full", "pair" \notin late'
    PROVE  Cardinality({d \in Admitted \cap Of(pair[c]) : Within(d, c)}) >= MaxPair
<1>. USE LimitAssumption
<1>. DEFINE p == pair[c]
<1>1. PICK kept \in Unexpired(perPair[p], at[c]) : Len(kept) >= MaxPair
    BY DEF PairSection, LimiterTypeOK
<1>2. p \in Pairs /\ perPair[p] \in Seq(Calls) /\ at \in [Calls -> Nat]
    BY DEF LimiterTypeOK
<1>3. "pair" \notin late /\ ~Overtaken(c, PastPair)
  <2>1. late' = late \cup IF Overtaken(c, PastPair) THEN {"pair"} ELSE {}
      BY DEF PairSection
  <2>. QED  BY <2>1
<1>4. \A d \in PastIn(PastPair) : at[d] <= at[c]
    BY <1>3, NotLate
<1>5. Cardinality(Live(Queued(perPair[p]), at[c])) >= MaxPair
    BY <1>1, <1>2, <1>3, FullOfFresh DEF Deques, PairsOrdered
<1>6. Cardinality(Live(Queued(perPair[p]), at[c])) <= Cardinality(Live(Admitted \cap Of(p), at[c]))
    BY <1>2, <1>3 DEF PairsOrdered, Covered
<1>7. Live(Admitted \cap Of(p), at[c]) = {d \in Admitted \cap Of(p) : Within(d, c)}
  <2>1. Admitted \subseteq PastIn(PastPair)
      BY DEF Admitted, PastIn, PastPair
  <2>. QED  BY <1>4, <2>1 DEF Live, Within
<1>8. Queued(perPair[p]) \subseteq Calls /\ Admitted \cap Of(p) \subseteq Calls
    BY <1>2 DEF Deques, Of
<1>9. /\ Cardinality(Live(Queued(perPair[p]), at[c])) \in Nat
      /\ Cardinality(Live(Admitted \cap Of(p), at[c])) \in Nat
    BY <1>8, LiveFinite
<1>. QED  BY <1>5, <1>6, <1>7, <1>9

LEMMA RefusedByGlobal ==
    ASSUME LimiterTypeOK, Deques, GlobalOrdered, NEW c \in Calls, GlobalSection(c),
           state'[c] = "rollback", "global" \notin late'
    PROVE  Cardinality({d \in Allowed : Within(d, c)}) >= MaxGlobal
<1>. USE LimitAssumption
<1>1. PICK kept \in Unexpired(global, at[c]) : Len(kept) >= MaxGlobal
    BY DEF GlobalSection, LimiterTypeOK
<1>2. global \in Seq(Calls) /\ at \in [Calls -> Nat]
    BY DEF LimiterTypeOK
<1>3. "global" \notin late /\ ~Overtaken(c, PastGlobal)
  <2>1. late' = late \cup IF Overtaken(c, PastGlobal) THEN {"global"} ELSE {}
      BY DEF GlobalSection
  <2>. QED  BY <2>1
<1>4. \A d \in PastIn(PastGlobal) : at[d] <= at[c]
    BY <1>3, NotLate
<1>5. Cardinality(Live(Queued(global), at[c])) >= MaxGlobal
    BY <1>1, <1>2, <1>3, FullOfFresh DEF Deques, GlobalOrdered
<1>6. Live(Queued(global), at[c]) \subseteq {d \in Allowed : Within(d, c)}
  <2>1. Queued(global) \subseteq Allowed /\ Allowed \subseteq PastIn(PastGlobal)
      BY DEF Deques, Allowed, PastIn, PastGlobal
  <2>. QED  BY <1>4, <2>1 DEF Live, Within
<1>7. IsFiniteSet({d \in Allowed : Within(d, c)})
    BY FS_Subset, {d \in Allowed : Within(d, c)} \subseteq Calls DEF Allowed
<1>8. /\ Cardinality(Live(Queued(global), at[c])) <= Cardinality({d \in Allowed : Within(d, c)})
      /\ Cardinality(Live(Queued(global), at[c])) \in Nat
      /\ Cardinality({d \in Allowed : Within(d, c)}) \in Nat
    BY <1>6, <1>7, FS_Subset, FS_CardinalityType
<1>. QED  BY <1>5, <1>8

(* Of the handshakes in the window of a call, a pair has no more than its  *)
(* limit.                                                                  *)
LEMMA WindowShared ==
    ASSUME LimiterTypeOK, PairBoundInv, "pair" \notin late, ~misrolled,
           NEW c \in Calls, NEW p \in Pairs
    PROVE  Cardinality({d \in Allowed : Within(d, c)} \cap Of(p)) <= MaxPair
<1>. DEFINE mine == {d \in Allowed : Within(d, c)} \cap Of(p)
<1>1. at[c] \in Nat /\ mine \subseteq CountAt(p, at[c])
    BY DEF LimiterTypeOK, Allowed, Admitted, CountAt, Within
<1>2. Cardinality(CountAt(p, at[c])) <= MaxPair
    BY <1>1 DEF PairBoundInv, PairBound
<1>. HIDE DEF mine
<1>3. /\ Cardinality(mine) <= Cardinality(CountAt(p, at[c]))
      /\ Cardinality(mine) \in Nat /\ Cardinality(CountAt(p, at[c])) \in Nat
    BY <1>1, CountAtFinite, FS_Subset, FS_CardinalityType
<1>4. Cardinality(mine) <= MaxPair
    BY <1>2, <1>3, LimitAssumption
<1>. QED  BY <1>4 DEF mine

(* For any calls, pairs, limits and window: whoever is refused has a full  *)
(* window behind it, unless somebody was late, even when a roll-back took  *)
(* the stamp of another call; and no pair has more of a window of all than *)
(* its own limit, if in addition nobody was late for its pair and no       *)
(* roll-back went astray.                                                  *)
THEOREM RefusedWhenFullAlways == LimiterSpec => RefusedWhenFull
<1>. DEFINE Inv == LimiterTypeOK /\ Deques /\ PairsOrdered /\ GlobalOrdered /\ PairBoundInv
            Full(c) ==
                LET before == {d \in Allowed : Within(d, c)} IN
                /\ state[c] = "pair" /\ state'[c] = "pair_full" /\ "pair" \notin late' =>
                       Cardinality({d \in Admitted \cap Of(pair[c]) : Within(d, c)}) >= MaxPair
                /\ state[c] = "global" /\ state'[c] = "rollback" /\ "global" \notin late' =>
                       /\ Cardinality(before) >= MaxGlobal
                       /\ "pair" \notin late /\ ~misrolled =>
                              \A p \in Pairs : Cardinality(before \cap Of(p)) <= MaxPair
<1>1. LimiterInit => Inv
  <2>. SUFFICES ASSUME LimiterInit  PROVE Deques /\ PairsOrdered /\ GlobalOrdered /\ PairBoundInv
      BY TypesInitially
  <2>1. Admitted = {}
      BY DEF LimiterInit, Admitted
  <2>2. Queued(<<>>) = {} /\ Distinct(<<>>) /\ InOrder(<<>>)
      BY DEF Queued, Distinct, InOrder
  <2>3. global = <<>> /\ \A p \in Pairs : perPair[p] = <<>>
      BY DEF LimiterInit
  <2>4. Deques
      BY <2>2, <2>3 DEF Deques
  <2>5. Cardinality({}) = 0 /\ Cardinality({}) <= Cardinality({}) /\ \A now \in Nat : Live({}, now) = {}
      BY FS_EmptySet DEF Live
  <2>6. \A p \in Pairs : Covered(p)
      BY <2>1, <2>2, <2>3, <2>5 DEF Covered
  <2>7. \A p \in Pairs : \A now \in Nat : CountAt(p, now) = {}
      BY <2>1 DEF CountAt
  <2>8. PairBoundInv
      BY <2>1, <2>5, <2>7, LimitAssumption DEF PairBoundInv, PairRemembered, PairBound
  <2>. QED  BY <2>2, <2>3, <2>4, <2>6, <2>8 DEF PairsOrdered, GlobalOrdered
<1>2. Inv /\ [LimiterNext]_limiterVars => Inv'
    BY TypesKept, DequesKept, OrderKept, PairBoundKept
<1>3. Inv /\ [LimiterNext]_limiterVars => [\A c \in Calls : Full(c)]_limiterVars
  <2>. SUFFICES ASSUME Inv, LimiterNext, NEW c \in Calls  PROVE Full(c)
      OBVIOUS
  <2>1. state[c] = "pair" /\ state'[c] = "pair_full" => PairSection(c)
      BY DEF LimiterNext, Check, Tick, Begin, PairSection, GlobalSection, RollBack, LimiterTypeOK
  <2>2. state[c] = "global" /\ state'[c] = "rollback" => GlobalSection(c)
      BY DEF LimiterNext, Check, Tick, Begin, PairSection, GlobalSection, RollBack, LimiterTypeOK
  <2>. QED  BY <2>1, <2>2, RefusedByPair, RefusedByGlobal, WindowShared
<1>. QED  BY <1>1, <1>2, <1>3, PTL DEF LimiterSpec, RefusedWhenFull

-----------------------------------------------------------------------------
(* The dialogue.  Decisions have the fields of one each, and at most one   *)
(* is of the dialogue on screen.                                           *)
Fit(S) == S \subseteq Decision /\ \A d, e \in S : d.own /\ e.own => d = e

(* Each decision of R is one of S, perhaps disowned, or in another phase.  *)
From(R, S) == \A d \in R : \E e \in S : d.id = e.id /\ d.peer = e.peer

LEMMA MountedFits ==
    ASSUME NEW S, Fit(S), NEW q
    PROVE  /\ Fit(Disowned(S)) /\ Fit(Mounted(S, q))
           /\ From(Disowned(S), S) /\ From(Mounted(S, q), S)
           /\ \A d \in Disowned(S) \cup Mounted(S, q) :
                  \E e \in S : d.phase = e.phase /\ d.peer = e.peer
<1>1. ASSUME NEW e \in S
      PROVE  LET d == [e EXCEPT !.own = FALSE]
             IN  d \in Decision /\ ~d.own /\ d.id = e.id /\ d.peer = e.peer /\ d.phase = e.phase
    BY DEF Fit, Decision
<1>2. \A d \in Disowned(S) :
          /\ d \in Decision /\ ~d.own
          /\ \E e \in S : d.id = e.id /\ d.peer = e.peer /\ d.phase = e.phase
    BY <1>1 DEF Disowned
<1>. QED  BY <1>2 DEF Fit, From, Mounted

LEMMA MovedOnFits ==
    ASSUME Fit(decisions), NEW d \in decisions, NEW phase \in {"approve", "answered"}, To(d, phase)
    PROVE  /\ Fit(decisions') /\ From(decisions', decisions)
           /\ \A e \in decisions' : \/ e \in decisions
                                    \/ e.phase = phase /\ e.peer = d.peer
<1>. DEFINE n == [d EXCEPT !.phase = phase]
<1>1. n \in Decision /\ n.own = d.own /\ n.id = d.id /\ n.peer = d.peer /\ n.phase = phase
    BY DEF Fit, Decision
<1>2. decisions' = (decisions \ {d}) \cup {n}
    BY DEF To
<1>. HIDE DEF n
<1>. QED  BY <1>1, <1>2 DEF Fit, From

LEMMA ShiftedQueue ==
    ASSUME queue \in Seq(Request), Shift
    PROVE  /\ queue' \in Seq(Request) /\ timer' \in Nat /\ timer' = Due(queue')
           /\ \A i \in 1..Len(queue') : i + 1 \in 1..Len(queue) /\ queue'[i] = queue[i + 1]
<1>1. /\ queue' \in Seq(Request)
      /\ \A i \in 1..Len(queue') : i + 1 \in 1..Len(queue) /\ queue'[i] = queue[i + 1]
  <2>1. CASE queue = <<>>
      BY <2>1 DEF Shift
  <2>2. CASE queue # <<>>
      BY <2>2 DEF Shift
  <2>. QED  BY <2>1, <2>2
<1>2. timer' = Due(queue')
    BY DEF Shift
<1>3. Due(queue') \in Nat
  <2>1. CASE queue' = <<>>
      BY <2>1 DEF Due, None
  <2>2. CASE queue' # <<>>
    <3>1. Head(queue') \in Request
        BY <1>1, <2>2
    <3>. QED  BY <2>2, <3>1 DEF Due, Request
  <2>. QED  BY <2>1, <2>2
<1>. QED  BY <1>1, <1>2, <1>3

(* The requests are numbered in the order of the queue, and what is        *)
(* awaited is of a request there was.                                      *)
RequestsNumbered ==
    /\ \A i \in 1..Len(queue) : queue[i].id <= numbers.request
    /\ \A d \in decisions : d.id <= numbers.request

DialogueInv == TypeOK /\ RequestsNumbered /\ TimerIsOfHead /\ AwaitedIsHead

Counters == {"call", "message", "request", "decision", "move"}

(* What the parts of TypeOK say of the queue and of the rest.              *)
Ascending(q) == \A i, j \in 1..Len(q) : i < j => q[i].id < q[j].id
Sets ==
    /\ known \subseteq Peers /\ banned \subseteq Peers /\ calls \subseteq Call
    /\ messages \subseteq Message /\ main \in BOOLEAN /\ listening \in BOOLEAN
    /\ vetted \subseteq Peers /\ lost \subseteq Peers
    /\ rejected \subseteq Peers /\ crossed \subseteq Peers /\ revived \subseteq Peers
    /\ numbers \in [Counters -> Nat]

LEMMA TypeParts ==
    TypeOK <=> /\ Sets /\ Fit(decisions) /\ queue \in Seq(Request) /\ timer \in Nat
               /\ Ascending(queue)
BY DEF TypeOK, Sets, Fit, Ascending, Counters

LEMMA CountedNumbers ==
    ASSUME TypeOK, NEW what \in Counters, Counted(what)
    PROVE  /\ numbers' \in [Counters -> Nat]
           /\ what # "request" => numbers'.request = numbers.request
BY DEF TypeOK, Counted, Counters

(* A message is heard, or a peer goes.                                     *)
LEMMA ToldTypes ==
    ASSUME TypeOK, NEW what \in {"leave", "trust", "ban"}, NEW p \in Peers, Told(what, p)
    PROVE  Sets'
<1>1. [what |-> what, peer |-> p, no |-> numbers.message + 1] \in Message
    BY DEF Message, TypeOK
<1>2. numbers' \in [Counters -> Nat]
    BY CountedNumbers DEF Told, Begun, Counters
<1>3. messages' \subseteq Message
    BY <1>1 DEF Told, TypeOK
<1>. QED  BY <1>2, <1>3 DEF Told, Sets, TypeOK, removals, dialogue, store

LEMMA ForgetTypes ==
    ASSUME TypeOK, NEW p \in Peers, Forget(p)
    PROVE  /\ known' \subseteq Peers /\ vetted' \subseteq Peers /\ lost' \subseteq Peers
           /\ revived' \subseteq Peers
BY DEF TypeOK, Forget, Marked

LEMMA BanTypes ==
    ASSUME TypeOK, NEW p \in Peers, Ban(p)
    PROVE  /\ known' \subseteq Peers /\ vetted' \subseteq Peers /\ lost' \subseteq Peers
           /\ revived' \subseteq Peers /\ banned' \subseteq Peers /\ rejected' \subseteq Peers
           /\ crossed' \subseteq Peers
BY ForgetTypes DEF TypeOK, Ban, Marked

LEMMA SetsKept == TypeOK /\ [Next]_vars => Sets'
<1>. SUFFICES ASSUME TypeOK, [Next]_vars  PROVE Sets'
    OBVIOUS
<1>. USE DEF TypeOK, Sets, removals, store, dialogue, Counters
<1>1. ASSUME NEW p \in Peers, Screen(p)  PROVE Sets'
  <2>1. numbers' \in [Counters -> Nat]
      BY <1>1, CountedNumbers DEF Screen, Begun
  <2>2. [peer |-> p, new |-> p \notin known, dial |-> FALSE,
         phase |-> "install", no |-> numbers.call + 1] \in Call
      BY DEF Call
  <2>3. calls' \subseteq Call
      BY <1>1, <2>2 DEF Screen
  <2>. QED  BY <1>1, <2>1, <2>3 DEF Screen, dialogue
<1>2. ASSUME NEW p \in Peers, Dial(p)  PROVE Sets'
  <2>1. numbers' \in [Counters -> Nat]
      BY <1>2, CountedNumbers DEF Dial, Begun
  <2>2. [peer |-> p, new |-> FALSE, dial |-> TRUE,
         phase |-> "install", no |-> numbers.call + 1] \in Call
      BY DEF Call
  <2>3. calls' \subseteq Call
      BY <1>2, <2>2 DEF Dial
  <2>. QED  BY <1>2, <2>1, <2>3 DEF Dial, dialogue
<1>3. ASSUME NEW c \in calls, Install(c)  PROVE Sets'
    BY <1>3 DEF Install, dialogue, Call
<1>4. ASSUME NEW c \in calls, Announce(c)  PROVE Sets'
    BY <1>4 DEF Announce, Counted, Call
<1>5. CASE Listen \/ Expire
    BY <1>5 DEF Listen, Expire, registry
<1>9. CASE Move
  <2>1. numbers' \in [Counters -> Nat]
      BY <1>9, CountedNumbers DEF Move, Begun
  <2>. QED  BY <1>9, <2>1 DEF Move, registry
<1>10. ASSUME NEW yes \in BOOLEAN, Decide(yes)  PROVE Sets'
  <2>1. numbers' \in [Counters -> Nat]
      BY <1>10, CountedNumbers DEF Decide, Begun
  <2>. QED  BY <1>10, <2>1 DEF Decide, registry
<1>6. ASSUME NEW d \in decisions, LookUp(d) \/ Finish(d)  PROVE Sets'
    BY <1>6 DEF LookUp, Finish, registry
<1>7. ASSUME NEW d \in decisions, Approve(d)  PROVE Sets'
    BY <1>7 DEF Approve
<1>11. ASSUME NEW d \in decisions, Reject(d)  PROVE Sets'
  <2>1. d.peer \in Peers
      BY DEF Decision
  <2>. QED  BY <1>11, <2>1, BanTypes DEF Reject
<1>12. ASSUME NEW p \in Peers, HearLeave(p) \/ HearOf("trust", p) \/ HearOf("ban", p)  PROVE Sets'
    BY <1>12, ToldTypes DEF HearLeave, HearOf
<1>13. ASSUME NEW m \in messages, Leave(m)  PROVE Sets'
  <2>1. m.peer \in Peers /\ messages' \subseteq messages
      BY <1>13 DEF Message, Leave
  <2>. QED  BY <1>13, <2>1, ForgetTypes DEF Leave
<1>14. ASSUME NEW m \in messages, Trust(m)  PROVE Sets'
    BY <1>14 DEF Trust
<1>15. ASSUME NEW m \in messages, Shun(m)  PROVE Sets'
  <2>1. m.peer \in Peers /\ messages' \subseteq messages
      BY <1>15 DEF Message, Shun
  <2>. QED  BY <1>15, <2>1, BanTypes DEF Shun
<1>8. CASE UNCHANGED vars
    BY <1>8 DEF vars
<1>. QED  BY <1>1, <1>2, <1>3, <1>4, <1>5, <1>6, <1>7, <1>8, <1>9, <1>10, <1>11, <1>12, <1>13,
              <1>14, <1>15
          DEF Next, System

(* A step that leaves the queue alone and begins no decision.              *)
LEMMA DialogueUndisturbed ==
    ASSUME DialogueInv, Sets', UNCHANGED <<queue, timer>>, numbers'.request = numbers.request,
           Fit(decisions'), From(decisions', decisions)
    PROVE  DialogueInv'
<1>1. TypeOK'
    BY TypeParts DEF DialogueInv, Ascending, TypeOK, Sets, Fit
<1>2. RequestsNumbered' /\ TimerIsOfHead' /\ AwaitedIsHead'
    BY DEF DialogueInv, RequestsNumbered, TimerIsOfHead, AwaitedIsHead, From, Due
<1>. QED  BY <1>1, <1>2 DEF DialogueInv

(* The head leaves the queue.                                              *)
LEMMA ShiftKeepsDialogue ==
    ASSUME DialogueInv, Sets', Shift, numbers' = numbers,
           Fit(decisions'), From(decisions', decisions)
    PROVE  DialogueInv'
<1>1. /\ queue' \in Seq(Request) /\ timer' \in Nat /\ timer' = Due(queue')
      /\ \A i \in 1..Len(queue') : i + 1 \in 1..Len(queue) /\ queue'[i] = queue[i + 1]
    BY ShiftedQueue DEF DialogueInv, TypeOK
<1>2. ASSUME NEW i \in 1..Len(queue'), NEW j \in 1..Len(queue'), i < j
      PROVE  queue'[i].id < queue'[j].id
  <2>1. /\ i + 1 \in 1..Len(queue) /\ j + 1 \in 1..Len(queue) /\ i + 1 < j + 1
        /\ queue'[i] = queue[i + 1] /\ queue'[j] = queue[j + 1]
      BY <1>1, <1>2
  <2>. QED  BY <2>1 DEF DialogueInv, TypeOK
<1>3. TypeOK'
    BY <1>1, <1>2 DEF TypeOK, Sets, Counters, Fit
<1>4. RequestsNumbered'
    BY <1>1 DEF DialogueInv, RequestsNumbered, From
<1>5. AwaitedIsHead'
  <2>. SUFFICES ASSUME NEW d \in decisions', NEW i \in 1..Len(queue'), queue'[i].id = d.id
                PROVE  FALSE
      BY DEF AwaitedIsHead
  <2>1. i + 1 = 1
      BY <1>1 DEF DialogueInv, AwaitedIsHead, From
  <2>. QED  BY <2>1
<1>. QED  BY <1>1, <1>3, <1>4, <1>5 DEF DialogueInv, TimerIsOfHead

(* A request of a fresh number joins.                                      *)
LEMMA EnqueueKeepsDialogue ==
    ASSUME DialogueInv, Sets', NEW r \in Request, r.id = numbers.request + 1, Enqueue(r),
           numbers'.request = numbers.request + 1, decisions' = decisions
    PROVE  DialogueInv'
<1>1. /\ queue \in Seq(Request) /\ timer \in Nat /\ numbers.request \in Nat
      /\ \A d \in decisions : d.id \in Nat
      /\ \A i \in 1..Len(queue) : queue[i].id \in Nat
  <2>1. /\ queue \in Seq(Request) /\ timer \in Nat /\ numbers.request \in Nat
        /\ decisions \subseteq Decision
      BY DEF DialogueInv, TypeOK
  <2>2. \A d \in decisions : d.id \in Nat
      BY <2>1 DEF Decision
  <2>3. \A i \in 1..Len(queue) : queue[i] \in Request
      BY <2>1
  <2>. QED  BY <2>1, <2>2, <2>3 DEF Request
<1>2. /\ queue' \in Seq(Request) /\ Len(queue') = Len(queue) + 1 /\ queue'[Len(queue) + 1] = r
      /\ \A i \in 1..Len(queue) : queue'[i] = queue[i]
    BY <1>1 DEF Enqueue
<1>3. \A i \in 1..Len(queue') : i = Len(queue) + 1 \/ i \in 1..Len(queue)
    BY <1>1, <1>2
<1>4. RequestsNumbered'
  <2>1. \A i \in 1..Len(queue') : queue'[i].id <= numbers.request + 1
      BY <1>1, <1>2, <1>3 DEF DialogueInv, RequestsNumbered
  <2>2. \A d \in decisions : d.id <= numbers.request + 1
      BY <1>1 DEF DialogueInv, RequestsNumbered
  <2>. QED  BY <2>1, <2>2 DEF RequestsNumbered
<1>5. ASSUME NEW i \in 1..Len(queue'), NEW j \in 1..Len(queue'), i < j
      PROVE  queue'[i].id < queue'[j].id
  <2>1. i \in 1..Len(queue) /\ queue'[i] = queue[i]
      BY <1>1, <1>2, <1>5
  <2>2. CASE j \in 1..Len(queue)
      BY <1>2, <1>5, <2>1, <2>2 DEF DialogueInv, TypeOK
  <2>3. CASE j = Len(queue) + 1
      BY <1>1, <1>2, <2>1, <2>3 DEF DialogueInv, RequestsNumbered
  <2>. QED  BY <1>3, <2>2, <2>3
<1>6. timer' \in Nat /\ timer' = Due(queue')
  <2>1. CASE queue = <<>>
    <3>1. queue' # <<>> /\ Head(queue') = r
        BY <2>1 DEF Enqueue
    <3>. QED  BY <2>1, <3>1 DEF Enqueue, Due, Request
  <2>2. CASE queue # <<>>
    <3>1. queue' # <<>> /\ Head(queue') = Head(queue)
        BY <1>1, <2>2 DEF Enqueue
    <3>. QED  BY <1>1, <2>2, <3>1 DEF Enqueue, Due, DialogueInv, TimerIsOfHead
  <2>. QED  BY <2>1, <2>2
<1>7. TypeOK'
    BY <1>2, <1>5, <1>6 DEF DialogueInv, TypeOK, Sets, Counters
<1>8. AwaitedIsHead'
  <2>. SUFFICES ASSUME NEW d \in decisions, NEW i \in 1..Len(queue'), queue'[i].id = d.id
                PROVE  i = 1
      BY DEF AwaitedIsHead
  <2>1. CASE i \in 1..Len(queue)
      BY <1>2, <2>1 DEF DialogueInv, AwaitedIsHead
  <2>2. CASE i = Len(queue) + 1
      BY <1>1, <1>2, <2>2 DEF DialogueInv, RequestsNumbered
  <2>. QED  BY <1>3, <2>1, <2>2
<1>. QED  BY <1>4, <1>6, <1>7, <1>8 DEF DialogueInv, TimerIsOfHead

(* The user decides about the head.                                        *)
LEMMA DecideKeepsDialogue ==
    ASSUME DialogueInv, Sets', NEW yes \in BOOLEAN, Decide(yes)
    PROVE  DialogueInv'
<1>. DEFINE n == [id |-> Head(queue).id, peer |-> Head(queue).peer, yes |-> yes, own |-> TRUE,
                  no |-> numbers.decision + 1, phase |-> "called"]
<1>1. /\ decisions' = decisions \cup {n} /\ \A d \in decisions : ~d.own
      /\ queue # <<>> /\ UNCHANGED <<queue, timer>> /\ numbers'.request = numbers.request
    BY DEF Decide, Begun, Shown, Counted, DialogueInv, TypeOK, store
<1>2. 1 \in 1..Len(queue) /\ Head(queue) = queue[1] /\ queue[1] \in Request
    BY <1>1 DEF DialogueInv, TypeOK
<1>3. n \in Decision /\ n.id = queue[1].id
    BY <1>2 DEF Decision, Request, DialogueInv, TypeOK
<1>. HIDE DEF n
<1>4. Fit(decisions')
    BY <1>1, <1>3 DEF Fit, DialogueInv, TypeOK
<1>5. TypeOK'
    BY <1>1, <1>4 DEF DialogueInv, TypeOK, Sets, Counters, Fit
<1>6. RequestsNumbered'
    BY <1>1, <1>2, <1>3 DEF DialogueInv, RequestsNumbered
<1>7. AwaitedIsHead'
  <2>. SUFFICES ASSUME NEW i \in 1..Len(queue), queue[i].id = queue[1].id  PROVE i = 1
      BY <1>1, <1>3 DEF DialogueInv, AwaitedIsHead
  <2>1. ~(1 < i)
      BY <1>2 DEF DialogueInv, TypeOK, Request
  <2>. QED  BY <2>1
<1>. QED  BY <1>1, <1>5, <1>6, <1>7 DEF DialogueInv, TimerIsOfHead

LEMMA DialogueKept == DialogueInv /\ [Next]_vars => DialogueInv'
<1>. SUFFICES ASSUME DialogueInv, [Next]_vars  PROVE DialogueInv'
    OBVIOUS
<1>1. Sets' /\ Fit(decisions) /\ queue \in Seq(Request)
    BY SetsKept, TypeParts DEF DialogueInv
<1>2. From(decisions, decisions)
    BY DEF From
<1>3. ASSUME UNCHANGED <<queue, timer, decisions>>, numbers'.request = numbers.request
      PROVE  DialogueInv'
    BY <1>1, <1>2, <1>3, DialogueUndisturbed
<1>4. ASSUME NEW p \in Peers, Screen(p) \/ Dial(p)  PROVE DialogueInv'
    BY <1>3, <1>4 DEF Screen, Dial, Begun, Counted, dialogue, store, DialogueInv, TypeOK
<1>5. ASSUME NEW c \in calls, Install(c)  PROVE DialogueInv'
    BY <1>3, <1>5 DEF Install, dialogue, store
<1>6. ASSUME NEW c \in calls, Announce(c)  PROVE DialogueInv'
  <2>. DEFINE r == [id |-> numbers.request + 1, peer |-> c.peer]
  <2>1. /\ numbers'.request = numbers.request + 1 /\ numbers.request \in Nat
        /\ decisions' = decisions /\ r.id = numbers.request + 1
      BY <1>6 DEF Announce, Counted, DialogueInv, TypeOK
  <2>2. r \in Request
      BY <2>1 DEF Request, Call, DialogueInv, TypeOK
  <2>3. CASE listening
    <3>1. Enqueue(r)
        BY <1>6, <2>3 DEF Announce
    <3>. HIDE DEF r
    <3>. QED  BY <1>1, <2>1, <2>2, <3>1, EnqueueKeepsDialogue
  <2>4. CASE ~listening
    <3>1. UNCHANGED <<queue, timer>>
        BY <1>6, <2>4 DEF Announce
    <3>2. TypeOK'
        BY <1>1, <2>1, <3>1 DEF DialogueInv, TypeOK, Sets, Counters
    <3>3. RequestsNumbered'
      <4>1. \A i \in 1..Len(queue) : queue[i].id \in Nat
        <5>1. \A i \in 1..Len(queue) : queue[i] \in Request
            BY <1>1
        <5>. QED  BY <5>1 DEF Request
      <4>2. \A d \in decisions : d.id \in Nat
          BY <1>1 DEF Fit, Decision
      <4>. QED  BY <2>1, <3>1, <4>1, <4>2 DEF DialogueInv, RequestsNumbered
    <3>. QED  BY <2>1, <3>1, <3>2, <3>3 DEF DialogueInv, TimerIsOfHead, AwaitedIsHead, Due
  <2>. QED  BY <2>3, <2>4
<1>7. CASE Listen
    BY <1>3, <1>7 DEF Listen
<1>8. CASE Expire
  <2>1. Shift /\ numbers' = numbers /\ decisions' = Mounted(decisions, queue')
      BY <1>8 DEF Expire
  <2>. QED  BY <1>1, <2>1, MountedFits, ShiftKeepsDialogue
<1>9. ASSUME NEW yes \in BOOLEAN, Decide(yes)  PROVE DialogueInv'
    BY <1>1, <1>9, DecideKeepsDialogue
<1>10. ASSUME NEW d \in decisions, LookUp(d) \/ Approve(d) \/ Reject(d)  PROVE DialogueInv'
  <2>1. PICK phase \in {"approve", "answered"} : To(d, phase)
      BY <1>10 DEF LookUp, Approve, Reject
  <2>2. UNCHANGED <<queue, timer, numbers>>
      BY <1>10 DEF LookUp, Approve, Reject, store
  <2>. QED  BY <1>1, <2>1, <2>2, MovedOnFits, DialogueUndisturbed
<1>11. ASSUME NEW d \in decisions, Finish(d)  PROVE DialogueInv'
  <2>1. Shift /\ numbers' = numbers /\ decisions' = Mounted(Others(d), queue')
      BY <1>11 DEF Finish
  <2>2. Fit(Others(d)) /\ Others(d) \subseteq decisions
      BY <1>1 DEF Fit, Others
  <2>3. Fit(decisions') /\ From(decisions', Others(d))
      BY <2>1, <2>2, MountedFits
  <2>4. From(decisions', decisions)
      BY <2>2, <2>3 DEF From
  <2>. QED  BY <1>1, <2>1, <2>3, <2>4, ShiftKeepsDialogue
<1>12. CASE Move
  <2>1. UNCHANGED <<queue, timer>> /\ numbers'.request = numbers.request
        /\ decisions' = Disowned(decisions)
      BY <1>12 DEF Move, Begun, Counted, DialogueInv, TypeOK
  <2>. QED  BY <1>1, <2>1, MountedFits, DialogueUndisturbed
<1>13. ASSUME NEW p \in Peers, HearLeave(p) \/ HearOf("trust", p) \/ HearOf("ban", p)
       PROVE  DialogueInv'
    BY <1>3, <1>13 DEF HearLeave, HearOf, Told, Begun, Counted, dialogue, store, DialogueInv, TypeOK
<1>14. ASSUME NEW m \in messages, Leave(m) \/ Trust(m) \/ Shun(m)  PROVE DialogueInv'
    BY <1>3, <1>14 DEF Leave, Trust, Shun, dialogue, store
<1>15. CASE UNCHANGED vars
    BY <1>3, <1>15 DEF vars
<1>. QED  BY <1>4, <1>5, <1>6, <1>7, <1>8, <1>9, <1>10, <1>11, <1>12, <1>13, <1>14, <1>15
          DEF Next, System

LEMMA DialogueAlways == Spec => []DialogueInv
<1>1. Init => DialogueInv
  <2>. SUFFICES ASSUME Init  PROVE DialogueInv
      OBVIOUS
  <2>1. queue = <<>> /\ <<>> \in Seq(Request) /\ 1..Len(<<>>) = {} /\ decisions = {} /\ timer = 0
      BY DEF Init, None
  <2>2. TypeOK
    <3>1. Sets
      <4>1. [call |-> 0, message |-> 0, request |-> 0, decision |-> 0, move |-> 0]
                \in [Counters -> Nat]
          BY DEF Counters
      <4>2. numbers \in [Counters -> Nat]
          BY <4>1 DEF Init
      <4>3. {} \subseteq Peers /\ {} \subseteq Call /\ TRUE \in BOOLEAN /\ FALSE \in BOOLEAN
          OBVIOUS
      <4>. QED  BY <4>2, <4>3 DEF Init, Sets
    <3>2. Fit(decisions) /\ Ascending(queue)
        BY <2>1 DEF Fit, Ascending
    <3>. QED  BY <2>1, <3>1, <3>2, TypeParts
  <2>. QED  BY <2>1, <2>2 DEF DialogueInv, RequestsNumbered, TimerIsOfHead, AwaitedIsHead, Due, None
<1>. QED  BY <1>1, DialogueKept, PTL DEF Spec

(* For any number of peers, handshakes and decisions: requests keep their  *)
(* order and the dialogue on screen awaits one decision at most.           *)
THEOREM DialogueTypes == Spec => []TypeOK
<1>1. DialogueInv => TypeOK
    BY DEF DialogueInv
<1>. QED  BY <1>1, DialogueAlways, PTL

(* For any number of peers, handshakes and decisions, and whatever timers  *)
(* fire: the timer that runs is the head's, and none runs for no request.  *)
THEOREM TimerAlwaysOfHead == Spec => []TimerIsOfHead
<1>1. DialogueInv => TimerIsOfHead
    BY DEF DialogueInv
<1>. QED  BY <1>1, DialogueAlways, PTL

(* For any number of peers, handshakes and decisions, however often the    *)
(* dialogue is closed and opened: a decision awaited while its request     *)
(* waits is about the head.                                                *)
THEOREM AwaitedAlwaysHead == Spec => []AwaitedIsHead
<1>1. DialogueInv => AwaitedIsHead
    BY DEF DialogueInv
<1>. QED  BY <1>1, DialogueAlways, PTL

-----------------------------------------------------------------------------
(* A peer that a handshake found known is known still, unless it was       *)
(* removed since; so its installation tells nobody of a peer nobody was    *)
(* told of before.                                                         *)
SeenIsKnown ==
    \A c \in calls : c.phase = "install" /\ ~c.new /\ ~c.dial => c.peer \in known \cup revived

TellInv == TypeOK /\ SeenIsKnown /\ NewPeerIsTold

LEMMA TellUndisturbed ==
    ASSUME TellInv, TypeOK', known' = known, calls \subseteq calls',
           vetted' = vetted, lost \subseteq lost', revived' = revived,
           \A c \in calls' \ calls : c.new \/ c.dial \/ c.peer \in known
    PROVE  TellInv'
BY DEF TellInv, SeenIsKnown, NewPeerIsTold

(* A peer goes, and is marked if an installation of it is to come.         *)
LEMMA ForgetTells ==
    ASSUME TellInv, TypeOK', NEW p, Forget(p), calls' = calls
    PROVE  TellInv'
<1>1. /\ known' = known \ {p} /\ lost' = lost \ {p} /\ vetted' = vetted \ {p}
      /\ Installing(p) => p \in revived'
      /\ \A x : x # p => (x \in revived' <=> x \in revived)
    BY DEF Forget, Marked
<1>2. SeenIsKnown'
    BY <1>1 DEF TellInv, SeenIsKnown, Installing
<1>3. NewPeerIsTold'
    BY <1>1 DEF TellInv, NewPeerIsTold
<1>. QED  BY <1>2, <1>3 DEF TellInv

LEMMA InstallTells ==
    ASSUME TellInv, TypeOK', NEW c \in calls, Install(c)
    PROVE  TellInv'
<1>. DEFINE n == [c EXCEPT !.phase = "announce"]
<1>1. /\ n.peer = c.peer /\ n.new = c.new /\ n.phase = "announce"
      /\ c.new \in BOOLEAN /\ c.dial \in BOOLEAN
    BY DEF TellInv, TypeOK, Call
<1>2. /\ known' = known \cup {c.peer} /\ revived' = revived /\ lost' = lost
      /\ calls' = (calls \ {c}) \cup (IF c.new THEN {n} ELSE {})
      /\ vetted \subseteq vetted'
      /\ c.dial => c.peer \in vetted'
      /\ c.phase = "install"
    BY DEF Install, removals
<1>. HIDE DEF n
<1>3. SeenIsKnown'
    BY <1>1, <1>2 DEF TellInv, SeenIsKnown
<1>4. NewPeerIsTold'
  <2>. SUFFICES ASSUME NEW p \in known', p \notin vetted' \cup lost \cup revived
                PROVE  \E e \in calls' : e.peer = p /\ e.new
      BY <1>2 DEF NewPeerIsTold
  <2>1. CASE p = c.peer /\ c.new
      BY <1>1, <1>2, <2>1
  <2>2. CASE ~(p = c.peer /\ c.new)
    <3>1. p \in known
        BY <1>2, <2>2 DEF TellInv, SeenIsKnown
    <3>2. PICK e \in calls : e.peer = p /\ e.new
        BY <1>2, <3>1 DEF TellInv, NewPeerIsTold
    <3>. QED  BY <1>2, <2>2, <3>2
  <2>. QED  BY <2>1, <2>2
<1>. QED  BY <1>3, <1>4 DEF TellInv

LEMMA TellKept == TellInv /\ TypeOK' /\ [Next]_vars => TellInv'
<1>. SUFFICES ASSUME TellInv, TypeOK', [Next]_vars  PROVE TellInv'
    OBVIOUS
<1>1. ASSUME UNCHANGED <<known, calls, vetted, lost, revived>>  PROVE TellInv'
  <2>1. /\ known' = known /\ vetted' = vetted /\ lost \subseteq lost' /\ revived' = revived
        /\ calls \subseteq calls' /\ calls' \ calls = {}
      BY <1>1
  <2>. QED  BY <2>1, TellUndisturbed
<1>2. ASSUME NEW p \in Peers, Screen(p)  PROVE TellInv'
  <2>1. /\ UNCHANGED <<known, vetted, lost, revived>> /\ calls \subseteq calls'
        /\ \A c \in calls' \ calls : c.new = (p \notin known) /\ c.peer = p
      BY <1>2 DEF Screen, removals
  <2>2. \A c \in calls' \ calls : c.new \/ c.peer \in known
      BY <2>1
  <2>. QED  BY <2>1, <2>2, TellUndisturbed
<1>3. ASSUME NEW p \in Peers, Dial(p)  PROVE TellInv'
    BY <1>3, TellUndisturbed DEF Dial, removals
<1>4. ASSUME NEW c \in calls, Install(c)  PROVE TellInv'
    BY <1>4, InstallTells
<1>5. ASSUME NEW c \in calls, Announce(c)  PROVE TellInv'
  <2>1. /\ known' = known /\ revived' = revived /\ calls' = calls \ {c}
        /\ vetted \subseteq vetted' /\ lost \subseteq lost' /\ c.peer \in vetted' \cup lost'
      BY <1>5 DEF Announce, removals
  <2>. QED  BY <2>1 DEF TellInv, SeenIsKnown, NewPeerIsTold
<1>6. CASE Listen \/ Expire \/ Move
    BY <1>1, <1>6 DEF Listen, Expire, Move, registry, removals
<1>7. ASSUME NEW yes \in BOOLEAN, Decide(yes)  PROVE TellInv'
    BY <1>1, <1>7 DEF Decide, registry, removals
<1>8. ASSUME NEW d \in decisions, LookUp(d) \/ Approve(d) \/ Finish(d)  PROVE TellInv'
    BY <1>1, <1>8 DEF LookUp, Approve, Finish, registry, removals
<1>9. ASSUME NEW d \in decisions, Reject(d)  PROVE TellInv'
    BY <1>9, ForgetTells DEF Reject, Ban
<1>10. ASSUME NEW p \in Peers, HearLeave(p) \/ HearOf("trust", p) \/ HearOf("ban", p)
       PROVE  TellInv'
    BY <1>1, <1>10 DEF HearLeave, HearOf, Told, removals
<1>11. ASSUME NEW m \in messages, Leave(m) \/ Shun(m)  PROVE TellInv'
    BY <1>11, ForgetTells DEF Leave, Shun, Ban
<1>12. ASSUME NEW m \in messages, Trust(m)  PROVE TellInv'
    BY <1>1, <1>12 DEF Trust
<1>13. CASE UNCHANGED vars
    BY <1>1, <1>13 DEF vars
<1>. QED  BY <1>2, <1>3, <1>4, <1>5, <1>6, <1>7, <1>8, <1>9, <1>10, <1>11, <1>12, <1>13
          DEF Next, System

(* For any number of peers, handshakes, decisions, leaves, bans and words  *)
(* of trust, whatever overlaps: a peer in the registry was dialled from    *)
(* here, or the user was told of it since it last came or will be, unless  *)
(* nobody listened yet or its last removal met an installation of it.      *)
THEOREM NewPeerAlwaysTold == Spec => []NewPeerIsTold
<1>1. Init => SeenIsKnown /\ NewPeerIsTold
    BY DEF Init, SeenIsKnown, NewPeerIsTold
<1>2. TellInv => NewPeerIsTold
    BY DEF TellInv
<1>3. TypeOK /\ SeenIsKnown /\ NewPeerIsTold => TellInv
    BY DEF TellInv
<1>. QED  BY <1>1, <1>2, <1>3, TellKept, DialogueTypes, PTL DEF Spec

-----------------------------------------------------------------------------
(* About a peer whose ban met nobody there is no handshake past the        *)
(* screen, no approval and no leave past its look at the registry, and     *)
(* there will be none: the first finds it banned, the others unknown.      *)
Shut == \A p \in rejected \ crossed : p \in banned /\ p \notin known /\ ~Meets(p)

(* A step that brings in nobody and lets nobody past.                      *)
LEMMA ShutUndisturbed ==
    ASSUME Shut, UNCHANGED <<known, rejected, crossed>>, banned' = banned,
           \A c \in calls' : c.phase = "install" => c \in calls \/ c.peer \notin banned,
           \A d \in decisions' : d.phase = "approve" =>
               d.peer \in known \/ \E e \in decisions : e.phase = "approve" /\ e.peer = d.peer,
           \A m \in messages' : m.what = "leave" => m \in messages \/ m.peer \in known
    PROVE  Shut'
BY DEF Shut, Meets, Installing

(* A ban shuts the peer out, or is marked.                                 *)
LEMMA BanShuts ==
    ASSUME Shut, NEW p, Ban(p), calls' = calls, messages' \subseteq messages,
           \A d \in decisions' : d.phase = "approve" => d \in decisions
    PROVE  Shut'
<1>1. /\ known' = known \ {p} /\ banned' = banned \cup {p} /\ rejected' = rejected \cup {p}
      /\ Meets(p) => p \in crossed'
      /\ \A x : x # p => (x \in crossed' <=> x \in crossed)
    BY DEF Ban, Forget, Marked
<1>2. \A x : Meets(x)' => Meets(x)
    BY DEF Meets, Installing
<1>. QED  BY <1>1, <1>2 DEF Shut

(* What lifts a ban met it, or is a word of trust.                         *)
LEMMA LiftedOpen ==
    ASSUME Shut, NEW p, known' \subseteq known, banned' = banned \ {p},
           p \notin rejected' \ crossed', rejected' \subseteq rejected, crossed' = crossed,
           calls' = calls, messages' \subseteq messages,
           \A d \in decisions' : d.phase = "approve" => d \in decisions
    PROVE  Shut'
<1>1. \A x : Meets(x)' => Meets(x)
    BY DEF Meets, Installing
<1>. QED  BY <1>1 DEF Shut

LEMMA ShutKept == TypeOK /\ Shut /\ [Next]_vars => Shut'
<1>. SUFFICES ASSUME TypeOK, Shut, [Next]_vars  PROVE Shut'
    OBVIOUS
<1>0. Fit(decisions)
    BY TypeParts
<1>1. \A d \in decisions : d.phase = "approve" =>
          \E e \in decisions : e.phase = "approve" /\ e.peer = d.peer
    OBVIOUS
<1>2. ASSUME NEW p \in Peers, Screen(p) \/ Dial(p)  PROVE Shut'
  <2>1. /\ UNCHANGED <<known, banned, messages, rejected, crossed, decisions>> /\ p \notin banned
        /\ \A c \in calls' : c \in calls \/ c.peer = p
      BY <1>2 DEF Screen, Dial, dialogue, removals
  <2>. QED  BY <1>1, <2>1, ShutUndisturbed
<1>3. ASSUME NEW c \in calls, Install(c)  PROVE Shut'
  <2>. DEFINE n == [c EXCEPT !.phase = "announce"]
  <2>1. n.phase = "announce"
      BY DEF TypeOK, Call
  <2>2. /\ known' = known \cup {c.peer} /\ banned' = banned \ {c.peer}
        /\ \A e \in calls' : e \in calls \/ e = n
        /\ UNCHANGED <<messages, rejected, crossed, decisions>> /\ c.phase = "install"
      BY <1>3 DEF Install, dialogue, removals
  <2>. HIDE DEF n
  <2>. QED  BY <2>1, <2>2 DEF Shut, Meets, Installing
<1>4. ASSUME NEW c \in calls, Announce(c)  PROVE Shut'
    BY <1>1, <1>4, ShutUndisturbed DEF Announce, removals
<1>5. CASE Listen
    BY <1>1, <1>5, ShutUndisturbed DEF Listen, registry, removals
<1>6. CASE Expire
  <2>1. UNCHANGED registry /\ decisions' = Mounted(decisions, queue')
      BY <1>6 DEF Expire
  <2>2. \A d \in decisions' : \E e \in decisions : d.phase = e.phase /\ d.peer = e.peer
      BY <1>0, <2>1, MountedFits
  <2>. QED  BY <2>1, <2>2, ShutUndisturbed DEF registry, removals
<1>7. ASSUME NEW yes \in BOOLEAN, Decide(yes)  PROVE Shut'
    BY <1>1, <1>7, ShutUndisturbed DEF Decide, registry, removals
<1>8. ASSUME NEW d \in decisions, LookUp(d)  PROVE Shut'
  <2>1. UNCHANGED registry
      BY <1>8 DEF LookUp
  <2>2. CASE d.peer \in known
    <3>1. To(d, "approve")
        BY <1>8, <2>2 DEF LookUp
    <3>2. \A e \in decisions' : e \in decisions \/ e.peer \in known
        BY <1>0, <2>2, <3>1, MovedOnFits
    <3>. QED  BY <1>1, <2>1, <3>2, ShutUndisturbed DEF registry, removals
  <2>3. CASE d.peer \notin known
    <3>1. To(d, "answered")
        BY <1>8, <2>3 DEF LookUp
    <3>2. \A e \in decisions' : e \in decisions \/ e.phase = "answered"
        BY <1>0, <3>1, MovedOnFits
    <3>. QED  BY <1>1, <2>1, <3>2, ShutUndisturbed DEF registry, removals
  <2>. QED  BY <2>2, <2>3
<1>9. ASSUME NEW d \in decisions, Approve(d)  PROVE Shut'
  <2>1. /\ UNCHANGED <<known, calls, messages, rejected, crossed>> /\ banned' = banned \ {d.peer}
        /\ d.phase = "approve" /\ To(d, "answered")
      BY <1>9 DEF Approve, removals
  <2>2. \A e \in decisions' : e.phase = "approve" => e \in decisions
      BY <1>0, <2>1, MovedOnFits
  <2>3. d.peer \notin rejected \ crossed
      BY <2>1 DEF Shut, Meets
  <2>. QED  BY <2>1, <2>2, <2>3, LiftedOpen
<1>10. ASSUME NEW d \in decisions, Reject(d)  PROVE Shut'
  <2>1. Ban(d.peer) /\ calls' = calls /\ messages' = messages /\ To(d, "answered")
      BY <1>10 DEF Reject
  <2>2. \A e \in decisions' : e.phase = "approve" => e \in decisions
      BY <1>0, <2>1, MovedOnFits
  <2>. QED  BY <2>1, <2>2, BanShuts
<1>11. ASSUME NEW d \in decisions, Finish(d)  PROVE Shut'
  <2>1. UNCHANGED registry /\ decisions' = Mounted(Others(d), queue')
      BY <1>11 DEF Finish
  <2>2. Fit(Others(d)) /\ Others(d) \subseteq decisions
      BY <1>0 DEF Fit, Others
  <2>3. \A e \in decisions' : \E f \in Others(d) : e.phase = f.phase /\ e.peer = f.peer
      BY <2>1, <2>2, MountedFits
  <2>. QED  BY <2>1, <2>2, <2>3, ShutUndisturbed DEF registry, removals
<1>12. CASE Move
  <2>1. UNCHANGED registry /\ decisions' = Disowned(decisions)
      BY <1>12 DEF Move
  <2>2. \A d \in decisions' : \E e \in decisions : d.phase = e.phase /\ d.peer = e.peer
      BY <1>0, <2>1, MountedFits
  <2>. QED  BY <2>1, <2>2, ShutUndisturbed DEF registry, removals
<1>13. ASSUME NEW p \in Peers, HearLeave(p) \/ HearOf("trust", p) \/ HearOf("ban", p)  PROVE Shut'
  <2>1. UNCHANGED <<known, banned, calls, rejected, crossed, decisions>>
      BY <1>13 DEF HearLeave, HearOf, Told, removals, dialogue
  <2>2. \A m \in messages' : m.what = "leave" => m \in messages \/ m.peer \in known
      BY <1>13 DEF HearLeave, HearOf, Told
  <2>. QED  BY <1>1, <2>1, <2>2, ShutUndisturbed
<1>14. ASSUME NEW m \in messages, Leave(m)  PROVE Shut'
  <2>1. /\ known' \subseteq known /\ banned' = banned \ {m.peer} /\ messages' \subseteq messages
        /\ UNCHANGED <<calls, rejected, crossed, decisions>> /\ m.what = "leave"
      BY <1>14 DEF Leave, Forget, dialogue
  <2>2. m.peer \notin rejected \ crossed
      BY <2>1 DEF Shut, Meets
  <2>. QED  BY <2>1, <2>2, LiftedOpen
<1>15. ASSUME NEW m \in messages, Trust(m)  PROVE Shut'
  <2>1. /\ known' \subseteq known /\ banned' = banned \ {m.peer} /\ messages' \subseteq messages
        /\ rejected' = rejected \ {m.peer} /\ UNCHANGED <<calls, crossed, decisions>>
      BY <1>15 DEF Trust, dialogue
  <2>. QED  BY <2>1, LiftedOpen
<1>16. ASSUME NEW m \in messages, Shun(m)  PROVE Shut'
    BY <1>16, BanShuts DEF Shun, dialogue
<1>17. CASE UNCHANGED vars
    BY <1>1, <1>17, ShutUndisturbed DEF vars
<1>. QED  BY <1>2, <1>3, <1>4, <1>5, <1>6, <1>7, <1>8, <1>9, <1>10, <1>11, <1>12, <1>13,
              <1>14, <1>15, <1>16, <1>17
          DEF Next, System

(* For any number of peers, handshakes, decisions and messages: a peer     *)
(* banned by the user or at the word of another stays out until some peer  *)
(* says that it is trusted, unless the ban met a call that had looked      *)
(* before.                                                                 *)
THEOREM RejectionAlwaysStands == Spec => []RejectionStands
<1>1. Init => Shut
    BY DEF Init, Shut
<1>2. Shut => RejectionStands
    BY DEF Shut, RejectionStands
<1>. QED  BY <1>1, <1>2, ShutKept, DialogueTypes, PTL DEF Spec
=============================================================================
