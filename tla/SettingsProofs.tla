----------------------------- MODULE SettingsProofs -----------------------------
(* The theorems about Settings.                                            *)
EXTENDS Settings, FiniteSetTheorems, TLAPS

-----------------------------------------------------------------------------
(* Cleaning a name.                                                        *)

(* Natural numbers have a least one: of the segments 0..n that end in T,   *)
(* one contains no other.                                                  *)
LEMMA LeastNumber ==
    ASSUME NEW T \in SUBSET Nat, T # {}
    PROVE  \E m \in T : \A k \in T : m <= k
<1>. DEFINE Segments == {0..n : n \in T}
<1>1. Segments \subseteq FiniteSubsetsOf(Nat)
  <2>. SUFFICES ASSUME NEW n \in T  PROVE 0..n \in FiniteSubsetsOf(Nat)
      OBVIOUS
  <2>1. IsFiniteSet(0..n)
      BY FS_Interval
  <2>. QED  BY <2>1 DEF FiniteSubsetsOf
<1>2. \E g \in Segments : \A h \in Segments : <<h, g>> \notin StrictSubsetOrdering(Nat)
  <2>1. IsWellFoundedOn(StrictSubsetOrdering(Nat), FiniteSubsetsOf(Nat))
      BY FS_StrictSubsetOrderingWellFounded
  <2>2. Segments # {}
      OBVIOUS
  <2>. HIDE DEF Segments
  <2>. QED  BY <1>1, <2>1, <2>2, WFMin
<1>3. PICK m \in T : \A k \in T : <<0..k, 0..m>> \notin StrictSubsetOrdering(Nat)
    BY <1>2
<1>4. ASSUME NEW k \in T, ~(m <= k)  PROVE FALSE
  <2>1. 0..k \subseteq 0..m /\ 0..k # 0..m /\ 0..k \subseteq Nat /\ 0..m \subseteq Nat
      BY <1>4
  <2>. QED  BY <1>3, <2>1 DEF StrictSubsetOrdering
<1>. QED  BY <1>4

(* So numbers below a bound have a greatest one.                           *)
LEMMA GreatestNumber ==
    ASSUME NEW n \in Nat, NEW T \in SUBSET (1..n), T # {}
    PROVE  \E m \in T : \A k \in T : m >= k
<1>. DEFINE U == {n - k : k \in T}
<1>1. U \in SUBSET Nat /\ U # {}
  <2>1. \A k \in T : n - k \in Nat
      OBVIOUS
  <2>. QED  BY <2>1
<1>2. PICK u \in U : \A k \in U : u <= k
  <2>. HIDE DEF U
  <2>. QED  BY <1>1, LeastNumber
<1>3. PICK m \in T : u = n - m
    OBVIOUS
<1>4. ASSUME NEW k \in T  PROVE m >= k
  <2>1. n - k \in U
      OBVIOUS
  <2>2. u <= n - k
      BY <1>2, <2>1
  <2>. QED  BY <1>3, <2>2
<1>. QED  BY <1>4

(* The first and the last of some positions of a sequence.                 *)
LEMMA EndsOf ==
    ASSUME NEW n \in Nat, NEW T \in SUBSET (1..n), T # {}
    PROVE  /\ Min(T) \in T /\ \A k \in T : Min(T) <= k
           /\ Max(T) \in T /\ \A k \in T : Max(T) >= k
<1>1. \E m \in T : \A k \in T : m <= k
    BY LeastNumber
<1>2. \E m \in T : \A k \in T : m >= k
    BY GreatestNumber
<1>. QED  BY <1>1, <1>2 DEF Min, Max

(* The smaller and the larger of two numbers.                              *)
LEMMA OfTwo ==
    ASSUME NEW a \in Int, NEW b \in Int
    PROVE  /\ Min({a, b}) = IF a <= b THEN a ELSE b
           /\ Max({a, b}) = IF a >= b THEN a ELSE b
<1>1. \E m \in {a, b} : \A k \in {a, b} : m <= k
    OBVIOUS
<1>2. \E m \in {a, b} : \A k \in {a, b} : m >= k
    OBVIOUS
<1>3. Min({a, b}) \in {a, b} /\ \A k \in {a, b} : Min({a, b}) <= k
    BY <1>1 DEF Min
<1>4. Max({a, b}) \in {a, b} /\ \A k \in {a, b} : Max({a, b}) >= k
    BY <1>2 DEF Max
<1>. QED  BY <1>3, <1>4

(* Trimming leaves a part of the name, ...                                 *)
LEMMA TrimmedIsPart ==
    ASSUME NEW s \in Seq(Chars)
    PROVE  /\ Trimmed(s) \in Seq(Chars) /\ Len(Trimmed(s)) <= Len(s)
           /\ Trimmed(s) # <<>> => /\ Trimmed(s)[1] # Blank
                                   /\ Trimmed(s)[Len(Trimmed(s))] # Blank
           /\ \A i \in 1..Len(Trimmed(s)) : \E j \in 1..Len(s) : Trimmed(s)[i] = s[j]
<1>. DEFINE solid == {i \in DOMAIN s : s[i] # Blank}
<1>1. CASE solid = {}
  <2>1. Trimmed(s) = <<>>
      BY <1>1 DEF Trimmed
  <2>. QED  BY <2>1
<1>2. CASE solid # {}
  <2>. DEFINE a == Min(solid)
              b == Max(solid)
  <2>1. solid \in SUBSET (1..Len(s)) /\ Len(s) \in Nat
      OBVIOUS
  <2>2. a \in solid /\ b \in solid /\ a <= b
    <3>. HIDE DEF solid
    <3>. QED  BY <1>2, <2>1, EndsOf
  <2>3. Trimmed(s) = SubSeq(s, a, b)
      BY <1>2 DEF Trimmed
  <2>4. a \in 1..Len(s) /\ b \in 1..Len(s) /\ s[a] # Blank /\ s[b] # Blank
      BY <2>2
  <2>. HIDE DEF a, b, solid
  <2>5. /\ SubSeq(s, a, b) \in Seq(Chars) /\ Len(SubSeq(s, a, b)) = b - a + 1
        /\ \A i \in 1..(b - a + 1) : SubSeq(s, a, b)[i] = s[a + i - 1]
      BY <2>2, <2>4
  <2>6. a \in Int /\ b \in Int /\ b - a + 1 \in Nat /\ b - a + 1 <= Len(s)
      BY <2>1, <2>2, <2>4
  <2>7. Trimmed(s)[1] = s[a] /\ Trimmed(s)[b - a + 1] = s[b]
      BY <2>2, <2>3, <2>5, <2>6
  <2>8. ASSUME NEW i \in 1..(b - a + 1)
        PROVE  \E j \in 1..Len(s) : Trimmed(s)[i] = s[j]
    <3>1. a + i - 1 \in 1..Len(s)
        BY <2>1, <2>4, <2>6
    <3>. QED  BY <2>3, <2>5, <3>1
  <2>. QED  BY <2>3, <2>4, <2>5, <2>6, <2>7, <2>8
<1>. QED  BY <1>1, <1>2

(* ... all of it when no end is blank.                                     *)
LEMMA NothingToTrim ==
    ASSUME NEW s \in Seq(Chars), s # <<>>, s[1] # Blank, s[Len(s)] # Blank
    PROVE  Trimmed(s) = s
<1>. DEFINE solid == {i \in DOMAIN s : s[i] # Blank}
<1>1. solid \in SUBSET (1..Len(s)) /\ Len(s) \in Nat /\ 1 \in solid /\ Len(s) \in solid
    OBVIOUS
<1>2. Min(solid) = 1 /\ Max(solid) = Len(s)
  <2>. HIDE DEF solid
  <2>1. /\ Min(solid) \in solid /\ \A k \in solid : Min(solid) <= k
        /\ Max(solid) \in solid /\ \A k \in solid : Max(solid) >= k
    <3>1. solid # {}
        BY <1>1
    <3>. QED  BY <1>1, <3>1, EndsOf
  <2>2. Min(solid) \in 1..Len(s) /\ Min(solid) <= 1
      BY <1>1, <2>1
  <2>3. Max(solid) \in 1..Len(s) /\ Max(solid) >= Len(s)
      BY <1>1, <2>1
  <2>. QED  BY <1>1, <2>2, <2>3
<1>3. Trimmed(s) = SubSeq(s, 1, Len(s))
    BY <1>1, <1>2 DEF Trimmed
<1>. QED  BY <1>3

(* Cutting leaves the beginning.                                           *)
LEMMA TakenIsPart ==
    ASSUME NEW s \in Seq(Chars)
    PROVE  /\ Taken(s) \in Seq(Chars) /\ Len(Taken(s)) <= MaxName
           /\ Len(Taken(s)) <= Len(s) /\ \A i \in 1..Len(Taken(s)) : Taken(s)[i] = s[i]
           /\ Len(s) <= MaxName => Taken(s) = s
<1>. DEFINE n == Min({MaxName, Len(s)})
<1>1. n = IF MaxName <= Len(s) THEN MaxName ELSE Len(s)
    BY OfTwo, SettingsAssumption
<1>. HIDE DEF n
<1>2. n \in 0..Len(s) /\ n <= MaxName /\ (Len(s) <= MaxName => n = Len(s))
    BY <1>1, SettingsAssumption
<1>3. Taken(s) = SubSeq(s, 1, n)
    BY DEF Taken, n
<1>4. Taken(s) \in Seq(Chars) /\ Len(Taken(s)) = n /\ \A i \in 1..n : Taken(s)[i] = s[i]
    BY <1>2, <1>3
<1>. QED  BY <1>2, <1>3, <1>4, SettingsAssumption

LEMMA SizeOfSegment ==
    ASSUME NEW n \in Nat
    PROVE  IsFiniteSet(1..n) /\ Cardinality(1..n) = n
<1>1. IsFiniteSet(1..n) /\ Cardinality(1..n) = IF 1 > n THEN 0 ELSE n - 1 + 1
    BY FS_Interval
<1>. QED  BY <1>1

(* Each number up to the size of a set of positions is the rank of one.    *)
LEMMA RanksCover ==
    ASSUME NEW n \in Nat, NEW T \in SUBSET (1..n)
    PROVE  /\ Cardinality(T) \in Nat
           /\ \A k \in 1..Cardinality(T) :
                 \E i \in T : Cardinality({j \in T : j <= i}) = k
<1>. DEFINE Below(i) == {j \in T : j <= i}
            rank == [i \in T |-> Cardinality(Below(i))]
            Ranks == 1..Cardinality(T)
<1>1. IsFiniteSet(T) /\ Cardinality(T) \in Nat
  <2>1. IsFiniteSet(1..n)
      BY FS_Interval
  <2>2. IsFiniteSet(T)
      BY <2>1, FS_Subset
  <2>. QED  BY <2>2, FS_CardinalityType
<1>2. ASSUME NEW i \in T
      PROVE  /\ IsFiniteSet(Below(i)) /\ Cardinality(Below(i)) \in Nat
             /\ Cardinality(Below(i)) \in Ranks
  <2>1. Below(i) \subseteq T /\ i \in Below(i)
      OBVIOUS
  <2>. HIDE DEF Below
  <2>2. IsFiniteSet(Below(i)) /\ Cardinality(Below(i)) <= Cardinality(T)
      BY <1>1, <2>1, FS_Subset
  <2>3. Cardinality(Below(i)) \in Nat /\ Cardinality(Below(i)) # 0
      BY <2>1, <2>2, FS_CardinalityType, FS_EmptySet
  <2>. QED  BY <1>1, <2>2, <2>3
<1>3. ASSUME NEW i \in T, NEW k \in T, i < k
      PROVE  Cardinality(Below(i)) # Cardinality(Below(k))
  <2>1. T \subseteq Nat
      OBVIOUS
  <2>2. \A j \in T : j <= i => j <= k
      BY <1>3, <2>1
  <2>3. k <= k /\ ~(k <= i)
      BY <1>3, <2>1
  <2>4. Below(i) \subseteq Below(k) /\ k \in Below(k) /\ k \notin Below(i)
      BY <2>2, <2>3
  <2>. HIDE DEF Below
  <2>5. Cardinality(Below(i)) = Cardinality(Below(k)) => Below(i) = Below(k)
      BY <1>2, <2>4, FS_Subset
  <2>. QED  BY <2>4, <2>5
<1>4. rank \in Injection(T, Ranks)
  <2>1. rank \in [T -> Ranks]
      BY <1>2
  <2>2. ASSUME NEW i \in T, NEW k \in T, i # k  PROVE rank[i] # rank[k]
    <3>1. i < k \/ k < i
        BY <2>2
    <3>. HIDE DEF Below
    <3>. QED  BY <1>3, <3>1
  <2>. HIDE DEF rank, Ranks
  <2>. QED  BY <2>1, <2>2 DEF Injection, IsInjective
<1>5. IsFiniteSet(Ranks) /\ Cardinality(Ranks) = Cardinality(T)
    BY <1>1, FS_Interval
<1>6. rank \in Surjection(T, Ranks)
  <2>. HIDE DEF rank, Ranks
  <2>. QED  BY <1>4, <1>5, FS_Injection
<1>7. ASSUME NEW k \in Ranks  PROVE \E i \in T : Cardinality(Below(i)) = k
  <2>1. \E i \in T : rank[i] = k
    <3>. HIDE DEF rank, Ranks
    <3>. QED  BY <1>6, <1>7 DEF Surjection
  <2>. QED  BY <2>1
<1>. QED  BY <1>1, <1>7

(* Filtering leaves no control character, and adds nothing.                *)
LEMMA SolidIsPart ==
    ASSUME NEW s \in Seq(Chars)
    PROVE  /\ Solid(s) \in Seq(Chars)
           /\ \A i \in 1..Len(Solid(s)) : Solid(s)[i] # Control
<1>. DEFINE kept   == {i \in DOMAIN s : s[i] # Control}
            Nth(k) == CHOOSE i \in kept : Cardinality({j \in kept : j <= i}) = k
            n      == Cardinality(kept)
<1>1. kept \in SUBSET (1..Len(s)) /\ Len(s) \in Nat
    OBVIOUS
<1>2. n \in Nat /\ \A k \in 1..n : Nth(k) \in kept
  <2>. HIDE DEF kept
  <2>. QED  BY <1>1, RanksCover
<1>3. Solid(s) = [k \in 1..n |-> s[Nth(k)]]
    BY DEF Solid
<1>4. \A i \in kept : s[i] \in Chars /\ s[i] # Control
    OBVIOUS
<1>. HIDE DEF kept, Nth, n
<1>5. \A k \in 1..n : s[Nth(k)] \in Chars /\ s[Nth(k)] # Control
    BY <1>2, <1>4
<1>6. Solid(s) \in Seq(Chars) /\ Len(Solid(s)) = n
    BY <1>2, <1>3, <1>5
<1>. QED  BY <1>3, <1>5, <1>6

(* Filtering leaves a name without control characters as it is.            *)
LEMMA NothingToDrop ==
    ASSUME NEW s \in Seq(Chars), \A i \in 1..Len(s) : s[i] # Control
    PROVE  Solid(s) = s
<1>. DEFINE kept   == {i \in DOMAIN s : s[i] # Control}
            Nth(k) == CHOOSE i \in kept : Cardinality({j \in kept : j <= i}) = k
            n      == Len(s)
<1>1. kept = 1..n /\ n \in Nat
    OBVIOUS
<1>2. Solid(s) = [k \in 1..Cardinality(kept) |-> s[Nth(k)]]
    BY DEF Solid
<1>3. ASSUME NEW i \in 1..n  PROVE Cardinality({j \in kept : j <= i}) = i
  <2>1. {j \in 1..n : j <= i} = 1..i /\ i \in Nat
      BY <1>1
  <2>. HIDE DEF kept, n
  <2>. QED  BY <1>1, <2>1, SizeOfSegment
<1>4. \A k \in 1..n : Nth(k) = k
  <2>. HIDE DEF kept, n
  <2>. QED  BY <1>1, <1>3
<1>5. Cardinality(kept) = n
  <2>. HIDE DEF kept, n
  <2>. QED  BY <1>1, SizeOfSegment
<1>. HIDE DEF Nth, kept
<1>6. Solid(s) = [k \in 1..n |-> s[k]]
    BY <1>2, <1>4, <1>5
<1>. QED  BY <1>6

(* A name that is cleaned has no control character and no blank at its     *)
(* ends and is not too long, or it is the name of the nameless.            *)
LEMMA CleanedName ==
    ASSUME NEW s \in Seq(Chars), SanitizedName(s) # Unnamed
    PROVE  LET t == SanitizedName(s) IN
           /\ t \in Seq(Chars) /\ t # <<>> /\ Len(t) <= MaxName
           /\ \A i \in 1..Len(t) : t[i] # Control
           /\ t[1] # Blank /\ t[Len(t)] # Blank
<1>. DEFINE u == Taken(Solid(s))
<1>1. u \in Seq(Chars) /\ Len(u) <= MaxName /\ \A i \in 1..Len(u) : u[i] # Control
  <2>1. Solid(s) \in Seq(Chars) /\ \A i \in 1..Len(Solid(s)) : Solid(s)[i] # Control
      BY SolidIsPart
  <2>. QED  BY <2>1, TakenIsPart
<1>2. SanitizedName(s) = Trimmed(u) /\ Trimmed(u) # <<>>
    BY DEF SanitizedName
<1>. HIDE DEF u
<1>3. Len(Trimmed(u)) <= Len(u) /\ Trimmed(u) \in Seq(Chars)
    BY <1>1, TrimmedIsPart
<1>4. Len(Trimmed(u)) <= MaxName
    BY <1>1, <1>3, SettingsAssumption
<1>5. \A i \in 1..Len(Trimmed(u)) : Trimmed(u)[i] # Control
    BY <1>1, TrimmedIsPart
<1>. QED  BY <1>1, <1>2, <1>3, <1>4, <1>5, TrimmedIsPart

(* Whatever was typed, the result is a name.                               *)
LEMMA SanitizedIsName ==
    ASSUME NEW s \in Seq(Chars)
    PROVE  SanitizedName(s) \in Seq(Chars)
BY CleanedName, NamesAssumption DEF Names

(* Cleaning a clean name changes nothing: the name a device offers is the  *)
(* one its peers store (sanitize_device_name runs at both ends).           *)
THEOREM SanitizedOnce ==
    ASSUME NEW s \in Seq(Chars), SanitizedName(s) # Unnamed
    PROVE  SanitizedName(SanitizedName(s)) = SanitizedName(s)
<1>. DEFINE t == SanitizedName(s)
<1>1. /\ t \in Seq(Chars) /\ t # <<>> /\ Len(t) <= MaxName
      /\ \A i \in 1..Len(t) : t[i] # Control
      /\ t[1] # Blank /\ t[Len(t)] # Blank
    BY CleanedName
<1>. HIDE DEF t
<1>2. Solid(t) = t
    BY <1>1, NothingToDrop
<1>3. Taken(t) = t
    BY <1>1, TakenIsPart
<1>4. Trimmed(t) = t
    BY <1>1, NothingToTrim
<1>5. SanitizedName(t) = t
    BY <1>1, <1>2, <1>3, <1>4 DEF SanitizedName
<1>. QED  BY <1>5 DEF t

-----------------------------------------------------------------------------
(* The types.                                                              *)

(* A step of a call changes its place only.                                *)
LEMMA Stepped ==
    ASSUME TypeOK, NEW s \in Slots, NEW pc \in Phases, Goto(s, pc)
    PROVE  /\ call' \in [Slots -> Calls] /\ call'[s].pc = pc
           /\ \A r \in Slots : /\ call'[r].sent = call[r].sent
                               /\ call'[r].mine = call[r].mine
                               /\ call'[r].alone = call[r].alone
                               /\ r # s => call'[r].pc = call[r].pc
BY DEF TypeOK, Goto, Calls

(* A file that is written is no longer than it may be.                     *)
LEMMA WrittenFits ==
    ASSUME TypeOK, NEW s \in Slots, Write(s), SanitizedName(call[s].sent) # Unnamed
    PROVE  file' \in [name : Seq(Chars), size : {-1} \cup 0..MaxName \cup {Len(n) : n \in Names}]
<1>. DEFINE name == SanitizedName(call[s].sent)
<1>1. name \in Seq(Chars) /\ Len(name) \in 0..MaxName
    BY CleanedName, SettingsAssumption DEF TypeOK, Calls
<1>2. file.size \in {-1} \cup 0..MaxName \cup {Len(n) : n \in Names} /\ file.size \in Int
    BY NamesAssumption DEF TypeOK
<1>3. Max({file.size, Len(name)}) \in {file.size, Len(name)}
  <2>1. file.size \in Int /\ Len(name) \in Int
      BY <1>1, <1>2
  <2>. HIDE DEF name
  <2>. QED  BY <2>1, OfTwo
<1>4. file' = [name |-> name, size |-> Max({file.size, Len(name)})]
    BY DEF Write
<1>. QED  BY <1>1, <1>2, <1>3, <1>4

(* Only a name that was not refused is saved.                              *)
NoneRefused ==
    \A s \in Slots : call[s].pc \in {"open", "write"} => SanitizedName(call[s].sent) # Unnamed

(* The types are an invariant.                                             *)
THEOREM TypeInvariant == Spec => [](TypeOK /\ NoneRefused)
<1>1. Init => TypeOK /\ NoneRefused
  <2>. SUFFICES ASSUME Init  PROVE TypeOK /\ NoneRefused
      OBVIOUS
  <2>1. file \in [name : Seq(Chars), size : {-1} \cup 0..MaxName \cup {Len(n) : n \in Names}]
      BY NamesAssumption DEF Init, NoFile, Names
  <2>2. memory \in Seq(Chars)
      BY <2>1, NamesAssumption DEF Init, Loaded, Names
  <2>3. call \in [Slots -> Calls]
      BY DEF Init, Idle, Calls, Phases
  <2>4. NoneRefused
      BY DEF Init, NoneRefused, Idle
  <2>5. field \in Seq(Chars) /\ original \in Seq(Chars)
      BY DEF Init
  <2>6. blurs \in 0..MaxBlurs /\ trouble \in 0..MaxTrouble
      BY SettingsAssumption DEF Init
  <2>. QED  BY <2>1, <2>2, <2>3, <2>4, <2>5, <2>6 DEF Init, TypeOK
<1>2. (TypeOK /\ NoneRefused) /\ [Next]_vars => (TypeOK /\ NoneRefused)'
  <2>. SUFFICES ASSUME TypeOK, NoneRefused, [Next]_vars  PROVE TypeOK' /\ NoneRefused'
      OBVIOUS
  <2>0. Idle \in Calls
      BY DEF Idle, Calls, Phases
  <2>1. CASE OpenPanel \/ Fetch \/ Show
    <3>1. <<>> \in Seq(Chars)
        OBVIOUS
    <3>. QED  BY <2>1, <3>1 DEF OpenPanel, Fetch, Show, TypeOK, NoneRefused
  <2>2. ASSUME NEW n \in Inputs, Type(n)  PROVE TypeOK' /\ NoneRefused'
    <3>1. n \in Seq(Chars)
        BY NamesAssumption DEF Names
    <3>. QED  BY <2>2, <3>1 DEF Type, TypeOK, NoneRefused
  <2>3. CASE Blur
    <3>1. Trimmed(field) \in Seq(Chars)
        BY TrimmedIsPart DEF TypeOK
    <3>2. CASE field' = original /\ UNCHANGED <<call, blurs>>
        BY <2>3, <3>2 DEF Blur, TypeOK, NoneRefused
    <3>3. CASE blurs < MaxBlurs /\ blurs' = blurs + 1 /\ UNCHANGED field
      <4>1. PICK s \in Slots :
                call' = [r \in Slots |->
                            IF r = s THEN [pc |-> "sent", sent |-> Trimmed(field),
                                           mine |-> TRUE, alone |-> Busy = {}]
                            ELSE [call[r] EXCEPT !.alone = FALSE]]
          BY <2>3, <3>3, SettingsAssumption DEF Blur, TypeOK
      <4>2. call' \in [Slots -> Calls]
          BY <3>1, <4>1 DEF TypeOK, Calls, Phases
      <4>3. blurs' \in 0..MaxBlurs
          BY <3>3, SettingsAssumption DEF TypeOK
      <4>4. NoneRefused'
          BY <4>1 DEF NoneRefused, TypeOK, Calls
      <4>. QED  BY <2>3, <4>2, <4>3, <4>4 DEF Blur, TypeOK
    <3>. QED  BY <2>3, <3>2, <3>3 DEF Blur
  <2>4. CASE ClosePanel
    <3>1. call' \in [Slots -> Calls]
        BY <2>4 DEF ClosePanel, TypeOK, Calls
    <3>2. NoneRefused'
        BY <2>4 DEF ClosePanel, NoneRefused, TypeOK, Calls
    <3>3. field' \in Seq(Chars) /\ original' \in Seq(Chars)
        BY <2>4 DEF ClosePanel
    <3>. QED  BY <2>4, <3>1, <3>2, <3>3 DEF ClosePanel, TypeOK
  <2>5. CASE Crash
    <3>1. trouble' \in 0..MaxTrouble
        BY <2>5, SettingsAssumption DEF Crash, TypeOK
    <3>2. NoneRefused'
        BY <2>5 DEF Crash, NoneRefused, Idle
    <3>3. field' \in Seq(Chars) /\ original' \in Seq(Chars)
        BY <2>5 DEF Crash
    <3>4. call' \in [Slots -> Calls] /\ muddled' \in BOOLEAN
        BY <2>0, <2>5 DEF Crash, TypeOK
    <3>. QED  BY <2>5, <3>1, <3>2, <3>3, <3>4 DEF Crash, TypeOK
  <2>6. CASE Restart
    <3>1. memory' \in Seq(Chars)
        BY <2>6, NamesAssumption DEF Restart, Loaded, TypeOK, Names
    <3>. QED  BY <2>6, <3>1 DEF Restart, page, TypeOK, NoneRefused
  <2>7. ASSUME NEW s \in Slots, Refuse(s) \/ Open(s)  PROVE TypeOK' /\ NoneRefused'
    <3>1. CASE Refuse(s)
      <4>1. /\ call' \in [Slots -> Calls] /\ call'[s].pc = "failed"
            /\ \A r \in Slots : /\ call'[r].sent = call[r].sent
                                /\ r # s => call'[r].pc = call[r].pc
          BY <3>1, Stepped DEF Refuse, Phases
      <4>2. NoneRefused'
          BY <4>1 DEF NoneRefused
      <4>. QED  BY <3>1, <4>1, <4>2 DEF Refuse, page, TypeOK
    <3>2. CASE Open(s)
      <4>1. /\ call' \in [Slots -> Calls]
            /\ \A r \in Slots : /\ call'[r].sent = call[r].sent
                                /\ r # s => call'[r].pc = call[r].pc
          BY <3>2, Stepped DEF Open, Phases
      <4>2. NoneRefused'
          BY <3>2, <4>1 DEF NoneRefused, Open, At
      <4>3. 0 \in 0..MaxName
          BY SettingsAssumption
      <4>4. file' \in [name : Seq(Chars), size : {-1} \cup 0..MaxName \cup {Len(n) : n \in Names}]
          BY <3>2, <4>3 DEF Open, TypeOK
      <4>. QED  BY <3>2, <4>1, <4>2, <4>4 DEF Open, page, TypeOK
    <3>. QED  BY <2>7, <3>1, <3>2
  <2>8. ASSUME NEW s \in Slots, Store(s)  PROVE TypeOK' /\ NoneRefused'
    <3>1. memory' \in Seq(Chars)
        BY <2>8, SanitizedIsName DEF Store, TypeOK, Calls
    <3>2. call' \in [Slots -> Calls]
        BY <2>8 DEF Store, Goto, TypeOK, Calls, Phases
    <3>3. NoneRefused'
        BY <2>8 DEF Store, Goto, TypeOK, Calls, NoneRefused
    <3>4. stray' \in BOOLEAN
        BY <2>8 DEF Store
    <3>. QED  BY <2>8, <3>1, <3>2, <3>3, <3>4 DEF Store, TypeOK
  <2>9. ASSUME NEW s \in Slots, Write(s)  PROVE TypeOK' /\ NoneRefused'
    <3>1. SanitizedName(call[s].sent) # Unnamed
        BY <2>9 DEF Write, At, NoneRefused
    <3>2. file' \in [name : Seq(Chars), size : {-1} \cup 0..MaxName \cup {Len(n) : n \in Names}]
        BY <2>9, <3>1, WrittenFits
    <3>3. call' \in [Slots -> Calls]
        BY <2>9 DEF Write, Goto, TypeOK, Calls, Phases
    <3>4. NoneRefused'
        BY <2>9 DEF Write, Goto, TypeOK, Calls, NoneRefused
    <3>5. muddled' \in BOOLEAN
        BY <2>9 DEF Write
    <3>. QED  BY <2>9, <3>2, <3>3, <3>4, <3>5 DEF Write, page, TypeOK
  <2>10. ASSUME NEW s \in Slots, SaveFails(s)  PROVE TypeOK' /\ NoneRefused'
    <3>1. call' \in [Slots -> Calls]
        BY <2>10 DEF SaveFails, Goto, TypeOK, Calls, Phases
    <3>2. trouble' \in 0..MaxTrouble
        BY <2>10, SettingsAssumption DEF SaveFails, TypeOK
    <3>3. NoneRefused'
        BY <2>10 DEF SaveFails, Goto, TypeOK, Calls, NoneRefused
    <3>. QED  BY <2>10, <3>1, <3>2, <3>3 DEF SaveFails, page, TypeOK
  <2>11. ASSUME NEW s \in Slots, Answer(s)  PROVE TypeOK' /\ NoneRefused'
    <3>1. call[s].sent \in Seq(Chars) /\ original \in Seq(Chars)
        BY DEF TypeOK, Calls
    <3>2. original' \in Seq(Chars) /\ field' \in Seq(Chars)
        BY <2>11, <3>1 DEF Answer, TypeOK
    <3>3. NoneRefused'
        BY <2>11 DEF Answer, TypeOK, NoneRefused, Idle
    <3>. QED  BY <2>0, <2>11, <3>2, <3>3 DEF Answer, TypeOK
  <2>12. CASE UNCHANGED vars
      BY <2>12 DEF vars, TypeOK, NoneRefused
  <2>. QED  BY <2>1, <2>2, <2>3, <2>4, <2>5, <2>6, <2>7, <2>8, <2>9, <2>10, <2>11, <2>12 DEF Next
<1>. QED  BY <1>1, <1>2, PTL DEF Spec

(* For any characters, names, limit and number of calls: the types hold.   *)
THEOREM TypeCorrect == Spec => []TypeOK
BY TypeInvariant, PTL

-----------------------------------------------------------------------------
(* The name that is offered.                                               *)

(* Once the user has set a name, it is clean, whatever the names and       *)
(* however many calls are under way.                                       *)
THEOREM CleanAlways == Spec => []OfferedIsClean
<1>1. Init => OfferedIsClean
    BY DEF Init, OfferedIsClean
<1>2. TypeOK /\ OfferedIsClean /\ [Next]_vars => OfferedIsClean'
  <2>. SUFFICES ASSUME TypeOK, OfferedIsClean, [Next]_vars  PROVE OfferedIsClean'
      OBVIOUS
  <2>1. ASSUME NEW s \in Slots, Store(s)  PROVE OfferedIsClean'
    <3>1. call[s].sent \in Seq(Chars)
        BY DEF TypeOK, Calls
    <3>2. SanitizedName(memory') = memory' /\ memory' # Unnamed
        BY <2>1, <3>1, SanitizedOnce DEF Store
    <3>. QED  BY <3>2 DEF OfferedIsClean
  <2>2. CASE Restart
      BY <2>2 DEF Restart, OfferedIsClean
  <2>3. CASE UNCHANGED <<memory, set>>
      BY <2>3 DEF OfferedIsClean
  <2>4. \/ Restart \/ UNCHANGED <<memory, set>>
        \/ \E s \in Slots : Store(s)
      BY DEF Next, vars, OpenPanel, Fetch, Show, Blur, ClosePanel, Crash, Type, Refuse,
             Open, Write, SaveFails, Answer, page
  <2>. QED  BY <2>1, <2>2, <2>3, <2>4
<1>. QED  BY <1>1, <1>2, TypeCorrect, PTL DEF Spec

-----------------------------------------------------------------------------
(* The name in the file.                                                   *)

(* No call outlives its process, and none is the panel's that does not     *)
(* show it.                                                                *)
Stopped ==
    /\ ~up => panel = "closed" /\ Busy = {}
    /\ \A s \in Slots : /\ call[s].mine => panel = "open"
                        /\ call[s].pc = "idle" => ~call[s].alone /\ ~call[s].mine

(* A call that is alone has the file and the memory to itself.             *)
SavesAlone ==
    \A s \in Slots : call[s].alone =>
        /\ \A r \in Slots : r # s => call[r].pc = "idle"
        /\ call[s].pc = "write" => file.size = 0
        /\ call[s].pc \in {"open", "write", "saved"} => memory = SanitizedName(call[s].sent)

Writing == {s \in Slots : call[s].pc \in {"open", "write"}}

(* Between saves that did not disturb each other the file has the name.    *)
KeepsName == ~muddled /\ Writing = {} => Loaded(file) = memory

NameInv == Stopped /\ SavesAlone /\ KeepsName

(* What a step of one call leaves of the others.                           *)
LEMMA StepKeepsStopped ==
    ASSUME TypeOK, Stopped, NEW s \in Slots, NEW pc \in Phases \ {"idle"}, Goto(s, pc),
           call[s].pc # "idle", up, UNCHANGED <<up, panel>>
    PROVE  Stopped'
<1>1. /\ call'[s].pc = pc
      /\ \A r \in Slots : /\ call'[r].mine = call[r].mine /\ call'[r].alone = call[r].alone
                          /\ r # s => call'[r].pc = call[r].pc
    BY Stepped
<1>. QED  BY <1>1 DEF Stopped

LEMMA NameInvStep ==
    ASSUME TypeOK, NameInv, [Next]_vars
    PROVE  NameInv'
<1>. USE DEF NameInv
<1>1. CASE /\ UNCHANGED <<up, memory, file, call, muddled>>
           /\ panel' = panel \/ (up /\ panel # "open")
    BY <1>1 DEF Stopped, SavesAlone, KeepsName, Writing, Busy
<1>2. CASE OpenPanel \/ Fetch \/ Show \/ UNCHANGED vars \/ \E n \in Inputs : Type(n)
    BY <1>1, <1>2 DEF OpenPanel, Fetch, Show, Type, vars
<1>3. CASE Blur
  <2>1. CASE UNCHANGED call
      BY <1>1, <1>3, <2>1 DEF Blur
  <2>2. CASE \E s \in Slots \ Busy :
                call' = [r \in Slots |->
                            IF r = s THEN [pc |-> "sent", sent |-> Trimmed(field),
                                           mine |-> TRUE, alone |-> Busy = {}]
                            ELSE [call[r] EXCEPT !.alone = FALSE]]
    <3>1. PICK s \in Slots \ Busy :
                call' = [r \in Slots |->
                            IF r = s THEN [pc |-> "sent", sent |-> Trimmed(field),
                                           mine |-> TRUE, alone |-> Busy = {}]
                            ELSE [call[r] EXCEPT !.alone = FALSE]]
        BY <2>2
    <3>2. /\ call'[s].pc = "sent" /\ call'[s].mine /\ call'[s].alone = (Busy = {})
          /\ \A r \in Slots : r # s => /\ call'[r].pc = call[r].pc
                                       /\ call'[r].mine = call[r].mine /\ ~call'[r].alone
        BY <3>1 DEF TypeOK, Calls
    <3>3. up /\ panel = "open" /\ UNCHANGED <<up, memory, file, panel, muddled>>
        BY <1>3 DEF Blur
    <3>4. call[s].pc = "idle"
        BY DEF Busy
    <3>5. Stopped'
        BY <3>2, <3>3 DEF Stopped
    <3>6. SavesAlone'
      <4>1. Busy = {} => \A r \in Slots : call[r].pc = "idle"
          BY DEF Busy
      <4>. QED  BY <3>2, <3>3, <4>1 DEF SavesAlone
    <3>7. KeepsName'
      <4>1. Writing' = Writing
          BY <3>2, <3>4 DEF Writing
      <4>. QED  BY <3>3, <4>1 DEF KeepsName, Loaded, Whole
    <3>. QED  BY <3>5, <3>6, <3>7
  <2>. QED  BY <1>3, <2>1, <2>2 DEF Blur
<1>4. CASE ClosePanel
  <2>1. \A r \in Slots : /\ call'[r].pc = call[r].pc /\ call'[r].sent = call[r].sent
                         /\ ~call'[r].mine /\ call'[r].alone = call[r].alone
      BY <1>4 DEF ClosePanel, TypeOK, Calls
  <2>2. Writing' = Writing /\ Busy' = Busy
      BY <2>1 DEF Writing, Busy
  <2>3. up /\ UNCHANGED <<up, memory, file, muddled>>
      BY <1>4 DEF ClosePanel
  <2>4. Stopped'
      BY <2>1, <2>3 DEF Stopped
  <2>5. SavesAlone'
      BY <2>1, <2>3 DEF SavesAlone
  <2>6. KeepsName'
      BY <2>2, <2>3 DEF KeepsName, Loaded, Whole
  <2>. QED  BY <2>4, <2>5, <2>6
<1>5. CASE Crash
  <2>1. \A r \in Slots : call'[r].pc = "idle" /\ ~call'[r].alone /\ ~call'[r].mine
      BY <1>5 DEF Crash, Idle
  <2>2. Busy' = {} /\ panel' = "closed"
      BY <1>5, <2>1 DEF Crash, Busy
  <2>3. ~muddled' => ~muddled /\ Writing = {}
      BY <1>5 DEF Crash, Writing
  <2>4. Stopped' /\ SavesAlone'
      BY <2>1, <2>2 DEF Stopped, SavesAlone
  <2>5. KeepsName'
      BY <1>5, <2>3 DEF Crash, KeepsName, Loaded, Whole
  <2>. QED  BY <2>4, <2>5
<1>6. CASE Restart
  <2>1. \A r \in Slots : call[r].pc = "idle" /\ ~call[r].alone
      BY <1>6 DEF Restart, Stopped, Busy
  <2>2. up' /\ UNCHANGED <<call, panel, file>> /\ memory' = Loaded(file)
      BY <1>6 DEF Restart, page
  <2>3. Stopped'
      BY <2>1, <2>2 DEF Stopped, Busy
  <2>4. SavesAlone' /\ KeepsName'
      BY <2>1, <2>2 DEF SavesAlone, KeepsName, Loaded, Whole
  <2>. QED  BY <2>3, <2>4
<1>7. ASSUME NEW s \in Slots, Refuse(s) \/ SaveFails(s)  PROVE NameInv'
  <2>1. /\ up /\ UNCHANGED <<up, memory, file, panel>> /\ Goto(s, "failed")
        /\ call[s].pc # "idle"
      BY <1>7 DEF Refuse, SaveFails, At, page
  <2>2. /\ call'[s].pc = "failed"
        /\ \A r \in Slots : /\ call'[r].sent = call[r].sent /\ call'[r].alone = call[r].alone
                            /\ r # s => call'[r].pc = call[r].pc
      BY <2>1, Stepped DEF Phases
  <2>3. Stopped'
      BY <2>1, StepKeepsStopped DEF Phases
  <2>4. SavesAlone'
      BY <2>1, <2>2 DEF SavesAlone
  <2>5. ~muddled' => ~muddled /\ Writing' = Writing
      BY <1>7, <2>2 DEF Refuse, SaveFails, Writing, At
  <2>6. KeepsName'
      BY <2>1, <2>5 DEF KeepsName, Loaded, Whole
  <2>. QED  BY <2>3, <2>4, <2>6
<1>8. ASSUME NEW s \in Slots, Store(s)  PROVE NameInv'
  <2>1. /\ up /\ UNCHANGED <<up, file, panel, muddled>> /\ Goto(s, "open")
        /\ call[s].pc = "sent" /\ memory' = SanitizedName(call[s].sent)
      BY <1>8 DEF Store, At
  <2>2. /\ call'[s].pc = "open"
        /\ \A r \in Slots : /\ call'[r].sent = call[r].sent /\ call'[r].alone = call[r].alone
                            /\ r # s => call'[r].pc = call[r].pc
      BY <2>1, Stepped DEF Phases
  <2>3. Stopped'
      BY <2>1, StepKeepsStopped DEF Phases
  <2>4. SavesAlone'
      BY <2>1, <2>2 DEF SavesAlone
  <2>5. KeepsName'
      BY <2>2 DEF KeepsName, Writing
  <2>. QED  BY <2>3, <2>4, <2>5
<1>9. ASSUME NEW s \in Slots, Open(s)  PROVE NameInv'
  <2>1. /\ up /\ UNCHANGED <<up, memory, panel, muddled>> /\ Goto(s, "write")
        /\ call[s].pc = "open" /\ file' = [file EXCEPT !.size = 0]
      BY <1>9 DEF Open, At, page
  <2>2. /\ call'[s].pc = "write"
        /\ \A r \in Slots : /\ call'[r].sent = call[r].sent /\ call'[r].alone = call[r].alone
                            /\ r # s => call'[r].pc = call[r].pc
      BY <2>1, Stepped DEF Phases
  <2>3. Stopped'
      BY <2>1, StepKeepsStopped DEF Phases
  <2>4. file'.size = 0
      BY <2>1 DEF TypeOK
  <2>5. SavesAlone'
      BY <2>1, <2>2, <2>4 DEF SavesAlone
  <2>6. KeepsName'
      BY <2>2 DEF KeepsName, Writing
  <2>. QED  BY <2>3, <2>5, <2>6
<1>10. ASSUME NEW s \in Slots, Write(s)  PROVE NameInv'
  <2>. DEFINE name == SanitizedName(call[s].sent)
  <2>1. /\ up /\ UNCHANGED <<up, memory, panel>> /\ Goto(s, "saved")
        /\ call[s].pc = "write" /\ muddled' = ~call[s].alone
        /\ file' = [name |-> name, size |-> Max({file.size, Len(name)})]
      BY <1>10 DEF Write, At, page
  <2>2. /\ call'[s].pc = "saved"
        /\ \A r \in Slots : /\ call'[r].sent = call[r].sent /\ call'[r].alone = call[r].alone
                            /\ r # s => call'[r].pc = call[r].pc
      BY <2>1, Stepped DEF Phases
  <2>3. Stopped'
      BY <2>1, StepKeepsStopped DEF Phases
  <2>4. SavesAlone'
      BY <2>1, <2>2 DEF SavesAlone
  <2>5. KeepsName'
    <3>1. SUFFICES ASSUME call[s].alone  PROVE Loaded(file') = memory'
        BY <2>1 DEF KeepsName, Loaded, Whole
    <3>2. file.size = 0 /\ memory = name
        BY <2>1, <3>1 DEF SavesAlone
    <3>3. Len(name) \in Nat
      <4>1. name \in Seq(Chars)
          BY SanitizedIsName DEF TypeOK, Calls
      <4>. HIDE DEF name
      <4>. QED  BY <4>1
    <3>4. Max({0, Len(name)}) = Len(name)
      <4>. HIDE DEF name
      <4>. QED  BY <3>3, OfTwo
    <3>5. Whole(file') /\ file'.name = name
        BY <2>1, <3>2, <3>4 DEF Whole
    <3>. QED  BY <2>1, <3>2, <3>5 DEF Loaded
  <2>. QED  BY <2>3, <2>4, <2>5
<1>11. ASSUME NEW s \in Slots, Answer(s)  PROVE NameInv'
  <2>1. /\ up /\ UNCHANGED <<up, memory, file, panel, muddled>>
        /\ call[s].pc \in {"saved", "failed"} /\ call' = [call EXCEPT ![s] = Idle]
      BY <1>11 DEF Answer, At
  <2>2. /\ call'[s].pc = "idle" /\ ~call'[s].alone /\ ~call'[s].mine
        /\ \A r \in Slots : r # s => call'[r] = call[r]
      BY <2>1 DEF TypeOK, Idle
  <2>3. Stopped'
      BY <2>1, <2>2 DEF Stopped
  <2>4. SavesAlone'
      BY <2>1, <2>2 DEF SavesAlone
  <2>5. Writing' = Writing
      BY <2>1, <2>2 DEF Writing
  <2>6. KeepsName'
      BY <2>1, <2>5 DEF KeepsName, Loaded, Whole
  <2>. QED  BY <2>3, <2>4, <2>6
<1>. QED  BY <1>2, <1>3, <1>4, <1>5, <1>6, <1>7, <1>8, <1>9, <1>10, <1>11 DEF Next

THEOREM NameInvariant == Spec => []NameInv
<1>1. Init => NameInv
    BY DEF Init, Idle, NameInv, Stopped, SavesAlone, KeepsName, Busy
<1>. QED  BY <1>1, NameInvStep, TypeCorrect, PTL DEF Spec

(* For any names, limit, calls, crashes and failures: an undisturbed save  *)
(* survives a restart.                                                     *)
THEOREM RestartAlwaysKeeps == Spec => []RestartKeepsName
<1>1. NameInv => RestartKeepsName
    BY DEF NameInv, KeepsName, Writing, RestartKeepsName
<1>. QED  BY <1>1, NameInvariant, PTL

-----------------------------------------------------------------------------
(* The name in the panel.                                                  *)

Known   == original = memory \/ SanitizedName(original) = memory
Written == {s \in Slots : call[s].pc = "saved"}

(* The last save that was not disturbed is the one whose answer is on its  *)
(* way; while the panel waits for it, no earlier panel's call saves.       *)
AnswersTell ==
    ~muddled => /\ \A s, r \in Written : s = r
                /\ Writing = {} => \A s \in Written : memory = SanitizedName(call[s].sent)
                /\ ~stray => \A s \in Written : call[s].mine => \A r \in Writing : call[r].mine

(* The panel knows the name, or a call of its own has yet to tell it; an   *)
(* earlier panel's call that saves by itself has stored the name before    *)
(* this one read it.                                                       *)
Waiting == \E s \in Writing \cup Written : call[s].mine
PanelKnows ==
    panel \in {"fetched", "open"} /\ ~stray =>
        /\ \A s \in Writing : call[s].alone /\ ~call[s].mine => Known
        /\ ~muddled /\ ~Waiting => Known

PanelInv == AnswersTell /\ PanelKnows

(* A step that leaves what the invariant speaks of.                        *)
LEMMA PanelInvKept ==
    ASSUME PanelInv, UNCHANGED <<memory, call, original, muddled, stray>>,
           panel' \in {"fetched", "open"} => panel \in {"fetched", "open"}
    PROVE  PanelInv'
BY DEF PanelInv, AnswersTell, PanelKnows, Known, Written, Writing, Waiting

LEMMA PanelInvStep ==
    ASSUME TypeOK, NameInv, PanelInv, [Next]_vars
    PROVE  PanelInv'
<1>. USE DEF PanelInv
<1>1. CASE Show \/ UNCHANGED vars \/ \E n \in Inputs : Type(n)
    BY <1>1, PanelInvKept DEF Show, Type, vars
<1>2. CASE OpenPanel
  <2>1. \A s \in Slots : ~call[s].mine
      BY <1>2 DEF OpenPanel, NameInv, Stopped
  <2>2. AnswersTell'
      BY <1>2, <2>1 DEF OpenPanel, AnswersTell, Written, Writing
  <2>. QED  BY <1>2, <2>2 DEF OpenPanel, PanelKnows
<1>3. CASE Fetch
  <2>1. UNCHANGED <<memory, call, muddled, stray>> /\ original' = memory
      BY <1>3 DEF Fetch
  <2>2. AnswersTell'
      BY <2>1 DEF AnswersTell, Written, Writing
  <2>. QED  BY <2>1, <2>2 DEF PanelKnows, Known
<1>4. CASE Blur
  <2>1. CASE UNCHANGED call
      BY <1>4, <2>1, PanelInvKept DEF Blur
  <2>2. CASE \E s \in Slots \ Busy :
                call' = [r \in Slots |->
                            IF r = s THEN [pc |-> "sent", sent |-> Trimmed(field),
                                           mine |-> TRUE, alone |-> Busy = {}]
                            ELSE [call[r] EXCEPT !.alone = FALSE]]
    <3>1. PICK s \in Slots \ Busy :
                call' = [r \in Slots |->
                            IF r = s THEN [pc |-> "sent", sent |-> Trimmed(field),
                                           mine |-> TRUE, alone |-> Busy = {}]
                            ELSE [call[r] EXCEPT !.alone = FALSE]]
        BY <2>2
    <3>2. /\ call'[s].pc = "sent" /\ call[s].pc = "idle"
          /\ \A r \in Slots : r # s => /\ call'[r].pc = call[r].pc /\ call'[r].sent = call[r].sent
                                       /\ call'[r].mine = call[r].mine /\ ~call'[r].alone
        BY <3>1 DEF TypeOK, Calls, Busy
    <3>3. UNCHANGED <<memory, panel, original, muddled, stray>>
        BY <1>4 DEF Blur
    <3>4. Writing' = Writing /\ Written' = Written /\ s \notin Writing \cup Written
        BY <3>2 DEF Writing, Written
    <3>5. \A r \in Writing \cup Written : r # s /\ r \in Slots
        BY <3>4 DEF Writing, Written
    <3>6. AnswersTell'
        BY <3>2, <3>3, <3>4, <3>5 DEF AnswersTell
    <3>7. Waiting' = Waiting
        BY <3>2, <3>4, <3>5 DEF Waiting
    <3>8. \A r \in Writing' : ~call'[r].alone
        BY <3>2, <3>4, <3>5
    <3>9. PanelKnows'
        BY <3>3, <3>7, <3>8 DEF PanelKnows, Known
    <3>. QED  BY <3>6, <3>9
  <2>. QED  BY <1>4, <2>1, <2>2 DEF Blur
<1>5. CASE ClosePanel
  <2>1. \A r \in Slots : /\ call'[r].pc = call[r].pc /\ call'[r].sent = call[r].sent
                         /\ ~call'[r].mine
      BY <1>5 DEF ClosePanel, TypeOK, Calls
  <2>2. /\ Writing' = Writing /\ Written' = Written
        /\ Writing \subseteq Slots /\ Written \subseteq Slots
      BY <2>1 DEF Writing, Written
  <2>3. UNCHANGED <<memory, muddled>> /\ panel' = "closed"
      BY <1>5 DEF ClosePanel
  <2>4. AnswersTell'
      BY <2>1, <2>2, <2>3 DEF AnswersTell
  <2>. QED  BY <2>3, <2>4 DEF PanelKnows
<1>6. CASE Crash
  <2>1. Written' = {} /\ Writing' = {} /\ panel' = "closed"
      BY <1>6 DEF Crash, Written, Writing, Idle
  <2>. QED  BY <2>1 DEF AnswersTell, PanelKnows
<1>7. CASE Restart
  <2>1. \A r \in Slots : call[r].pc = "idle"
      BY <1>7 DEF Restart, NameInv, Stopped, Busy
  <2>2. UNCHANGED <<call, panel>> /\ panel = "closed"
      BY <1>7 DEF Restart, page, NameInv, Stopped
  <2>3. Written' = {}
      BY <2>1, <2>2 DEF Written
  <2>. QED  BY <2>2, <2>3 DEF AnswersTell, PanelKnows
<1>8. ASSUME NEW s \in Slots, Refuse(s)  PROVE PanelInv'
  <2>1. UNCHANGED <<memory, panel, original, muddled, stray>> /\ Goto(s, "failed")
        /\ call[s].pc = "sent"
      BY <1>8 DEF Refuse, At, page
  <2>2. /\ call'[s].pc = "failed"
        /\ \A r \in Slots : /\ call'[r].sent = call[r].sent /\ call'[r].mine = call[r].mine
                            /\ call'[r].alone = call[r].alone
                            /\ r # s => call'[r].pc = call[r].pc
      BY <2>1, Stepped DEF Phases
  <2>3. Writing' = Writing /\ Written' = Written /\ Writing \cup Written \subseteq Slots
      BY <2>1, <2>2 DEF Writing, Written
  <2>4. AnswersTell'
      BY <2>1, <2>2, <2>3 DEF AnswersTell
  <2>5. Waiting' = Waiting
      BY <2>2, <2>3 DEF Waiting
  <2>6. PanelKnows'
      BY <2>1, <2>2, <2>3, <2>5 DEF PanelKnows, Known
  <2>. QED  BY <2>4, <2>6
<1>9. ASSUME NEW s \in Slots, SaveFails(s)  PROVE PanelInv'
  <2>1. /\ UNCHANGED <<memory, panel, original, stray>> /\ Goto(s, "failed") /\ muddled'
      BY <1>9 DEF SaveFails, page
  <2>2. /\ call'[s].pc = "failed"
        /\ \A r \in Slots : /\ call'[r].mine = call[r].mine /\ call'[r].alone = call[r].alone
                            /\ r # s => call'[r].pc = call[r].pc
      BY <2>1, Stepped DEF Phases
  <2>3. Writing' \subseteq Writing /\ Writing \subseteq Slots
      BY <2>2 DEF Writing
  <2>4. AnswersTell'
      BY <2>1 DEF AnswersTell
  <2>5. PanelKnows'
      BY <2>1, <2>2, <2>3 DEF PanelKnows, Known
  <2>. QED  BY <2>4, <2>5
<1>10. ASSUME NEW s \in Slots, Store(s)  PROVE PanelInv'
  <2>1. /\ UNCHANGED <<panel, original, muddled>> /\ Goto(s, "open") /\ call[s].pc = "sent"
        /\ stray' = (stray \/ (panel \in {"fetched", "open"} /\ ~call[s].mine))
      BY <1>10 DEF Store, At
  <2>2. /\ call'[s].pc = "open"
        /\ \A r \in Slots : /\ call'[r].sent = call[r].sent /\ call'[r].mine = call[r].mine
                            /\ call'[r].alone = call[r].alone
                            /\ r # s => call'[r].pc = call[r].pc
      BY <2>1, Stepped DEF Phases
  <2>3. /\ Writing' = Writing \cup {s} /\ Written' = Written /\ s \notin Written
        /\ Writing \cup Written \subseteq Slots
      BY <2>1, <2>2 DEF Writing, Written
  <2>4. \A r \in Slots : call[r].mine => panel = "open"
      BY DEF NameInv, Stopped
  <2>5. AnswersTell'
      BY <2>1, <2>2, <2>3, <2>4 DEF AnswersTell
  <2>6. ASSUME panel \in {"fetched", "open"}, ~stray'  PROVE PanelKnows'
    <3>1. call[s].mine /\ ~stray
        BY <2>1, <2>6
    <3>2. Waiting'
        BY <2>2, <2>3, <3>1 DEF Waiting
    <3>3. call[s].alone => \A r \in Writing' : r = s
        BY <2>2, <2>3 DEF NameInv, SavesAlone, Writing
    <3>4. ASSUME NEW r \in Writing', call'[r].alone  PROVE call'[r].mine
      <4>1. CASE r = s
          BY <2>2, <3>1, <4>1
      <4>2. CASE r # s
        <5>1. r \in Slots /\ call[r].alone
            BY <2>2, <2>3, <3>4
        <5>. QED  BY <2>1, <4>2, <5>1 DEF NameInv, SavesAlone
      <4>. QED  BY <4>1, <4>2
    <3>. QED  BY <3>2, <3>4 DEF PanelKnows
  <2>7. PanelKnows'
      BY <2>1, <2>6 DEF PanelKnows
  <2>. QED  BY <2>5, <2>7
<1>11. ASSUME NEW s \in Slots, Open(s)  PROVE PanelInv'
  <2>1. UNCHANGED <<memory, panel, original, muddled, stray>> /\ Goto(s, "write")
        /\ call[s].pc = "open"
      BY <1>11 DEF Open, At, page
  <2>2. /\ call'[s].pc = "write"
        /\ \A r \in Slots : /\ call'[r].sent = call[r].sent /\ call'[r].mine = call[r].mine
                            /\ call'[r].alone = call[r].alone
                            /\ r # s => call'[r].pc = call[r].pc
      BY <2>1, Stepped DEF Phases
  <2>3. Writing' = Writing /\ Written' = Written /\ Writing \cup Written \subseteq Slots
      BY <2>1, <2>2 DEF Writing, Written
  <2>4. AnswersTell'
      BY <2>1, <2>2, <2>3 DEF AnswersTell
  <2>5. Waiting' = Waiting
      BY <2>2, <2>3 DEF Waiting
  <2>6. PanelKnows'
      BY <2>1, <2>2, <2>3, <2>5 DEF PanelKnows, Known
  <2>. QED  BY <2>4, <2>6
<1>12. ASSUME NEW s \in Slots, Write(s)  PROVE PanelInv'
  <2>1. UNCHANGED <<memory, panel, original, stray>> /\ Goto(s, "saved")
        /\ call[s].pc = "write" /\ muddled' = ~call[s].alone
      BY <1>12 DEF Write, At, page
  <2>2. /\ call'[s].pc = "saved"
        /\ \A r \in Slots : /\ call'[r].sent = call[r].sent /\ call'[r].mine = call[r].mine
                            /\ call'[r].alone = call[r].alone
                            /\ r # s => call'[r].pc = call[r].pc
      BY <2>1, Stepped DEF Phases
  <2>3. /\ Writing' = Writing \ {s} /\ Written' = Written \cup {s} /\ s \in Writing
        /\ Writing \cup Written \subseteq Slots
      BY <2>1, <2>2 DEF Writing, Written
  <2>4. ASSUME call[s].alone
        PROVE  Writing' = {} /\ Written' = {s} /\ memory' = SanitizedName(call'[s].sent)
    <3>1. \A r \in Slots : r # s => call[r].pc = "idle"
        BY <2>4 DEF NameInv, SavesAlone
    <3>2. memory = SanitizedName(call[s].sent)
        BY <2>1, <2>4 DEF NameInv, SavesAlone
    <3>. QED  BY <2>1, <2>2, <3>1, <3>2 DEF Writing, Written
  <2>5. AnswersTell'
      BY <2>1, <2>4 DEF AnswersTell
  <2>6. Known' = Known
      BY <2>1 DEF Known
  <2>7. ASSUME panel \in {"fetched", "open"}, ~stray  PROVE PanelKnows'
    <3>1. \A r \in Writing' : call'[r].alone /\ ~call'[r].mine => Known'
        BY <2>2, <2>3, <2>6, <2>7 DEF PanelKnows
    <3>2. ASSUME call[s].alone, ~Waiting'  PROVE Known'
      <4>1. ~call[s].mine
          BY <2>2, <2>3, <3>2 DEF Waiting
      <4>. QED  BY <2>3, <2>6, <2>7, <3>2, <4>1 DEF PanelKnows
    <3>. QED  BY <2>1, <3>1, <3>2 DEF PanelKnows
  <2>8. PanelKnows'
      BY <2>1, <2>7 DEF PanelKnows
  <2>. QED  BY <2>5, <2>8
<1>13. ASSUME NEW s \in Slots, Answer(s)  PROVE PanelInv'
  <2>1. /\ UNCHANGED <<memory, panel, muddled, stray>> /\ call' = [call EXCEPT ![s] = Idle]
        /\ call[s].pc \in {"saved", "failed"}
        /\ original' = IF call[s].mine /\ call[s].pc = "saved" THEN call[s].sent ELSE original
      BY <1>13 DEF Answer, At
  <2>2. call'[s].pc = "idle" /\ \A r \in Slots : r # s => call'[r] = call[r]
      BY <2>1 DEF TypeOK, Idle
  <2>3. /\ Writing' = Writing /\ Written' = Written \ {s} /\ s \notin Writing
        /\ Writing \cup Written \subseteq Slots
      BY <2>1, <2>2 DEF Writing, Written
  <2>4. AnswersTell'
      BY <2>1, <2>2, <2>3 DEF AnswersTell
  <2>5. CASE call[s].mine /\ call[s].pc = "saved"
    <3>1. \A r \in Writing' : ~call'[r].alone
        BY <2>1, <2>2, <2>3 DEF NameInv, SavesAlone
    <3>2. ASSUME ~muddled, ~stray, ~Waiting'  PROVE Known'
      <4>1. s \in Written
          BY <2>5 DEF Written
      <4>2. \A r \in Writing : ~call[r].mine
          BY <2>2, <2>3, <3>2 DEF Waiting
      <4>3. Writing = {}
          BY <2>5, <3>2, <4>1, <4>2 DEF AnswersTell
      <4>4. memory = SanitizedName(call[s].sent)
          BY <3>2, <4>1, <4>3 DEF AnswersTell
      <4>. QED  BY <2>1, <2>5, <4>4 DEF Known
    <3>3. PanelKnows'
        BY <2>1, <3>1, <3>2 DEF PanelKnows
    <3>. QED  BY <2>4, <3>3
  <2>6. CASE ~(call[s].mine /\ call[s].pc = "saved")
    <3>1. Waiting' = Waiting
        BY <2>2, <2>3, <2>6 DEF Waiting, Written
    <3>2. Known' = Known
        BY <2>1, <2>6 DEF Known
    <3>3. PanelKnows'
        BY <2>1, <2>2, <2>3, <3>1, <3>2 DEF PanelKnows
    <3>. QED  BY <2>4, <3>3
  <2>. QED  BY <2>5, <2>6
<1>. QED  BY <1>1, <1>2, <1>3, <1>4, <1>5, <1>6, <1>7, <1>8, <1>9, <1>10, <1>11, <1>12, <1>13 DEF Next

(* For any names, limit, calls, crashes and failures: the panel knows the  *)
(* name in use.                                                            *)
THEOREM PanelAlwaysKnows == Spec => []PanelKnowsName
<1>1. Init => PanelInv
    BY DEF Init, Idle, PanelInv, AnswersTell, PanelKnows, Written
<1>2. Spec => []PanelInv
    BY <1>1, PanelInvStep, TypeCorrect, NameInvariant, PTL DEF Spec
<1>3. PanelInv => PanelKnowsName
    BY DEF PanelInv, PanelKnows, PanelKnowsName, Waiting, Writing, Written, Busy, Known
<1>. QED  BY <1>2, <1>3, PTL
=============================================================================
