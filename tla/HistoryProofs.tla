----------------------------- MODULE HistoryProofs -----------------------------
(* The theorems about History.                                             *)
EXTENDS History, FiniteSetTheorems, TLAPS

-----------------------------------------------------------------------------
(* Entries of the list were made and pushed; those under way are not in it *)
(* and are as new as any.                                                  *)
Numbered ==
    /\ \A e \in items : e.rank <= pushed /\ e.id <= made
    /\ \A e \in making : e.id <= made /\ \A f \in items : e.id # f.id
    /\ \A e, f \in making : e.id = f.id => e = f

TypeInv == TypeOK /\ Numbered

(* Distinct ranks give distinct positions.                                 *)
LEMMA PositionsDiffer ==
    ASSUME NEW S, IsFiniteSet(S), S \subseteq Entry,
           NEW e \in S, NEW f \in S, f.rank > e.rank
    PROVE  Cardinality(Newer(f, S)) < Cardinality(Newer(e, S))
<1>1. IsFiniteSet(Newer(e, S)) /\ Newer(f, S) \subseteq Newer(e, S)
    BY FS_Subset DEF Newer, Entry
<1>2. f \in Newer(e, S) /\ f \notin Newer(f, S)
    BY DEF Newer, Entry
<1>3. /\ Cardinality(Newer(f, S)) <= Cardinality(Newer(e, S))
      /\ Cardinality(Newer(e, S)) = Cardinality(Newer(f, S)) => Newer(e, S) = Newer(f, S)
    BY <1>1, FS_Subset
<1>4. Cardinality(Newer(f, S)) \in Nat /\ Cardinality(Newer(e, S)) \in Nat
    BY <1>1, FS_Subset, FS_CardinalityType
<1>. QED  BY <1>2, <1>3, <1>4

(* A list with distinct ranks is cut to MAX_HISTORY entries.               *)
LEMMA TruncatedBounded ==
    ASSUME NEW S, IsFiniteSet(S), S \subseteq Entry,
           \A e, f \in S : e # f => e.rank # f.rank
    PROVE  Cardinality(Truncated(S)) <= MaxHistory
<1>. DEFINE T == Truncated(S)
            position == [e \in T |-> Cardinality(Newer(e, S))]
            Places == 0 .. (MaxHistory - 1)
<1>1. T \subseteq S /\ IsFiniteSet(T) /\ Cardinality(T) \in Nat
    BY FS_Subset, FS_CardinalityType DEF Truncated
<1>2. IsFiniteSet(Places) /\ Cardinality(Places) = MaxHistory
  <2>1. 0 \in Int /\ MaxHistory - 1 \in Int
      BY HistoryAssumption
  <2>2. IsFiniteSet(Places) /\ Cardinality(Places) =
            IF 0 > MaxHistory - 1 THEN 0 ELSE MaxHistory - 1 - 0 + 1
      BY <2>1, FS_Interval
  <2>. QED  BY <2>2, HistoryAssumption
<1>3. position \in [T -> Places]
  <2>. SUFFICES ASSUME NEW e \in T  PROVE Cardinality(Newer(e, S)) \in Places
      OBVIOUS
  <2>1. IsFiniteSet(Newer(e, S))
      BY FS_Subset DEF Newer
  <2>2. Cardinality(Newer(e, S)) \in Nat
      BY <2>1, FS_CardinalityType
  <2>3. Cardinality(Newer(e, S)) < MaxHistory
      BY DEF Truncated
  <2>. QED  BY <2>2, <2>3, HistoryAssumption
<1>4. SUFFICES ASSUME MaxHistory < Cardinality(T)  PROVE FALSE
    BY <1>1, HistoryAssumption
<1>5. PICK e, f \in T : e # f /\ position[e] = position[f]
  <2>. HIDE DEF T, Places, position
  <2>. QED  BY <1>1, <1>2, <1>3, <1>4, FS_PigeonHole
<1>6. e \in S /\ f \in S /\ e.rank # f.rank /\ e.rank \in Nat /\ f.rank \in Nat
    BY <1>1, <1>5 DEF Entry
<1>7. CASE e.rank > f.rank
  <2>1. Cardinality(Newer(e, S)) < Cardinality(Newer(f, S))
      BY <1>6, <1>7, PositionsDiffer
  <2>2. Cardinality(Newer(e, S)) = Cardinality(Newer(f, S))
      BY <1>5
  <2>3. Cardinality(Newer(e, S)) \in Nat
      BY <1>3, <1>5
  <2>. QED  BY <2>1, <2>2, <2>3
<1>8. CASE f.rank > e.rank
  <2>1. Cardinality(Newer(f, S)) < Cardinality(Newer(e, S))
      BY <1>6, <1>8, PositionsDiffer
  <2>2. Cardinality(Newer(e, S)) = Cardinality(Newer(f, S))
      BY <1>5
  <2>3. Cardinality(Newer(e, S)) \in Nat
      BY <1>3, <1>5
  <2>. QED  BY <2>1, <2>2, <2>3
<1>. QED  BY <1>6, <1>7, <1>8

-----------------------------------------------------------------------------
(* What a push leaves: entries of the list and the new one.                *)
LEMMA PushedIsSubset ==
    ASSUME NEW S, NEW e
    PROVE  /\ PushedOn(e, S) \subseteq S \cup {e}
           /\ e \in PushedOn(e, S) /\ e \notin S =>
                 \A f \in PushedOn(e, S) : f # e => f.text # e.text
BY DEF PushedOn, Truncated

(* The types and the numbers are an invariant.                             *)
THEOREM TypeInvariant == Spec => []TypeInv
<1>1. Init => TypeInv
  <2>. SUFFICES ASSUME Init  PROVE TypeInv
      OBVIOUS
  <2>1. IsFiniteSet(items)
      BY FS_EmptySet DEF Init
  <2>2. fetch \in [Slots -> {Idle, Asked} \cup Answers]
      BY DEF Init
  <2>3. feed \in Seq(Texts)
      BY FeedAssumption DEF Init
  <2>. QED  BY <2>1, <2>2, <2>3 DEF Init, TypeInv, TypeOK, Numbered
<1>2. TypeInv /\ [Next]_vars => TypeInv'
  <2>. SUFFICES ASSUME TypeInv, [Next]_vars  PROVE TypeInv'
      OBVIOUS
  <2>. USE DEF TypeInv
  <2>1. CASE Make
    <3>1. feed # <<>> /\ Head(feed) \in Texts /\ Tail(feed) \in Seq(Texts)
        BY <2>1 DEF Make, TypeOK
    <3>. DEFINE n == [id |-> made + 1, rank |-> 0, text |-> Head(feed)]
    <3>2. n \in Entry /\ n.id = made + 1 /\ making' = making \cup {n}
        BY <2>1, <3>1 DEF Make, TypeOK, Entry
    <3>. HIDE DEF n
    <3>3. TypeOK'
        BY <2>1, <3>1, <3>2 DEF Make, TypeOK, page
    <3>4. Numbered'
        BY <2>1, <3>2 DEF Make, TypeOK, Numbered, Entry
    <3>. QED  BY <3>3, <3>4
  <2>2. ASSUME NEW e \in making, Push(e)  PROVE TypeInv'
    <3>. DEFINE n == [e EXCEPT !.rank = pushed + 1]
    <3>1. e \in Entry /\ e.id <= made
        BY DEF TypeOK, Numbered
    <3>2. n \in Entry /\ n.id = e.id /\ n.rank = pushed + 1 /\ n.text = e.text
        BY <3>1 DEF TypeOK, Entry
    <3>3. items' = PushedOn(n, items)
        BY <2>2 DEF Push
    <3>4. n \notin items
        BY <3>2 DEF TypeOK, Numbered, Entry
    <3>. HIDE DEF n
    <3>5. items' \subseteq items \cup {n}
        BY <3>3, PushedIsSubset
    <3>6. \A f \in items' : f # n /\ n \in items' => f.text # n.text
        BY <3>3, <3>4, PushedIsSubset
    <3>7. IsFiniteSet(items')
      <4>1. IsFiniteSet(items \cup {n})
          BY FS_AddElement DEF TypeOK
      <4>. QED  BY <4>1, <3>5, FS_Subset
    <3>8. /\ items' \subseteq Entry
          /\ DOMAIN since' \subseteq Texts /\ \A t \in DOMAIN since' : since'[t] \subseteq Texts
        BY <2>2, <3>1, <3>2, <3>5 DEF Push, Recall, TypeOK, Entry
    <3>9. \A f, g \in items' : f # g => f.id # g.id /\ f.rank # g.rank /\ f.text # g.text
      <4>1. \A f \in items : f.id # n.id /\ f.rank # n.rank
          BY <3>2 DEF TypeOK, Numbered, Entry
      <4>. QED  BY <4>1, <3>5, <3>6 DEF TypeOK
    <3>10. TypeOK'
      <4>1. /\ UNCHANGED <<mount, fetch, view, deletes, shown, spoiled, raced, feed, made, acts>>
            /\ making' \subseteq making
            /\ pushed' \in Nat /\ edition' \in Nat /\ owed' \in Nat
          BY <2>2 DEF Push, TypeOK, page
      <4>. QED  BY <4>1, <3>7, <3>8, <3>9 DEF TypeOK
    <3>11. Numbered'
      <4>1. \A f \in items' : f.rank <= pushed' /\ f.id <= made'
          BY <2>2, <3>1, <3>2, <3>5 DEF Push, TypeOK, Numbered, Entry
      <4>2. \A g \in making', f \in items' : g.id <= made' /\ g.id # f.id
          BY <2>2, <3>2, <3>5 DEF Push, TypeOK, Numbered, Entry
      <4>. QED  BY <2>2, <4>1, <4>2 DEF Push, Numbered
    <3>. QED  BY <3>10, <3>11
  <2>3. ASSUME NEW gone, Remove(gone), UNCHANGED <<making, made, pushed>>
        PROVE  /\ IsFiniteSet(items') /\ items' \subseteq items
               /\ edition' \in Nat /\ owed' \in Nat
               /\ DOMAIN since' \subseteq Texts /\ \A t \in DOMAIN since' : since'[t] \subseteq Texts
               /\ Numbered'
    <3>1. items' \subseteq items
        BY <2>3 DEF Remove
    <3>2. IsFiniteSet(items')
        BY <3>1, FS_Subset DEF TypeOK
    <3>3. edition' \in Nat /\ owed' \in Nat
        BY <2>3 DEF Remove, TypeOK
    <3>4. DOMAIN since' \subseteq Texts /\ \A t \in DOMAIN since' : since'[t] \subseteq Texts
        BY <2>3 DEF Remove, Forget, TypeOK
    <3>5. Numbered'
        BY <2>3, <3>1 DEF Numbered
    <3>. QED  BY <3>1, <3>2, <3>3, <3>4, <3>5
  <2>4. ASSUME NEW d \in deletes, Delete(d)  PROVE TypeInv'
      BY <2>3, <2>4 DEF Delete, TypeOK
  <2>5. CASE Clear
    <3>1. acts' \in Nat
        BY <2>5 DEF Clear, Act, TypeOK
    <3>. QED  BY <2>3, <2>5, <3>1 DEF Clear, TypeOK, page
  <2>6. CASE Refresh
      BY <2>6 DEF Refresh, Ask, TypeOK, Numbered, store
  <2>7. CASE Lose
      BY <2>7 DEF Lose, TypeOK, Numbered, store
  <2>8. CASE Subscribe
      BY <2>8 DEF Subscribe, TypeOK, Numbered, store
  <2>9. ASSUME NEW s \in Slots, Snapshot(s)  PROVE TypeInv'
    <3>1. Answer(edition, items) \in Answers
        BY DEF Answer, Answers, TypeOK
    <3>2. fetch' \in [Slots -> {Idle, Asked} \cup Answers]
        BY <2>9, <3>1 DEF Snapshot, TypeOK
    <3>. QED  BY <2>9, <3>2 DEF Snapshot, TypeOK, Numbered, store
  <2>10. ASSUME NEW s \in Slots, Apply(s)  PROVE TypeInv'
    <3>1. fetch[s] \in Answers
        BY <2>10 DEF Apply, Answered, TypeOK, Idle, Asked
    <3>2. fetch[s].list \subseteq Entry /\ fetch[s].at \in Nat
        BY <3>1 DEF Answers
    <3>3. fetch' \in [Slots -> {Idle, Asked} \cup Answers]
        BY <2>10 DEF Apply, TypeOK
    <3>4. spoiled' \in BOOLEAN /\ mount' \in {"first", "subscribe", "listening"}
        BY <2>10 DEF Apply, TypeOK
    <3>. QED  BY <2>10, <3>2, <3>3, <3>4 DEF Apply, TypeOK, Numbered, store
  <2>11. ASSUME NEW d \in deletes, DeleteMisses(d)  PROVE TypeInv'
    <3>1. [d EXCEPT !.missing = TRUE] \in Deletions
        BY DEF TypeOK, Deletions
    <3>. QED  BY <2>11, <3>1 DEF DeleteMisses, TypeOK, Numbered, store
  <2>12. ASSUME NEW d \in deletes, RollBack(d)  PROVE TypeInv'
    <3>1. d.prev \subseteq Entry
        BY DEF TypeOK, Deletions
    <3>. QED  BY <2>12, <3>1 DEF RollBack, TypeOK, Numbered, store
  <2>13. CASE Show
      BY <2>13 DEF Show, Act, Ask, TypeOK, Numbered, store
  <2>14. ASSUME NEW e \in view, Click(e)  PROVE TypeInv'
    <3>1. acts' \in Nat
        BY <2>14 DEF Click, Act, TypeOK
    <3>2. [act |-> acts', id |-> e.id, prev |-> view, missing |-> FALSE] \in Deletions
        BY <3>1 DEF TypeOK, Deletions, Entry
    <3>. QED  BY <2>14, <3>1, <3>2 DEF Click, TypeOK, Numbered, store
  <2>15. CASE UNCHANGED vars
      BY <2>15 DEF vars, TypeOK, Numbered
  <2>. QED  BY <2>1, <2>2, <2>4, <2>5, <2>6, <2>7, <2>8, <2>9, <2>10, <2>11, <2>12, <2>13,
               <2>14, <2>15 DEF Next, System, User
<1>. QED  BY <1>1, <1>2, PTL DEF Spec

(* For any list length and any overlap of pushes, deletions and clears, no *)
(* two entries of the list have a text, an id or a rank in common.         *)
THEOREM TypeCorrect == Spec => []TypeOK
BY TypeInvariant, PTL DEF TypeInv

-----------------------------------------------------------------------------
(* The list is never longer than MAX_HISTORY: the ranks are distinct, so   *)
(* truncation leaves as many entries as there are positions.               *)
Bounded == Cardinality(items) <= MaxHistory

LEMMA BoundedAlways == Spec => []Bounded
<1>1. Init => Bounded
    BY FS_EmptySet, HistoryAssumption DEF Init, Bounded
<1>2. TypeInv /\ TypeInv' /\ Bounded /\ [Next]_vars => Bounded'
  <2>. SUFFICES ASSUME TypeInv, TypeInv', Bounded, [Next]_vars  PROVE Bounded'
      OBVIOUS
  <2>. USE DEF TypeInv
  <2>1. ASSUME items' \subseteq items  PROVE Bounded'
    <3>1. /\ Cardinality(items') <= Cardinality(items)
          /\ Cardinality(items) \in Nat /\ Cardinality(items') \in Nat
        BY <2>1, FS_Subset, FS_CardinalityType DEF TypeOK
    <3>. QED  BY <3>1, HistoryAssumption DEF Bounded
  <2>2. ASSUME NEW e \in making, Push(e)  PROVE Bounded'
    <3>. DEFINE n == [e EXCEPT !.rank = pushed + 1]
                S == {f \in items : f.text # n.text} \cup {n}
    <3>1. n \in Entry /\ n.rank = pushed + 1
      <4>1. e \in Entry /\ pushed + 1 \in Nat
          BY DEF TypeOK
      <4>. QED  BY <4>1 DEF Entry
    <3>2. \/ items' = items
          \/ items' = Truncated(S)
        BY <2>2 DEF Push, PushedOn
    <3>3. CASE items' = Truncated(S)
      <4>1. IsFiniteSet(S)
        <5>1. IsFiniteSet({f \in items : f.text # n.text})
            BY FS_Subset DEF TypeOK
        <5>. QED  BY <5>1, FS_AddElement
      <4>2. S \subseteq Entry
          BY <3>1 DEF TypeOK
      <4>3. \A f, g \in S : f # g => f.rank # g.rank
        <5>0. \A f \in items : f.rank \in Nat /\ f.rank <= pushed
            BY DEF TypeOK, Numbered, Entry
        <5>. HIDE DEF n
        <5>1. \A f \in items : f.rank # n.rank
            BY <3>1, <5>0 DEF TypeOK
        <5>. QED  BY <5>1 DEF TypeOK
      <4>. HIDE DEF S
      <4>. QED  BY <3>3, <4>1, <4>2, <4>3, TruncatedBounded DEF Bounded
    <3>. QED  BY <2>1, <3>2, <3>3
  <2>3. ASSUME NEW d \in deletes, Delete(d)  PROVE Bounded'
      BY <2>1, <2>3 DEF Delete, Remove
  <2>4. CASE Clear
      BY <2>1, <2>4 DEF Clear, Remove
  <2>5. CASE UNCHANGED items
      BY <2>1, <2>5
  <2>. QED  BY <2>2, <2>3, <2>4, <2>5
            DEF Next, System, User, Make, Refresh, Lose, Subscribe, Snapshot, Apply,
                DeleteMisses, RollBack, Show, Click, store, vars
<1>. QED  BY <1>1, <1>2, TypeInvariant, PTL DEF Spec

(* For any MAX_HISTORY and any overlap of pushes, deletions and clears the *)
(* list is never longer and holds no text twice (history.rs:105).          *)
THEOREM ListIsSound == Spec => []DistinctAndBounded
<1>1. TypeInv /\ Bounded => DistinctAndBounded
    BY DEF TypeInv, TypeOK, Bounded, DistinctAndBounded
<1>. QED  BY <1>1, TypeInvariant, BoundedAlways, PTL

-----------------------------------------------------------------------------
(* While no two entries are made at once, the one under way is newer than  *)
(* the whole list.                                                         *)
Sorted ==
    ~raced => /\ \A e \in making, f \in items : f.id < e.id
              /\ \A e, f \in making : e = f
              /\ \A e, f \in items : e.rank > f.rank => e.id > f.id

(* For any number of entries the list is in the order the entries were     *)
(* made in, as long as no two of them were on their way at once.           *)
THEOREM NewestFirst == Spec => []NewestFirstUnlessRaced
<1>1. Init => Sorted
    BY DEF Init, Sorted
<1>2. TypeInv /\ Sorted /\ [Next]_vars => Sorted'
  <2>. SUFFICES ASSUME TypeInv, Sorted, [Next]_vars  PROVE Sorted'
      OBVIOUS
  <2>. USE DEF TypeInv
  <2>1. CASE Make
    <3>. DEFINE n == [id |-> made + 1, rank |-> 0, text |-> Head(feed)]
    <3>1. SUFFICES ASSUME ~raced'  PROVE Sorted'
        BY DEF Sorted
    <3>2. making = {} /\ ~raced /\ making' = {n} /\ items' = items
        BY <2>1, <3>1 DEF Make, TypeOK
    <3>3. n.id = made + 1
        OBVIOUS
    <3>. HIDE DEF n
    <3>4. \A f \in items : f.id < n.id
        BY <3>3 DEF TypeOK, Numbered, Entry
    <3>. QED  BY <3>2, <3>4 DEF Sorted
  <2>2. ASSUME NEW e \in making, Push(e)  PROVE Sorted'
    <3>. DEFINE n == [e EXCEPT !.rank = pushed + 1]
    <3>1. e \in Entry /\ n.id = e.id /\ n.rank = pushed + 1
        BY DEF TypeOK, Entry
    <3>2. items' = PushedOn(n, items) /\ making' = making \ {e} /\ raced' = raced
        BY <2>2 DEF Push
    <3>. HIDE DEF n
    <3>3. items' \subseteq items \cup {n}
        BY <3>2, PushedIsSubset
    <3>4. SUFFICES ASSUME ~raced  PROVE Sorted'
        BY <3>2 DEF Sorted
    <3>5. making' = {}
        BY <3>2, <3>4 DEF Sorted
    <3>6. \A f \in items : f.id < n.id /\ ~ (f.rank > n.rank)
        BY <3>1, <3>4 DEF Sorted, TypeOK, Numbered, Entry
    <3>7. \A f, g \in items' : f.rank > g.rank => f.id > g.id
        BY <3>1, <3>3, <3>4, <3>6 DEF Sorted, TypeOK, Entry
    <3>. QED  BY <3>5, <3>7 DEF Sorted
  <2>3. ASSUME items' \subseteq items, UNCHANGED <<making, raced>>  PROVE Sorted'
      BY <2>3 DEF Sorted
  <2>4. ASSUME NEW d \in deletes, Delete(d)  PROVE Sorted'
      BY <2>3, <2>4 DEF Delete, Remove
  <2>5. CASE Clear
      BY <2>3, <2>5 DEF Clear, Remove
  <2>6. CASE UNCHANGED <<items, making, raced>>
      BY <2>3, <2>6
  <2>. QED  BY <2>1, <2>2, <2>4, <2>5, <2>6
            DEF Next, System, User, Refresh, Lose, Subscribe, Snapshot, Apply,
                DeleteMisses, RollBack, Show, Click, store, vars
<1>3. Sorted => NewestFirstUnlessRaced
    BY DEF Sorted, NewestFirstUnlessRaced
<1>. QED  BY <1>1, <1>2, <1>3, TypeInvariant, PTL DEF Spec

-----------------------------------------------------------------------------
(* A snapshot of the list as it is will be applied, or fetched.            *)
Coming ==
    \/ owed > 0
    \/ \E s \in Slots : fetch[s] = Asked
    \/ \E s \in Slots : Answered(s) /\ fetch[s].at = edition

(* Snapshots are no newer than the list; a snapshot of this edition is it. *)
SnapshotsFit ==
    /\ shown <= edition
    /\ \A s \in Slots : Answered(s) =>
          fetch[s].at <= edition /\ (fetch[s].at = edition => fetch[s].list = items)

(* A page that is behind is about to be refreshed; one that is not lacks   *)
(* only what the user is deleting.                                         *)
ViewInv ==
    /\ SnapshotsFit
    /\ ~spoiled /\ shown # edition => Coming
    /\ ~spoiled /\ shown = edition =>
          /\ view \subseteq items
          /\ \A e \in items \ view : \E d \in deletes : ~d.missing /\ d.id = e.id

(* The list changes: the page is behind, and an event is owed.             *)
LEMMA ChangeIsTold ==
    ASSUME TypeOK, ViewInv, edition' = edition + 1, owed' = owed + 1,
           UNCHANGED <<fetch, shown>>
    PROVE  ViewInv'
<1>1. shown' # edition' /\ shown' <= edition'
    BY DEF TypeOK, ViewInv, SnapshotsFit
<1>2. Coming'
    BY DEF TypeOK, Coming
<1>3. \A s \in Slots : Answered(s) => fetch[s].at \in Nat
    BY DEF TypeOK, Answered, Answers, Idle, Asked
<1>4. \A s \in Slots : Answered(s)' => fetch'[s].at <= edition' /\ fetch'[s].at # edition'
    BY <1>3 DEF TypeOK, ViewInv, SnapshotsFit, Answered
<1>. QED  BY <1>1, <1>2, <1>4 DEF ViewInv, SnapshotsFit

(* The page shows the list when all is quiet, unless it is spoiled, for    *)
(* any number of fetches, deletions and pushes in any order.               *)
THEOREM ViewCurrent == Spec => []ViewCurrentUnlessSpoiled
<1>1. Init => ViewInv
    BY DEF Init, ViewInv, SnapshotsFit, Coming, Answered, Idle, Asked
<1>2. TypeInv /\ ViewInv /\ [Next]_vars => ViewInv'
  <2>. SUFFICES ASSUME TypeInv, ViewInv, [Next]_vars  PROVE ViewInv'
      OBVIOUS
  <2>. USE DEF TypeInv
  <2>1. CASE Make
      BY <2>1 DEF Make, page, ViewInv, SnapshotsFit, Coming, Answered
  <2>2. ASSUME NEW e \in making, Push(e)  PROVE ViewInv'
      BY <2>2, ChangeIsTold DEF Push, page
  <2>3. CASE Refresh
    <3>1. PICK s \in Slots : fetch[s] = Idle /\ fetch' = [fetch EXCEPT ![s] = Asked]
        BY <2>3 DEF Refresh, Ask
    <3>2. fetch'[s] = Asked /\ \A r \in Slots : r # s => fetch'[r] = fetch[r]
        BY <3>1 DEF TypeOK
    <3>3. Coming'
        BY <3>2 DEF Coming
    <3>4. \A r \in Slots : Answered(r)' => Answered(r) /\ fetch'[r] = fetch[r]
        BY <3>2 DEF Answered, Asked
    <3>. QED  BY <2>3, <3>3, <3>4 DEF Refresh, store, ViewInv, SnapshotsFit
  <2>4. CASE Lose
      BY <2>4 DEF Lose, store, ViewInv, SnapshotsFit, Answered
  <2>5. CASE Show
    <3>1. PICK s \in Slots : fetch[s] = Idle /\ fetch' = [fetch EXCEPT ![s] = Asked]
        BY <2>5 DEF Show, Ask
    <3>2. fetch'[s] = Asked /\ \A r \in Slots : r # s => fetch'[r] = fetch[r]
        BY <3>1 DEF TypeOK
    <3>3. Coming'
        BY <3>2 DEF Coming
    <3>4. \A r \in Slots : Answered(r)' => Answered(r) /\ fetch'[r] = fetch[r]
        BY <3>2 DEF Answered, Asked
    <3>. QED  BY <2>5, <3>3, <3>4 DEF Show, store, ViewInv, SnapshotsFit
  <2>6. ASSUME NEW s \in Slots, Snapshot(s)  PROVE ViewInv'
    <3>1. fetch'[s] = Answer(edition, items) /\ \A r \in Slots : r # s => fetch'[r] = fetch[r]
        BY <2>6 DEF Snapshot, TypeOK
    <3>2. UNCHANGED <<items, edition, view, deletes, shown, spoiled>>
        BY <2>6 DEF Snapshot, store
    <3>3. Coming'
        BY <3>1, <3>2 DEF Coming, Answered, Answer
    <3>4. SnapshotsFit'
        BY <3>1, <3>2 DEF TypeOK, ViewInv, SnapshotsFit, Answered, Answer
    <3>. QED  BY <3>2, <3>3, <3>4 DEF ViewInv
  <2>7. ASSUME NEW s \in Slots, Apply(s)  PROVE ViewInv'
    <3>1. fetch'[s] = Idle /\ \A r \in Slots : r # s => fetch'[r] = fetch[r]
        BY <2>7 DEF Apply, TypeOK
    <3>2. /\ UNCHANGED <<items, edition, owed, deletes>>
          /\ view' = fetch[s].list /\ shown' = fetch[s].at
          /\ spoiled' = (fetch[s].at # edition /\ (spoiled \/ fetch[s].at < shown))
          /\ Answered(s)
        BY <2>7 DEF Apply, store
    <3>3. fetch[s] \in Answers
        BY <3>2 DEF TypeOK, Answered, Idle, Asked
    <3>4. fetch[s].at \in Nat /\ fetch[s].at <= edition
        BY <3>2, <3>3 DEF Answers, ViewInv, SnapshotsFit
    <3>5. SnapshotsFit'
        BY <3>1, <3>2, <3>4 DEF ViewInv, SnapshotsFit, Answered, Idle
    <3>6. CASE fetch[s].at = edition
      <4>1. view' = items' /\ shown' = edition'
          BY <3>2, <3>6 DEF ViewInv, SnapshotsFit
      <4>. QED  BY <3>5, <4>1 DEF ViewInv
    <3>7. CASE fetch[s].at # edition
      <4>1. SUFFICES ASSUME ~spoiled'  PROVE ViewInv'
          BY <3>5 DEF ViewInv
      <4>2. ~spoiled /\ shown # edition
        <5>1. ~spoiled /\ ~ (fetch[s].at < shown)
            BY <3>2, <3>7, <4>1
        <5>. QED  BY <3>4, <3>7, <5>1 DEF TypeOK
      <4>3. Coming
          BY <4>2 DEF ViewInv
      <4>4. Coming'
          BY <4>3, <3>1, <3>2, <3>7 DEF Coming, Answered, Asked
      <4>5. shown' # edition'
          BY <3>2, <3>7
      <4>. QED  BY <3>5, <4>4, <4>5 DEF ViewInv
    <3>. QED  BY <3>6, <3>7
  <2>8. CASE Subscribe
      BY <2>8 DEF Subscribe, store, ViewInv, SnapshotsFit, Coming, Answered
  <2>9. ASSUME NEW e \in view, Click(e)  PROVE ViewInv'
    <3>. DEFINE n == [act |-> acts', id |-> e.id, prev |-> view, missing |-> FALSE]
    <3>1. /\ UNCHANGED <<items, edition, owed, fetch, shown, spoiled>>
          /\ view' = view \ {e} /\ deletes' = deletes \cup {n}
          /\ n.id = e.id /\ n.missing = FALSE
        BY <2>9 DEF Click, store
    <3>. HIDE DEF n
    <3>2. SnapshotsFit' /\ (Coming => Coming')
        BY <3>1 DEF ViewInv, SnapshotsFit, Coming, Answered
    <3>. QED  BY <3>1, <3>2 DEF ViewInv
  <2>10. ASSUME NEW d \in deletes, Delete(d)  PROVE ViewInv'
      BY <2>10, ChangeIsTold DEF Delete, Remove
  <2>11. ASSUME NEW d \in deletes, DeleteMisses(d)  PROVE ViewInv'
    <3>1. /\ UNCHANGED <<items, edition, owed, fetch, view, shown, spoiled>>
          /\ deletes \ {d} \subseteq deletes'
          /\ \A e \in items : e.id # d.id
        BY <2>11 DEF DeleteMisses, store, Pointed
    <3>2. SnapshotsFit' /\ (Coming => Coming')
        BY <3>1 DEF ViewInv, SnapshotsFit, Coming, Answered
    <3>. QED  BY <3>1, <3>2 DEF ViewInv
  <2>12. ASSUME NEW d \in deletes, RollBack(d)  PROVE ViewInv'
      BY <2>12 DEF RollBack, store, ViewInv, SnapshotsFit, Answered
  <2>13. CASE Clear
      BY <2>13, ChangeIsTold DEF Clear, Remove, page
  <2>14. CASE UNCHANGED vars
      BY <2>14 DEF vars, ViewInv, SnapshotsFit, Coming, Answered
  <2>. QED  BY <2>1, <2>2, <2>3, <2>4, <2>5, <2>6, <2>7, <2>8, <2>9, <2>10, <2>11, <2>12, <2>13,
               <2>14 DEF Next, System, User
<1>3. TypeInv /\ ViewInv => ViewCurrentUnlessSpoiled
  <2>. SUFFICES ASSUME TypeInv, ViewInv, Quiet, ~spoiled  PROVE view = items
      BY DEF ViewCurrentUnlessSpoiled
  <2>1. ~Coming
      BY DEF TypeInv, TypeOK, Quiet, Coming, Answered, Idle, Asked
  <2>2. view \subseteq items /\ \A e \in items \ view : \E d \in deletes : d.id = e.id
      BY <2>1 DEF ViewInv
  <2>. QED  BY <2>2 DEF Quiet
<1>. QED  BY <1>1, <1>2, <1>3, TypeInvariant, PTL DEF Spec

-----------------------------------------------------------------------------
(* A text that was pushed and not removed is in the list, with no entries  *)
(* above it but of texts pushed since, or MAX_HISTORY texts were.          *)
Placed(t) ==
    \E e \in items : e.text = t /\ \A f \in Newer(e, items) : f.text \in since[t]
KeptInv ==
    \A t \in DOMAIN since : IsFiniteSet(since[t]) /\ (Placed(t) \/ Cardinality(since[t]) >= MaxHistory)

(* Entries of a list without repetition are no more than their texts.      *)
LEMMA TextsCount ==
    ASSUME NEW S, NEW T, IsFiniteSet(T), \A e \in S : e.text \in T,
           \A e, f \in S : e # f => e.text # f.text
    PROVE  IsFiniteSet(S) /\ Cardinality(S) <= Cardinality(T)
<1>. DEFINE text == [e \in S |-> e.text]
<1>1. text \in Injection(S, T)
    BY DEF Injection, IsInjective
<1>. QED  BY <1>1, FS_Injection

(* One text more counts for the texts that were pushed before.             *)
LEMMA OneMore ==
    ASSUME NEW T, NEW t, IsFiniteSet(T)
    PROVE  IsFiniteSet(T \cup {t}) /\ Cardinality(T \cup {t}) >= Cardinality(T)
<1>1. IsFiniteSet(T \cup {t}) /\ T \subseteq T \cup {t}
    BY FS_AddElement
<1>2. Cardinality(T) <= Cardinality(T \cup {t}) /\ Cardinality(T) \in Nat
          /\ Cardinality(T \cup {t}) \in Nat
    BY <1>1, FS_Subset, FS_CardinalityType
<1>. QED  BY <1>1, <1>2

(* The push of the text t of the entry n.                                  *)
LEMMA PushKeeps ==
    ASSUME TypeInv, KeptInv, NEW e \in making, Push(e)
    PROVE  KeptInv'
<1>. USE HistoryAssumption DEF TypeInv
<1>. DEFINE n == [e EXCEPT !.rank = pushed + 1]
            t == e.text
            S == {f \in items : f.text # n.text} \cup {n}
<1>1. n \in Entry /\ n.rank = pushed + 1 /\ n.text = t
  <2>1. e \in Entry /\ pushed + 1 \in Nat
      BY DEF TypeOK
  <2>. QED  BY <2>1 DEF Entry
<1>2. /\ items' = PushedOn(n, items) /\ DOMAIN since' = DOMAIN since \cup {t}
      /\ since'[t] = {}
      /\ \A u \in DOMAIN since \ {t} : since'[u] = since[u] \cup {t}
    BY DEF Push, Recall
<1>3. \A f \in items : f.rank \in Nat /\ f.rank < n.rank
    BY <1>1 DEF TypeOK, Numbered, Entry
<1>4. \A u \in DOMAIN since' : IsFiniteSet(since'[u])
  <2>1. \A u \in DOMAIN since \ {t} : IsFiniteSet(since[u])
      BY DEF KeptInv
  <2>2. ASSUME NEW u \in DOMAIN since \ {t}  PROVE IsFiniteSet(since'[u])
    <3>1. IsFiniteSet(since[u] \cup {t})
        BY <2>1, OneMore
    <3>. QED  BY <1>2, <3>1
  <2>3. IsFiniteSet(since'[t])
      BY <1>2, FS_EmptySet
  <2>. QED  BY <1>2, <2>2, <2>3
<1>. HIDE DEF n, t
<1>5. CASE items' = items /\ \E h \in items : h.text = t /\ Newer(h, items) = {}
  <2>1. Placed(t)'
      BY <1>5 DEF Placed, Newer
  <2>2. ASSUME NEW u \in DOMAIN since \ {t}
        PROVE  Placed(u)' \/ Cardinality(since'[u]) >= MaxHistory
    <3>1. CASE Placed(u)
        BY <1>2, <1>5, <3>1 DEF Placed, Newer
    <3>2. CASE Cardinality(since[u]) >= MaxHistory
      <4>1. Cardinality(since'[u]) >= Cardinality(since[u]) /\ IsFiniteSet(since[u])
          BY <1>2, OneMore DEF KeptInv
      <4>2. Cardinality(since[u]) \in Nat /\ Cardinality(since'[u]) \in Nat
          BY <1>2, <1>4, <4>1, FS_CardinalityType
      <4>. QED  BY <3>2, <4>1, <4>2
    <3>. QED  BY <3>1, <3>2 DEF KeptInv
  <2>. QED  BY <1>2, <1>4, <2>1, <2>2 DEF KeptInv
<1>6. CASE items' = Truncated(S)
  <2>1. IsFiniteSet(S) /\ n \in S
    <3>1. IsFiniteSet({f \in items : f.text # n.text})
        BY FS_Subset DEF TypeOK
    <3>. QED  BY <3>1, FS_AddElement
  <2>2. items' \subseteq S /\ \A f \in S : f \in items \/ f = n
      BY <1>6 DEF Truncated
  <2>3. Placed(t)'
    <3>1. \A f \in S : ~(f.rank > n.rank)
        BY <1>1, <1>3 DEF TypeOK
    <3>2. Newer(n, S) = {}
        BY <3>1 DEF Newer
    <3>3. n \in items'
        BY <1>6, <2>1, <3>2, FS_EmptySet DEF Truncated
    <3>4. Newer(n, items') = {}
        BY <2>2, <3>1 DEF Newer
    <3>. QED  BY <1>1, <3>3, <3>4 DEF Placed
  <2>4. ASSUME NEW u \in DOMAIN since \ {t}
        PROVE  Placed(u)' \/ Cardinality(since'[u]) >= MaxHistory
    <3>1. CASE Placed(u)
      <4>1. PICK f \in items : f.text = u /\ \A g \in Newer(f, items) : g.text \in since[u]
          BY <3>1 DEF Placed
      <4>2. f \in S /\ f.text # t
          BY <1>1, <4>1
      <4>3. \A g \in Newer(f, S) : g.text \in since'[u]
          BY <1>1, <1>2, <4>1 DEF Newer
      <4>4. \A g, h \in Newer(f, S) : g # h => g.text # h.text
          BY <1>1 DEF Newer, TypeOK
      <4>. HIDE DEF S
      <4>5. CASE f \in items'
          BY <2>2, <4>1, <4>3, <4>5 DEF Placed, Newer
      <4>6. CASE f \notin items'
        <5>1. ~(Cardinality(Newer(f, S)) < MaxHistory)
            BY <1>6, <4>2, <4>6 DEF Truncated
        <5>2. /\ IsFiniteSet(Newer(f, S))
              /\ Cardinality(Newer(f, S)) <= Cardinality(since'[u])
            BY <1>2, <1>4, <4>3, <4>4, TextsCount
        <5>3. Cardinality(Newer(f, S)) \in Nat /\ Cardinality(since'[u]) \in Nat
            BY <1>2, <1>4, <5>2, FS_CardinalityType
        <5>. QED  BY <5>1, <5>2, <5>3
      <4>. QED  BY <4>5, <4>6
    <3>2. CASE Cardinality(since[u]) >= MaxHistory
      <4>1. Cardinality(since'[u]) >= Cardinality(since[u]) /\ IsFiniteSet(since[u])
          BY <1>2, OneMore DEF KeptInv
      <4>2. Cardinality(since[u]) \in Nat /\ Cardinality(since'[u]) \in Nat
          BY <1>2, <1>4, <4>1, FS_CardinalityType
      <4>. QED  BY <3>2, <4>1, <4>2
    <3>. QED  BY <3>1, <3>2 DEF KeptInv
  <2>. QED  BY <1>2, <1>4, <2>3, <2>4 DEF KeptInv
<1>. QED  BY <1>1, <1>2, <1>5, <1>6 DEF PushedOn

(* The entries gone leave the list, and their texts need not be kept.      *)
LEMMA RemoveKeeps ==
    ASSUME KeptInv, NEW gone, Remove(gone)
    PROVE  KeptInv'
<1>. SUFFICES ASSUME NEW u \in DOMAIN since'
              PROVE  IsFiniteSet(since'[u]) /\ (Placed(u)' \/ Cardinality(since'[u]) >= MaxHistory)
    BY DEF KeptInv
<1>1. /\ u \in DOMAIN since /\ since'[u] = since[u] /\ \A e \in gone : e.text # u
      /\ items' = items \ gone
    BY DEF Remove, Forget
<1>2. Placed(u) => Placed(u)'
    BY <1>1 DEF Placed, Newer
<1>. QED  BY <1>1, <1>2 DEF KeptInv

(* For any MAX_HISTORY and any number of texts: a text that was pushed and *)
(* not removed is in the list until MAX_HISTORY other texts are pushed.    *)
THEOREM Kept == Spec => []KeptUntilCrowded
<1>1. Init => KeptInv
    BY DEF Init, KeptInv
<1>2. TypeInv /\ KeptInv /\ [Next]_vars => KeptInv'
  <2>. SUFFICES ASSUME TypeInv, KeptInv, [Next]_vars  PROVE KeptInv'
      OBVIOUS
  <2>1. ASSUME NEW e \in making, Push(e)  PROVE KeptInv'
      BY <2>1, PushKeeps
  <2>2. ASSUME NEW d \in deletes, Delete(d)  PROVE KeptInv'
      BY <2>2, RemoveKeeps DEF Delete
  <2>3. CASE Clear
      BY <2>3, RemoveKeeps DEF Clear
  <2>4. CASE UNCHANGED <<items, since>>
      BY <2>4 DEF KeptInv, Placed, Newer
  <2>. QED  BY <2>1, <2>2, <2>3, <2>4
            DEF Next, System, User, Make, Refresh, Lose, Subscribe, Snapshot, Apply,
                DeleteMisses, RollBack, Show, Click, store, vars
<1>3. KeptInv => KeptUntilCrowded
  <2>. SUFFICES ASSUME KeptInv, NEW t \in DOMAIN since, Cardinality(since[t]) < MaxHistory
                PROVE  Placed(t)
      BY DEF KeptUntilCrowded, Placed
  <2>1. Cardinality(since[t]) \in Nat
      BY FS_CardinalityType DEF KeptInv
  <2>. QED  BY <2>1, HistoryAssumption DEF KeptInv
<1>. QED  BY <1>1, <1>2, <1>3, TypeInvariant, PTL DEF Spec
=============================================================================
