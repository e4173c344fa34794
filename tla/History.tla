-------------------------------- MODULE History --------------------------------
(***************************************************************************)
(* The history list of one device (app/history.rs), the tasks and commands *)
(* that change it, and the copy of it that the page shows                  *)
(* (stores/history.svelte.ts).                                             *)
(*                                                                         *)
(* Whoever pushes makes the entry first and takes the lock afterwards; the *)
(* entries are numbered in the order they are made (timestamp_ms, id) and  *)
(* ranked in the order they are pushed.  The deque changes only by         *)
(* push_front, pop_back and retain, so it is the set of its entries, the   *)
(* highest rank in front.  Every change is followed by an event            *)
(* history-updated, sent outside the lock, and every event by a fetch of   *)
(* the whole list; the commands of the page run on a pool of threads, so   *)
(* fetches may be served and answered in any order.                        *)
(***************************************************************************)
EXTENDS Naturals, FiniteSets, Sequences

CONSTANTS
    Texts,       \* texts; production entries are texts, all with a hash
    MaxHistory,  \* MAX_HISTORY (50 in the code)
    Slots,       \* bound: calls of get_history under way at once
    Feeds,       \* bound: the texts that are copied here or received, in order
    MaxMaking,   \* bound: entries made and not yet pushed
    MaxActs      \* bound: deletions, clear_history and showing the window

ASSUME HistoryAssumption == MaxHistory \in Nat \ {0}
ASSUME FeedAssumption == Feeds \subseteq Seq(Texts)
ASSUME BoundAssumption == MaxMaking \in Nat /\ MaxActs \in Nat

Entry == [id : Nat, rank : Nat, text : Texts]

Idle  == [state |-> "idle"]     \* no call of get_history in this slot
Asked == [state |-> "asked"]    \* get_history was called
Answer(n, list) == [state |-> "answer", at |-> n, list |-> list]

Answers   == [state : {"answer"}, at : Nat, list : SUBSET Entry]
Deletions == [act : Nat, id : Nat, prev : SUBSET Entry, missing : BOOLEAN]

VARIABLES
    items,      \* inner of HistoryStore
    making,     \* entries made and not yet pushed, each by a task of its own
    owed,       \* history-updated events that are about to be emitted or under way
    mount,      \* onMount of the page: "first" fetch, "subscribe", "listening"
    fetch,      \* fetch[s]: Idle, Asked or the snapshot on its way back
    view,       \* historyStore.items
    deletes,    \* deletions whose command is not over, with the list before them
    edition,    \* history: changes of items so far
    shown,      \* history: the edition of the snapshot the page applied last
    spoiled,    \* history: a late answer, a rollback or a lost event put the page behind
    raced,      \* history: two entries were made before either was pushed
    since,      \* history: of a text that was pushed and not removed, the texts
                \* pushed since; a text that was removed has no place in it
    feed,       \* texts to come
    made, pushed, acts    \* numbers of entries made and pushed, and of acts of the user

vars == <<items, making, owed, mount, fetch, view, deletes, edition, shown,
          spoiled, raced, since, feed, made, pushed, acts>>
store == <<items, making, edition, raced, since, feed, made, pushed>>
page  == <<mount, fetch, view, deletes, shown, spoiled>>

Init ==
    /\ items = {} /\ making = {}
    /\ owed = 0 /\ mount = "first"
    /\ feed \in Feeds
    /\ \E s \in Slots : fetch = [r \in Slots |-> IF r = s THEN Asked ELSE Idle]
    /\ view = {} /\ deletes = {}
    /\ edition = 0 /\ shown = 0 /\ spoiled = FALSE /\ raced = FALSE
    /\ since = [t \in {} |-> {}]
    /\ made = 0 /\ pushed = 0 /\ acts = 0

-----------------------------------------------------------------------------
Newer(e, S) == {f \in S : f.rank > e.rank}

(* A clipboard event or a decrypted message becomes an entry               *)
(* (make_text_history_entry).                                              *)
Make ==
    /\ feed # <<>> /\ feed' = Tail(feed)
    /\ Cardinality(making) < MaxMaking
    /\ made' = made + 1
    /\ making' = making \cup {[id |-> made + 1, rank |-> 0, text |-> Head(feed)]}
    /\ raced' = (raced \/ making # {})
    /\ UNCHANGED <<items, owed, edition, since, pushed, page, acts>>

(* Mutants of Truncated: one too many is dropped, or one too few.          *)
TruncatedEarly(S) == {e \in S : Cardinality(Newer(e, S)) + 1 < MaxHistory}
TruncatedLate(S)  == {e \in S : Cardinality(Newer(e, S)) <= MaxHistory}

(* The oldest entries beyond MAX_HISTORY are popped.                       *)
Truncated(S) == {e \in S : Cardinality(Newer(e, S)) < MaxHistory}

(* Mutant of PushedOn: an equal text is renewed where it stands.           *)
PushedInPlace(e, S) ==
    IF \E f \in S : f.text = e.text
    THEN {[f EXCEPT !.id = IF f.text = e.text THEN e.id ELSE @] : f \in S}
    ELSE Truncated(S \cup {e})

(* push: nothing when the head has the text, else the text moves to the    *)
(* front.                                                                  *)
PushedOn(e, S) ==
    IF \E h \in S : h.text = e.text /\ Newer(h, S) = {} THEN S
    ELSE Truncated({f \in S : f.text # e.text} \cup {e})

(* t was pushed; it counts for the texts that were pushed before.          *)
Recall(t) ==
    since' = [u \in DOMAIN since \cup {t} |-> IF u = t THEN {} ELSE since[u] \cup {t}]

(* Mutant of Push: nobody is told.                                         *)
PushUntold(e) ==
    /\ e \in making /\ making' = making \ {e}
    /\ pushed' = pushed + 1
    /\ items' = PushedOn([e EXCEPT !.rank = pushed + 1], items)
    /\ edition' = edition + 1
    /\ Recall(e.text)
    /\ UNCHANGED <<owed, raced, feed, made, page, acts>>

(* HistoryStore::push; an event follows whether or not anything changed.   *)
Push(e) ==
    /\ e \in making /\ making' = making \ {e}
    /\ pushed' = pushed + 1
    /\ items' = PushedOn([e EXCEPT !.rank = pushed + 1], items)
    /\ edition' = edition + 1 /\ owed' = owed + 1
    /\ Recall(e.text)
    /\ UNCHANGED <<raced, feed, made, page, acts>>

-----------------------------------------------------------------------------
(* refreshHistory begins: get_history is called.                           *)
Ask == \E s \in Slots : fetch[s] = Idle /\ fetch' = [fetch EXCEPT ![s] = Asked]

(* An event reaches the page: it fetches the list.                         *)
Refresh ==
    /\ owed > 0 /\ owed' = owed - 1
    /\ mount = "listening" /\ Ask
    /\ UNCHANGED <<store, mount, view, deletes, shown, spoiled, acts>>

(* An event is emitted when the page has not subscribed to it.             *)
Lose ==
    /\ owed > 0 /\ owed' = owed - 1
    /\ mount # "listening" /\ spoiled' = TRUE
    /\ UNCHANGED <<store, mount, fetch, view, deletes, shown, acts>>

Act == acts < MaxActs /\ acts' = acts + 1

(* The window is shown (+page.svelte): the page fetches the list.          *)
Show ==
    /\ mount = "listening" /\ Act
    /\ Ask
    /\ UNCHANGED <<store, owed, mount, view, deletes, shown, spoiled>>

(* get_history runs: the list is copied under the read lock.               *)
Snapshot(s) ==
    /\ fetch[s] = Asked
    /\ fetch' = [fetch EXCEPT ![s] = Answer(edition, items)]
    /\ UNCHANGED <<store, owed, mount, view, deletes, shown, spoiled, acts>>

Answered(s) == fetch[s].state = "answer"

(* refreshHistory has its answer, which replaces what the page shows.      *)
Apply(s) ==
    /\ Answered(s)
    /\ fetch' = [fetch EXCEPT ![s] = Idle]
    /\ view' = fetch[s].list /\ shown' = fetch[s].at
    /\ spoiled' = (fetch[s].at # edition /\ (spoiled \/ fetch[s].at < shown))
    /\ mount' = IF mount = "first" THEN "subscribe" ELSE mount
    /\ UNCHANGED <<store, owed, deletes, acts>>

(* initHistoryStore subscribes only when its first fetch is over.          *)
Subscribe ==
    /\ mount = "subscribe" /\ mount' = "listening"
    /\ UNCHANGED <<store, owed, fetch, view, deletes, shown, spoiled, acts>>

-----------------------------------------------------------------------------
(* delHistoryItem: the entry disappears at once, the command is called,    *)
(* and the list from before is kept.                                       *)
Click(e) ==
    /\ e \in view /\ Act
    /\ view' = view \ {e}
    /\ deletes' = deletes \cup {[act |-> acts', id |-> e.id, prev |-> view, missing |-> FALSE]}
    /\ UNCHANGED <<store, owed, mount, fetch, shown, spoiled>>

(* What is removed on purpose need not be kept.                            *)
Forget(gone) == since' = [t \in DOMAIN since \ {e.text : e \in gone} |-> since[t]]

(* The list loses entries; an event follows.                               *)
Remove(gone) ==
    /\ items' = items \ gone
    /\ edition' = edition + 1 /\ owed' = owed + 1
    /\ Forget(gone)

Pointed(d) == {e \in items : e.id = d.id}

(* delete_history_item finds the entry; the page does nothing when the     *)
(* call succeeds.                                                          *)
Delete(d) ==
    /\ d \in deletes /\ ~d.missing /\ Pointed(d) # {}
    /\ deletes' = deletes \ {d}
    /\ Remove(Pointed(d))
    /\ UNCHANGED <<making, raced, feed, made, pushed, mount, fetch, view, shown, spoiled, acts>>

(* ... or does not find it: not_found.                                     *)
DeleteMisses(d) ==
    /\ d \in deletes /\ ~d.missing /\ Pointed(d) = {}
    /\ deletes' = (deletes \ {d}) \cup {[d EXCEPT !.missing = TRUE]}
    /\ UNCHANGED <<store, owed, mount, fetch, view, shown, spoiled, acts>>

(* delHistoryItem has the error: the page shows the old list again.        *)
RollBack(d) ==
    /\ d \in deletes /\ d.missing
    /\ deletes' = deletes \ {d}
    /\ view' = d.prev /\ spoiled' = TRUE
    /\ UNCHANGED <<store, owed, mount, fetch, shown, acts>>

(* clear_history, from the settings; the page waits for the event.         *)
Clear ==
    /\ Act
    /\ Remove(items)
    /\ UNCHANGED <<making, raced, feed, made, pushed, page>>

-----------------------------------------------------------------------------
System ==
    \/ \E e \in making : Push(e)
    \/ Refresh \/ Lose \/ Subscribe
    \/ \E s \in Slots : Snapshot(s) \/ Apply(s)
    \/ \E d \in deletes : Delete(d) \/ DeleteMisses(d) \/ RollBack(d)

User == Show \/ Clear \/ \E e \in view : Click(e)

Next == System \/ User \/ Make

Spec == Init /\ [][Next]_vars

-----------------------------------------------------------------------------
(* No two entries of the list have an id, a rank or a text in common       *)
(* (history.rs:105-140).                                                   *)
TypeOK ==
    /\ items \subseteq Entry /\ view \subseteq Entry /\ IsFiniteSet(items)
    /\ making \subseteq Entry /\ deletes \subseteq Deletions
    /\ fetch \in [Slots -> {Idle, Asked} \cup Answers]
    /\ owed \in Nat /\ edition \in Nat /\ shown \in Nat
    /\ feed \in Seq(Texts) /\ made \in Nat /\ pushed \in Nat /\ acts \in Nat
    /\ mount \in {"first", "subscribe", "listening"}
    /\ spoiled \in BOOLEAN /\ raced \in BOOLEAN
    /\ DOMAIN since \subseteq Texts /\ \A t \in DOMAIN since : since[t] \subseteq Texts
    /\ \A e, f \in items : e # f => e.id # f.id /\ e.rank # f.rank /\ e.text # f.text

(* The list never holds more than MAX_HISTORY entries, and no text twice   *)
(* (history.rs:105), whichever pushes, deletions and clears overlap.       *)
DistinctAndBounded ==
    /\ Cardinality(items) <= MaxHistory
    /\ \A e, f \in items : e # f => e.text # f.text

(* A text stays in the list until it is deleted or cleared or MAX_HISTORY  *)
(* other texts have been pushed since it was: neither a text that comes    *)
(* again nor two pushes at once cost an older text its place.              *)
KeptUntilCrowded ==
    \A t \in DOMAIN since :
        Cardinality(since[t]) < MaxHistory => \E e \in items : e.text = t

(* The list is in the order the entries were made in, the newest in front  *)
(* (history.rs:159), unless one was made while another was on its way to   *)
(* the list: then the time shown next to them may go back.                 *)
NewestFirstUnlessRaced ==
    ~raced => \A e, f \in items : e.rank > f.rank => e.id > f.id

Quiet ==
    /\ owed = 0 /\ deletes = {}
    /\ \A s \in Slots : fetch[s] = Idle

(* When all is quiet the page shows the list, unless an answer overtook a  *)
(* newer one, a deletion that found nothing brought an old list back, or   *)
(* an event was sent before the page subscribed, and no current answer has *)
(* come since.  Deletions shown too early, events in bursts and deletions  *)
(* that run in any order do no harm.                                       *)
ViewCurrentUnlessSpoiled == Quiet /\ ~spoiled => view = items

=============================================================================
