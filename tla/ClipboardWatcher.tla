--------------------------- MODULE ClipboardWatcher ---------------------------
(***************************************************************************)
(* The clipboard thread of one device (app/clipboard.rs), the two bounded  *)
(* channels around it and the task that consumes its events (lifecycle.rs).*)
(*                                                                         *)
(* The thread shares the OS clipboard with every other program: the user   *)
(* may copy between any two of its steps.  Texts that handle_clipboard or  *)
(* recopy_history_item want on the clipboard arrive in applyQ; a change    *)
(* the thread finds by polling leaves in events.  Each call of arboard can *)
(* fail.  The thread compares SHA-256 hashes; the hash of a text stands    *)
(* for the text, so lastHash is a text or Nothing.                         *)
(***************************************************************************)
EXTENDS Naturals, Sequences

CONSTANTS
    Texts,        \* texts of 1 to 1,000,000 bytes
    ApplyCap,     \* capacity of the apply channel (64 in the code)
    EventCap,     \* capacity of the event channel (64 in the code)
    MaxCopies,    \* bound: copies by the user
    MaxArrivals,  \* bound: texts handed to the apply channel
    MaxFaults     \* bound: failures of arboard calls

ASSUME CapAssumption == ApplyCap \in Nat \ {0} /\ EventCap \in Nat \ {0}
ASSUME BoundAssumption == MaxCopies \in Nat /\ MaxArrivals \in Nat /\ MaxFaults \in Nat

Nothing == "nothing"    \* no text: empty, or an image
TooBig  == "too_big"    \* a text above MAX_TEXT_BYTES
ASSUME TextAssumption == Nothing \notin Texts /\ TooBig \notin Texts
Contents == Texts \cup {Nothing, TooBig}

VARIABLES
    board,      \* content of the OS clipboard
    lastHash,   \* last_hash of the thread
    applyQ,     \* the apply channel
    events,     \* the event channel
    local,      \* texts the consumer has pushed to the history as local
    due,        \* POLL_INTERVAL_MS have passed since the last poll
    cancel,     \* the flag that ClipboardWatcher::shutdown sets
    thread,     \* what the thread is about to do
    fresh,      \* history: the user put board there and no event told it
    last,       \* history: the last text put into events or on the clipboard by the thread
    copies, arrivals, faults    \* counters of the bounds

watcherVars == <<board, lastHash, applyQ, events, local, due, cancel, thread,
                 fresh, last, copies, arrivals, faults>>
counters == <<copies, arrivals, faults>>

WatcherInit ==
    /\ board \in Contents /\ fresh = TRUE
    /\ lastHash = Nothing /\ last = Nothing
    /\ applyQ = <<>> /\ events = <<>> /\ local = {}
    /\ due = TRUE /\ cancel = FALSE
    /\ thread \in {"top", "gone"}       \* gone: arboard::Clipboard::new failed
    /\ copies = 0 /\ arrivals = 0 /\ faults = 0

-----------------------------------------------------------------------------
(* The user, or another program, copies something.                         *)
UserCopy ==
    /\ copies < MaxCopies /\ copies' = copies + 1
    /\ board' \in Contents /\ fresh' = TRUE
    /\ UNCHANGED <<lastHash, applyQ, events, local, due, cancel, thread, last,
                   arrivals, faults>>

(* try_send of handle_clipboard or recopy_history_item: refused when the   *)
(* channel is full or the thread, which owns the receiver, is gone.        *)
Offer(t) ==
    /\ arrivals < MaxArrivals /\ arrivals' = arrivals + 1
    /\ applyQ' = IF Len(applyQ) < ApplyCap /\ thread # "gone" THEN Append(applyQ, t) ELSE applyQ
    /\ UNCHANGED <<board, lastHash, events, local, due, cancel, thread, fresh, last,
                   copies, faults>>

(* ClipboardWatcher::shutdown.                                             *)
Shutdown ==
    /\ ~cancel /\ cancel' = TRUE
    /\ UNCHANGED <<board, lastHash, applyQ, events, local, due, thread, fresh, last, counters>>

TimePasses ==
    /\ ~due /\ due' = TRUE
    /\ UNCHANGED <<board, lastHash, applyQ, events, local, cancel, thread, fresh, last, counters>>

-----------------------------------------------------------------------------
Fault == faults < MaxFaults /\ faults' = faults + 1

(* Mutant: the flag is not tested.                                         *)
CheckNothing ==
    /\ thread = "top"
    /\ thread' = "drain"
    /\ UNCHANGED <<board, lastHash, applyQ, events, local, due, cancel, fresh, last, counters>>

(* The head of the loop: leave when cancelled; the channels of the thread  *)
(* go with it.                                                             *)
CheckCancel ==
    /\ thread = "top"
    /\ thread' = IF cancel THEN "gone" ELSE "drain"
    /\ applyQ' = IF cancel THEN <<>> ELSE applyQ
    /\ UNCHANGED <<board, lastHash, events, local, due, cancel, fresh, last, counters>>

(* apply_text_to_clipboard, set_text succeeds.                             *)
ApplyText ==
    /\ thread = "drain" /\ applyQ # <<>>
    /\ applyQ' = Tail(applyQ)
    /\ board' = Head(applyQ) /\ fresh' = FALSE
    /\ lastHash' = Head(applyQ) /\ last' = Head(applyQ)
    /\ UNCHANGED <<events, local, due, cancel, thread, counters>>

(* Mutant: the hash is remembered although set_text failed.                *)
FailedApplyKeepsHash ==
    /\ thread = "drain" /\ applyQ # <<>>
    /\ Fault
    /\ applyQ' = Tail(applyQ) /\ lastHash' = Head(applyQ)
    /\ UNCHANGED <<board, events, local, due, cancel, thread, fresh, last,
                   copies, arrivals>>

(* apply_text_to_clipboard, set_text fails: the text is dropped.           *)
FailedApply ==
    /\ thread = "drain" /\ applyQ # <<>>
    /\ Fault
    /\ applyQ' = Tail(applyQ)
    /\ UNCHANGED <<board, lastHash, events, local, due, cancel, thread, fresh, last,
                   copies, arrivals>>

(* The apply channel is empty: poll when a second has passed, or sleep.    *)
Drained ==
    /\ thread = "drain" /\ applyQ = <<>>
    /\ thread' = IF due THEN "poll" ELSE "top"
    /\ due' = FALSE
    /\ UNCHANGED <<board, lastHash, applyQ, events, local, cancel, fresh, last, counters>>

(* get_text fails twice, 100 ms apart, and the poll is given up.           *)
FailedPoll ==
    /\ thread = "poll"
    /\ Fault
    /\ thread' = "top"
    /\ UNCHANGED <<board, lastHash, applyQ, events, local, due, cancel, fresh, last,
                   copies, arrivals>>

(* Mutant: only the size of the content is looked at.                      *)
UnchangedSize == board \notin Texts

(* Nothing to tell: no text, too large, or the text of the last hash.      *)
Unchanged == board \notin Texts \/ board = lastHash

(* poll_text_clipboard: nothing, too much, or nothing new.                 *)
SkipPoll ==
    /\ thread = "poll" /\ Unchanged
    /\ thread' = "top"
    /\ UNCHANGED <<board, lastHash, applyQ, events, local, due, cancel, fresh, last, counters>>

(* poll_text_clipboard: remember the hash, then try_send the event; when   *)
(* the channel is full the event is lost.                                  *)
Report ==
    /\ thread = "poll" /\ ~Unchanged
    /\ lastHash' = board /\ last' = board /\ fresh' = FALSE
    /\ events' = IF Len(events) < EventCap THEN Append(events, board) ELSE events
    /\ thread' = "top"
    /\ UNCHANGED <<board, applyQ, local, due, cancel, counters>>

(* The consumer of lifecycle.rs pushes a local entry and tells the front   *)
(* end; it calls nothing that sends.                                       *)
Consume ==
    /\ events # <<>>
    /\ local' = local \cup {Head(events)}
    /\ events' = Tail(events)
    /\ UNCHANGED <<board, lastHash, applyQ, due, cancel, thread, fresh, last, counters>>

-----------------------------------------------------------------------------
ThreadStep == \/ CheckCancel \/ ApplyText \/ FailedApply \/ Drained
              \/ FailedPoll \/ SkipPoll \/ Report

WatcherNext ==
    \/ UserCopy \/ (\E t \in Texts : Offer(t)) \/ Shutdown
    \/ TimePasses \/ ThreadStep \/ Consume

WatcherSpec == WatcherInit /\ [][WatcherNext]_watcherVars

(* The thread and the consumer run on, and time passes.                    *)
FairSpec ==
    /\ WatcherSpec
    /\ WF_watcherVars(ThreadStep) /\ WF_watcherVars(TimePasses) /\ WF_watcherVars(Consume)

-----------------------------------------------------------------------------
(* The types of the thread's locals and of the two channels.               *)
WatcherTypeOK ==
    /\ board \in Contents
    /\ lastHash \in Texts \cup {Nothing} /\ last \in Texts \cup {Nothing}
    /\ applyQ \in Seq(Texts) /\ Len(applyQ) <= ApplyCap
    /\ events \in Seq(Texts) /\ Len(events) <= EventCap
    /\ local \subseteq Texts
    /\ thread \in {"top", "drain", "poll", "gone"}
    /\ due \in BOOLEAN /\ cancel \in BOOLEAN /\ fresh \in BOOLEAN

(* The suppression of echoes (clipboard.rs:334-338): a text on the         *)
(* clipboard that the thread put there, or has told of, is the one whose   *)
(* hash it holds, whatever the user copies and whatever fails in between.  *)
HashTracksBoard == board \in Texts /\ ~fresh => lastHash = board

(* The copy of the user that was not told of, replaced or overwritten.     *)
Waiting == IF fresh /\ board \in Texts THEN board ELSE Nothing

(* The thread and its channels implement LocalNews: the events are copies  *)
(* of the user, each told of at most once and pushed in their order.  A    *)
(* remote text, which only overwrites the copy that waits, is never told   *)
(* of, so it cannot travel back (clipboard.rs:334-338, lifecycle.rs).      *)
News == INSTANCE LocalNews WITH waiting <- Waiting, told <- events, arrived <- local,
                                Nobody <- Nothing, Capacity <- EventCap
OnlyLocalNews == News!Spec

(* A text the user copied is told of, unless it is replaced, was the last  *)
(* text anyway, found the event channel full, or the thread is stopped.    *)
CopyIsReported ==
    \A t \in Texts :
        fresh /\ board = t /\ last # t ~>
            ~fresh \/ board # t \/ last = t \/ cancel \/ thread = "gone"

(* The thread always comes back to its test of cancel.                     *)
CancelIsHonoured == cancel ~> thread = "gone"
=============================================================================
