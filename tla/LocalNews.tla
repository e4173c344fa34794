------------------------------- MODULE LocalNews -------------------------------
(***************************************************************************)
(* What the clipboard thread promises the local history: it is a channel   *)
(* for the copies of the user.  A copy waits until it is told of, replaced *)
(* or overwritten; it is told of at most once; what was told arrives in    *)
(* that order, and nothing else does, least of all a remote text.          *)
(***************************************************************************)
EXTENDS Naturals, Sequences

CONSTANTS
    Texts,      \* what can be told of
    Nobody,     \* no copy waits
    Capacity    \* of the channel

VARIABLES
    waiting,    \* the copy not told of yet
    told,       \* told of and not arrived yet
    arrived     \* the texts that have arrived

vars == <<waiting, told, arrived>>

Init == waiting \in Texts \cup {Nobody} /\ told = <<>> /\ arrived = {}

(* The user copies a text, or something that is never told of.             *)
Copy(t) == waiting' = t /\ UNCHANGED <<told, arrived>>

(* The copy that waits goes into the channel, or is lost when that is full.*)
Tell ==
    /\ waiting # Nobody /\ waiting' = Nobody
    /\ told' = IF Len(told) < Capacity THEN Append(told, waiting) ELSE told
    /\ UNCHANGED arrived

Arrive ==
    /\ told # <<>>
    /\ told' = Tail(told) /\ arrived' = arrived \cup {Head(told)}
    /\ UNCHANGED waiting

Next == (\E t \in Texts \cup {Nobody} : Copy(t)) \/ Tell \/ Arrive

Spec == Init /\ [][Next]_vars
=============================================================================
