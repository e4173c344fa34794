----------------------------- MODULE Acquaintances -----------------------------
(***************************************************************************)
(* What the gossip of Mesh promises, without its messages: two devices get *)
(* to know each other only when a user joins the one to the other, or a    *)
(* third that knows both recommends them; and nobody is forgotten.         *)
(***************************************************************************)
EXTENDS Naturals

CONSTANTS
    Devices,    \* the devices
    Wanted      \* bound: the sets of joins the users may make

VARIABLES
    met,        \* the pairs of devices of which one knows the other
    invited,    \* the pairs that are about to meet
    wanted      \* joins the users have not made yet

vars == <<met, invited, wanted>>

Pairs == {{d, e} : d, e \in Devices}

Init == met = {} /\ invited = {} /\ wanted \in Wanted

(* A user joins the one device to the other.                               *)
Invite(d, e) ==
    /\ <<d, e>> \in wanted /\ wanted' = wanted \ {<<d, e>>}
    /\ invited' = invited \cup {{d, e}}
    /\ UNCHANGED met

(* Two devices that c has met are recommended to each other by it.         *)
Recommend(d, e, c) ==
    /\ {d, c} \in met /\ {c, e} \in met
    /\ invited' = invited \cup {{d, e}}
    /\ UNCHANGED <<met, wanted>>

(* Two devices that were invited meet; they may have been invited twice.   *)
Meet(p) ==
    /\ p \in invited
    /\ met' = met \cup {p}
    /\ invited' \in {invited, invited \ {p}}
    /\ UNCHANGED wanted

Next ==
    \/ \E d, e \in Devices : Invite(d, e) \/ \E c \in Devices : Recommend(d, e, c)
    \/ \E p \in Pairs : Meet(p)

Spec == Init /\ [][Next]_vars

=============================================================================
