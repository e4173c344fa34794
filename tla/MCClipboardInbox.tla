-------------------------- MODULE MCClipboardInbox --------------------------
(* Instances of ClipboardInbox for TLC.                                    *)
EXTENDS ClipboardInbox, TLC

CONSTANTS o1, h1, h2

OneOrigin  == {o1}
TwoSlots   == {h1, h2}
BothKinds  == {"text", "image_png"}

(* Handler invocations are interchangeable.                                *)
SlotSymmetry == Permutations(Slots)
=============================================================================
