-------------------------- MODULE MCClipboardWatcher --------------------------
(* Instances of ClipboardWatcher for TLC.                                  *)
EXTENDS ClipboardWatcher

CONSTANTS a, b

TwoTexts == {a, b}
=============================================================================
