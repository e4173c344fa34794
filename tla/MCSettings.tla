------------------------------ MODULE MCSettings ------------------------------
(* Settings with names of up to three characters, cut to two.              *)
EXTENDS Settings

MCChars   == {"h", "a", "b", "c", "!", "_", "unnamed"}
MCUnnamed == <<"unnamed">>
MCDefault == <<"h">>
MCInputs  == {<<"a">>, <<"b", "c">>, <<"a", "_", "c">>, <<"!", "_">>, <<"_">>}
=============================================================================
