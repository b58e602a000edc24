---------------------------- MODULE MCInstanceKey ----------------------------
(* TLC instance of InstanceKey: strings of up to four characters over a   *)
(* host letter, the colon, two digits, a letter that is not a digit, a    *)
(* sign and a space; pool replies of up to two keys.                       *)
EXTENDS InstanceKey

MCChars       == {"a", ":", "0", "1", "x", "-", " "}
MCPoolStrings == {<<"a", ":", "1">>, <<"a", ":", "x">>, <<"a", ":", "1", "x">>}
=============================================================================
