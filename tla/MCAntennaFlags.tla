---------------------------- MODULE MCAntennaFlags ----------------------------
(***************************************************************************)
(* Instances of AntennaFlags for TLC.                                      *)
(***************************************************************************)
EXTENDS AntennaFlags

\* No antenna, one, two, and one that is listed twice as the text ends in a comma.
Lists == {<<>>, <<2>>, <<0, Comma, 3>>, <<1, Comma>>}
ShortLists == {<<>>, <<1>>}

=============================================================================
