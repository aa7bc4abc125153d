------------------------------ MODULE MCSkyImage ------------------------------
(***************************************************************************)
(* Instances of SkyImage for TLC.                                          *)
(***************************************************************************)
EXTENDS SkyImage

Numbers == 0..(MaxMergeChannels - 1)

\* No range, one, two in any order, three, and one that is cut to 16 bits.
AllTexts ==
  {<<>>, <<2>>, <<0, Dash, 0, Comma, 3, Dash, 3, Comma, 1, Dash, 2>>,
   <<Word + 1, Dash, Word + 2>>}
  \cup {<<a, Dash, b>> : a, b \in Numbers}
  \cup {<<a, Dash, b, Comma, c, Dash, d>> : a, b, c, d \in Numbers}
OneText == {<<1, Dash, 1>>}
Streams == {3, 4}
OneStream == {4}

\* On the lines of the grid, between them, and one of each.
Places ==
  {[a \in Antennas |-> CASE a = 0 -> <<0, 0>> [] a = 1 -> p [] OTHER -> <<2, 2>>] :
     p \in {<<4, 0>>, <<0, 1>>, <<-1, 4>>, <<2, 3>>}}
OnePlace == {[a \in Antennas |-> <<a, 0>>]}

\* A source anywhere, and beside it a weaker one or a hole in the sky.
Sources ==
  {Blank} \cup
  {[Blank EXCEPT ![k] = 2, ![<<k[1], (k[2] + 1) % Size>>] = IF (k[1] + k[2]) % 2 = 0 THEN 1 ELSE -1] :
     k \in Pixels}
OneSource == {Blank, [Blank EXCEPT ![<<1, 1>>] = 1]}

=============================================================================
