----------------------------- MODULE ConfigText -----------------------------
(***************************************************************************)
(* The channel ranges in the configuration of the server.  A text is a     *)
(* sequence of tokens: a run of digits is its number, and Comma and Dash   *)
(* are the characters the parser knows.  Any other character ends the      *)
(* program and is left out.                                                *)
(***************************************************************************)
EXTENDS Integers, Sequences, SequencesExt

CONSTANTS
  Word,              \* 2^16, the values of a quint16
  MaxMergeChannels   \* MAX_MERGE_CHANNELS

ASSUME TextAssumption ==
  /\ MaxMergeChannels \in Nat \ {0}
  /\ Word \in Nat \ (0..MaxMergeChannels)

Comma == -1
Dash == -2

U16(n) == n % Word

-----------------------------------------------------------------------------
(***************************************************************************)
(* ParseChannels(): a dash stores the last number as the first channel of  *)
(* the range, a comma and the end store it as the last one.  A new         *)
(* ChannelRange is zero, and the number before the first is -1.            *)
(***************************************************************************)
NewRange == [c1 |-> 0, c2 |-> 0]

\* Mutant: a comma stores the number that comes next.
CloseNothing(s) == s

CloseRange(s) == [s EXCEPT !.ranges[Len(s.ranges)].c2 = U16(s.number)]

ReadToken(s, t) ==
  IF t = Comma THEN [CloseRange(s) EXCEPT !.ranges = Append(@, NewRange)]
  ELSE IF t = Dash THEN [s EXCEPT !.ranges[Len(s.ranges)].c1 = U16(s.number)]
  ELSE [s EXCEPT !.number = t]

Parsed(text) ==
  CloseRange(FoldLeft(ReadToken, [number |-> -1, ranges |-> <<NewRange>>], text)).ranges

\* What the range is sized for, and the channels the loops go through.
Channels(r) == U16(r.c2 - r.c1 + 1)
Width(r) == r.c2 - r.c1 + 1

Accepted(ranges) ==
  \A i \in DOMAIN ranges :
    ranges[i].c1 <= ranges[i].c2 /\ Channels(ranges[i]) <= MaxMergeChannels

(***************************************************************************)
(* The order std::sort() leaves.  The comparison is an order only if no    *)
(* two ranges overlap; otherwise anything may come out.                    *)
(***************************************************************************)
Before(q, r) == q.c2 < r.c1
Disjoint(ranges) ==
  \A i, j \in DOMAIN ranges : i # j => Before(ranges[i], ranges[j]) \/ Before(ranges[j], ranges[i])
Arrangements(ranges) ==
  LET D == DOMAIN ranges
      Orders == {I \in [D -> D] : IsInjective(I)}
  IN {s \in {[i \in D |-> ranges[I[i]]] : I \in Orders} :
        Disjoint(ranges) => \A i, j \in D : i < j => Before(s[i], s[j])}

=============================================================================
