--------------------------- MODULE ChunkOfferProofs ---------------------------
(***************************************************************************)
(* What StreamChunker offers to the pipelines, for any number of streams,  *)
(* slots, ranges and packets: proofs about the history of the chunks that  *)
(* were published.  They rest on the invariant IInv of                     *)
(* StreamChunkerProofs and add, for every stream, what its history says    *)
(* (Recorded), how far it is behind the stream (Placed), and what the call *)
(* of next() has in its hands (InHand).                                    *)
(***************************************************************************)
EXTENDS StreamChunkerProofs

Good(c, n) == sent[c][n].good
Start(c, n) == sent[c][n].start

Finished(c, i) ==
  \E j \in 1..Len(offers[c]) :
    offers[c][j] = [offers[c][i] EXCEPT !.range = NumRanges]

(***************************************************************************)
(* The history.  That no whole packet lies after mStartInterval is what    *)
(* keeps packets apart that are not neighbours.                            *)
(***************************************************************************)
Recorded(c) ==
  /\ \A i \in 1..Len(offers[c]) :
       /\ Good(c, offers[c][i].pkt)
       /\ \/ offers[c][i].range = 1
          \/ (i > 1 /\ offers[c][i - 1].pkt = offers[c][i].pkt
                    /\ offers[c][i - 1].range = offers[c][i].range - 1)
       /\ ~offers[c][i].whole => offers[c][i].range < NumRanges
       /\ offers[c][i].whole => Start(c, offers[c][i].pkt) <= lastStart[c]
       /\ offers[c][i].whole =>
            Finished(c, i) \/ (pc[c] = "release" /\ offers[c][i].pkt = hdr[c].pkt)
  /\ \A i, j \in 1..Len(offers[c]) :
       offers[c][i].pkt = offers[c][j].pkt => offers[c][i].whole = offers[c][j].whole
  /\ \A i, j \in 1..Len(offers[c]) :
       i < j /\ offers[c][i].whole /\ offers[c][j].whole
             /\ offers[c][i].pkt # offers[c][j].pkt =>
         /\ offers[c][i].pkt < offers[c][j].pkt
         /\ Start(c, offers[c][j].pkt) - Start(c, offers[c][i].pkt) >= MinInterval

(***************************************************************************)
(* Everything that was offered of a stream, and every body of visibilities *)
(* it left in memory, is of packets before the n-th.                       *)
(***************************************************************************)
Past(c, n) ==
  /\ \A i \in 1..Len(offers[c]) : offers[c][i].pkt < n
  /\ \A s \in Slots : memory[s].body \in ChunkIds /\ memory[s].body.from = c =>
                        memory[s].body.pkt < n

Placed(c) ==
  /\ Past(c, Len(sent[c]) + 1)
  /\ pc[c] \in {"idle", "header"} /\ wire[c] # <<>> => Past(c, Head(wire[c]).pkt)
  /\ pc[c] \in {"block", "check", "alloc", "fill"} => Past(c, hdr[c].pkt)
  /\ pc[c] = "release" => Past(c, hdr[c].pkt + 1)
  /\ pc[c] \in {"check", "alloc", "fill", "release"} /\ wire[c] # <<>> =>
       Head(wire[c]).pkt > hdr[c].pkt

(***************************************************************************)
(* The slots in hand, of which k have been published before them; w says   *)
(* whether this packet was filled.                                         *)
(***************************************************************************)
Numbered(c, k) ==
  \A i \in 1..Len(held[c]) :
    memory[held[c][i]].head = [from |-> c, pkt |-> hdr[c].pkt, range |-> k + i]

LettingGo(c, k, w) ==
  /\ Numbered(c, k)
  /\ k + Len(held[c]) <= NumRanges
  /\ w <=> k + Len(held[c]) = NumRanges
  /\ \A i \in 1..Len(held[c]) :
       w <=> memory[held[c][i]].body = memory[held[c][i]].head
  /\ \A i \in 1..Len(offers[c]) :
       offers[c][i].pkt = hdr[c].pkt =>
         offers[c][i].whole = w /\ offers[c][i].range <= k
  /\ k > 0 => /\ Len(offers[c]) > 0
              /\ offers[c][Len(offers[c])] =
                   [pkt |-> hdr[c].pkt, range |-> k, whole |-> w]
  /\ w => /\ lastStart[c] = Start(c, hdr[c].pkt)
          /\ \A i \in 1..Len(offers[c]) :
               offers[c][i].whole /\ offers[c][i].pkt # hdr[c].pkt =>
                 Start(c, hdr[c].pkt) - Start(c, offers[c][i].pkt) >= MinInterval

InHand(c) ==
  /\ pc[c] \in {"alloc", "fill", "release"} => Good(c, hdr[c].pkt)
  /\ pc[c] \in {"alloc", "fill"} =>
       /\ Numbered(c, 0)
       /\ Start(c, hdr[c].pkt) - lastStart[c] >= MinInterval
  /\ pc[c] = "fill" => Len(held[c]) = NumRanges
  /\ pc[c] = "release" =>
       \E k \in 0..NumRanges, w \in BOOLEAN : LettingGo(c, k, w)

Offering(c) == Recorded(c) /\ Placed(c) /\ InHand(c)

OfferInv == IInv /\ \A c \in Chunkers : Offering(c)

-----------------------------------------------------------------------------
(***************************************************************************)
(* What IInv says of one stream.                                           *)
(***************************************************************************)
LEMMA Facts ==
  ASSUME IInv, NEW c \in Chunkers
  PROVE  /\ sent[c] \in Seq([start : Times, good : BOOLEAN])
         /\ Len(sent[c]) \in Nat
         /\ \A n \in 1..Len(sent[c]) : Start(c, n) \in Int /\ Good(c, n) \in BOOLEAN
         /\ wire[c] \in Seq(Units)
         /\ wire[c] # <<>> => Head(wire[c]).pkt \in Nat
         /\ held[c] \in Seq(Slots)
         /\ Len(held[c]) \in Nat
         /\ \A i \in 1..Len(held[c]) : held[c][i] \in HeldSlots(c) /\ held[c][i] \in Slots
         /\ offers[c] \in Seq([pkt : Packets, range : 1..NumRanges, whole : BOOLEAN])
         /\ Len(offers[c]) \in Nat
         /\ \A i \in 1..Len(offers[c]) :
              /\ offers[c][i] \in [pkt : Packets, range : 1..NumRanges, whole : BOOLEAN]
              /\ offers[c][i].pkt \in Nat \ {0}
              /\ offers[c][i].range \in 1..NumRanges
              /\ offers[c][i].whole \in BOOLEAN
         /\ lastStart[c] \in Int
         /\ MinInterval \in Nat
         /\ NumRanges \in Nat \ {0}
<1>1. /\ sent[c] \in Seq([start : Times, good : BOOLEAN])
      /\ wire[c] \in Seq(Units)
      /\ held[c] \in Seq(Slots)
      /\ offers[c] \in Seq([pkt : Packets, range : 1..NumRanges, whole : BOOLEAN])
      /\ lastStart[c] \in Times
  BY DEF IInv, Framing, StreamTypes, Storing
<1>2. Len(sent[c]) \in Nat /\ Len(held[c]) \in Nat /\ Len(offers[c]) \in Nat
  BY <1>1, LenProperties
<1>3. \A n \in 1..Len(sent[c]) : sent[c][n] \in [start : Times, good : BOOLEAN]
  BY <1>1, ElementOfSeq
<1>4. \A n \in 1..Len(sent[c]) : Start(c, n) \in Int /\ Good(c, n) \in BOOLEAN
  BY <1>3, ChunkerAssumption DEF Start, Good, Times
<1>5. wire[c] # <<>> => Head(wire[c]).pkt \in Nat
  <2>1. wire[c] # <<>> => Head(wire[c]) \in Units
    BY <1>1, HeadTailProperties
  <2> QED
    BY <2>1, StoreAssumption DEF Units, Packets
<1>6. ASSUME NEW i \in 1..Len(held[c])
      PROVE  held[c][i] \in HeldSlots(c) /\ held[c][i] \in Slots
  <2>1. DOMAIN held[c] = 1..Len(held[c])
    BY <1>1, LenProperties
  <2>2. held[c][i] \in Slots
    BY <1>1, ElementOfSeq
  <2> QED
    BY <2>1, <2>2 DEF HeldSlots, Range
<1>7. ASSUME NEW i \in 1..Len(offers[c])
      PROVE  /\ offers[c][i] \in [pkt : Packets, range : 1..NumRanges, whole : BOOLEAN]
             /\ offers[c][i].pkt \in Nat \ {0}
             /\ offers[c][i].range \in 1..NumRanges
             /\ offers[c][i].whole \in BOOLEAN
  <2>1. offers[c][i] \in [pkt : Packets, range : 1..NumRanges, whole : BOOLEAN]
    BY <1>1, ElementOfSeq
  <2> QED
    BY <2>1, StoreAssumption DEF Packets
<1>8. lastStart[c] \in Int
  BY <1>1, ChunkerAssumption DEF Times
<1> QED
  BY <1>1, <1>2, <1>4, <1>5, <1>6, <1>7, <1>8, ChunkerAssumption, StoreAssumption

\* The packet next() is at was sent.
LEMMA HeaderSent ==
  ASSUME IInv, NEW c \in Chunkers, pc[c] \notin {"idle", "header"}
  PROVE  hdr[c].pkt \in 1..Len(sent[c]) /\ hdr[c].pkt \in Packets
<1>1. hdr[c] \in Units /\ hdr[c].pkt <= Len(sent[c]) /\ Len(sent[c]) \in Nat
  BY Facts DEF IInv, Framing, InStep
<1>2. hdr[c].pkt \in 1..MaxPackets
  BY <1>1 DEF Units, Packets
<1> QED
  BY <1>1, <1>2, StoreAssumption DEF Packets

LEMMA PastTransitive ==
  ASSUME IInv, NEW c \in Chunkers, NEW m \in Nat, NEW n \in Nat, m <= n, Past(c, m)
  PROVE  Past(c, n)
<1>1. ASSUME NEW i \in 1..Len(offers[c]) PROVE offers[c][i].pkt < n
  <2>1. offers[c][i].pkt \in Nat \ {0}
    BY Facts
  <2>2. offers[c][i].pkt < m
    BY DEF Past
  <2> QED
    BY <2>1, <2>2
<1>2. ASSUME NEW s \in Slots, memory[s].body \in ChunkIds, memory[s].body.from = c
      PROVE  memory[s].body.pkt < n
  <2>1. memory[s].body.pkt \in Int /\ memory[s].body.pkt < m
    BY <1>2, StoreAssumption DEF Past, ChunkIds
  <2> QED
    BY <2>1
<1> QED
  BY <1>1, <1>2 DEF Past

LEMMA OfferInit == Init => \A c \in Chunkers : Offering(c)
<1> SUFFICES ASSUME Init, NEW c \in Chunkers PROVE Offering(c)
  OBVIOUS
<1>1. /\ offers[c] = <<>> /\ wire[c] = <<>> /\ pc[c] = "idle" /\ Len(<<>>) = 0
      /\ \A s \in Slots : memory[s].body = Blank
  BY DEF Init, StoreInit
<1>2. \A n : Past(c, n)
  BY <1>1, BlankAssumption DEF Past
<1>3. Recorded(c)
  BY <1>1 DEF Recorded
<1>4. Placed(c) /\ InHand(c)
  BY <1>1, <1>2 DEF Placed, InHand
<1> QED
  BY <1>3, <1>4 DEF Offering

-----------------------------------------------------------------------------
(***************************************************************************)
(* A stream that a step does not move: other streams write slots it does   *)
(* not hold, and only with chunks of their own.                            *)
(***************************************************************************)
Foreign(d) ==
  /\ \A s \in HeldSlots(d) : memory'[s] = memory[s]
  /\ \A s \in Slots : memory'[s].body = memory[s].body \/ memory'[s].body.from # d

Bystanding(d) ==
  /\ sent'[d] = sent[d] /\ wire'[d] = wire[d] /\ pc'[d] = pc[d] /\ hdr'[d] = hdr[d]
  /\ held'[d] = held[d] /\ lastStart'[d] = lastStart[d] /\ offers'[d] = offers[d]
  /\ Foreign(d)

LEMMA PastForeign ==
  ASSUME NEW d \in Chunkers, NEW n, offers'[d] = offers[d], Foreign(d), Past(d, n)
  PROVE  Past(d, n)'
BY DEF Past, Foreign

LEMMA NumberedForeign ==
  ASSUME IInv, NEW d \in Chunkers, NEW k, held'[d] = held[d], hdr'[d] = hdr[d], Foreign(d),
         Numbered(d, k)
  PROVE  Numbered(d, k)'
BY Facts DEF Numbered, Foreign

LEMMA Bystander ==
  ASSUME IInv, NEW d \in Chunkers, Offering(d), Bystanding(d)
  PROVE  Offering(d)'
<1>1. Recorded(d)'
  BY DEF Offering, Bystanding, Recorded, Good, Start, Finished
<1>2. \A n : Past(d, n) => Past(d, n)'
  BY PastForeign DEF Bystanding
<1>3. Placed(d)'
  BY <1>2 DEF Offering, Bystanding, Placed, Past
<1>4. \A k : Numbered(d, k) => Numbered(d, k)'
  BY NumberedForeign DEF Bystanding
<1>5. ASSUME NEW k, NEW w, LettingGo(d, k, w) PROVE LettingGo(d, k, w)'
  <2>1. \A i \in 1..Len(held[d]) : memory'[held[d][i]] = memory[held[d][i]]
    BY Facts DEF Bystanding, Foreign
  <2> QED
    BY <1>4, <1>5, <2>1 DEF LettingGo, Bystanding, Start
<1>6. InHand(d)'
  BY <1>4, <1>5 DEF Offering, InHand, Bystanding, Good, Start
<1> QED
  BY <1>1, <1>3, <1>6 DEF Offering

-----------------------------------------------------------------------------
(***************************************************************************)
(* The correlator and the connection: what was sent stays as it was sent,  *)
(* and a new unit is of the newest packet.                                 *)
(***************************************************************************)
LEMMA StreamOffering ==
  ASSUME IInv, IInv', NEW c \in Chunkers, Offering(c),
         UNCHANGED <<memory, held, lastStart, offers, pc, hdr>>,
         Len(sent[c]) <= Len(sent'[c]),
         \A n \in 1..Len(sent[c]) : sent'[c][n] = sent[c][n],
         wire'[c] # <<>> => \/ wire[c] # <<>> /\ Head(wire'[c]).pkt = Head(wire[c]).pkt
                            \/ pc[c] = "block"
                            \/ Head(wire'[c]).pkt = Len(sent[c]) + 1
  PROVE  Offering(c)'
<1>1. \A n : Past(c, n)' <=> Past(c, n)
  BY DEF Past
<1>2. \A i \in 1..Len(offers[c]) : offers[c][i].pkt \in 1..Len(sent[c])
  <2> SUFFICES ASSUME NEW i \in 1..Len(offers[c])
               PROVE  offers[c][i].pkt \in 1..Len(sent[c])
    OBVIOUS
  <2>1. offers[c][i].pkt \in Nat \ {0} /\ Len(sent[c]) \in Nat
    BY Facts
  <2>2. offers[c][i].pkt < Len(sent[c]) + 1
    BY DEF Offering, Placed, Past
  <2> QED
    BY <2>1, <2>2
<1>3. \A n \in 1..Len(sent[c]) : Good(c, n)' = Good(c, n) /\ Start(c, n)' = Start(c, n)
  BY DEF Good, Start
<1>4. Recorded(c)'
  <2>1. \A i \in 1..Len(offers[c]) : Finished(c, i)' <=> Finished(c, i)
    BY DEF Finished
  <2> QED
    BY <1>2, <1>3, <2>1, ZenonT(40) DEF Offering, Recorded
<1>5. Placed(c)'
  <2>1. /\ Len(sent[c]) \in Nat /\ Len(sent'[c]) \in Nat
        /\ pc[c] \notin {"idle", "header"} => hdr[c].pkt \in 1..Len(sent[c])
    BY Facts, HeaderSent
  <2>2. Past(c, Len(sent'[c]) + 1)
    BY <2>1, PastTransitive DEF Offering, Placed
  <2>3. pc[c] \in {"idle", "header"} /\ wire'[c] # <<>> => Past(c, Head(wire'[c]).pkt)
    BY DEF Offering, Placed
  <2>4. pc[c] \in {"check", "alloc", "fill", "release"} /\ wire'[c] # <<>> =>
          Head(wire'[c]).pkt > hdr[c].pkt
    BY <2>1 DEF Offering, Placed
  <2> QED
    BY <1>1, <2>2, <2>3, <2>4 DEF Offering, Placed
<1>6. InHand(c)'
  <2>1. \A k : Numbered(c, k)' <=> Numbered(c, k)
    BY DEF Numbered
  <2>2. pc[c] \notin {"idle", "header"} => hdr[c].pkt \in 1..Len(sent[c])
    BY HeaderSent
  <2>3. ASSUME NEW k, NEW w, LettingGo(c, k, w), pc[c] = "release" PROVE LettingGo(c, k, w)'
    BY <1>2, <1>3, <2>1, <2>2, <2>3 DEF LettingGo
  <2> QED
    BY <1>3, <2>1, <2>2, <2>3 DEF Offering, InHand
<1> QED
  BY <1>4, <1>5, <1>6 DEF Offering

LEMMA CorrelatorOffering ==
  ASSUME IInv, IInv', NEW c \in Chunkers, Offering(c), Correlator(c) \/ NewDevice(c)
  PROVE  Offering(c)'
<1>0. /\ sent[c] \in Seq([start : Times, good : BOOLEAN]) /\ wire[c] \in Seq(Units)
      /\ sent \in [Chunkers -> Seq([start : Times, good : BOOLEAN])]
      /\ wire \in [Chunkers -> Seq(Units)]
      /\ FramedAt(c) /\ InStep(c) /\ Len(sent[c]) \in Nat
  BY Facts DEF IInv, Framing, StreamTypes
<1>1. UNCHANGED <<memory, held, lastStart, offers, pc, hdr>>
  BY DEF Correlator, Connect, SendHeader, SendBlock, Disconnect, NewDevice, nextVars, storeVars
<1>2. ASSUME NEW S, NEW w \in Seq(S), NEW u \in S
      PROVE  /\ Len(Append(w, u)) = Len(w) + 1
             /\ \A i \in 1..Len(w) : Append(w, u)[i] = w[i]
             /\ Head(Append(w, u)) = IF w = <<>> THEN u ELSE Head(w)
  <2>1. /\ Append(w, u) \in Seq(S) /\ Append(w, u) # <<>> /\ Len(w) \in Nat
        /\ Len(Append(w, u)) = Len(w) + 1
        /\ \A i \in 1..Len(w) : Append(w, u)[i] = w[i]
        /\ Append(w, u)[Len(w) + 1] = u
    BY AppendProperties, LenProperties
  <2>2. w = <<>> <=> Len(w) = 0
    BY EmptySeq
  <2>3. Head(Append(w, u)) = Append(w, u)[1] /\ (w # <<>> => Head(w) = w[1])
    BY <2>1
  <2> QED
    BY <2>1, <2>2, <2>3
<1>3. CASE Connect(c) \/ Disconnect(c) \/ NewDevice(c)
  <2>1. sent' = sent /\ (wire'[c] = wire[c] \/ wire'[c] = <<>>)
    BY <1>0, <1>3 DEF Connect, Disconnect, NewDevice
  <2> QED
    BY <1>0, <1>1, <2>1, StreamOffering, SMTT(30)
<1>4. ASSUME NEW start \in Times, NEW good \in BOOLEAN, SendHeader(c, start, good)
      PROVE  Offering(c)'
  <2> DEFINE p == [start |-> start, good |-> good]
             u == [pkt |-> Len(sent[c]) + 1, part |-> "header"]
  <2>1. sent'[c] = Append(sent[c], p) /\ wire'[c] = Append(wire[c], u)
    BY <1>0, <1>4 DEF SendHeader
  <2>2. u \in Units
    BY <1>0, <1>4, StoreAssumption DEF SendHeader, Units, Packets
  <2>3. /\ Len(sent'[c]) = Len(sent[c]) + 1
        /\ \A n \in 1..Len(sent[c]) : sent'[c][n] = sent[c][n]
    BY <1>0, <1>2, <2>1
  <2>4. Head(wire'[c]) = IF wire[c] = <<>> THEN u ELSE Head(wire[c])
    BY <1>0, <1>2, <2>1, <2>2
  <2>5. Len(sent[c]) <= Len(sent'[c])
    BY <1>0, <2>3
  <2>6. \/ wire[c] # <<>> /\ Head(wire'[c]).pkt = Head(wire[c]).pkt
        \/ Head(wire'[c]).pkt = Len(sent[c]) + 1
    BY <2>4
  <2> QED
    BY <1>1, <2>3, <2>5, <2>6, StreamOffering
<1>5. CASE SendBlock(c)
  <2> DEFINE u == [pkt |-> Len(sent[c]), part |-> "block"]
  <2>1. sent' = sent /\ wire'[c] = Append(wire[c], u) /\ owed[c] /\ link[c] = "up"
    BY <1>0, <1>5 DEF SendBlock
  <2>2. u \in Units
    BY <1>0, <2>1, StoreAssumption DEF InStep, Units, Packets, IInv, Framing, StreamTypes
  <2>3. Head(wire'[c]) = IF wire[c] = <<>> THEN u ELSE Head(wire[c])
    BY <1>0, <1>2, <2>1, <2>2
  <2>4. wire[c] = <<>> => pc[c] = "block"
    BY <1>0, <2>1 DEF InStep
  <2>5. \/ wire[c] # <<>> /\ Head(wire'[c]).pkt = Head(wire[c]).pkt
        \/ pc[c] = "block"
    BY <2>3, <2>4
  <2>6. Len(sent[c]) <= Len(sent'[c]) /\ \A n \in 1..Len(sent[c]) : sent'[c][n] = sent[c][n]
    BY <1>0, <2>1
  <2> QED
    BY <1>1, <2>5, <2>6, StreamOffering
<1> QED
  BY <1>3, <1>4, <1>5 DEF Correlator

-----------------------------------------------------------------------------
(***************************************************************************)
(* The steps of next() that only move on: the header that is read is of a  *)
(* packet later than everything offered, and its block is of the same      *)
(* packet.                                                                 *)
(***************************************************************************)
LEMMA SameRecord ==
  ASSUME NEW c \in Chunkers, Recorded(c),
         UNCHANGED <<sent, lastStart, offers>>,
         pc[c] = "release" => pc'[c] = "release" /\ hdr'[c] = hdr[c]
  PROVE  Recorded(c)'
BY DEF Recorded, Finished, Good, Start

LEMMA ReadOffering ==
  ASSUME IInv, IInv', NEW c \in Chunkers, Offering(c), ReadHeader(c) \/ ReadBlock(c)
  PROVE  Offering(c)'
<1>1. /\ wire[c] \in Seq(Units) /\ wire[c] # <<>> /\ InSequence(wire[c])
      /\ FramedAt(c)
      /\ wire \in [Chunkers -> Seq(Units)] /\ pc \in [Chunkers -> PCs]
      /\ hdr \in [Chunkers -> Units \cup {NoUnit}]
  BY DEF IInv, Framing, StreamTypes, FramedAt, ReadHeader, ReadBlock
<1>2. /\ UNCHANGED <<sent, memory, held, lastStart, offers>>
      /\ wire'[c] = Tail(wire[c])
  BY <1>1 DEF ReadHeader, ReadBlock, storeVars
<1>3. \A n : Past(c, n)' <=> Past(c, n)
  BY <1>2 DEF Past
<1>4. CASE ReadHeader(c)
  <2>1. pc[c] = "header" /\ pc'[c] = "block" /\ hdr'[c] = Head(wire[c])
    BY <1>1, <1>4 DEF ReadHeader
  <2>2. Recorded(c)'
    BY <1>2, <2>1, SameRecord DEF Offering
  <2>3. Placed(c)'
    BY <1>1, <1>2, <1>3, <2>1 DEF Offering, Placed, Past
  <2> QED
    BY <2>1, <2>2, <2>3 DEF Offering, InHand
<1>5. CASE ReadBlock(c)
  <2>1. pc[c] = "block" /\ pc'[c] = "check" /\ hdr' = hdr
    BY <1>1, <1>5 DEF ReadBlock
  <2>2. Recorded(c)'
    BY <1>2, <2>1, SameRecord DEF Offering
  <2>3. /\ hdr[c].pkt \in Packets
        /\ Head(wire[c]) = [pkt |-> hdr[c].pkt, part |-> "block"]
    BY <1>1, <2>1, HeaderSent DEF FramedAt
  <2>4. Tail(wire[c]) # <<>> => Head(Tail(wire[c])).pkt = hdr[c].pkt + 1
    <3>1. Tail(wire[c]) # <<>> =>
            /\ Head(Tail(wire[c])) = wire[c][2]
            /\ \/ /\ Head(wire[c]).part = "header"
                  /\ wire[c][2] = [pkt |-> Head(wire[c]).pkt, part |-> "block"]
               \/ /\ Head(wire[c]).part = "block"
                  /\ wire[c][2] = [pkt |-> Head(wire[c]).pkt + 1, part |-> "header"]
      BY <1>1, TailInSequence
    <3> QED
      BY <2>3, <3>1
  <2>5. Tail(wire[c]) # <<>> => Head(Tail(wire[c])).pkt > hdr[c].pkt
    BY <2>3, <2>4, StoreAssumption DEF Packets
  <2>6. Placed(c)'
    BY <1>2, <1>3, <2>1, <2>5 DEF Offering, Placed, Past
  <2> QED
    BY <2>1, <2>2, <2>6 DEF Offering, InHand
<1> QED
  BY <1>4, <1>5

(***************************************************************************)
(* Where next() decides: nothing is held when it begins to ask for         *)
(* storage, and nothing that is held was filled when the storage ends.     *)
(***************************************************************************)
LEMMA DecideOffering ==
  ASSUME IInv, IInv', NEW c \in Chunkers, Offering(c),
         EnterNext(c) \/ Skip(c) \/ Accept(c)
  PROVE  Offering(c)'
<1>1. /\ UNCHANGED <<sent, wire, hdr, memory, held, lastStart, offers>>
      /\ \/ pc[c] = "idle" /\ pc'[c] = "header"
         \/ pc[c] = "check" /\ pc'[c] = "idle"
         \/ pc[c] = "check" /\ pc'[c] = "alloc" /\ HasMagic(c) /\ ~TooSoon(c)
  BY DEF IInv, Framing, StreamTypes, EnterNext, Skip, Accept, streamVars, storeVars
<1>2. \A n : Past(c, n)' <=> Past(c, n)
  BY <1>1 DEF Past
<1>3. Recorded(c)'
  BY <1>1, SameRecord DEF Offering
<1>4. Placed(c)'
  <2>1. pc[c] = "check" /\ wire[c] # <<>> => Past(c, Head(wire[c]).pkt)
    <3>1. pc[c] = "check" => hdr[c].pkt \in Nat
      BY HeaderSent, StoreAssumption DEF Packets
    <3> QED
      BY <3>1, Facts, PastTransitive DEF Offering, Placed
  <2> QED
    BY <1>1, <1>2, <2>1 DEF Offering, Placed, Past
<1>5. InHand(c)'
  <2>1. CASE pc'[c] = "alloc"
    <3>1. held[c] = <<>> /\ Len(held[c]) = 0
      BY <1>1, <2>1, EmptySeq DEF IInv, Storing, Holding
    <3>2. /\ Good(c, hdr[c].pkt)
          /\ Start(c, hdr[c].pkt) - lastStart[c] >= MinInterval
      <4>1. /\ hdr[c].pkt \in 1..Len(sent[c])
            /\ Start(c, hdr[c].pkt) \in Int /\ lastStart[c] \in Int /\ MinInterval \in Nat
        BY <1>1, <2>1, HeaderSent, Facts
      <4>2. ~(Start(c, hdr[c].pkt) - lastStart[c] < MinInterval)
        BY <1>1, <2>1 DEF TooSoon, StartTime, Start
      <4>3. Good(c, hdr[c].pkt)
        BY <1>1, <2>1 DEF HasMagic, Good
      <4> QED
        BY <4>1, <4>2, <4>3
    <3> QED
      BY <1>1, <2>1, <3>1, <3>2 DEF InHand, Numbered, Good, Start
  <2>2. CASE pc'[c] # "alloc"
    BY <1>1, <2>2 DEF InHand
  <2> QED
    BY <2>1, <2>2
<1> QED
  BY <1>3, <1>4, <1>5 DEF Offering

LEMMA AllocateOffering ==
  ASSUME IInv, IInv', NEW c \in Chunkers, Offering(c), NEW s \in Slots, Allocate(c, s)
  PROVE  Offering(c)'
<1>1. /\ s \notin HeldSlots(c)
      /\ held[c] \in Seq(Slots) /\ Len(held[c]) \in Nat
      /\ \A i \in 1..Len(held[c]) : held[c][i] \in HeldSlots(c) /\ held[c][i] \in Slots
  BY ObtainFacts, Facts DEF IInv, Allocate
<1>2. /\ UNCHANGED <<sent, wire, hdr, lastStart, offers>>
      /\ pc[c] = "alloc" /\ pc'[c] \in {"alloc", "fill"}
      /\ pc'[c] = "fill" => Len(held[c]) + 1 = NumRanges
      /\ held'[c] = Append(held[c], s)
      /\ memory'[s].head = [from |-> c, pkt |-> hdr[c].pkt, range |-> Len(held[c]) + 1]
      /\ \A t \in Slots : t # s => memory'[t] = memory[t]
      /\ \A t \in Slots : memory'[t].body = memory[t].body
  BY DEF Allocate, LastRange, NextRange, IInv, Framing, StreamTypes, Storing, StoreTypeInv,
         streamVars
<1>3. /\ Len(held'[c]) = Len(held[c]) + 1
      /\ \A i \in 1..Len(held[c]) : held'[c][i] = held[c][i]
      /\ held'[c][Len(held[c]) + 1] = s
  BY <1>1, <1>2, AppendProperties
<1>4. \A n : Past(c, n)' <=> Past(c, n)
  BY <1>2 DEF Past
<1>5. Recorded(c)'
  BY <1>2, SameRecord DEF Offering
<1>6. Placed(c)'
  BY <1>2, <1>4 DEF Offering, Placed, Past
<1>7. ASSUME NEW i \in 1..Len(held'[c])
      PROVE  memory'[held'[c][i]].head = [from |-> c, pkt |-> hdr[c].pkt, range |-> 0 + i]
  <2>1. CASE i = Len(held[c]) + 1
    BY <1>1, <1>2, <1>3, <2>1
  <2>2. CASE i # Len(held[c]) + 1
    <3>1. i \in 1..Len(held[c])
      BY <1>1, <1>3, <2>2
    <3>2. held'[c][i] = held[c][i] /\ memory'[held[c][i]] = memory[held[c][i]]
      BY <1>1, <1>2, <1>3, <3>1
    <3> QED
      BY <1>2, <3>1, <3>2 DEF Offering, InHand, Numbered
  <2> QED
    BY <2>1, <2>2
<1>8. InHand(c)'
  BY <1>2, <1>3, <1>7 DEF Offering, InHand, Numbered, Good, Start
<1> QED
  BY <1>5, <1>6, <1>8 DEF Offering

LEMMA ShortageOffering ==
  ASSUME IInv, IInv', NEW c \in Chunkers, Offering(c), Shortage(c)
  PROVE  Offering(c)'
<1>1. /\ UNCHANGED <<sent, wire, hdr, memory, held, lastStart, offers>>
      /\ pc[c] = "alloc" /\ pc'[c] = "release"
      /\ Len(held[c]) < NumRanges
  BY DEF IInv, Framing, StreamTypes, Storing, Holding, Shortage, streamVars, storeVars
<1>2. hdr[c].pkt \in Nat /\ hdr[c].pkt \in 1..MaxPackets
  BY <1>1, HeaderSent, StoreAssumption DEF Packets
<1>3. \A n : Past(c, n)' <=> Past(c, n)
  BY <1>1 DEF Past
<1>4. Recorded(c)'
  BY <1>1, SameRecord DEF Offering
<1>5. Past(c, hdr[c].pkt) /\ Past(c, hdr[c].pkt + 1)
  BY <1>1, <1>2, PastTransitive DEF Offering, Placed
<1>6. Placed(c)'
  BY <1>1, <1>3, <1>5 DEF Offering, Placed, Past
<1>7. LettingGo(c, 0, FALSE)
  <2>1. Numbered(c, 0)
    BY <1>1 DEF Offering, InHand
  <2>2. ASSUME NEW i \in 1..Len(held[c])
        PROVE  memory[held[c][i]].body # memory[held[c][i]].head
    <3>1. held[c][i] \in Slots /\ held[c][i] \in HeldSlots(c)
      BY Facts
    <3>2. memory[held[c][i]].head \in ChunkIds
      BY <3>1 DEF IInv, Storing, Holding
    <3>3. memory[held[c][i]].head.from = c /\ memory[held[c][i]].head.pkt = hdr[c].pkt
      <4>1. memory[held[c][i]].head = [from |-> c, pkt |-> hdr[c].pkt, range |-> 0 + i]
        BY <2>1 DEF Numbered
      <4> QED
        BY <4>1
    <3> QED
      BY <1>2, <1>5, <3>1, <3>2, <3>3 DEF Past
  <2>3. \A i \in 1..Len(offers[c]) : offers[c][i].pkt # hdr[c].pkt
    BY <1>2, <1>5 DEF Past
  <2>4. Len(held[c]) \in Nat /\ NumRanges \in Nat
    BY Facts
  <2> QED
    BY <1>1, <2>1, <2>2, <2>3, <2>4 DEF LettingGo
<1>8. LettingGo(c, 0, FALSE)'
  BY <1>1, <1>7 DEF LettingGo, Numbered, Start
<1>9. InHand(c)'
  <2>1. 0 \in 0..NumRanges /\ FALSE \in BOOLEAN
    BY StoreAssumption
  <2> QED
    BY <1>1, <1>8, <2>1 DEF Offering, InHand, Good
<1> QED
  BY <1>4, <1>6, <1>9 DEF Offering

LEMMA FillOffering ==
  ASSUME IInv, IInv', NEW c \in Chunkers, Offering(c), Fill(c)
  PROVE  Offering(c)'
<1> DEFINE h == hdr[c].pkt
<1>1. /\ UNCHANGED <<sent, wire, hdr, held, offers>>
      /\ pc[c] = "fill" /\ pc'[c] = "release"
      /\ lastStart'[c] = Start(c, h)
      /\ blk[c].pkt = h
      /\ Len(held[c]) = NumRanges
      /\ Numbered(c, 0)
      /\ Past(c, h) /\ Past(c, Len(sent[c]) + 1)
      /\ Good(c, h)
      /\ Start(c, h) - lastStart[c] >= MinInterval
  <2>1. /\ FramedAt(c) /\ pc \in [Chunkers -> PCs] /\ lastStart \in [Chunkers -> Times]
        /\ Placed(c) /\ InHand(c)
    BY DEF IInv, Framing, StreamTypes, Storing, Offering
  <2>2. /\ UNCHANGED <<sent, wire, hdr, held, offers>>
        /\ pc[c] = "fill" /\ pc'[c] = "release"
        /\ lastStart'[c] = Start(c, h)
    BY <2>1 DEF Fill, streamVars, StartTime, Start
  <2>3. blk[c] = [pkt |-> hdr[c].pkt, part |-> "block"]
    BY <2>1, <2>2 DEF FramedAt
  <2>4. Past(c, h) /\ Past(c, Len(sent[c]) + 1)
    BY <2>1, <2>2 DEF Placed
  <2> QED
    BY <2>1, <2>2, <2>3, <2>4 DEF InHand
<1>2. /\ h \in Nat /\ h \in 1..Len(sent[c]) /\ Len(sent[c]) \in Nat
      /\ Start(c, h) \in Int /\ lastStart[c] \in Int /\ MinInterval \in Nat
  BY <1>1, HeaderSent, Facts
<1>3. \A s \in Slots :
        /\ s \in HeldSlots(c) =>
             memory'[s] = [memory[s] EXCEPT
                !.body = [from |-> c, pkt |-> h, range |-> memory[s].head.range]]
        /\ s \notin HeldSlots(c) => memory'[s] = memory[s]
        /\ memory[s] \in [head : Contents, body : Contents]
  BY <1>1 DEF Fill, IInv, Storing, StoreTypeInv
<1>4. ASSUME NEW s \in Slots
      PROVE  /\ memory'[s].head = memory[s].head
             /\ s \in HeldSlots(c) =>
                  memory'[s].body = [from |-> c, pkt |-> h, range |-> memory[s].head.range]
             /\ s \notin HeldSlots(c) => memory'[s].body = memory[s].body
  BY <1>3
<1>5. ASSUME NEW n \in Nat, h < n, Past(c, n) PROVE Past(c, n)'
  <2>1. ASSUME NEW s \in Slots, memory'[s].body \in ChunkIds, memory'[s].body.from = c
        PROVE  memory'[s].body.pkt < n
    <3>1. CASE s \in HeldSlots(c)
      <4>1. memory'[s].body = [from |-> c, pkt |-> h, range |-> memory[s].head.range]
        BY <1>4, <3>1
      <4> QED
        BY <1>5, <4>1
    <3>2. CASE s \notin HeldSlots(c)
      BY <1>4, <1>5, <2>1, <3>2 DEF Past
    <3> QED
      BY <3>1, <3>2
  <2> QED
    BY <1>1, <1>5, <2>1 DEF Past
<1>6. Placed(c)'
  <2>1. Past(c, h + 1)
    BY <1>1, <1>2, PastTransitive
  <2>2. Past(c, h + 1)' /\ Past(c, Len(sent[c]) + 1)'
    <3>1. h + 1 \in Nat /\ h < h + 1 /\ Len(sent[c]) + 1 \in Nat /\ h < Len(sent[c]) + 1
      BY <1>2
    <3> HIDE DEF h
    <3>2. \A n \in Nat : h < n /\ Past(c, n) =>
            /\ \A i \in 1..Len(offers'[c]) : offers'[c][i].pkt < n
            /\ \A s \in Slots : memory'[s].body \in ChunkIds /\ memory'[s].body.from = c =>
                                  memory'[s].body.pkt < n
      BY <1>5 DEF Past
    <3> QED
      BY <1>1, <2>1, <3>1, <3>2 DEF Past, h
  <2> QED
    BY <1>1, <2>2 DEF Offering, Placed, Past
<1>7. ASSUME NEW i \in 1..Len(offers[c]), offers[c][i].whole
      PROVE  /\ Start(c, offers[c][i].pkt) \in Int
             /\ Start(c, offers[c][i].pkt) <= lastStart[c]
             /\ Start(c, offers[c][i].pkt) <= Start(c, h)
             /\ Start(c, h) - Start(c, offers[c][i].pkt) >= MinInterval
  <2>1. offers[c][i].pkt \in Nat \ {0} /\ offers[c][i].pkt < Len(sent[c]) + 1
    BY <1>1, Facts DEF Past
  <2>2. /\ \A n \in 1..Len(sent[c]) : Start(c, n) \in Int
        /\ Len(sent[c]) \in Nat
    BY <1>2, Facts
  <2>3. offers[c][i].pkt \in 1..Len(sent[c])
    BY <2>1, <2>2
  <2>4. Start(c, offers[c][i].pkt) \in Int
    BY <2>2, <2>3
  <2>5. Start(c, offers[c][i].pkt) <= lastStart[c]
    BY <1>7, SMTT(30) DEF Offering, Recorded
  <2> QED
    BY <1>1, <1>2, <2>4, <2>5
<1>8. Recorded(c)'
  BY <1>1, <1>7 DEF Offering, Recorded, Finished, Good, Start
<1>9. LettingGo(c, 0, TRUE)'
  <2>1. ASSUME NEW i \in 1..Len(held[c])
        PROVE  /\ memory'[held[c][i]].head = [from |-> c, pkt |-> h, range |-> 0 + i]
               /\ memory'[held[c][i]].body = memory'[held[c][i]].head
    <3>1. held[c][i] \in Slots /\ held[c][i] \in HeldSlots(c)
      BY Facts
    <3>2. memory[held[c][i]].head = [from |-> c, pkt |-> h, range |-> 0 + i]
      BY <1>1 DEF Numbered
    <3> QED
      BY <1>4, <3>1, <3>2
  <2>2. \A i \in 1..Len(offers[c]) : offers[c][i].pkt # h
    BY <1>1, <1>2 DEF Past
  <2>3. 0 + Len(held[c]) = NumRanges /\ NumRanges \in Nat
    BY <1>1, Facts
  <2>4. Numbered(c, 0)'
    BY <1>1, <2>1 DEF Numbered
  <2>5. \A i \in 1..Len(offers'[c]) : offers'[c][i].pkt # hdr'[c].pkt
    BY <1>1, <2>2
  <2>6. \A i \in 1..Len(offers'[c]) :
          offers'[c][i].whole => Start(c, h) - Start(c, offers'[c][i].pkt) >= MinInterval
    BY <1>1, <1>7
  <2>7. \A i \in 1..Len(held'[c]) :
          TRUE <=> memory'[held'[c][i]].body = memory'[held'[c][i]].head
    BY <1>1, <2>1
  <2>8. /\ lastStart'[c] = Start(c, hdr[c].pkt)'
        /\ \A i \in 1..Len(offers'[c]) :
             offers'[c][i].whole =>
               Start(c, hdr[c].pkt)' - Start(c, offers[c][i].pkt)' >= MinInterval
    BY <1>1, <2>6 DEF Start
  <2>9. 0 + Len(held'[c]) = NumRanges /\ NumRanges \in Nat
    BY <1>1, <2>3
  <2> QED
    BY <2>4, <2>5, <2>7, <2>8, <2>9 DEF LettingGo
<1>10. InHand(c)'
  <2>1. 0 \in 0..NumRanges /\ TRUE \in BOOLEAN
    BY StoreAssumption
  <2> QED
    BY <1>1, <1>9, <2>1 DEF InHand, Good
<1> QED
  BY <1>6, <1>8, <1>10 DEF Offering

(***************************************************************************)
(* Publishing: the new entry of the history continues the run of ranges of *)
(* its packet, filled or not as the ones before it.                        *)
(***************************************************************************)
LEMMA PublishOffering ==
  ASSUME IInv, IInv', NEW c \in Chunkers, Offering(c), PublishNext(c)
  PROVE  Offering(c)'
<1> DEFINE h == hdr[c].pkt
           m == Len(offers[c])
<1>1. /\ UNCHANGED <<sent, wire, hdr, memory, pc, lastStart>>
      /\ pc[c] = "release" /\ held[c] # <<>>
      /\ held'[c] = Tail(held[c])
      /\ offers \in [Chunkers ->
                       Seq([pkt : Packets, range : 1..NumRanges, whole : BOOLEAN])]
      /\ held \in [Chunkers -> Seq(Slots)]
      /\ Good(c, h) /\ Past(c, h + 1) /\ Past(c, Len(sent[c]) + 1)
  BY DEF IInv, Storing, PublishNext, Publish, streamVars, Offering, InHand, Placed
<1>2. PICK k \in 0..NumRanges, w \in BOOLEAN : LettingGo(c, k, w)
  BY <1>1 DEF Offering, InHand
<1>3. /\ h \in Nat /\ h \in Packets /\ h \in 1..Len(sent[c]) /\ Len(sent[c]) \in Nat
      /\ m \in Nat /\ Len(held[c]) \in Nat \ {0} /\ NumRanges \in Nat \ {0} /\ k \in Nat
      /\ Start(c, h) \in Int /\ lastStart[c] \in Int /\ MinInterval \in Nat
  <2>1. Len(held[c]) # 0
    BY <1>1, Facts, EmptySeq
  <2> QED
    <3>1. h \in 1..Len(sent[c]) /\ h \in Packets
      BY <1>1, HeaderSent
    <3>2. /\ Len(sent[c]) \in Nat /\ Len(held[c]) \in Nat /\ m \in Nat
          /\ NumRanges \in Nat \ {0} /\ lastStart[c] \in Int /\ MinInterval \in Nat
          /\ Start(c, h) \in Int
      BY <3>1, Facts
    <3>3. h \in Nat
      BY <3>1, <3>2
    <3> QED
      BY <2>1, <3>1, <3>2, <3>3
<1>4. k + 1 \in 1..NumRanges /\ (~w => k + 1 < NumRanges)
  <2>1. k + Len(held[c]) <= NumRanges /\ (w <=> k + Len(held[c]) = NumRanges)
    BY <1>2 DEF LettingGo
  <2> QED
    BY <1>3, <2>1
<1> DEFINE o == [pkt |-> h, range |-> k + 1, whole |-> w]
<1>5. offers'[c] = Append(offers[c], o)
  <2>1. /\ held[c][1] = Head(held[c]) /\ 1 \in 1..Len(held[c])
    BY <1>1, <1>3, Facts
  <2>2. /\ memory[Head(held[c])].head = [from |-> c, pkt |-> h, range |-> k + 1]
        /\ w <=> memory[Head(held[c])].body = memory[Head(held[c])].head
    BY <1>2, <2>1 DEF LettingGo, Numbered
  <2>3. offers'[c] = Append(offers[c],
          [pkt |-> memory[Head(held[c])].head.pkt, range |-> memory[Head(held[c])].head.range,
           whole |-> memory[Head(held[c])].body = memory[Head(held[c])].head])
    BY <1>1 DEF PublishNext
  <2>4. /\ memory[Head(held[c])].head.pkt = h
        /\ memory[Head(held[c])].head.range = k + 1
    BY <2>2
  <2>5. (memory[Head(held[c])].body = memory[Head(held[c])].head) = w
    BY <2>2
  <2> QED
    BY <2>3, <2>4, <2>5
<1>6. /\ Len(offers'[c]) = m + 1
      /\ \A i \in 1..m : offers'[c][i] = offers[c][i]
      /\ offers'[c][m + 1] = o
  <2>1. o \in [pkt : Packets, range : 1..NumRanges, whole : BOOLEAN]
    BY <1>3, <1>4
  <2> QED
    BY <1>1, <1>5, <2>1, AppendProperties
<1>7. /\ \A i \in 1..(m + 1) : i \in 1..m \/ i = m + 1
      /\ \A i \in 1..m : i \in 1..(m + 1)
      /\ o.pkt = h /\ o.range = k + 1 /\ o.whole = w
  BY <1>3
<1>r. /\ \A i \in 1..m :
          /\ offers[c][i].pkt \in Nat
          /\ Good(c, offers[c][i].pkt)
          /\ \/ offers[c][i].range = 1
             \/ (i > 1 /\ offers[c][i - 1].pkt = offers[c][i].pkt
                       /\ offers[c][i - 1].range = offers[c][i].range - 1)
          /\ ~offers[c][i].whole => offers[c][i].range < NumRanges
          /\ offers[c][i].whole => Start(c, offers[c][i].pkt) <= lastStart[c]
          /\ offers[c][i].whole => Finished(c, i) \/ offers[c][i].pkt = h
      /\ \A i, j \in 1..m :
          offers[c][i].pkt = offers[c][j].pkt => offers[c][i].whole = offers[c][j].whole
      /\ \A i, j \in 1..m :
          i < j /\ offers[c][i].whole /\ offers[c][j].whole
                /\ offers[c][i].pkt # offers[c][j].pkt =>
            /\ offers[c][i].pkt < offers[c][j].pkt
            /\ Start(c, offers[c][j].pkt) - Start(c, offers[c][i].pkt) >= MinInterval
  BY Facts DEF Offering, Recorded
<1>p. \A i \in 1..m : offers[c][i].pkt < h + 1 /\ offers[c][i].pkt < Len(sent[c]) + 1
  BY <1>1 DEF Past
<1> HIDE DEF m, o, h
<1>8. Past(c, h + 1)' /\ Past(c, Len(sent[c]) + 1)'
  <2>1. h < h + 1 /\ h < Len(sent[c]) + 1
    BY <1>3
  <2>2. \A i \in 1..Len(offers'[c]) :
          offers'[c][i].pkt < h + 1 /\ offers'[c][i].pkt < Len(sent[c]) + 1
    BY <1>6, <1>7, <1>p, <2>1
  <2> QED
    BY <1>1, <2>2 DEF Past, h
<1>9. Placed(c)'
  BY <1>1, <1>8 DEF Offering, Placed, Past, h
<1>10. \A i \in 1..m : offers[c][i].pkt = h =>
          offers[c][i].whole = w /\ offers[c][i].range <= k
  BY <1>2 DEF LettingGo, m, h
<1>11. w => /\ lastStart[c] = Start(c, h)
            /\ \A i \in 1..m : offers[c][i].whole /\ offers[c][i].pkt # h =>
                 Start(c, h) - Start(c, offers[c][i].pkt) >= MinInterval
  BY <1>2 DEF LettingGo, m, h
<1>12. k > 0 => m > 0 /\ offers[c][m] = [pkt |-> h, range |-> k, whole |-> w]
  BY <1>2 DEF LettingGo, m, h
<1>13. Recorded(c)'
  <2>1. ASSUME NEW i \in 1..m
        PROVE  /\ Good(c, offers'[c][i].pkt)
               /\ \/ offers'[c][i].range = 1
                  \/ (i > 1 /\ offers'[c][i - 1].pkt = offers'[c][i].pkt
                            /\ offers'[c][i - 1].range = offers'[c][i].range - 1)
               /\ ~offers'[c][i].whole => offers'[c][i].range < NumRanges
               /\ offers'[c][i].whole => Start(c, offers'[c][i].pkt) <= lastStart[c]
               /\ offers'[c][i].whole => Finished(c, i)' \/ offers'[c][i].pkt = h
    <3>1. i > 1 => i - 1 \in 1..m
      BY <1>3
    <3>2. Finished(c, i) => Finished(c, i)'
      <4>1. Finished(c, i) => \E j \in 1..m : offers[c][j] = [offers[c][i] EXCEPT !.range = NumRanges]
        BY DEF Finished, m
      <4> QED
        BY <1>6, <1>7, <4>1 DEF Finished
    <3>3. offers'[c][i] = offers[c][i] /\ (i > 1 => offers'[c][i - 1] = offers[c][i - 1])
      BY <1>6, <3>1
    <3>4. /\ Good(c, offers[c][i].pkt)
          /\ \/ offers[c][i].range = 1
             \/ (i > 1 /\ offers[c][i - 1].pkt = offers[c][i].pkt
                       /\ offers[c][i - 1].range = offers[c][i].range - 1)
          /\ ~offers[c][i].whole => offers[c][i].range < NumRanges
          /\ offers[c][i].whole => Start(c, offers[c][i].pkt) <= lastStart[c]
          /\ offers[c][i].whole => Finished(c, i) \/ offers[c][i].pkt = h
      BY <1>r
    <3> QED
      BY <3>2, <3>3, <3>4
  <2>2. /\ Good(c, o.pkt)
        /\ \/ o.range = 1
           \/ (m + 1 > 1 /\ offers'[c][(m + 1) - 1].pkt = o.pkt
                         /\ offers'[c][(m + 1) - 1].range = o.range - 1)
        /\ ~o.whole => o.range < NumRanges
        /\ o.whole => Start(c, o.pkt) <= lastStart[c]
    <3>1. k > 0 => m \in 1..m /\ (m + 1) - 1 = m /\ (k + 1) - 1 = k
      BY <1>3, <1>12
    <3>2. k > 0 => offers'[c][(m + 1) - 1] = [pkt |-> h, range |-> k, whole |-> w]
      BY <1>6, <1>12, <3>1
    <3>3. k = 0 \/ k > 0
      BY <1>3
    <3> QED
      BY <1>1, <1>3, <1>4, <1>7, <1>11, <1>12, <3>1, <3>2, <3>3, SMTT(30)
  <2>3. ASSUME NEW i \in 1..(m + 1), NEW j \in 1..(m + 1),
               offers'[c][i].pkt = offers'[c][j].pkt
        PROVE  offers'[c][i].whole = offers'[c][j].whole
    <3>1. /\ (i \in 1..m /\ offers'[c][i] = offers[c][i]) \/ offers'[c][i] = o
          /\ (j \in 1..m /\ offers'[c][j] = offers[c][j]) \/ offers'[c][j] = o
      BY <1>6, <1>7
    <3>2. CASE offers'[c][i] = o
      BY <1>7, <1>10, <2>3, <3>1, <3>2
    <3>3. CASE offers'[c][j] = o
      BY <1>7, <1>10, <2>3, <3>1, <3>3
    <3>4. CASE /\ i \in 1..m /\ offers'[c][i] = offers[c][i]
               /\ j \in 1..m /\ offers'[c][j] = offers[c][j]
      BY <1>r, <2>3, <3>4
    <3> QED
      BY <3>1, <3>2, <3>3, <3>4
  <2>4. ASSUME NEW i \in 1..(m + 1), NEW j \in 1..(m + 1), i < j,
               offers'[c][i].whole, offers'[c][j].whole,
               offers'[c][i].pkt # offers'[c][j].pkt
        PROVE  /\ offers'[c][i].pkt < offers'[c][j].pkt
               /\ Start(c, offers'[c][j].pkt) - Start(c, offers'[c][i].pkt) >= MinInterval
    <3>1. i \in 1..m
      BY <1>3, <2>4
    <3>2. CASE j \in 1..m
      BY <1>6, <1>r, <2>4, <3>1, <3>2
    <3>3. CASE j = m + 1
      <4>1. offers[c][i].pkt \in Nat /\ offers[c][i].pkt < h + 1
        BY <1>p, <1>r, <3>1
      <4>2. offers[c][i].pkt # h /\ offers[c][i].whole /\ w
        BY <1>6, <1>7, <2>4, <3>1, <3>3
      <4>3. Start(c, h) - Start(c, offers[c][i].pkt) >= MinInterval
        BY <1>11, <3>1, <4>2
      <4>4. offers[c][i].pkt < h
        BY <1>3, <4>1, <4>2
      <4> QED
        BY <1>6, <1>7, <3>1, <3>3, <4>3, <4>4
    <3> QED
      BY <1>7, <3>2, <3>3
  <2>5. Len(offers'[c]) = m + 1 /\ pc'[c] = "release" /\ hdr'[c].pkt = h
    BY <1>1, <1>6 DEF h
  <2>6. ASSUME NEW i \in 1..(m + 1)
        PROVE  /\ Good(c, offers'[c][i].pkt)
               /\ \/ offers'[c][i].range = 1
                  \/ (i > 1 /\ offers'[c][i - 1].pkt = offers'[c][i].pkt
                            /\ offers'[c][i - 1].range = offers'[c][i].range - 1)
               /\ ~offers'[c][i].whole => offers'[c][i].range < NumRanges
               /\ offers'[c][i].whole => Start(c, offers'[c][i].pkt) <= lastStart[c]
               /\ offers'[c][i].whole => Finished(c, i)' \/ offers'[c][i].pkt = h
    <3>1. CASE i \in 1..m
      BY <2>1, <3>1
    <3>2. CASE i = m + 1
      <4>1. offers'[c][i] = o /\ i - 1 = (m + 1) - 1 /\ (i > 1 <=> m + 1 > 1) /\ o.pkt = h
        BY <1>6, <1>7, <3>2
      <4> QED
        BY <2>2, <4>1
    <3> QED
      BY <1>7, <3>1, <3>2
  <2> QED
    BY <1>1, <2>3, <2>4, <2>5, <2>6 DEF Recorded, Good, Start
<1>14. LettingGo(c, k + 1, w)'
  <2>1. /\ Len(held'[c]) = Len(held[c]) - 1
        /\ \A i \in 1..Len(held'[c]) : held'[c][i] = held[c][i + 1] /\ i + 1 \in 1..Len(held[c])
    BY <1>1, <1>3, HeadTailProperties, SMTT(30)
  <2>2. ASSUME NEW i \in 1..Len(held'[c])
        PROVE  /\ memory[held'[c][i]].head = [from |-> c, pkt |-> h, range |-> (k + 1) + i]
               /\ w <=> memory[held'[c][i]].body = memory[held'[c][i]].head
    <3>1. /\ memory[held'[c][i]].head = [from |-> c, pkt |-> h, range |-> k + (i + 1)]
          /\ w <=> memory[held'[c][i]].body = memory[held'[c][i]].head
      BY <1>2, <2>1 DEF LettingGo, Numbered, h
    <3>2. k + (i + 1) = (k + 1) + i
      BY <1>3
    <3> QED
      BY <3>1, <3>2
  <2>3. /\ (k + 1) + Len(held'[c]) <= NumRanges
        /\ w <=> (k + 1) + Len(held'[c]) = NumRanges
    <3>1. /\ k + Len(held[c]) <= NumRanges
          /\ w <=> k + Len(held[c]) = NumRanges
      BY <1>2 DEF LettingGo
    <3>2. (k + 1) + Len(held'[c]) = k + Len(held[c])
      <4>1. \A n \in Nat : (k + 1) + (n - 1) = k + n
        BY <1>3
      <4> QED
        BY <1>3, <2>1, <4>1
    <3> QED
      BY <3>1, <3>2
  <2>4. ASSUME NEW i \in 1..(m + 1), offers'[c][i].pkt = h
        PROVE  offers'[c][i].whole = w /\ offers'[c][i].range <= k + 1
    <3>1. CASE i \in 1..m
      <4>1. offers[c][i].whole = w /\ offers[c][i].range <= k
        BY <1>6, <1>10, <2>4, <3>1
      <4>2. offers[c][i].range \in Int
        BY <1>3, <3>1, Facts DEF m
      <4> QED
        BY <1>3, <1>6, <3>1, <4>1, <4>2, SMTT(30)
    <3>2. CASE i = m + 1
      BY <1>3, <1>6, <1>7, <3>2
    <3> QED
      BY <1>7, <3>1, <3>2
  <2>5. w => /\ lastStart[c] = Start(c, h)
             /\ \A i \in 1..(m + 1) : offers'[c][i].whole /\ offers'[c][i].pkt # h =>
                  Start(c, h) - Start(c, offers'[c][i].pkt) >= MinInterval
    BY <1>6, <1>7, <1>11
  <2>6. Len(offers'[c]) > 0 /\ offers'[c][Len(offers'[c])] = o
    BY <1>3, <1>6
  <2>7. Numbered(c, k + 1)'
    BY <1>1, <2>2 DEF Numbered, h
  <2> QED
    BY <1>1, <1>6, <2>2, <2>3, <2>4, <2>5, <2>6, <2>7 DEF LettingGo, Start, h, o
<1>15. InHand(c)'
  <2>1. k + 1 \in 0..NumRanges
    BY <1>3, <1>4
  <2> QED
    BY <1>1, <1>14, <2>1 DEF InHand, Good, h
<1> QED
  BY <1>9, <1>13, <1>15 DEF Offering

(***************************************************************************)
(* The end of next(): if the packet was filled, its last range was the     *)
(* last chunk to be published.                                             *)
(***************************************************************************)
LEMMA ReturnOffering ==
  ASSUME IInv, IInv', NEW c \in Chunkers, Offering(c), Return(c)
  PROVE  Offering(c)'
<1>1. /\ UNCHANGED <<sent, wire, hdr, memory, held, lastStart, offers>>
      /\ pc[c] = "release" /\ pc'[c] = "idle" /\ Len(held[c]) = 0
  BY EmptySeq DEF IInv, Framing, StreamTypes, Return, streamVars, storeVars
<1>2. PICK k \in 0..NumRanges, w \in BOOLEAN : LettingGo(c, k, w)
  BY <1>1 DEF Offering, InHand
<1>3. NumRanges \in Nat \ {0} /\ k \in Nat /\ hdr[c].pkt \in Nat /\ Len(offers[c]) \in Nat
  <2>1. hdr[c].pkt \in Packets
    BY <1>1, HeaderSent
  <2>2. hdr[c].pkt \in Nat
    BY <2>1, StoreAssumption DEF Packets
  <2>3. NumRanges \in Nat \ {0} /\ Len(offers[c]) \in Nat
    BY Facts
  <2> QED
    BY <2>2, <2>3
<1>4. ASSUME NEW i \in 1..Len(offers[c]), offers[c][i].whole, offers[c][i].pkt = hdr[c].pkt
      PROVE  Finished(c, i)
  <2>1. w
    BY <1>2, <1>4 DEF LettingGo
  <2>2. k = NumRanges
    BY <1>1, <1>2, <1>3, <2>1 DEF LettingGo
  <2>3. /\ Len(offers[c]) > 0
        /\ offers[c][Len(offers[c])] = [pkt |-> hdr[c].pkt, range |-> NumRanges, whole |-> w]
    BY <1>2, <1>3, <2>2 DEF LettingGo
  <2>4. Len(offers[c]) \in 1..Len(offers[c])
    BY <1>3, <2>3
  <2>5. [offers[c][i] EXCEPT !.range = NumRanges] =
          [pkt |-> hdr[c].pkt, range |-> NumRanges, whole |-> w]
    <3>1. offers[c][i] \in [pkt : Packets, range : 1..NumRanges, whole : BOOLEAN]
      BY Facts
    <3>2. w = TRUE /\ offers[c][i].whole = TRUE
      BY <1>4, <2>1, <3>1
    <3>3. [offers[c][i] EXCEPT !.range = NumRanges] =
            [pkt |-> offers[c][i].pkt, range |-> NumRanges, whole |-> offers[c][i].whole]
      BY <3>1
    <3> QED
      BY <1>4, <3>2, <3>3
  <2> QED
    BY <2>3, <2>4, <2>5 DEF Finished
<1>5. \A i \in 1..Len(offers[c]) : offers[c][i].whole => Finished(c, i)
  BY <1>4 DEF Offering, Recorded
<1>6. Recorded(c)'
  <2>1. \A i \in 1..Len(offers[c]) : Finished(c, i) <=> Finished(c, i)'
    BY <1>1 DEF Finished
  <2> QED
    BY <1>1, <1>5, <2>1 DEF Offering, Recorded, Good, Start
<1>7. Placed(c)'
  <2>1. wire[c] # <<>> => Past(c, Head(wire[c]).pkt)
    BY <1>1, <1>3, Facts, PastTransitive, SMTT(30) DEF Offering, Placed
  <2>2. \A n : Past(c, n)' <=> Past(c, n)
    BY <1>1 DEF Past
  <2> QED
    BY <1>1, <2>1, <2>2 DEF Offering, Placed, Past
<1>8. InHand(c)'
  BY <1>1 DEF InHand
<1> QED
  BY <1>6, <1>7, <1>8 DEF Offering

-----------------------------------------------------------------------------
(***************************************************************************)
(* Together: every step moves one stream, and the others stand by.         *)
(***************************************************************************)
LEMMA OthersStandBy ==
  ASSUME IInv, NEW c \in Chunkers, Correlator(c) \/ Receiver(c),
         NEW d \in Chunkers, d # c
  PROVE  Bystanding(d)
<1>1. /\ sent'[d] = sent[d] /\ wire'[d] = wire[d] /\ pc'[d] = pc[d] /\ hdr'[d] = hdr[d]
      /\ held'[d] = held[d] /\ lastStart'[d] = lastStart[d] /\ offers'[d] = offers[d]
  <2>1. CASE Correlator(c)
    BY <2>1 DEF IInv, Framing, StreamTypes, Correlator, Connect, SendHeader, SendBlock,
                Disconnect, nextVars
  <2>2. CASE Receiver(c)
    BY <2>2 DEF IInv, Framing, StreamTypes, Storing, Receiver, InNext, NewDevice, EnterNext,
                ReadHeader, ReadBlock, Skip, Accept, Allocate, Shortage, Fill, PublishNext,
                Return, nextVars, streamVars
  <2> QED
    BY <2>1, <2>2
<1>2. Foreign(d)
  <2>1. CASE memory' = memory
    BY <2>1 DEF Foreign
  <2>2. ASSUME NEW s \in Slots, Allocate(c, s) PROVE Foreign(d)
    <3>1. s \notin HeldSlots(d)
      BY <2>2, ObtainFacts DEF IInv, Allocate
    <3>2. /\ \A t \in Slots : t # s => memory'[t] = memory[t]
          /\ \A t \in Slots : memory'[t].body = memory[t].body
      BY <2>2 DEF Allocate, IInv, Storing, StoreTypeInv
    <3>3. HeldSlots(d) \subseteq Slots
      BY RangeOfSeq DEF IInv, Storing, HeldSlots
    <3> QED
      BY <3>1, <3>2, <3>3 DEF Foreign
  <2>3. CASE Fill(c)
    <3>1. HeldSlots(c) \cap HeldSlots(d) = {} /\ HeldSlots(d) \subseteq Slots
      BY RangeOfSeq DEF IInv, Storing, SlotOwnership, HeldSlots
    <3>2. ASSUME NEW s \in Slots
          PROVE  IF s \in HeldSlots(c) THEN memory'[s].body.from = c
                                       ELSE memory'[s] = memory[s]
      BY <2>3 DEF Fill, IInv, Storing, StoreTypeInv
    <3> QED
      BY <3>1, <3>2 DEF Foreign
  <2> QED
    BY <2>1, <2>2, <2>3 DEF Correlator, Connect, SendHeader, SendBlock, Disconnect,
       Receiver, InNext, NewDevice, EnterNext, ReadHeader, ReadBlock, Skip, Accept,
       Shortage, PublishNext, Publish, Return, storeVars
<1> QED
  BY <1>1, <1>2 DEF Bystanding

(***************************************************************************)
(* A chunk that is about to be published was never offered before: ranges  *)
(* of its packet only up to the one before it, and no later packet.        *)
(***************************************************************************)
LEMMA Fresh ==
  ASSUME OfferInv, NEW c \in Chunkers, PublishNext(c)
  PROVE  LET id == memory[Head(held[c])].head
         IN /\ id \in ChunkIds /\ id.from = c
            /\ \A i \in 1..Len(offers[c]) :
                 ~(offers[c][i].pkt = id.pkt /\ offers[c][i].range = id.range)
<1>1. IInv /\ Offering(c) /\ pc[c] = "release" /\ held[c] # <<>>
  BY DEF OfferInv, PublishNext
<1>2. PICK k \in 0..NumRanges, w \in BOOLEAN : LettingGo(c, k, w)
  BY <1>1 DEF Offering, InHand
<1>3. 1 \in 1..Len(held[c]) /\ held[c][1] = Head(held[c]) /\ held[c][1] \in HeldSlots(c)
  <2>1. Len(held[c]) # 0 /\ Len(held[c]) \in Nat
    BY <1>1, Facts, EmptySeq
  <2> QED
    BY <1>1, <2>1, Facts
<1>4. /\ memory[Head(held[c])].head = [from |-> c, pkt |-> hdr[c].pkt, range |-> k + 1]
      /\ memory[Head(held[c])].head \in ChunkIds
  BY <1>1, <1>2, <1>3 DEF LettingGo, Numbered, IInv, Storing, Holding
<1>5. ASSUME NEW i \in 1..Len(offers[c]), offers[c][i].pkt = hdr[c].pkt
      PROVE  offers[c][i].range # k + 1
  <2>1. offers[c][i].range <= k /\ k \in Int
    BY <1>2, <1>5 DEF LettingGo
  <2> QED
    BY <2>1
<1> QED
  BY <1>4, <1>5

LEMMA OfferInductive == OfferInv /\ [Next]_vars => OfferInv'
<1> SUFFICES ASSUME OfferInv, [Next]_vars PROVE OfferInv'
  OBVIOUS
<1>0. IInv /\ IInv' /\ \A d \in Chunkers : Offering(d)
  BY Inductive DEF OfferInv
<1>1. ASSUME NEW c \in Chunkers, Correlator(c) \/ Receiver(c), NEW d \in Chunkers
      PROVE  Offering(d)'
  <2>1. CASE d # c
    BY <1>0, <1>1, <2>1, OthersStandBy, Bystander
  <2>2. CASE d = c
    BY <1>0, <1>1, <2>2, CorrelatorOffering, ReadOffering, DecideOffering, AllocateOffering,
       ShortageOffering, FillOffering, PublishOffering, ReturnOffering DEF Receiver, InNext
  <2> QED
    BY <2>1, <2>2
<1>2. ASSUME UNCHANGED <<memory, streamVars, nextVars>>, NEW d \in Chunkers
      PROVE  Offering(d)'
  BY <1>0, <1>2, Bystander DEF Bystanding, Foreign, streamVars, nextVars
<1>3. CASE ChunkerNext
  <2>1. PICK c \in Chunkers : Correlator(c) \/ Receiver(c) \/ Deactivate(c)
    BY <1>3 DEF ChunkerNext
  <2>2. CASE Deactivate(c)
    BY <1>0, <1>2, <2>2 DEF Deactivate, OfferInv, storeVars
  <2> QED
    BY <1>0, <1>1, <2>1, <2>2 DEF OfferInv
<1>4. CASE ServeChunk \/ (\E s \in Slots : ReleaseChunk(s)) \/ UNCHANGED vars
  <2>1. UNCHANGED <<memory, streamVars, nextVars>>
    BY <1>4 DEF ServeChunk, Serve, ReleaseChunk, Release, vars, storeVars
  <2> QED
    BY <1>0, <1>2, <2>1 DEF OfferInv
<1> QED
  BY <1>3, <1>4 DEF Next

LEMMA OfferInvariance == Spec => []OfferInv
<1>1. Init => OfferInv
  BY FramingInit, StoringInit, OfferInit DEF OfferInv, IInv
<1> QED
  BY <1>1, OfferInductive, PTL DEF Spec

(***************************************************************************)
(* A packet that found storage for some of its ranges only is offered      *)
(* without visibilities in all of them, for any number of streams, ranges  *)
(* and slots: no chunk of it is taken for a good one.                      *)
(***************************************************************************)
THEOREM NeverHalf == Spec => []AllOrNothing
<1>1. OfferInv => AllOrNothing
  BY DEF OfferInv, Offering, Recorded, AllOrNothing
<1> QED
  BY <1>1, OfferInvariance, PTL

(***************************************************************************)
(* Ranges are offered in order and without gaps, and a packet that was     *)
(* filled has offered all of them when next() returns.                     *)
(***************************************************************************)
THEOREM OfferedInOrder == Spec => []RangesInOrder
<1>1. OfferInv => RangesInOrder
  BY DEF OfferInv, Offering, Recorded, Finished, RangesInOrder
<1> QED
  BY <1>1, OfferInvariance, PTL

(***************************************************************************)
(* Packets whose visibilities were published keep the configured interval  *)
(* and the order of the stream, whatever was skipped or refused between.   *)
(***************************************************************************)
THEOREM AlwaysSpaced == Spec => []WholeSpaced
<1>1. OfferInv => WholeSpaced
  BY DEF OfferInv, Offering, Recorded, Good, Start, WholeSpaced
<1> QED
  BY <1>1, OfferInvariance, PTL

=============================================================================
