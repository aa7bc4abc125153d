------------------------- MODULE StreamChunkerProofs -------------------------
(***************************************************************************)
(* Proofs about StreamChunker, for any number of streams, slots, ranges    *)
(* and packets.  The inductive invariant has two halves: Framing is about  *)
(* a stream and its reader alone, Storing adds the store and rests on it.  *)
(***************************************************************************)
EXTENDS StreamChunker, SequenceTheorems, TLAPS

StreamTypes ==
  /\ sent \in [Chunkers -> Seq([start : Times, good : BOOLEAN])]
  /\ \A c \in Chunkers : Len(sent[c]) <= MaxPackets
  /\ owed \in [Chunkers -> BOOLEAN]
  /\ wire \in [Chunkers -> Seq(Units)]
  /\ link \in [Chunkers -> Links]
  /\ pending \in [Chunkers -> BOOLEAN]
  /\ active \in [Chunkers -> BOOLEAN]
  /\ pc \in [Chunkers -> PCs]
  /\ hdr \in [Chunkers -> Units \cup {NoUnit}]
  /\ blk \in [Chunkers -> Units \cup {NoUnit}]

(***************************************************************************)
(* Where the sender is: on a connection that is up, the last unit on the   *)
(* wire is the last one sent, and when the wire is empty the reader waits  *)
(* for the very unit the sender owes.                                      *)
(***************************************************************************)
InStep(c) ==
  /\ owed[c] => link[c] = "up" /\ Len(sent[c]) > 0
  /\ \A i \in 1..Len(wire[c]) : wire[c][i].pkt <= Len(sent[c])
  /\ pc[c] \notin {"idle", "header"} =>
       hdr[c] \in Units /\ hdr[c].pkt <= Len(sent[c])
  /\ link[c] = "up" /\ wire[c] # <<>> =>
       wire[c][Len(wire[c])] =
         [pkt |-> Len(sent[c]), part |-> IF owed[c] THEN "header" ELSE "block"]
  /\ link[c] = "up" /\ wire[c] = <<>> =>
       IF owed[c] THEN pc[c] = "block" /\ hdr[c].pkt = Len(sent[c])
                  ELSE pc[c] # "block"

Framing == StreamTypes /\ \A c \in Chunkers : FramedAt(c) /\ InStep(c)

(***************************************************************************)
(* What a call of next() holds, by the place it has reached.               *)
(***************************************************************************)
Holding(c) ==
  /\ pc[c] \notin {"alloc", "fill", "release"} => held[c] = <<>>
  /\ pc[c] = "alloc" => Len(held[c]) < NumRanges
  /\ Len(held[c]) <= NumRanges
  /\ \A s \in HeldSlots(c) : memory[s].head \in ChunkIds

Storing ==
  /\ StoreTypeInv
  /\ held \in [Chunkers -> Seq(Slots)]
  /\ lastStart \in [Chunkers -> Times]
  /\ offers \in [Chunkers ->
                   Seq([pkt : Packets, range : 1..NumRanges, whole : BOOLEAN])]
  /\ \A c \in Chunkers : Holding(c)
  /\ SlotOwnership

IInv == Framing /\ Storing

-----------------------------------------------------------------------------
(***************************************************************************)
(* The packets a stream carries: Units, and what Append and Tail do to a   *)
(* wire that is in sequence.                                               *)
(***************************************************************************)
LEMMA UnitsFacts ==
  ASSUME NEW n \in 1..MaxPackets
  PROVE  /\ [pkt |-> n, part |-> "header"] \in Units
         /\ [pkt |-> n, part |-> "block"] \in Units
BY DEF Units, Packets

LEMMA TailInSequence ==
  ASSUME NEW w \in Seq(Units), w # <<>>, InSequence(w)
  PROVE  /\ InSequence(Tail(w))
         /\ Tail(w) \in Seq(Units)
         /\ Head(w) \in Units
         /\ Tail(w) # <<>> => Head(Tail(w)) = w[2]
         /\ Tail(w) # <<>> => Tail(w)[Len(Tail(w))] = w[Len(w)]
         /\ Tail(w) = <<>> => Head(w) = w[Len(w)]
         /\ \A i \in 1..Len(Tail(w)) : \E j \in 1..Len(w) : Tail(w)[i] = w[j]
         /\ \E j \in 1..Len(w) : Head(w) = w[j]
         /\ Tail(w) # <<>> =>
              \/ /\ Head(w).part = "header"
                 /\ w[2] = [pkt |-> Head(w).pkt, part |-> "block"]
              \/ /\ Head(w).part = "block"
                 /\ w[2] = [pkt |-> Head(w).pkt + 1, part |-> "header"]
<1>1. /\ Head(w) \in Units
      /\ Tail(w) \in Seq(Units)
      /\ Len(Tail(w)) = Len(w) - 1
      /\ \A i \in 1..Len(Tail(w)) : Tail(w)[i] = w[i + 1]
      /\ Len(w) \in Nat \ {0}
  BY HeadTailProperties, EmptySeq, LenProperties
<1>2. Tail(w) = <<>> <=> Len(w) = 1
  <2>1. Tail(w) # <<>> => Len(Tail(w)) \in Nat \ {0}
    BY <1>1, EmptySeq
  <2>2. Tail(w) = <<>> => Len(Tail(w)) = 0
    BY EmptySeq
  <2> QED
    BY <1>1, <2>1, <2>2
<1>3. Head(w) = w[1]
  OBVIOUS
<1>4. InSequence(Tail(w))
  BY <1>1 DEF InSequence
<1>5. Tail(w) # <<>> => Head(Tail(w)) = Tail(w)[1]
  OBVIOUS
<1>6. Tail(w) # <<>> => 1 \in 1..(Len(w) - 1)
  BY <1>1, <1>2
<1>7. Tail(w) # <<>> =>
        \/ w[1].part = "header" /\ w[1 + 1] = [pkt |-> w[1].pkt, part |-> "block"]
        \/ w[1].part = "block" /\ w[1 + 1] = [pkt |-> w[1].pkt + 1, part |-> "header"]
  BY <1>6 DEF InSequence
<1> QED
  BY <1>1, <1>2, <1>3, <1>4, <1>5, <1>7

LEMMA AppendInSequence ==
  ASSUME NEW w \in Seq(Units), InSequence(w), NEW u \in Units,
         w # <<>> => \/ /\ w[Len(w)].part = "header"
                       /\ u = [pkt |-> w[Len(w)].pkt, part |-> "block"]
                    \/ /\ w[Len(w)].part = "block"
                       /\ u = [pkt |-> w[Len(w)].pkt + 1, part |-> "header"]
  PROVE  /\ InSequence(Append(w, u))
         /\ Append(w, u) \in Seq(Units)
         /\ Append(w, u) # <<>>
         /\ Append(w, u)[Len(Append(w, u))] = u
         /\ Head(Append(w, u)) = IF w = <<>> THEN u ELSE Head(w)
         /\ \A i \in 1..Len(Append(w, u)) :
              Append(w, u)[i] = u \/ \E j \in 1..Len(w) : Append(w, u)[i] = w[j]
<1>1. /\ Append(w, u) \in Seq(Units)
      /\ Len(Append(w, u)) = Len(w) + 1
      /\ \A i \in 1..Len(w) : Append(w, u)[i] = w[i]
      /\ Append(w, u)[Len(w) + 1] = u
      /\ Len(w) \in Nat
      /\ Append(w, u) # <<>>
  BY AppendProperties, LenProperties
<1>2. w = <<>> <=> Len(w) = 0
  BY EmptySeq
<1>3. Head(Append(w, u)) = Append(w, u)[1] /\ (w # <<>> => Head(w) = w[1])
  BY <1>1
<1>4. InSequence(Append(w, u))
  <2> SUFFICES ASSUME NEW i \in 1..(Len(Append(w, u)) - 1)
               PROVE  LET v == Append(w, u)
                      IN \/ /\ v[i].part = "header"
                            /\ v[i + 1] = [pkt |-> v[i].pkt, part |-> "block"]
                         \/ /\ v[i].part = "block"
                            /\ v[i + 1] = [pkt |-> v[i].pkt + 1, part |-> "header"]
    BY DEF InSequence
  <2>1. CASE i < Len(w)
    <3>1. i \in 1..(Len(w) - 1) /\ Append(w, u)[i] = w[i] /\ Append(w, u)[i + 1] = w[i + 1]
      BY <1>1, <2>1
    <3> QED
      BY <3>1 DEF InSequence
  <2>2. CASE i = Len(w)
    BY <1>1, <1>2, <2>2
  <2> QED
    BY <1>1, <2>1, <2>2
<1> QED
  BY <1>1, <1>2, <1>3, <1>4

-----------------------------------------------------------------------------
(***************************************************************************)
(* Framing is inductive.  Every step moves one stream: what has to be      *)
(* shown is that this stream is still framed and in step.                  *)
(***************************************************************************)
LEMMA FramingInit == Init => Framing
<1> SUFFICES ASSUME Init PROVE Framing
  OBVIOUS
<1>1. StreamTypes
  <2>1. sent = [c \in Chunkers |-> <<>>] /\ wire = [c \in Chunkers |-> <<>>]
    BY DEF Init
  <2>2. \A S : <<>> \in Seq(S) /\ Len(<<>>) = 0
    BY EmptySeq
  <2> QED
    BY <2>1, <2>2, StoreAssumption DEF Init, StreamTypes, Links, PCs
<1>2. ASSUME NEW c \in Chunkers PROVE FramedAt(c) /\ InStep(c)
  <2>1. wire[c] = <<>> /\ pc[c] = "idle" /\ ~owed[c] /\ link[c] = "none"
    BY DEF Init
  <2> QED
    BY <2>1 DEF FramedAt, InStep, InSequence
<1> QED
  BY <1>1, <1>2 DEF Framing

\* Streams that a step of stream c leaves alone stay framed.
Untouched(d) ==
  /\ sent'[d] = sent[d]
  /\ owed'[d] = owed[d]
  /\ wire'[d] = wire[d]
  /\ link'[d] = link[d]
  /\ pc'[d] = pc[d]
  /\ hdr'[d] = hdr[d]
  /\ blk'[d] = blk[d]

LEMMA UntouchedFramed ==
  ASSUME NEW d \in Chunkers, FramedAt(d), InStep(d), Untouched(d)
  PROVE  FramedAt(d)' /\ InStep(d)'
BY DEF FramedAt, InStep, InSequence, Untouched

LEMMA SendHeaderFraming ==
  ASSUME Framing, NEW c \in Chunkers, NEW start \in Times, NEW good \in BOOLEAN,
         SendHeader(c, start, good)
  PROVE  Framing'
<1> DEFINE n == Len(sent[c]) + 1
           p == [start |-> start, good |-> good]
           u == [pkt |-> n, part |-> "header"]
<1>1. /\ sent[c] \in Seq([start : Times, good : BOOLEAN])
      /\ wire[c] \in Seq(Units)
      /\ FramedAt(c) /\ InStep(c)
      /\ p \in [start : Times, good : BOOLEAN]
      /\ link[c] = "up" /\ ~owed[c]
  BY DEF Framing, StreamTypes, SendHeader
<1>2. n \in 1..MaxPackets
  BY <1>1, StoreAssumption DEF SendHeader
<1>3. u \in Units
  BY <1>2, UnitsFacts
<1>4. /\ Append(sent[c], p) \in Seq([start : Times, good : BOOLEAN])
      /\ Len(Append(sent[c], p)) = n
  BY <1>1, AppendProperties
<1>5. /\ InSequence(wire[c])
      /\ wire[c] # <<>> => wire[c][Len(wire[c])] = [pkt |-> Len(sent[c]), part |-> "block"]
  BY <1>1 DEF FramedAt, InStep
<1>. wire[c] # <<>> => \/ /\ wire[c][Len(wire[c])].part = "header"
                         /\ u = [pkt |-> wire[c][Len(wire[c])].pkt, part |-> "block"]
                      \/ /\ wire[c][Len(wire[c])].part = "block"
                         /\ u = [pkt |-> wire[c][Len(wire[c])].pkt + 1, part |-> "header"]
  BY <1>5
<1>6. /\ InSequence(Append(wire[c], u))
      /\ Append(wire[c], u) \in Seq(Units)
      /\ Append(wire[c], u) # <<>>
      /\ Append(wire[c], u)[Len(Append(wire[c], u))] = u
      /\ Head(Append(wire[c], u)) = IF wire[c] = <<>> THEN u ELSE Head(wire[c])
      /\ \A i \in 1..Len(Append(wire[c], u)) :
           Append(wire[c], u)[i] = u \/ \E j \in 1..Len(wire[c]) :
                                          Append(wire[c], u)[i] = wire[c][j]
  BY <1>1, <1>3, <1>5, AppendInSequence
<1>7. /\ sent'[c] = Append(sent[c], p)
      /\ wire'[c] = Append(wire[c], u)
      /\ owed'[c] = TRUE
      /\ UNCHANGED <<link, pending, active, pc, hdr, blk>>
  BY DEF SendHeader, StreamTypes, Framing, nextVars
<1>8. StreamTypes'
  <2>1. \A d \in Chunkers : d # c => sent'[d] = sent[d] /\ wire'[d] = wire[d]
    BY DEF SendHeader, StreamTypes, Framing
  <2>2. ASSUME NEW d \in Chunkers PROVE Len(sent'[d]) <= MaxPackets
    <3>1. CASE d = c
      BY <1>2, <1>4, <1>7, <3>1
    <3>2. CASE d # c
      BY <2>1, <3>2 DEF StreamTypes, Framing
    <3> QED
      BY <3>1, <3>2
  <2>3. owed' \in [Chunkers -> BOOLEAN]
    BY DEF SendHeader, StreamTypes, Framing
  <2>4. sent' \in [Chunkers -> Seq([start : Times, good : BOOLEAN])]
    BY <1>4 DEF SendHeader, StreamTypes, Framing
  <2>5. wire' \in [Chunkers -> Seq(Units)]
    BY <1>6 DEF SendHeader, StreamTypes, Framing
  <2> QED
    BY <1>7, <2>2, <2>3, <2>4, <2>5 DEF StreamTypes, Framing
<1>9. FramedAt(c)'
  BY <1>1, <1>6, <1>7 DEF FramedAt, InStep
<1>10. InStep(c)'
  <2>1. Len(sent'[c]) = n /\ Len(sent[c]) \in Nat
    BY <1>1, <1>4, <1>7
  <2>2. \A i \in 1..Len(wire'[c]) : wire'[c][i].pkt <= n
    <3>1. \A j \in 1..Len(wire[c]) : wire[c][j] \in Units /\ wire[c][j].pkt <= Len(sent[c])
      BY <1>1, ElementOfSeq DEF InStep
    <3>2. \A j \in 1..Len(wire[c]) : wire[c][j].pkt <= n
      BY <3>1, <2>1 DEF Units, Packets
    <3>3. u.pkt <= n
      BY <1>2
    <3> QED
      BY <1>6, <1>7, <3>2, <3>3
  <2>3. pc[c] \notin {"idle", "header"} => hdr[c] \in Units /\ hdr[c].pkt <= n
    BY <1>1, <2>1 DEF InStep, Units, Packets
  <2> QED
    BY <1>1, <1>6, <1>7, <2>1, <2>2, <2>3 DEF InStep
<1>11. ASSUME NEW d \in Chunkers, d # c PROVE FramedAt(d)' /\ InStep(d)'
  <2>1. Untouched(d)
    BY <1>7, <1>11 DEF Untouched, SendHeader, StreamTypes, Framing
  <2> QED
    BY <2>1, UntouchedFramed DEF Framing
<1> QED
  BY <1>8, <1>9, <1>10, <1>11 DEF Framing

LEMMA SendBlockFraming ==
  ASSUME Framing, NEW c \in Chunkers, SendBlock(c)
  PROVE  Framing'
<1> DEFINE u == [pkt |-> Len(sent[c]), part |-> "block"]
<1>1. /\ sent[c] \in Seq([start : Times, good : BOOLEAN])
      /\ wire[c] \in Seq(Units)
      /\ FramedAt(c) /\ InStep(c)
      /\ Len(sent[c]) <= MaxPackets
      /\ link[c] = "up" /\ owed[c]
  BY DEF Framing, StreamTypes, SendBlock
<1>2. Len(sent[c]) \in 1..MaxPackets
  BY <1>1, LenProperties, StoreAssumption DEF InStep
<1>3. u \in Units
  BY <1>2, UnitsFacts
<1>4. /\ InSequence(wire[c])
      /\ wire[c] # <<>> => wire[c][Len(wire[c])] = [pkt |-> Len(sent[c]), part |-> "header"]
  BY <1>1 DEF FramedAt, InStep
<1>5. wire[c] # <<>> => /\ wire[c][Len(wire[c])].part = "header"
                        /\ u = [pkt |-> wire[c][Len(wire[c])].pkt, part |-> "block"]
  BY <1>4
<1>6. /\ InSequence(Append(wire[c], u))
      /\ Append(wire[c], u) \in Seq(Units)
      /\ Append(wire[c], u) # <<>>
      /\ Append(wire[c], u)[Len(Append(wire[c], u))] = u
      /\ Head(Append(wire[c], u)) = IF wire[c] = <<>> THEN u ELSE Head(wire[c])
      /\ \A i \in 1..Len(Append(wire[c], u)) :
           Append(wire[c], u)[i] = u \/ \E j \in 1..Len(wire[c]) :
                                          Append(wire[c], u)[i] = wire[c][j]
  BY <1>1, <1>3, <1>4, <1>5, AppendInSequence
<1>7. /\ wire'[c] = Append(wire[c], u)
      /\ owed'[c] = FALSE
      /\ UNCHANGED <<sent, link, pending, active, pc, hdr, blk>>
  BY DEF SendBlock, StreamTypes, Framing, nextVars
<1>8. StreamTypes'
  <2>1. owed' \in [Chunkers -> BOOLEAN] /\ wire' \in [Chunkers -> Seq(Units)]
    BY <1>6 DEF SendBlock, StreamTypes, Framing
  <2> QED
    BY <1>7, <2>1 DEF StreamTypes, Framing
<1>9. FramedAt(c)'
  BY <1>1, <1>6, <1>7 DEF FramedAt, InStep
<1>10. InStep(c)'
  <2>1. \A i \in 1..Len(wire'[c]) : wire'[c][i].pkt <= Len(sent[c])
    BY <1>1, <1>2, <1>6, <1>7 DEF InStep
  <2> QED
    BY <1>1, <1>6, <1>7, <2>1 DEF InStep
<1>11. ASSUME NEW d \in Chunkers, d # c PROVE FramedAt(d)' /\ InStep(d)'
  <2>1. Untouched(d)
    BY <1>7, <1>11 DEF Untouched, SendBlock, StreamTypes, Framing
  <2> QED
    BY <2>1, UntouchedFramed DEF Framing
<1> QED
  BY <1>8, <1>9, <1>10, <1>11 DEF Framing

LEMMA LinkFraming ==
  ASSUME Framing, NEW c \in Chunkers, Connect(c) \/ Disconnect(c) \/ NewDevice(c)
  PROVE  Framing'
<1>1. CASE Connect(c)
  <2>1. StreamTypes'
    BY <1>1 DEF Connect, Framing, StreamTypes, nextVars
  <2>2. \A d \in Chunkers : Untouched(d)
    BY <1>1 DEF Connect, Untouched, nextVars
  <2> QED
    BY <2>1, <2>2, UntouchedFramed DEF Framing
<1>2. CASE Disconnect(c)
  <2>1. StreamTypes'
    BY <1>2 DEF Disconnect, Framing, StreamTypes, nextVars, Links
  <2>2. FramedAt(c)' /\ InStep(c)'
    BY <1>2 DEF Disconnect, Framing, StreamTypes, nextVars, FramedAt, InStep
  <2>3. ASSUME NEW d \in Chunkers, d # c PROVE FramedAt(d)' /\ InStep(d)'
    <3>1. Untouched(d)
      BY <1>2, <2>3 DEF Untouched, Disconnect, StreamTypes, Framing, nextVars
    <3> QED
      BY <3>1, UntouchedFramed DEF Framing
  <2> QED
    BY <2>1, <2>2, <2>3 DEF Framing
<1>3. CASE NewDevice(c)
  <2>1. <<>> \in Seq(Units) /\ Len(<<>>) = 0
    BY EmptySeq
  <2>2. StreamTypes'
    BY <1>3, <2>1 DEF NewDevice, Framing, StreamTypes, nextVars, Links
  <2>3. /\ wire'[c] = <<>> /\ pc'[c] = "idle" /\ link'[c] = "up" /\ ~owed'[c]
    BY <1>3 DEF NewDevice, Framing, StreamTypes, nextVars, InStep
  <2>4. FramedAt(c)' /\ InStep(c)'
    BY <2>1, <2>3 DEF FramedAt, InStep, InSequence
  <2>5. ASSUME NEW d \in Chunkers, d # c PROVE FramedAt(d)' /\ InStep(d)'
    <3>1. Untouched(d)
      BY <1>3, <2>5 DEF Untouched, NewDevice, StreamTypes, Framing, nextVars
    <3> QED
      BY <3>1, UntouchedFramed DEF Framing
  <2> QED
    BY <2>2, <2>4, <2>5 DEF Framing
<1> QED
  BY <1>1, <1>2, <1>3

LEMMA ReadHeaderFraming ==
  ASSUME Framing, NEW c \in Chunkers, ReadHeader(c)
  PROVE  Framing'
<1>1. /\ wire[c] \in Seq(Units) /\ wire[c] # <<>>
      /\ FramedAt(c) /\ InStep(c)
      /\ pc[c] = "header"
      /\ InSequence(wire[c])
  BY DEF Framing, StreamTypes, ReadHeader, FramedAt
<1>2. /\ InSequence(Tail(wire[c]))
      /\ Tail(wire[c]) \in Seq(Units)
      /\ Head(wire[c]) \in Units
      /\ Tail(wire[c]) # <<>> => Head(Tail(wire[c])) = wire[c][2]
      /\ Tail(wire[c]) # <<>> => Tail(wire[c])[Len(Tail(wire[c]))] = wire[c][Len(wire[c])]
      /\ Tail(wire[c]) = <<>> => Head(wire[c]) = wire[c][Len(wire[c])]
      /\ \A i \in 1..Len(Tail(wire[c])) :
           \E j \in 1..Len(wire[c]) : Tail(wire[c])[i] = wire[c][j]
      /\ \E j \in 1..Len(wire[c]) : Head(wire[c]) = wire[c][j]
  BY <1>1, TailInSequence
<1>3. /\ wire'[c] = Tail(wire[c])
      /\ hdr'[c] = Head(wire[c])
      /\ pc'[c] = "block"
      /\ UNCHANGED <<sent, owed, link, pending, active, blk>>
  BY DEF ReadHeader, StreamTypes, Framing
<1>4. Head(wire[c]).part = "header" /\ Head(wire[c]) = wire[c][1]
  BY <1>1 DEF FramedAt
<1>5. Tail(wire[c]) # <<>> => wire[c][2] = [pkt |-> Head(wire[c]).pkt, part |-> "block"]
  BY <1>1, <1>4, TailInSequence
<1>6. StreamTypes'
  <2>1. wire' \in [Chunkers -> Seq(Units)]
    BY <1>2 DEF ReadHeader, StreamTypes, Framing
  <2>2. hdr' \in [Chunkers -> Units \cup {NoUnit}] /\ pc' \in [Chunkers -> PCs]
    BY <1>2 DEF ReadHeader, StreamTypes, Framing, PCs
  <2> QED
    BY <1>3, <2>1, <2>2 DEF StreamTypes, Framing
<1>7. FramedAt(c)'
  BY <1>2, <1>3, <1>4, <1>5 DEF FramedAt
<1>8. InStep(c)'
  <2>1. \A i \in 1..Len(wire'[c]) : wire'[c][i].pkt <= Len(sent[c])
    BY <1>1, <1>2, <1>3 DEF InStep
  <2>2. hdr'[c].pkt <= Len(sent[c])
    BY <1>1, <1>2, <1>3 DEF InStep
  <2>3. link[c] = "up" => wire[c][Len(wire[c])] =
          [pkt |-> Len(sent[c]), part |-> IF owed[c] THEN "header" ELSE "block"]
    BY <1>1 DEF InStep
  <2>4. link[c] = "up" /\ Tail(wire[c]) = <<>> => owed[c] /\ Head(wire[c]).pkt = Len(sent[c])
    BY <1>2, <1>4, <2>3
  <2> QED
    BY <1>1, <1>2, <1>3, <2>1, <2>2, <2>3, <2>4 DEF InStep
<1>9. ASSUME NEW d \in Chunkers, d # c PROVE FramedAt(d)' /\ InStep(d)'
  <2>1. Untouched(d)
    BY <1>3, <1>9 DEF Untouched, ReadHeader, StreamTypes, Framing
  <2> QED
    BY <2>1, UntouchedFramed DEF Framing
<1> QED
  BY <1>6, <1>7, <1>8, <1>9 DEF Framing

LEMMA ReadBlockFraming ==
  ASSUME Framing, NEW c \in Chunkers, ReadBlock(c)
  PROVE  Framing'
<1>1. /\ wire[c] \in Seq(Units) /\ wire[c] # <<>>
      /\ FramedAt(c) /\ InStep(c)
      /\ pc[c] = "block"
      /\ InSequence(wire[c])
  BY DEF Framing, StreamTypes, ReadBlock, FramedAt
<1>2. /\ InSequence(Tail(wire[c]))
      /\ Tail(wire[c]) \in Seq(Units)
      /\ Head(wire[c]) \in Units
      /\ Tail(wire[c]) # <<>> => Tail(wire[c])[Len(Tail(wire[c]))] = wire[c][Len(wire[c])]
      /\ Tail(wire[c]) = <<>> => Head(wire[c]) = wire[c][Len(wire[c])]
      /\ \A i \in 1..Len(Tail(wire[c])) :
           \E j \in 1..Len(wire[c]) : Tail(wire[c])[i] = wire[c][j]
  BY <1>1, TailInSequence
<1>3. /\ wire'[c] = Tail(wire[c])
      /\ blk'[c] = Head(wire[c])
      /\ pc'[c] = "check"
      /\ UNCHANGED <<sent, owed, link, pending, active, hdr>>
  BY DEF ReadBlock, StreamTypes, Framing
<1>4. /\ Head(wire[c]) = [pkt |-> hdr[c].pkt, part |-> "block"]
      /\ hdr[c].part = "header"
      /\ Tail(wire[c]) # <<>> => Head(Tail(wire[c])).part = "header"
  <2>1. /\ Head(wire[c]) = [pkt |-> hdr[c].pkt, part |-> "block"]
        /\ hdr[c].part = "header"
    BY <1>1 DEF FramedAt
  <2>2. Tail(wire[c]) # <<>> =>
          /\ Head(Tail(wire[c])) = wire[c][2]
          /\ \/ /\ Head(wire[c]).part = "header"
                /\ wire[c][2] = [pkt |-> Head(wire[c]).pkt, part |-> "block"]
             \/ /\ Head(wire[c]).part = "block"
                /\ wire[c][2] = [pkt |-> Head(wire[c]).pkt + 1, part |-> "header"]
    BY <1>1, TailInSequence
  <2>3. Head(wire[c]).part = "block"
    BY <2>1
  <2>4. Tail(wire[c]) # <<>> => wire[c][2].part = "header"
    BY <2>2, <2>3
  <2> QED
    BY <2>1, <2>2, <2>4
<1>5. StreamTypes'
  <2>1. wire' \in [Chunkers -> Seq(Units)]
    BY <1>2 DEF ReadBlock, StreamTypes, Framing
  <2>2. blk' \in [Chunkers -> Units \cup {NoUnit}] /\ pc' \in [Chunkers -> PCs]
    BY <1>2 DEF ReadBlock, StreamTypes, Framing, PCs
  <2> QED
    BY <1>3, <2>1, <2>2 DEF StreamTypes, Framing
<1>6. FramedAt(c)'
  BY <1>2, <1>3, <1>4 DEF FramedAt
<1>7. InStep(c)'
  <2>1. \A i \in 1..Len(wire'[c]) : wire'[c][i].pkt <= Len(sent[c])
    BY <1>1, <1>2, <1>3 DEF InStep
  <2>2. link[c] = "up" => wire[c][Len(wire[c])] =
          [pkt |-> Len(sent[c]), part |-> IF owed[c] THEN "header" ELSE "block"]
    BY <1>1 DEF InStep
  <2>3. link[c] = "up" /\ Tail(wire[c]) = <<>> => ~owed[c]
    BY <1>2, <1>4, <2>2
  <2> QED
    BY <1>1, <1>2, <1>3, <2>1, <2>2, <2>3 DEF InStep
<1>8. ASSUME NEW d \in Chunkers, d # c PROVE FramedAt(d)' /\ InStep(d)'
  <2>1. Untouched(d)
    BY <1>3, <1>8 DEF Untouched, ReadBlock, StreamTypes, Framing
  <2> QED
    BY <2>1, UntouchedFramed DEF Framing
<1> QED
  BY <1>5, <1>6, <1>7, <1>8 DEF Framing

(***************************************************************************)
(* The other steps touch the stream in nothing but pc.                     *)
(***************************************************************************)
LocalStep(c) ==
  \/ EnterNext(c) \/ Skip(c) \/ Accept(c) \/ Shortage(c) \/ Fill(c)
  \/ PublishNext(c) \/ Return(c) \/ \E s \in Slots : Allocate(c, s)

LEMMA LocalFraming ==
  ASSUME Framing, NEW c \in Chunkers, LocalStep(c)
  PROVE  Framing'
<1>1. UNCHANGED <<sent, owed, wire, link, pending, active, hdr, blk>>
  BY DEF LocalStep, EnterNext, Skip, Accept, Shortage, Fill, PublishNext, Return,
         Allocate, streamVars
<1>2. /\ \/ pc'[c] = pc[c]
         \/ pc[c] = "idle" /\ pc'[c] = "header" /\ wire[c] # <<>>
         \/ pc[c] = "check" /\ pc'[c] = "idle"
         \/ pc[c] = "check" /\ pc'[c] = "alloc"
         \/ pc[c] = "alloc" /\ pc'[c] \in {"fill", "release"}
         \/ pc[c] = "fill" /\ pc'[c] = "release"
         \/ pc[c] = "release" /\ pc'[c] = "idle"
      /\ \A d \in Chunkers : d # c => pc'[d] = pc[d]
      /\ pc' \in [Chunkers -> PCs]
  BY DEF LocalStep, EnterNext, Skip, Accept, Shortage, Fill, PublishNext, Return,
         Allocate, Framing, StreamTypes, PCs
<1>3. StreamTypes'
  BY <1>1, <1>2 DEF StreamTypes, Framing
<1>4. FramedAt(c)'
  <2>1. FramedAt(c) /\ InStep(c)
    BY DEF Framing
  <2> QED
    BY <1>1, <1>2, <2>1 DEF FramedAt
<1>5. InStep(c)'
  BY <1>1, <1>2 DEF Framing, InStep
<1>6. ASSUME NEW d \in Chunkers, d # c PROVE FramedAt(d)' /\ InStep(d)'
  <2>1. Untouched(d)
    BY <1>1, <1>2, <1>6 DEF Untouched
  <2> QED
    BY <2>1, UntouchedFramed DEF Framing
<1> QED
  BY <1>3, <1>4, <1>5, <1>6 DEF Framing

-----------------------------------------------------------------------------
(***************************************************************************)
(* What Append and Tail do to a queue without repetitions.                 *)
(***************************************************************************)
LEMMA AppendRange ==
  ASSUME NEW S, NEW q \in Seq(S), IsInjective(q), NEW s \in S, s \notin Range(q)
  PROVE  /\ Append(q, s) \in Seq(S)
         /\ Len(Append(q, s)) = Len(q) + 1
         /\ IsInjective(Append(q, s))
         /\ Range(Append(q, s)) = Range(q) \cup {s}
<1>1. /\ Append(q, s) \in Seq(S)
      /\ Len(Append(q, s)) = Len(q) + 1
      /\ \A i \in 1..Len(q) : Append(q, s)[i] = q[i]
      /\ Append(q, s)[Len(q) + 1] = s
      /\ Len(q) \in Nat
      /\ DOMAIN q = 1..Len(q)
      /\ DOMAIN Append(q, s) = 1..(Len(q) + 1)
  BY AppendProperties, LenProperties
<1>2. IsInjective(Append(q, s))
  <2> SUFFICES ASSUME NEW i \in 1..(Len(q) + 1), NEW j \in 1..(Len(q) + 1),
                      Append(q, s)[i] = Append(q, s)[j]
               PROVE  i = j
    BY <1>1 DEF IsInjective
  <2>1. ASSUME NEW k \in 1..Len(q) PROVE q[k] # s
    BY <1>1 DEF Range
  <2>2. \A k \in 1..(Len(q) + 1) : k \in 1..Len(q) \/ k = Len(q) + 1
    BY <1>1
  <2> QED
    BY <1>1, <2>1, <2>2 DEF IsInjective
<1>3. Range(Append(q, s)) = Range(q) \cup {s}
  <2>1. \A k \in 1..(Len(q) + 1) : k \in 1..Len(q) \/ k = Len(q) + 1
    BY <1>1
  <2>2. \A k \in 1..Len(q) : k \in 1..(Len(q) + 1)
    BY <1>1
  <2>3. Len(q) + 1 \in 1..(Len(q) + 1)
    BY <1>1
  <2> QED
    BY <1>1, <2>1, <2>2, <2>3 DEF Range
<1> QED
  BY <1>1, <1>2, <1>3

LEMMA TailRange ==
  ASSUME NEW S, NEW q \in Seq(S), IsInjective(q), q # <<>>
  PROVE  /\ Tail(q) \in Seq(S)
         /\ Len(Tail(q)) = Len(q) - 1
         /\ IsInjective(Tail(q))
         /\ Range(Tail(q)) = Range(q) \ {Head(q)}
         /\ Head(q) \in Range(q)
         /\ Head(q) \in S
<1>1. /\ Tail(q) \in Seq(S)
      /\ Head(q) \in S
      /\ Len(Tail(q)) = Len(q) - 1
      /\ \A i \in 1..Len(Tail(q)) : Tail(q)[i] = q[i + 1]
      /\ Len(q) \in Nat \ {0}
      /\ DOMAIN q = 1..Len(q)
      /\ DOMAIN Tail(q) = 1..(Len(q) - 1)
      /\ Head(q) = q[1]
  BY HeadTailProperties, LenProperties, EmptySeq
<1>2. \A i \in 1..(Len(q) - 1) : i + 1 \in 1..Len(q) /\ i + 1 # 1
  BY <1>1
<1>3. IsInjective(Tail(q))
  <2> SUFFICES ASSUME NEW i \in 1..(Len(q) - 1), NEW j \in 1..(Len(q) - 1),
                      Tail(q)[i] = Tail(q)[j]
               PROVE  i = j
    BY <1>1 DEF IsInjective
  <2>1. i + 1 = j + 1
    BY <1>1, <1>2 DEF IsInjective
  <2> QED
    BY <2>1
<1>4. \A k \in 1..Len(q) : k = 1 \/ (k - 1 \in 1..(Len(q) - 1) /\ (k - 1) + 1 = k)
  BY <1>1
<1>5. Range(Tail(q)) = Range(q) \ {Head(q)}
  <2>1. ASSUME NEW x \in Range(Tail(q)) PROVE x \in Range(q) \ {Head(q)}
    <3>1. PICK i \in 1..(Len(q) - 1) : x = q[i + 1]
      BY <1>1, <2>1 DEF Range
    <3> QED
      BY <1>1, <1>2, <3>1 DEF Range, IsInjective
  <2>2. ASSUME NEW x \in Range(q) \ {Head(q)} PROVE x \in Range(Tail(q))
    <3>1. PICK k \in 1..Len(q) : x = q[k] /\ k # 1
      BY <1>1, <2>2 DEF Range
    <3>2. k - 1 \in 1..(Len(q) - 1) /\ Tail(q)[k - 1] = x
      BY <1>1, <1>4, <3>1
    <3> QED
      BY <1>1, <3>2 DEF Range
  <2> QED
    BY <2>1, <2>2
<1>6. Head(q) \in Range(q)
  BY <1>1 DEF Range
<1> QED
  BY <1>1, <1>3, <1>5, <1>6

-----------------------------------------------------------------------------
(***************************************************************************)
(* Storing is inductive, next to Framing.                                  *)
(***************************************************************************)
LEMMA StoringInit == Init => Storing
<1> SUFFICES ASSUME Init PROVE Storing
  OBVIOUS
<1>1. \A S : <<>> \in Seq(S) /\ Len(<<>>) = 0
  BY EmptySeq
<1>2. IsInjective(<<>>) /\ Range(<<>>) = {}
  BY DEF IsInjective, Range
<1>3. StoreTypeInv
  BY <1>1 DEF Init, StoreInit, StoreTypeInv, Contents, SlotModes
<1>4. /\ held \in [Chunkers -> Seq(Slots)]
      /\ lastStart \in [Chunkers -> Times]
      /\ offers \in [Chunkers ->
                       Seq([pkt : Packets, range : 1..NumRanges, whole : BOOLEAN])]
  BY <1>1, ChunkerAssumption DEF Init, Times
<1>5. \A c \in Chunkers : HeldSlots(c) = {} /\ Holding(c)
  BY <1>1, <1>2, StoreAssumption DEF Init, Holding, HeldSlots
<1>6. SlotOwnership
  BY <1>2, <1>5 DEF SlotOwnership, Init, StoreInit
<1> QED
  BY <1>3, <1>4, <1>5, <1>6 DEF Storing

(***************************************************************************)
(* A step that leaves the store and everything held alone.                 *)
(***************************************************************************)
LEMMA QuietStoring ==
  ASSUME Storing, UNCHANGED <<storeVars, held, lastStart, offers>>,
         \A c \in Chunkers :
           \/ pc'[c] = pc[c]
           \/ pc'[c] \notin {"alloc", "fill", "release"} /\ held[c] = <<>>
           \/ pc[c] = "check" /\ pc'[c] = "alloc"
           \/ pc'[c] \notin {"alloc"} /\ pc[c] = "alloc" /\ pc'[c] = "release"
  PROVE  Storing'
<1>1. ASSUME NEW c \in Chunkers PROVE Holding(c)'
  <2>1. Holding(c) /\ HeldSlots(c)' = HeldSlots(c) /\ memory' = memory /\ held'[c] = held[c]
    BY DEF Storing, HeldSlots, storeVars
  <2>2. held[c] = <<>> => Len(held[c]) < NumRanges
    BY EmptySeq, StoreAssumption
  <2> QED
    BY <2>1, <2>2 DEF Holding
<1>2. SlotOwnership'
  BY DEF Storing, SlotOwnership, HeldSlots, storeVars
<1> QED
  BY <1>1, <1>2 DEF Storing, StoreTypeInv, storeVars

(***************************************************************************)
(* The slots a chunker may get: never one that somebody holds.             *)
(***************************************************************************)
LEMMA ObtainFacts ==
  ASSUME Storing, NEW s \in Slots, Obtain(s)
  PROVE  /\ mode[s] \in {"free", "ready"}
         /\ \A c \in Chunkers : s \notin HeldSlots(c)
         /\ queue' \in Seq(Slots)
         /\ IsInjective(queue')
         /\ Range(queue') = Range(queue) \ {s}
         /\ mode' = [mode EXCEPT ![s] = "writing"]
<1>1. /\ mode \in [Slots -> SlotModes] /\ queue \in Seq(Slots)
      /\ IsInjective(queue)
      /\ Range(queue) = {t \in Slots : mode[t] = "ready"}
      /\ \A c \in Chunkers : \A t \in HeldSlots(c) : mode[t] = "writing"
  BY DEF Storing, StoreTypeInv, SlotOwnership
<1>2. CASE s \in FreeSlots /\ queue' = queue
  <2>1. mode[s] = "free"
    BY <1>2 DEF FreeSlots
  <2> QED
    BY <1>1, <1>2, <2>1 DEF Obtain
<1>3. CASE queue # <<>> /\ s = Head(queue) /\ queue' = Tail(queue)
  <2>1. /\ Tail(queue) \in Seq(Slots) /\ IsInjective(Tail(queue))
        /\ Range(Tail(queue)) = Range(queue) \ {Head(queue)}
        /\ Head(queue) \in Range(queue)
    BY <1>1, <1>3, TailRange
  <2>2. mode[s] = "ready"
    BY <1>1, <1>3, <2>1
  <2> QED
    BY <1>1, <1>3, <2>1, <2>2 DEF Obtain
<1> QED
  BY <1>2, <1>3 DEF Obtain

LEMMA AllocateStoring ==
  ASSUME Framing, Storing, NEW c \in Chunkers, NEW s \in Slots, Allocate(c, s)
  PROVE  Storing'
<1> DEFINE id == [from |-> c, pkt |-> hdr[c].pkt, range |-> NextRange(c)]
<1>1. /\ mode[s] \in {"free", "ready"}
      /\ \A d \in Chunkers : s \notin HeldSlots(d)
      /\ queue' \in Seq(Slots)
      /\ IsInjective(queue')
      /\ Range(queue') = Range(queue) \ {s}
      /\ mode' = [mode EXCEPT ![s] = "writing"]
  BY ObtainFacts DEF Allocate
<1>2. /\ StoreTypeInv /\ SlotOwnership /\ Holding(c)
      /\ held \in [Chunkers -> Seq(Slots)]
      /\ pc[c] = "alloc"
      /\ pc \in [Chunkers -> PCs]
  BY DEF Storing, Framing, StreamTypes, Allocate
<1>3. /\ held[c] \in Seq(Slots) /\ IsInjective(held[c]) /\ s \notin Range(held[c])
      /\ Len(held[c]) < NumRanges /\ Len(held[c]) \in Nat
  BY <1>1, <1>2, LenProperties DEF Holding, SlotOwnership, HeldSlots
<1>4. /\ Append(held[c], s) \in Seq(Slots)
      /\ Len(Append(held[c], s)) = Len(held[c]) + 1
      /\ IsInjective(Append(held[c], s))
      /\ Range(Append(held[c], s)) = Range(held[c]) \cup {s}
  BY <1>3, AppendRange
<1>5. id \in ChunkIds
  <2>1. hdr[c] \in Units
    BY <1>2 DEF Framing, InStep
  <2>2. NextRange(c) \in 1..NumRanges
    BY <1>3, StoreAssumption DEF NextRange
  <2> QED
    BY <2>1, <2>2 DEF ChunkIds, Units, Packets
<1>6. /\ held' = [held EXCEPT ![c] = Append(held[c], s)]
      /\ memory' = [memory EXCEPT ![s].head = id]
      /\ UNCHANGED <<lastStart, offers>>
  BY DEF Allocate
<1>7. StoreTypeInv'
  <2>1. memory' \in [Slots -> [head : Contents, body : Contents]]
    BY <1>2, <1>5, <1>6 DEF StoreTypeInv, Contents
  <2>2. mode' \in [Slots -> SlotModes]
    BY <1>1, <1>2 DEF StoreTypeInv, SlotModes
  <2> QED
    BY <1>1, <2>1, <2>2 DEF StoreTypeInv
<1>8. held' \in [Chunkers -> Seq(Slots)]
  BY <1>2, <1>4, <1>6
<1>9. /\ HeldSlots(c)' = HeldSlots(c) \cup {s}
      /\ IsInjective(held'[c])
      /\ Len(held'[c]) = Len(held[c]) + 1
      /\ held'[c] # <<>>
  BY <1>2, <1>3, <1>4, <1>6, EmptySeq DEF HeldSlots
<1>10. \A d \in Chunkers : d # c => held'[d] = held[d] /\ HeldSlots(d)' = HeldSlots(d)
  BY <1>2, <1>6 DEF HeldSlots
<1>11. \A t \in Slots : t # s => memory'[t] = memory[t] /\ mode'[t] = mode[t]
  BY <1>1, <1>2, <1>6 DEF StoreTypeInv
<1>12. memory'[s].head = id /\ mode'[s] = "writing"
  BY <1>1, <1>2, <1>6 DEF StoreTypeInv
<1>13. \A d \in Chunkers : HeldSlots(d) \subseteq Slots
  <2> SUFFICES ASSUME NEW d \in Chunkers PROVE Range(held[d]) \subseteq Slots
    BY DEF HeldSlots
  <2> QED
    BY <1>2, RangeOfSeq
<1>14. SlotOwnership'
  <2>1. Range(queue') = {t \in Slots : mode'[t] = "ready"}
    BY <1>1, <1>2, <1>11, <1>12 DEF SlotOwnership
  <2>2. \A d \in Chunkers : IsInjective(held'[d])
    BY <1>2, <1>9, <1>10 DEF SlotOwnership
  <2>3. \A d \in Chunkers : \A t \in HeldSlots(d)' : mode'[t] = "writing"
    BY <1>2, <1>9, <1>10, <1>11, <1>12, <1>13 DEF SlotOwnership
  <2>4. \A d, e \in Chunkers : d # e => HeldSlots(d)' \cap HeldSlots(e)' = {}
    BY <1>1, <1>2, <1>9, <1>10, SMTT(30) DEF SlotOwnership
  <2> QED
    BY <1>1, <2>1, <2>2, <2>3, <2>4, SMTT(30) DEF SlotOwnership
<1>15. Holding(c)'
  <2>1. \A t \in HeldSlots(c)' : memory'[t].head \in ChunkIds
    BY <1>2, <1>5, <1>9, <1>11, <1>12, <1>13 DEF Holding
  <2>2. /\ pc'[c] = "alloc" => Len(held'[c]) < NumRanges
        /\ pc'[c] \in {"alloc", "fill"}
        /\ Len(held'[c]) <= NumRanges
    BY <1>2, <1>3, <1>9, StoreAssumption DEF Allocate, LastRange, NextRange
  <2> QED
    BY <2>1, <2>2 DEF Holding
<1>16. ASSUME NEW d \in Chunkers, d # c PROVE Holding(d)'
  <2>1. pc'[d] = pc[d]
    BY <1>2, <1>16 DEF Allocate
  <2>2. Holding(d)
    BY DEF Storing
  <2>3. \A t \in HeldSlots(d) : memory'[t] = memory[t]
    BY <1>1, <1>11, <1>13
  <2> QED
    BY <1>10, <1>16, <2>1, <2>2, <2>3 DEF Holding
<1> QED
  BY <1>6, <1>7, <1>8, <1>14, <1>15, <1>16 DEF Storing

LEMMA FillStoring ==
  ASSUME Framing, Storing, NEW c \in Chunkers, Fill(c)
  PROVE  Storing'
<1>1. /\ StoreTypeInv /\ SlotOwnership /\ Holding(c)
      /\ lastStart \in [Chunkers -> Times]
      /\ pc[c] = "fill" /\ pc \in [Chunkers -> PCs]
      /\ hdr[c] \in Units /\ hdr[c].pkt <= Len(sent[c])
      /\ blk[c] = [pkt |-> hdr[c].pkt, part |-> "block"]
      /\ sent[c] \in Seq([start : Times, good : BOOLEAN])
  BY DEF Storing, Framing, StreamTypes, Fill, InStep, FramedAt
<1>2. /\ UNCHANGED <<mode, queue, held, offers>>
      /\ lastStart' = [lastStart EXCEPT ![c] = StartTime(c)]
      /\ pc' = [pc EXCEPT ![c] = "release"]
  BY DEF Fill
<1>3. \A d \in Chunkers : HeldSlots(d)' = HeldSlots(d)
  BY <1>2 DEF HeldSlots
<1>4. hdr[c].pkt \in 1..Len(sent[c])
  BY <1>1, LenProperties DEF Units, Packets
<1>5. sent[c][hdr[c].pkt] \in [start : Times, good : BOOLEAN]
  BY <1>1, <1>4, ElementOfSeq
<1>6. lastStart' \in [Chunkers -> Times]
  BY <1>1, <1>2, <1>5 DEF StartTime
<1>7. ASSUME NEW s \in Slots
      PROVE  /\ memory'[s].head = memory[s].head
             /\ memory'[s] \in [head : Contents, body : Contents]
  <2>1. memory[s] \in [head : Contents, body : Contents]
    BY <1>1 DEF StoreTypeInv
  <2>2. CASE s \in HeldSlots(c)
    <3>1. memory[s].head.range \in 1..NumRanges
      BY <1>1, <2>2 DEF Holding, ChunkIds
    <3>2. [from |-> c, pkt |-> blk[c].pkt, range |-> memory[s].head.range] \in Contents
      BY <1>1, <3>1 DEF Contents, ChunkIds, Units, Packets
    <3> QED
      BY <2>1, <2>2, <3>2 DEF Fill
  <2>3. CASE s \notin HeldSlots(c)
    BY <2>1, <2>3 DEF Fill
  <2> QED
    BY <2>2, <2>3
<1>8. StoreTypeInv'
  <2>1. memory' \in [Slots -> [head : Contents, body : Contents]]
    BY <1>7 DEF Fill
  <2> QED
    BY <1>1, <1>2, <2>1 DEF StoreTypeInv
<1>9. SlotOwnership'
  BY <1>1, <1>2, <1>3 DEF SlotOwnership
<1>10. \A d \in Chunkers : HeldSlots(d) \subseteq Slots
  <2> SUFFICES ASSUME NEW d \in Chunkers PROVE Range(held[d]) \subseteq Slots
    BY DEF HeldSlots
  <2> QED
    BY RangeOfSeq DEF Storing
<1>11. ASSUME NEW d \in Chunkers PROVE Holding(d)'
  <2>1. Holding(d)
    BY DEF Storing
  <2>2. \A t \in HeldSlots(d)' : memory'[t].head \in ChunkIds
    BY <1>3, <1>7, <1>10, <2>1 DEF Holding
  <2>3. pc'[d] = pc[d] \/ (pc[d] = "fill" /\ pc'[d] = "release")
    BY <1>1, <1>2
  <2> QED
    BY <1>2, <2>1, <2>2, <2>3 DEF Holding
<1> QED
  BY <1>2, <1>6, <1>8, <1>9, <1>11 DEF Storing

LEMMA PublishStoring ==
  ASSUME Framing, Storing, NEW c \in Chunkers, PublishNext(c)
  PROVE  Storing'
<1> DEFINE s == Head(held[c])
           o == [pkt |-> memory[s].head.pkt, range |-> memory[s].head.range,
                 whole |-> memory[s].body = memory[s].head]
<1>1. /\ StoreTypeInv /\ SlotOwnership /\ Holding(c)
      /\ held \in [Chunkers -> Seq(Slots)]
      /\ offers \in [Chunkers ->
                       Seq([pkt : Packets, range : 1..NumRanges, whole : BOOLEAN])]
      /\ pc[c] = "release" /\ held[c] # <<>>
  BY DEF Storing, PublishNext
<1>2. /\ mode' = [mode EXCEPT ![s] = "ready"]
      /\ queue' = Append(queue, s)
      /\ held' = [held EXCEPT ![c] = Tail(held[c])]
      /\ offers' = [offers EXCEPT ![c] = Append(offers[c], o)]
      /\ UNCHANGED <<memory, pc, lastStart>>
  BY DEF PublishNext, Publish
<1>3. held[c] \in Seq(Slots) /\ IsInjective(held[c])
  BY <1>1 DEF SlotOwnership
<1>4. /\ Tail(held[c]) \in Seq(Slots)
      /\ Len(Tail(held[c])) = Len(held[c]) - 1
      /\ IsInjective(Tail(held[c]))
      /\ Range(Tail(held[c])) = Range(held[c]) \ {s}
      /\ s \in Range(held[c])
      /\ s \in Slots
  BY <1>1, <1>3, TailRange
<1>5. mode[s] = "writing" /\ s \in HeldSlots(c)
  BY <1>1, <1>4 DEF SlotOwnership, HeldSlots
<1>6. queue \in Seq(Slots) /\ IsInjective(queue) /\ s \notin Range(queue)
  BY <1>1, <1>5 DEF StoreTypeInv, SlotOwnership
<1>7. /\ queue' \in Seq(Slots) /\ IsInjective(queue')
      /\ Range(queue') = Range(queue) \cup {s}
  BY <1>2, <1>4, <1>6, AppendRange
<1>8. o \in [pkt : Packets, range : 1..NumRanges, whole : BOOLEAN]
  <2>1. memory[s].head \in ChunkIds
    BY <1>1, <1>5 DEF Holding
  <2> QED
    BY <2>1 DEF ChunkIds, Packets
<1>9. offers' \in [Chunkers ->
                     Seq([pkt : Packets, range : 1..NumRanges, whole : BOOLEAN])]
  BY <1>1, <1>2, <1>8, AppendProperties
<1>10. StoreTypeInv'
  BY <1>1, <1>2, <1>7 DEF StoreTypeInv, SlotModes
<1>11. /\ \A d \in Chunkers : d # c => held'[d] = held[d] /\ HeldSlots(d)' = HeldSlots(d)
       /\ held'[c] = Tail(held[c])
       /\ HeldSlots(c)' = HeldSlots(c) \ {s}
  BY <1>1, <1>2, <1>4 DEF HeldSlots
<1>12. /\ \A t \in Slots : t # s => mode'[t] = mode[t]
       /\ mode'[s] = "ready"
  BY <1>1, <1>2, <1>4 DEF StoreTypeInv
<1>13. \A d \in Chunkers : HeldSlots(d) \subseteq Slots
  <2> SUFFICES ASSUME NEW d \in Chunkers PROVE Range(held[d]) \subseteq Slots
    BY DEF HeldSlots
  <2> QED
    BY <1>1, RangeOfSeq
<1>14. SlotOwnership'
  <2>1. Range(queue') = {t \in Slots : mode'[t] = "ready"}
    BY <1>1, <1>4, <1>7, <1>12 DEF SlotOwnership
  <2>2. \A d \in Chunkers : IsInjective(held'[d])
    BY <1>1, <1>4, <1>11 DEF SlotOwnership
  <2>3. \A d \in Chunkers : s \notin HeldSlots(d)'
    BY <1>1, <1>5, <1>11, SMTT(30) DEF SlotOwnership
  <2>a. ASSUME NEW d \in Chunkers PROVE HeldSlots(d)' \subseteq HeldSlots(d)
    BY <1>11
  <2>4. ASSUME NEW d \in Chunkers, NEW t \in HeldSlots(d)' PROVE mode'[t] = "writing"
    <3>1. t # s /\ t \in HeldSlots(d) /\ t \in Slots
      BY <1>13, <2>3, <2>4, <2>a
    <3> QED
      BY <1>1, <1>12, <3>1 DEF SlotOwnership
  <2>5. ASSUME NEW d \in Chunkers, NEW e \in Chunkers, d # e
        PROVE  HeldSlots(d)' \cap HeldSlots(e)' = {}
    <3>1. HeldSlots(d) \cap HeldSlots(e) = {}
      BY <1>1, <2>5 DEF SlotOwnership
    <3> QED
      BY <2>a, <3>1
  <2> QED
    BY <1>7, <2>1, <2>2, <2>4, <2>5 DEF SlotOwnership
<1>15. ASSUME NEW d \in Chunkers PROVE Holding(d)'
  <2>1. Holding(d)
    BY DEF Storing
  <2>2. \A t \in HeldSlots(d)' : memory'[t].head \in ChunkIds
    BY <1>2, <1>11, <2>1 DEF Holding
  <2>3. d = c => Len(held'[d]) <= NumRanges /\ pc'[d] = "release"
    BY <1>1, <1>2, <1>3, <1>4, <1>11, <2>1, LenProperties, StoreAssumption DEF Holding
  <2> QED
    BY <1>2, <1>11, <2>1, <2>2, <2>3 DEF Holding
<1> QED
  BY <1>1, <1>2, <1>4, <1>9, <1>10, <1>14, <1>15 DEF Storing

LEMMA PipelineStoring ==
  ASSUME Storing,
         \/ Serve
         \/ \E s \in Slots : Release(s),
         UNCHANGED <<pc, held, lastStart, offers>>
  PROVE  Storing'
<1>1. /\ StoreTypeInv /\ SlotOwnership
      /\ mode \in [Slots -> SlotModes]
      /\ queue \in Seq(Slots) /\ IsInjective(queue)
      /\ memory' = memory
  BY DEF Storing, StoreTypeInv, SlotOwnership, Serve, Release
<1>2. /\ \A d \in Chunkers : HeldSlots(d)' = HeldSlots(d) /\ HeldSlots(d) \subseteq Slots
  <2> SUFFICES ASSUME NEW d \in Chunkers PROVE Range(held[d]) \subseteq Slots
    BY DEF HeldSlots
  <2> QED
    BY RangeOfSeq DEF Storing
<1>3. \A d \in Chunkers : Holding(d)'
  BY <1>1, <1>2 DEF Storing, Holding
<1>4. CASE Serve
  <2> DEFINE s == Head(queue)
  <2>1. /\ Tail(queue) \in Seq(Slots) /\ IsInjective(Tail(queue))
        /\ Range(Tail(queue)) = Range(queue) \ {s}
        /\ s \in Range(queue) /\ s \in Slots
    BY <1>1, <1>4, TailRange DEF Serve
  <2>2. /\ mode' = [mode EXCEPT ![s] = "serving"] /\ queue' = Tail(queue)
        /\ mode[s] = "ready"
    BY <1>1, <1>4, <2>1 DEF Serve, SlotOwnership
  <2>3. StoreTypeInv'
    BY <1>1, <2>1, <2>2 DEF StoreTypeInv, SlotModes
  <2>4. Range(queue') = {t \in Slots : mode'[t] = "ready"}
    BY <1>1, <2>1, <2>2 DEF SlotOwnership
  <2>5. SlotOwnership'
    BY <1>1, <1>2, <2>1, <2>2, <2>4 DEF SlotOwnership
  <2> QED
    BY <1>3, <2>3, <2>5 DEF Storing
<1>5. ASSUME NEW s \in Slots, Release(s) PROVE Storing'
  <2>1. StoreTypeInv'
    BY <1>1, <1>5 DEF StoreTypeInv, SlotModes, Release
  <2>2. SlotOwnership'
    BY <1>1, <1>2, <1>5 DEF SlotOwnership, Release
  <2> QED
    BY <1>3, <2>1, <2>2 DEF Storing
<1> QED
  BY <1>4, <1>5

(***************************************************************************)
(* The two halves together.                                                *)
(***************************************************************************)
LEMMA ReceiverStep ==
  ASSUME IInv, NEW c \in Chunkers, Receiver(c)
  PROVE  IInv'
<1>0. Framing /\ Storing /\ pc \in [Chunkers -> PCs] /\ Holding(c)
  BY DEF IInv, Framing, StreamTypes, Storing
<1>1. CASE NewDevice(c)
  <2>1. UNCHANGED <<storeVars, held, lastStart, offers, pc>>
    BY <1>1 DEF NewDevice, nextVars
  <2> QED
    BY <1>0, <1>1, <2>1, LinkFraming, QuietStoring DEF IInv
<1>2. CASE EnterNext(c) \/ Skip(c) \/ Accept(c) \/ Shortage(c) \/ Return(c)
  <2>1. UNCHANGED <<storeVars, held, lastStart, offers>>
    BY <1>2 DEF EnterNext, Skip, Accept, Shortage, Return
  <2>2. \A d \in Chunkers :
          \/ pc'[d] = pc[d]
          \/ pc'[d] \notin {"alloc", "fill", "release"} /\ held[d] = <<>>
          \/ pc[d] = "check" /\ pc'[d] = "alloc"
          \/ pc'[d] \notin {"alloc"} /\ pc[d] = "alloc" /\ pc'[d] = "release"
    BY <1>0, <1>2 DEF EnterNext, Skip, Accept, Shortage, Return, Holding
  <2> QED
    BY <1>0, <1>2, <2>1, <2>2, LocalFraming, QuietStoring DEF IInv, LocalStep
<1>3. CASE ReadHeader(c)
  <2>1. UNCHANGED <<storeVars, held, lastStart, offers>>
    BY <1>3 DEF ReadHeader
  <2>2. \A d \in Chunkers :
          \/ pc'[d] = pc[d]
          \/ pc'[d] \notin {"alloc", "fill", "release"} /\ held[d] = <<>>
    BY <1>0, <1>3 DEF ReadHeader, Holding
  <2> QED
    BY <1>0, <1>3, <2>1, <2>2, ReadHeaderFraming, QuietStoring DEF IInv
<1>4. CASE ReadBlock(c)
  <2>1. UNCHANGED <<storeVars, held, lastStart, offers>>
    BY <1>4 DEF ReadBlock
  <2>2. \A d \in Chunkers :
          \/ pc'[d] = pc[d]
          \/ pc'[d] \notin {"alloc", "fill", "release"} /\ held[d] = <<>>
    BY <1>0, <1>4 DEF ReadBlock, Holding
  <2> QED
    BY <1>0, <1>4, <2>1, <2>2, ReadBlockFraming, QuietStoring DEF IInv
<1>5. ASSUME NEW s \in Slots, Allocate(c, s) PROVE IInv'
  BY <1>0, <1>5, LocalFraming, AllocateStoring DEF IInv, LocalStep
<1>6. CASE Fill(c)
  BY <1>0, <1>6, LocalFraming, FillStoring DEF IInv, LocalStep
<1>7. CASE PublishNext(c)
  BY <1>0, <1>7, LocalFraming, PublishStoring DEF IInv, LocalStep
<1> QED
  BY <1>1, <1>2, <1>3, <1>4, <1>5, <1>6, <1>7 DEF Receiver, InNext

LEMMA QuietFraming ==
  ASSUME Framing, UNCHANGED <<sent, owed, wire, link, pending, pc, hdr, blk>>,
         active' \in [Chunkers -> BOOLEAN]
  PROVE  Framing'
<1>1. StreamTypes'
  BY DEF Framing, StreamTypes
<1>2. \A d \in Chunkers : Untouched(d)
  BY DEF Untouched
<1> QED
  BY <1>1, <1>2, UntouchedFramed DEF Framing

LEMMA ChunkerStep ==
  ASSUME IInv, ChunkerNext
  PROVE  IInv'
<1>1. PICK c \in Chunkers : Correlator(c) \/ Receiver(c) \/ Deactivate(c)
  BY DEF ChunkerNext
<1>2. CASE Receiver(c)
  BY <1>2, ReceiverStep
<1>3. CASE Correlator(c)
  <2>1. UNCHANGED <<storeVars, held, lastStart, offers, pc>>
    BY <1>3 DEF Correlator, Connect, SendHeader, SendBlock, Disconnect, nextVars
  <2>2. Framing'
    BY <1>3, SendHeaderFraming, SendBlockFraming, LinkFraming DEF IInv, Correlator
  <2> QED
    BY <2>1, <2>2, QuietStoring DEF IInv
<1>4. CASE Deactivate(c)
  <2>1. /\ UNCHANGED <<storeVars, streamVars, nextVars>>
        /\ active' \in [Chunkers -> BOOLEAN]
    BY <1>4 DEF Deactivate, IInv, Framing, StreamTypes
  <2> QED
    BY <2>1, QuietFraming, QuietStoring DEF IInv, streamVars, nextVars
<1> QED
  BY <1>1, <1>2, <1>3, <1>4

LEMMA Inductive == IInv /\ [Next]_vars => IInv'
<1> SUFFICES ASSUME IInv, [Next]_vars PROVE IInv'
  OBVIOUS
<1>1. CASE ChunkerNext
  BY <1>1, ChunkerStep
<1>2. CASE ServeChunk \/ \E s \in Slots : ReleaseChunk(s)
  <2>1. UNCHANGED <<streamVars, active, nextVars>> /\ (Serve \/ \E s \in Slots : Release(s))
    BY <1>2 DEF ServeChunk, ReleaseChunk
  <2>2. Framing'
    BY <2>1, QuietFraming DEF IInv, Framing, StreamTypes, streamVars, nextVars
  <2> QED
    BY <2>1, <2>2, PipelineStoring DEF IInv, nextVars
<1>3. CASE UNCHANGED vars
  <2>1. UNCHANGED <<storeVars, streamVars, active, nextVars>>
    BY <1>3 DEF vars
  <2>2. Framing'
    BY <2>1, QuietFraming DEF IInv, Framing, StreamTypes, streamVars, nextVars
  <2> QED
    BY <2>1, <2>2, QuietStoring DEF IInv, nextVars
<1> QED
  BY <1>1, <1>2, <1>3 DEF Next

LEMMA Invariance == Spec => []IInv
<1>1. Init => IInv
  BY FramingInit, StoringInit DEF IInv
<1> QED
  BY <1>1, Inductive, PTL DEF Spec

(***************************************************************************)
(* Every value of every variable is one the code can hold; in particular   *)
(* a call of next() never holds more chunks than there are channel ranges. *)
(***************************************************************************)
THEOREM TypeCorrect == Spec => []TypeInv
<1>1. IInv => TypeInv
  BY DEF IInv, Framing, Storing, StreamTypes, Holding, TypeInv
<1> QED
  BY <1>1, Invariance, PTL

(***************************************************************************)
(* The reader keeps the packet boundary for streams of any length, however *)
(* packets are dropped, storage refused and connections broken.            *)
(***************************************************************************)
THEOREM AlwaysFramed == Spec => []Framed
<1>1. IInv => Framed
  BY DEF IInv, Framing, Framed
<1> QED
  BY <1>1, Invariance, PTL

(***************************************************************************)
(* Whatever the number of streams and slots, no two chunkers write the     *)
(* same slot and no slot is written while it waits for a pipeline.         *)
(***************************************************************************)
THEOREM SlotsOwned == Spec => []SlotOwnership
<1>1. IInv => SlotOwnership
  BY DEF IInv, Storing
<1> QED
  BY <1>1, Invariance, PTL

-----------------------------------------------------------------------------
(***************************************************************************)
(* A call of next() ends: Left(c) is what is ahead of it at most, two      *)
(* steps for every channel range and five more.                            *)
(***************************************************************************)
Left(c) ==
  [idle |-> 0,
   header |-> 2 * NumRanges + 5,
   block |-> 2 * NumRanges + 4,
   check |-> 2 * NumRanges + 3,
   alloc |-> 2 * NumRanges + 2 - Len(held[c]),
   fill |-> NumRanges + 2,
   release |-> Len(held[c]) + 1][pc[c]]

LEMMA HeldLength ==
  ASSUME IInv, NEW c \in Chunkers
  PROVE  /\ Len(held[c]) \in Nat /\ Len(held[c]) <= NumRanges
         /\ held[c] = <<>> <=> Len(held[c]) = 0
         /\ pc[c] = "alloc" => Len(held[c]) < NumRanges
         /\ pc[c] = "check" => held[c] = <<>>
         /\ pc[c] \in PCs
  BY LenProperties, EmptySeq DEF IInv, Storing, Framing, StreamTypes, Holding

LEMMA LeftType ==
  ASSUME IInv, NEW c \in Chunkers
  PROVE  Left(c) \in 0..(2 * NumRanges + 5)
<1>1. /\ pc[c] = "idle" => Left(c) = 0
      /\ pc[c] = "header" => Left(c) = 2 * NumRanges + 5
      /\ pc[c] = "block" => Left(c) = 2 * NumRanges + 4
      /\ pc[c] = "check" => Left(c) = 2 * NumRanges + 3
      /\ pc[c] = "alloc" => Left(c) = 2 * NumRanges + 2 - Len(held[c])
      /\ pc[c] = "fill" => Left(c) = NumRanges + 2
      /\ pc[c] = "release" => Left(c) = Len(held[c]) + 1
  BY DEF Left
<1>2. PICK n \in Nat \ {0} : n = NumRanges
  BY StoreAssumption
<1>3. PICK k \in Nat : k = Len(held[c]) /\ k <= n
  BY <1>2, HeldLength
<1>4. Left(c) \in {0, 2 * n + 5, 2 * n + 4, 2 * n + 3, 2 * n + 2 - k, n + 2, k + 1}
  BY <1>1, <1>2, <1>3, HeldLength DEF PCs
<1>5. \A x \in {0, 2 * n + 5, 2 * n + 4, 2 * n + 3, 2 * n + 2 - k, n + 2, k + 1} :
        x \in 0..(2 * n + 5)
  BY <1>2, <1>3
<1> QED
  BY <1>2, <1>4, <1>5

LeftInRange == \A c \in Chunkers : Left(c) \in 0..(2 * NumRanges + 5)

LEMMA LeftTyped == IInv => LeftInRange
  BY LeftType DEF LeftInRange

LEMMA LeftTypedNext == IInv' => LeftInRange'
  BY LeftTyped, PTL

\* Every step inside next() brings its end nearer.
LEMMA LeftFalls ==
  ASSUME IInv, NEW c \in Chunkers, InNext(c)
  PROVE  Left(c)' < Left(c)
<1>0. /\ pc \in [Chunkers -> PCs] /\ held \in [Chunkers -> Seq(Slots)]
      /\ NumRanges \in Nat \ {0}
  BY StoreAssumption DEF IInv, Storing, Framing, StreamTypes
<1>1. CASE ReadHeader(c)
  BY <1>0, <1>1 DEF ReadHeader, Left
<1>2. CASE ReadBlock(c)
  BY <1>0, <1>2 DEF ReadBlock, Left
<1>3. CASE Skip(c)
  BY <1>0, <1>3 DEF Skip, Left
<1>4. CASE Accept(c)
  BY <1>0, <1>4, HeldLength DEF Accept, Left
<1>5. ASSUME NEW s \in Slots, Allocate(c, s) PROVE Left(c)' < Left(c)
  <2>1. Len(held'[c]) = Len(held[c]) + 1
    BY <1>0, <1>5, AppendProperties DEF Allocate
  <2>2. pc[c] = "alloc" /\ pc'[c] = IF Len(held[c]) + 1 = NumRanges THEN "fill" ELSE "alloc"
    BY <1>0, <1>5 DEF Allocate, LastRange, NextRange
  <2>3. Len(held[c]) \in Nat /\ Len(held[c]) < NumRanges
    BY <2>2, HeldLength
  <2> QED
    BY <1>0, <2>1, <2>2, <2>3 DEF Left
<1>6. CASE Shortage(c)
  BY <1>0, <1>6, HeldLength DEF Shortage, Left
<1>7. CASE Fill(c)
  BY <1>0, <1>7, HeldLength DEF Fill, Left
<1>8. CASE PublishNext(c)
  <2>1. Len(held'[c]) = Len(held[c]) - 1
    BY <1>0, <1>8, HeadTailProperties DEF PublishNext
  <2>2. pc[c] = "release" /\ pc'[c] = "release" /\ Len(held[c]) \in Nat
    BY <1>8, HeldLength DEF PublishNext
  <2> QED
    BY <2>1, <2>2 DEF Left
<1>9. CASE Return(c)
  BY <1>0, <1>9, HeldLength DEF Return, Left
<1> QED
  BY <1>1, <1>2, <1>3, <1>4, <1>5, <1>6, <1>7, <1>8, <1>9 DEF InNext

\* What other threads and the pipelines do does not change it.
LEMMA LeftKept ==
  ASSUME IInv, [Next]_vars, NEW c \in Chunkers, ~InNext(c), ~EnterNext(c)
  PROVE  Left(c)' = Left(c)
<1>0. pc \in [Chunkers -> PCs] /\ held \in [Chunkers -> Seq(Slots)]
  BY DEF IInv, Storing, Framing, StreamTypes
<1>1. ASSUME NEW d \in Chunkers, d # c, EnterNext(d) \/ InNext(d)
      PROVE  pc'[c] = pc[c] /\ held'[c] = held[c]
  BY <1>0, <1>1 DEF EnterNext, InNext, ReadHeader, ReadBlock, Skip, Accept, Allocate, Shortage,
     Fill, PublishNext, Return
<1>2. ASSUME UNCHANGED nextVars PROVE pc'[c] = pc[c] /\ held'[c] = held[c]
  BY <1>2 DEF nextVars
<1>3. ASSUME NEW d \in Chunkers, Correlator(d) \/ NewDevice(d) \/ Deactivate(d)
      PROVE  UNCHANGED nextVars
  BY <1>3 DEF Correlator, Connect, SendHeader, SendBlock, Disconnect, NewDevice, Deactivate
<1>4. pc'[c] = pc[c] /\ held'[c] = held[c]
  BY <1>1, <1>2, <1>3 DEF Next, ChunkerNext, Receiver, ServeChunk, ReleaseChunk, vars
<1> QED
  BY <1>4 DEF Left

(***************************************************************************)
(* A call of next() takes at most 2 * NumRanges + 5 steps, whatever the    *)
(* other chunkers, the correlators and the pipelines do meanwhile: each of *)
(* its steps brings its end nearer, nobody else's takes it further away,   *)
(* and the call starts anew only when it is entered                        *)
(* (StreamChunker.cpp:55-137).                                             *)
(***************************************************************************)
CallsEnd ==
  [][\A c \in Chunkers : /\ InNext(c) => Left(c)' < Left(c)
                         /\ Left(c)' > Left(c) => EnterNext(c)]_vars

THEOREM CallsAreBounded ==
  Spec => CallsEnd /\ []LeftInRange
<1>1. ASSUME IInv, [Next]_vars, NEW c \in Chunkers
      PROVE  /\ InNext(c) => Left(c)' < Left(c)
             /\ Left(c)' > Left(c) => EnterNext(c)
  <2>1. Left(c) \in Int /\ Left(c)' \in Int
    BY <1>1, Inductive, LeftTyped, LeftTypedNext, StoreAssumption DEF LeftInRange
  <2>2. InNext(c) => Left(c)' < Left(c)
    BY <1>1, LeftFalls
  <2>3. ~InNext(c) /\ ~EnterNext(c) => Left(c)' = Left(c)
    BY <1>1, LeftKept
  <2> QED
    BY <2>1, <2>2, <2>3
<1>2. IInv /\ [Next]_vars => \A c \in Chunkers : /\ InNext(c) => Left(c)' < Left(c)
                                                 /\ Left(c)' > Left(c) => EnterNext(c)
  BY <1>1
<1> QED
  BY <1>2, Invariance, LeftTyped, PTL DEF Spec, CallsEnd

(***************************************************************************)
(* NeverHeldUp, from what enables each of the steps: NextEnabled says that *)
(* a step of next() can be taken where its guard holds, which the provers  *)
(* cannot see.  Together the guards leave no gap, whatever the store is    *)
(* used for: with a slot that is free the chunker gets it, and without one *)
(* it may give up.                                                         *)
(***************************************************************************)
NextEnabled ==
  \A c \in Chunkers :
    /\ pc[c] = "check" /\ (~HasMagic(c) \/ TooSoon(c)) => ENABLED InNext(c)
    /\ pc[c] = "check" /\ HasMagic(c) /\ ~TooSoon(c) => ENABLED InNext(c)
    /\ \A s \in Slots : pc[c] = "alloc" /\ s \in FreeSlots => ENABLED InNext(c)
    /\ pc[c] = "alloc" /\ MayRefuse => ENABLED InNext(c)
    /\ pc[c] = "fill" => ENABLED InNext(c)
    /\ pc[c] = "release" /\ held[c] # <<>> => ENABLED InNext(c)
    /\ pc[c] = "release" /\ held[c] = <<>> => ENABLED InNext(c)

LEMMA NobodyHeldUp == Spec /\ []NextEnabled => []NeverHeldUp
<1>1. NextEnabled => NeverHeldUp
  BY DEF NextEnabled, NeverHeldUp, Working, MayRefuse, FreeSlots
<1> QED
  BY <1>1, PTL

-----------------------------------------------------------------------------
(***************************************************************************)
(* What Reconnected finds, for every size: a connection that waits is only *)
(* kept waiting for good by a packet that was cut off after its header.    *)
(* A chunker that waits in next() has read the header, and a connection    *)
(* waits only while there is none.                                         *)
(***************************************************************************)
Waits(c) == pc[c] \in {"header", "block"} /\ wire[c] = <<>>
CutOff(c) == Waits(c) /\ link[c] = "down"

ReaderAt(c) ==
  /\ pc[c] = "header" => wire[c] # <<>>
  /\ link[c] = "none" => pc[c] = "idle" /\ wire[c] = <<>>
  /\ pending[c] => link[c] # "up"
Reading == \A c \in Chunkers : ReaderAt(c)

LEMMA ReadingStep == IInv /\ Reading /\ [Next]_vars => Reading'
<1> SUFFICES ASSUME IInv, Reading, [Next]_vars, NEW c \in Chunkers PROVE ReaderAt(c)'
  BY DEF Reading
<1>0. /\ pc \in [Chunkers -> PCs] /\ wire \in [Chunkers -> Seq(Units)]
      /\ link \in [Chunkers -> Links] /\ pending \in [Chunkers -> BOOLEAN]
      /\ ReaderAt(c)
  BY DEF IInv, Framing, StreamTypes, Reading
<1>1. ASSUME UNCHANGED <<pc, wire, link, pending>> PROVE ReaderAt(c)'
  BY <1>0, <1>1 DEF ReaderAt
<1>2. ASSUME NEW d \in Chunkers, Correlator(d) \/ Receiver(d) \/ Deactivate(d)
      PROVE  ReaderAt(c)'
  <2>1. CASE Connect(d)
    BY <1>0, <2>1 DEF Connect, ReaderAt, nextVars
  <2>2. ASSUME NEW start \in Times, NEW good \in BOOLEAN, SendHeader(d, start, good)
        PROVE  ReaderAt(c)'
    <3>1. wire'[c] = <<>> => wire[c] = <<>>
      <4>0. Len(sent[d]) + 1 \in 1..MaxPackets
        BY <2>2, LenProperties, StoreAssumption DEF SendHeader, IInv, Framing, StreamTypes
      <4>1. [pkt |-> Len(sent[d]) + 1, part |-> "header"] \in Units
        BY <4>0, UnitsFacts
      <4> QED
        BY <1>0, <2>2, <4>1, AppendProperties DEF SendHeader
    <3>2. link[d] = "up" /\ pc' = pc /\ link' = link /\ pending' = pending
          /\ (c # d => wire'[c] = wire[c])
      BY <1>0, <2>2 DEF SendHeader, nextVars
    <3> QED
      BY <1>0, <3>1, <3>2 DEF ReaderAt
  <2>3. CASE SendBlock(d)
    <3>1. wire'[c] = <<>> => wire[c] = <<>>
      <4>0. Len(sent[d]) \in 1..MaxPackets
        <5>1. Len(sent[d]) > 0
          BY <2>3 DEF SendBlock, IInv, Framing, InStep
        <5>2. Len(sent[d]) \in Nat /\ Len(sent[d]) <= MaxPackets
          BY LenProperties DEF IInv, Framing, StreamTypes
        <5> QED
          BY <5>1, <5>2, StoreAssumption
      <4>1. [pkt |-> Len(sent[d]), part |-> "block"] \in Units
        BY <4>0, UnitsFacts
      <4> QED
        BY <1>0, <2>3, <4>1, AppendProperties DEF SendBlock
    <3>2. link[d] = "up" /\ pc' = pc /\ link' = link /\ pending' = pending
          /\ (c # d => wire'[c] = wire[c])
      BY <1>0, <2>3 DEF SendBlock, nextVars
    <3> QED
      BY <1>0, <3>1, <3>2 DEF ReaderAt
  <2>4. CASE Disconnect(d)
    BY <1>0, <2>4 DEF Disconnect, ReaderAt, nextVars
  <2>5. CASE Deactivate(d)
    BY <1>1, <2>5 DEF Deactivate, streamVars, nextVars
  <2>6. CASE NewDevice(d)
    BY <1>0, <2>6 DEF NewDevice, ReaderAt, nextVars
  <2>7. CASE EnterNext(d)
    BY <1>0, <2>7 DEF EnterNext, ReaderAt, streamVars
  <2>8. CASE InNext(d)
    <3>1. /\ link' = link /\ pending' = pending
          /\ pc[d] # "idle" /\ pc'[d] # "header"
          /\ c # d => pc'[c] = pc[c] /\ wire'[c] = wire[c]
      BY <1>0, <2>8 DEF InNext, ReadHeader, ReadBlock, Skip, Accept, Allocate, Shortage, Fill,
         PublishNext, Return, streamVars
    <3> QED
      BY <1>0, <3>1 DEF ReaderAt
  <2> QED
    BY <1>2, <2>1, <2>2, <2>3, <2>4, <2>5, <2>6, <2>7, <2>8 DEF Correlator, Receiver
<1>3. ASSUME ServeChunk \/ \E s \in Slots : ReleaseChunk(s) PROVE ReaderAt(c)'
  BY <1>1, <1>3 DEF ServeChunk, ReleaseChunk, streamVars, nextVars
<1>4. CASE UNCHANGED vars
  BY <1>1, <1>4 DEF vars, streamVars, nextVars
<1> QED
  BY <1>2, <1>3, <1>4 DEF Next, ChunkerNext

(***************************************************************************)
(* A connection that waits while next() waits for bytes waits for a packet *)
(* that was cut off, for any number of streams and packets: it is the only *)
(* way in which a stream can keep the next one out.                        *)
(***************************************************************************)
OnlyCutOffs == \A c \in Chunkers : pending[c] /\ Waits(c) => CutOff(c)

THEOREM OnlyCutOffsBlock == Spec => []OnlyCutOffs
<1>1. Init => Reading
  BY DEF Init, Reading, ReaderAt
<1>2. IInv /\ Reading => OnlyCutOffs
  BY DEF IInv, Framing, StreamTypes, Links, PCs, Reading, ReaderAt, OnlyCutOffs, CutOff, Waits
<1> QED
  BY <1>1, <1>2, ReadingStep, Invariance, PTL DEF Spec

(***************************************************************************)
(* And it never ends: a chunker whose packet was cut off stays where it    *)
(* is, and no connection that waits for it is ever accepted                *)
(* (StreamChunker.cpp:76).                                                 *)
(***************************************************************************)
ForGood ==
  [][\A c \in Chunkers : CutOff(c) => CutOff(c)' /\ (pending[c] => pending'[c])]_vars

THEOREM CutOffForGood == Spec => ForGood
<1>1. IInv /\ [Next]_vars =>
        \A c \in Chunkers : CutOff(c) => CutOff(c)' /\ (pending[c] => pending'[c])
  <2> SUFFICES ASSUME IInv, [Next]_vars, NEW c \in Chunkers, CutOff(c)
               PROVE  CutOff(c)' /\ (pending[c] => pending'[c])
    OBVIOUS
  <2>0. /\ pc \in [Chunkers -> PCs] /\ wire \in [Chunkers -> Seq(Units)]
        /\ link \in [Chunkers -> Links] /\ pending \in [Chunkers -> BOOLEAN]
        /\ pc[c] \in {"header", "block"} /\ wire[c] = <<>> /\ link[c] = "down"
    BY DEF IInv, Framing, StreamTypes, CutOff, Waits
  <2>1. ASSUME UNCHANGED <<pc, wire, link, pending>>
        PROVE  CutOff(c)' /\ (pending[c] => pending'[c])
    BY <2>0, <2>1 DEF CutOff, Waits
  <2>2. ASSUME NEW d \in Chunkers, Correlator(d) \/ Receiver(d) \/ Deactivate(d)
        PROVE  CutOff(c)' /\ (pending[c] => pending'[c])
    <3>1. /\ pc'[c] = pc[c] /\ wire'[c] = wire[c] /\ link'[c] = link[c]
          /\ pending[c] => pending'[c]
      <4>1. CASE d # c
        BY <2>0, <2>2, <4>1 DEF Correlator, Connect, SendHeader, SendBlock, Disconnect,
           Deactivate, Receiver, NewDevice, EnterNext, InNext, ReadHeader, ReadBlock, Skip,
           Accept, Allocate, Shortage, Fill, PublishNext, Return, streamVars, nextVars
      <4>2. CASE d = c
        BY <2>0, <2>2, <4>2 DEF Correlator, Connect, SendHeader, SendBlock, Disconnect,
           Deactivate, Receiver, NewDevice, EnterNext, InNext, ReadHeader, ReadBlock, Skip,
           Accept, Allocate, Shortage, Fill, PublishNext, Return, streamVars, nextVars
      <4> QED
        BY <4>1, <4>2
    <3> QED
      BY <2>0, <3>1 DEF CutOff, Waits
  <2>3. ASSUME ServeChunk \/ \E s \in Slots : ReleaseChunk(s)
        PROVE  CutOff(c)' /\ (pending[c] => pending'[c])
    BY <2>1, <2>3 DEF ServeChunk, ReleaseChunk, streamVars, nextVars
  <2>4. CASE UNCHANGED vars
    BY <2>1, <2>4 DEF vars, streamVars, nextVars
  <2> QED
    BY <2>2, <2>3, <2>4 DEF Next, ChunkerNext
<1> QED
  BY <1>1, Invariance, PTL DEF Spec, ForGood

=============================================================================
