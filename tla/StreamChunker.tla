---------------------------- MODULE StreamChunker ----------------------------
(***************************************************************************)
(* The server side of a stream: the correlator writes packets into a TCP   *)
(* connection, StreamChunker::next() reads them one at a time, cuts each   *)
(* into one chunk per channel range and hands the chunks to the store.     *)
(*                                                                         *)
(* A packet is two units on the wire, its header and its block of          *)
(* visibilities: next() waits until a whole unit is available, so that a   *)
(* part of a unit is no more use to it than nothing.                       *)
(***************************************************************************)
EXTENDS Integers, Functions, ChunkStore

CONSTANTS
  MinInterval,  \* attribute "interval" of <stream>, default 0
  MaxTime       \* bound: start times are 0 .. MaxTime

ASSUME ChunkerAssumption ==
  /\ MinInterval \in Nat
  /\ MaxTime \in Nat

VARIABLES
  sent,      \* history: the packets the correlator has put on each stream
  owed,      \* whether the block of the last header is still to be sent
  wire,      \* units that arrived and that the chunker has not read
  link,      \* the device of the chunker: none yet, connected, disconnected
  pending,   \* whether a new connection waits to be accepted
  active,    \* AbstractChunker::isActive()
  pc,        \* where next() is
  hdr,       \* the unit that was read as the stream header
  blk,       \* the unit that was read as the block of visibilities
  held,      \* "chunks": the valid WritableData of this call, by range
  lastStart, \* mStartInterval
  offers     \* history: the chunks handed to the store, and whether filled

streamVars == <<sent, owed, wire, link, pending>>
nextVars == <<pc, hdr, blk, held, lastStart, offers>>
vars == <<storeVars, streamVars, active, nextVars>>

Packets == 1..MaxPackets
Times == 0..MaxTime
Units == [pkt : Packets, part : {"header", "block"}]
NoUnit == [pkt |-> 0, part |-> "none"]
Links == {"none", "up", "down"}
PCs == {"idle", "header", "block", "check", "alloc", "fill", "release"}

TypeInv ==
  /\ StoreTypeInv
  /\ sent \in [Chunkers -> Seq([start : Times, good : BOOLEAN])]
  /\ \A c \in Chunkers : Len(sent[c]) <= MaxPackets
  /\ owed \in [Chunkers -> BOOLEAN]
  /\ wire \in [Chunkers -> Seq(Units)]
  /\ link \in [Chunkers -> Links]
  /\ pending \in [Chunkers -> BOOLEAN]
  /\ active \in [Chunkers -> BOOLEAN]
  /\ pc \in [Chunkers -> PCs]
  /\ hdr \in [Chunkers -> Units \cup {NoUnit}]
  /\ blk \in [Chunkers -> Units \cup {NoUnit}]
  /\ held \in [Chunkers -> Seq(Slots)]
  /\ \A c \in Chunkers : Len(held[c]) <= NumRanges
  /\ lastStart \in [Chunkers -> Times]
  /\ offers \in [Chunkers ->
                   Seq([pkt : Packets, range : 1..NumRanges, whole : BOOLEAN])]

Init ==
  /\ StoreInit
  /\ sent = [c \in Chunkers |-> <<>>]
  /\ owed = [c \in Chunkers |-> FALSE]
  /\ wire = [c \in Chunkers |-> <<>>]
  /\ link = [c \in Chunkers |-> "none"]
  /\ pending = [c \in Chunkers |-> FALSE]
  /\ active = [c \in Chunkers |-> TRUE]
  /\ pc = [c \in Chunkers |-> "idle"]
  /\ hdr = [c \in Chunkers |-> NoUnit]
  /\ blk = [c \in Chunkers |-> NoUnit]
  /\ held = [c \in Chunkers |-> <<>>]
  /\ lastStart = [c \in Chunkers |-> 0]
  /\ offers = [c \in Chunkers |-> <<>>]

-----------------------------------------------------------------------------
(***************************************************************************)
(* The correlator: it connects, sends packets and may close the connection *)
(* at any time, also between the header and the block of a packet.         *)
(***************************************************************************)
Connect(c) ==
  /\ ~pending[c]
  /\ link[c] # "up"
  /\ Len(sent[c]) < MaxPackets
  /\ pending' = [pending EXCEPT ![c] = TRUE]
  /\ UNCHANGED <<storeVars, sent, owed, wire, link, active, nextVars>>

SendHeader(c, start, good) ==
  /\ link[c] = "up"
  /\ ~owed[c]
  /\ Len(sent[c]) < MaxPackets
  /\ sent' = [sent EXCEPT ![c] = Append(@, [start |-> start, good |-> good])]
  /\ owed' = [owed EXCEPT ![c] = TRUE]
  /\ wire' = [wire EXCEPT
                ![c] = Append(@, [pkt |-> Len(sent[c]) + 1, part |-> "header"])]
  /\ UNCHANGED <<storeVars, link, pending, active, nextVars>>

SendBlock(c) ==
  /\ link[c] = "up"
  /\ owed[c]
  /\ owed' = [owed EXCEPT ![c] = FALSE]
  /\ wire' = [wire EXCEPT
                ![c] = Append(@, [pkt |-> Len(sent[c]), part |-> "block"])]
  /\ UNCHANGED <<storeVars, sent, link, pending, active, nextVars>>

Disconnect(c) ==
  /\ link[c] = "up"
  /\ link' = [link EXCEPT ![c] = "down"]
  /\ owed' = [owed EXCEPT ![c] = FALSE]
  /\ UNCHANGED <<storeVars, sent, wire, pending, active, nextVars>>

-----------------------------------------------------------------------------
(***************************************************************************)
(* newDevice(): the receiver thread of Pelican calls it between two calls  *)
(* of next(), when it has no device or its device was disconnected.  The   *)
(* unread bytes of the old device are gone with it.                        *)
(***************************************************************************)
NewDevice(c) ==
  /\ pc[c] = "idle"
  /\ link[c] # "up"
  /\ pending[c]
  /\ link' = [link EXCEPT ![c] = "up"]
  /\ pending' = [pending EXCEPT ![c] = FALSE]
  /\ wire' = [wire EXCEPT ![c] = <<>>]
  /\ UNCHANGED <<storeVars, sent, owed, active, nextVars>>

(***************************************************************************)
(* next(): called when the device has unread data; an inactive chunker     *)
(* returns at once.                                                        *)
(***************************************************************************)
EnterNext(c) ==
  /\ pc[c] = "idle"
  /\ wire[c] # <<>>
  /\ active[c]
  /\ pc' = [pc EXCEPT ![c] = "header"]
  /\ UNCHANGED <<storeVars, streamVars, active, hdr, blk, held, lastStart, offers>>

Deactivate(c) ==
  /\ active[c]
  /\ active' = [active EXCEPT ![c] = FALSE]
  /\ UNCHANGED <<storeVars, streamVars, nextVars>>

\* Mutant: a packet without the magic is dropped before its block is read.
ReadHeaderCheckingMagic(c) ==
  /\ pc[c] = "header"
  /\ wire[c] # <<>>
  /\ hdr' = [hdr EXCEPT ![c] = Head(wire[c])]
  /\ wire' = [wire EXCEPT ![c] = Tail(@)]
  /\ pc' = [pc EXCEPT ![c] =
       IF sent[c][Head(wire[c]).pkt].good THEN "block" ELSE "idle"]
  /\ UNCHANGED <<storeVars, sent, owed, link, pending, active,
                 blk, held, lastStart, offers>>

\* Mutant: the wait compares with <= and wants more than the block.
ReadBlockWaitingForMore(c) ==
  /\ pc[c] = "block"
  /\ Len(wire[c]) > 1
  /\ blk' = [blk EXCEPT ![c] = Head(wire[c])]
  /\ wire' = [wire EXCEPT ![c] = Tail(@)]
  /\ pc' = [pc EXCEPT ![c] = "check"]
  /\ UNCHANGED <<storeVars, sent, owed, link, pending, active,
                 hdr, held, lastStart, offers>>

(***************************************************************************)
(* The waits loop on waitForReadyRead(-1) until enough bytes are there,    *)
(* also when the peer is gone and they can never come.                     *)
(***************************************************************************)
ReadHeader(c) ==
  /\ pc[c] = "header"
  /\ wire[c] # <<>>
  /\ hdr' = [hdr EXCEPT ![c] = Head(wire[c])]
  /\ wire' = [wire EXCEPT ![c] = Tail(@)]
  /\ pc' = [pc EXCEPT ![c] = "block"]
  /\ UNCHANGED <<storeVars, sent, owed, link, pending, active,
                 blk, held, lastStart, offers>>

ReadBlock(c) ==
  /\ pc[c] = "block"
  /\ wire[c] # <<>>
  /\ blk' = [blk EXCEPT ![c] = Head(wire[c])]
  /\ wire' = [wire EXCEPT ![c] = Tail(@)]
  /\ pc' = [pc EXCEPT ![c] = "check"]
  /\ UNCHANGED <<storeVars, sent, owed, link, pending, active,
                 hdr, held, lastStart, offers>>

(***************************************************************************)
(* The two early returns after a whole packet was read: a wrong magic and  *)
(* a packet that comes too soon after the last one that was processed.     *)
(***************************************************************************)
HasMagic(c) == hdr[c].part = "header" /\ sent[c][hdr[c].pkt].good
StartTime(c) == sent[c][hdr[c].pkt].start
TooSoon(c) == StartTime(c) - lastStart[c] < MinInterval

Skip(c) ==
  /\ pc[c] = "check"
  /\ ~HasMagic(c) \/ TooSoon(c)
  /\ pc' = [pc EXCEPT ![c] = "idle"]
  /\ UNCHANGED <<storeVars, streamVars, active, hdr, blk, held, lastStart, offers>>

Accept(c) ==
  /\ pc[c] = "check"
  /\ HasMagic(c)
  /\ ~TooSoon(c)
  /\ pc' = [pc EXCEPT ![c] = "alloc"]
  /\ UNCHANGED <<storeVars, streamVars, active, hdr, blk, held, lastStart, offers>>

(***************************************************************************)
(* Storage for the next range, and the chunk header written into it.       *)
(***************************************************************************)
\* Mutants: the range is counted from zero; the loop stops one range early.
NextRangeFromZero(c) == Len(held[c])
LastRangeTooEarly(c) == Len(held[c]) + 2 >= NumRanges

NextRange(c) == Len(held[c]) + 1
LastRange(c) == NextRange(c) = NumRanges

Allocate(c, s) ==
  /\ pc[c] = "alloc"
  /\ Obtain(s)
  /\ memory' = [memory EXCEPT
       ![s].head = [from |-> c, pkt |-> hdr[c].pkt, range |-> NextRange(c)]]
  /\ held' = [held EXCEPT ![c] = Append(@, s)]
  /\ pc' = IF LastRange(c) THEN [pc EXCEPT ![c] = "fill"] ELSE pc
  /\ UNCHANGED <<streamVars, active, hdr, blk, lastStart, offers>>

(***************************************************************************)
(* "Not enough memory": the call returns, and the ranges that did get      *)
(* storage go out of scope with nothing but a header in them.              *)
(***************************************************************************)
Shortage(c) ==
  /\ pc[c] = "alloc"
  /\ MayRefuse
  /\ pc' = [pc EXCEPT ![c] = "release"]
  /\ UNCHANGED <<storeVars, streamVars, active, hdr, blk, held, lastStart, offers>>

(***************************************************************************)
(* Copies the visibilities of every range and remembers the start time.    *)
(***************************************************************************)
HeldSlots(c) == Range(held[c])

\* Mutant: the last range is left out of the copy.
FillAllButLast(c) ==
  /\ pc[c] = "fill"
  /\ memory' = [s \in Slots |->
       IF s \in HeldSlots(c) /\ s # held[c][Len(held[c])]
       THEN [memory[s] EXCEPT !.body = [from |-> c, pkt |-> blk[c].pkt,
                                        range |-> memory[s].head.range]]
       ELSE memory[s]]
  /\ lastStart' = [lastStart EXCEPT ![c] = StartTime(c)]
  /\ pc' = [pc EXCEPT ![c] = "release"]
  /\ UNCHANGED <<mode, queue, streamVars, active, hdr, blk, held, offers>>

\* Mutant: mStartInterval is not updated.
FillForgettingStart(c) ==
  /\ pc[c] = "fill"
  /\ memory' = [s \in Slots |->
       IF s \in HeldSlots(c)
       THEN [memory[s] EXCEPT !.body = [from |-> c, pkt |-> blk[c].pkt,
                                        range |-> memory[s].head.range]]
       ELSE memory[s]]
  /\ pc' = [pc EXCEPT ![c] = "release"]
  /\ UNCHANGED <<mode, queue, streamVars, active, hdr, blk, held,
                 lastStart, offers>>

Fill(c) ==
  /\ pc[c] = "fill"
  /\ memory' = [s \in Slots |->
       IF s \in HeldSlots(c)
       THEN [memory[s] EXCEPT !.body = [from |-> c, pkt |-> blk[c].pkt,
                                        range |-> memory[s].head.range]]
       ELSE memory[s]]
  /\ lastStart' = [lastStart EXCEPT ![c] = StartTime(c)]
  /\ pc' = [pc EXCEPT ![c] = "release"]
  /\ UNCHANGED <<mode, queue, streamVars, active, hdr, blk, held, offers>>

(***************************************************************************)
(* The end of next(): the vector of WritableData is destroyed, element by  *)
(* element, and each destruction publishes a chunk.                        *)
(***************************************************************************)
PublishNext(c) ==
  LET s == Head(held[c])
      id == memory[s].head
  IN /\ pc[c] = "release"
     /\ held[c] # <<>>
     /\ Publish(s)
     /\ held' = [held EXCEPT ![c] = Tail(@)]
     /\ offers' = [offers EXCEPT ![c] =
          Append(@, [pkt |-> id.pkt, range |-> id.range,
                     whole |-> memory[s].body = id])]
     /\ UNCHANGED <<streamVars, active, pc, hdr, blk, lastStart>>

Return(c) ==
  /\ pc[c] = "release"
  /\ held[c] = <<>>
  /\ pc' = [pc EXCEPT ![c] = "idle"]
  /\ UNCHANGED <<storeVars, streamVars, active, hdr, blk, held, lastStart, offers>>

-----------------------------------------------------------------------------
(***************************************************************************)
(* The pipelines, as far as the server sees them.                          *)
(***************************************************************************)
ServeChunk == Serve /\ UNCHANGED <<streamVars, active, nextVars>>
ReleaseChunk(s) == Release(s) /\ UNCHANGED <<streamVars, active, nextVars>>

Correlator(c) ==
  \/ Connect(c)
  \/ \E start \in Times, good \in BOOLEAN : SendHeader(c, start, good)
  \/ SendBlock(c)
  \/ Disconnect(c)

\* What the thread of one chunker does inside next().
InNext(c) ==
  \/ ReadHeader(c)
  \/ ReadBlock(c)
  \/ Skip(c)
  \/ Accept(c)
  \/ \E s \in Slots : Allocate(c, s)
  \/ Shortage(c)
  \/ Fill(c)
  \/ PublishNext(c)
  \/ Return(c)

Receiver(c) == NewDevice(c) \/ EnterNext(c) \/ InNext(c)

ChunkerNext ==
  \E c \in Chunkers : Correlator(c) \/ Receiver(c) \/ Deactivate(c)

Next ==
  \/ ChunkerNext
  \/ ServeChunk
  \/ \E s \in Slots : ReleaseChunk(s)

(***************************************************************************)
(* Fairness: the receiver threads of the server keep running.  Nothing is  *)
(* assumed of the correlator or of the pipelines.                          *)
(***************************************************************************)
Spec == Init /\ [][Next]_vars
FairSpec == Spec /\ \A c \in Chunkers : WF_vars(Receiver(c))

-----------------------------------------------------------------------------
(***************************************************************************)
(* Framed: the chunker never loses the packet boundary, whatever packets   *)
(* it skips and wherever the connection breaks.  But for the block it is   *)
(* about to read, the first unread unit is a header, and the block that is *)
(* processed belongs to the header checked (StreamChunker.cpp:67-84).      *)
(***************************************************************************)
InSequence(w) ==
  \A i \in 1..(Len(w) - 1) :
    \/ /\ w[i].part = "header"
       /\ w[i + 1] = [pkt |-> w[i].pkt, part |-> "block"]
    \/ /\ w[i].part = "block"
       /\ w[i + 1] = [pkt |-> w[i].pkt + 1, part |-> "header"]

FramedAt(c) ==
  /\ InSequence(wire[c])
  /\ pc[c] # "block" /\ wire[c] # <<>> => Head(wire[c]).part = "header"
  /\ pc[c] = "block" =>
       /\ hdr[c].part = "header"
       /\ wire[c] # <<>> => Head(wire[c]) = [pkt |-> hdr[c].pkt, part |-> "block"]
  /\ pc[c] \in {"check", "alloc", "fill"} =>
       /\ hdr[c].part = "header"
       /\ blk[c] = [pkt |-> hdr[c].pkt, part |-> "block"]

Framed == \A c \in Chunkers : FramedAt(c)

(***************************************************************************)
(* SlotOwnership: no slot is written by two chunkers, or written while it  *)
(* waits in the queue, although a slot may be taken from the queue again   *)
(* before anybody fetched it (StreamChunker.cpp:102).                      *)
(***************************************************************************)
SlotOwnership ==
  /\ IsInjective(queue)
  /\ Range(queue) = {s \in Slots : mode[s] = "ready"}
  /\ \A c \in Chunkers : IsInjective(held[c])
  /\ \A c \in Chunkers : \A s \in HeldSlots(c) : mode[s] = "writing"
  /\ \A c, d \in Chunkers : c # d => HeldSlots(c) \cap HeldSlots(d) = {}

(***************************************************************************)
(* AllOrNothing: the chunks of one packet are either all filled or all     *)
(* without visibilities, whatever the store refused and whoever took the   *)
(* slots in between (the two loops of StreamChunker.cpp:96-132).           *)
(***************************************************************************)
AllOrNothing ==
  \A c \in Chunkers : \A i, j \in 1..Len(offers[c]) :
    offers[c][i].pkt = offers[c][j].pkt =>
      offers[c][i].whole = offers[c][j].whole

(***************************************************************************)
(* RangesInOrder: a packet offers its ranges in order and once; when       *)
(* next() has returned a filled packet has offered every range, and one    *)
(* that ran out of memory never has (StreamChunker.cpp:96-110).            *)
(***************************************************************************)
RangesInOrder ==
  \A c \in Chunkers :
    /\ \A i \in 1..Len(offers[c]) :
         LET o == offers[c][i]
         IN /\ o.range = 1 \/ (i > 1 /\ offers[c][i - 1].pkt = o.pkt
                                   /\ offers[c][i - 1].range = o.range - 1)
            /\ ~o.whole => o.range < NumRanges
    /\ pc[c] = "idle" => \A i \in 1..Len(offers[c]) :
         offers[c][i].whole =>
           \E j \in 1..Len(offers[c]) : offers[c][j] = [offers[c][i] EXCEPT
                                                         !.range = NumRanges]

(***************************************************************************)
(* WholeSpaced: two different packets of which visibilities were published *)
(* are at least the configured interval apart and in the order in which    *)
(* the stream brought them, and all of them carried the magic              *)
(* (StreamChunker.cpp:80-88, 136).                                         *)
(***************************************************************************)
WholeSpaced ==
  \A c \in Chunkers : \A i, j \in 1..Len(offers[c]) :
    LET p == offers[c][i]
        q == offers[c][j]
    IN /\ sent[c][p.pkt].good
       /\ i < j /\ p.whole /\ q.whole /\ p.pkt # q.pkt =>
            /\ p.pkt < q.pkt
            /\ sent[c][q.pkt].start - sent[c][p.pkt].start >= MinInterval

(***************************************************************************)
(* NeverHeldUp: next() can always go on once a whole packet is read,       *)
(* whatever the other chunkers hold and the pipelines fetch: a store       *)
(* without room makes it give up, and two chunkers that each hold a part   *)
(* of the slots do not wait for each other (StreamChunker.cpp:103-107).    *)
(***************************************************************************)
Working(c) == pc[c] \in {"check", "alloc", "fill", "release"}
NeverHeldUp == \A c \in Chunkers : Working(c) => ENABLED InNext(c)

(***************************************************************************)
(* PacketRead: a packet that arrived completely is read in the end by an   *)
(* active chunker, also when the correlator closed the connection just     *)
(* after it, unless it is dropped with the device                          *)
(* (StreamChunker.cpp:67-78).                                              *)
(***************************************************************************)
OnWire(c, n) ==
  \E i \in 1..Len(wire[c]) : wire[c][i] = [pkt |-> n, part |-> "block"]
PacketRead ==
  \A c \in Chunkers : \A n \in Packets :
    OnWire(c, n) ~> (~OnWire(c, n) \/ ~active[c])

-----------------------------------------------------------------------------
(***************************************************************************)
(* What the repository says and the code does not do.                      *)
(***************************************************************************)

(***************************************************************************)
(* Reconnected: a stream that connects to the server is read (README.rst,  *)
(* "When an incomming stream connects"), also when the one before it was   *)
(* cut off.                                                                *)
(***************************************************************************)
Reconnected == \A c \in Chunkers : pending[c] ~> ~pending[c]

=============================================================================
