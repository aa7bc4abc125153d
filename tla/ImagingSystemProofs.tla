------------------------- MODULE ImagingSystemProofs -------------------------
(***************************************************************************)
(* Proofs about the server with its pipelines, for any number of streams,  *)
(* slots, ranges, packets, pipelines and deaths.  The chunkers do not see  *)
(* the pipelines: a step of the system is a step of StreamChunker, whose   *)
(* invariant OfferInv is used as it is.  What is added says where chunks   *)
(* are: in a slot that is ready, with a pipeline, or imaged.               *)
(***************************************************************************)
EXTENDS ImagingSystem, ChunkOfferProofs

PipeTypes ==
  /\ stage \in [Pipelines -> Stages]
  /\ serving \in [Pipelines -> Slots \cup {NoSlot}]
  /\ inbox \in [Pipelines -> [head : Contents, body : Contents]]
  /\ blob \in [Pipelines -> Blobs]
  /\ images \subseteq [head : ChunkIds, body : Contents]
  /\ crashes \in 0..MaxCrashes

(***************************************************************************)
(* A transfer is from a slot of its own, and while visibilities are read   *)
(* the blob has the header of the chunk they belong to.                    *)
(***************************************************************************)
Transfers ==
  /\ \A p \in Pipelines :
       /\ stage[p] = "served" => serving[p] \in Slots /\ mode[serving[p]] = "serving"
       /\ stage[p] # "served" => serving[p] = NoSlot
       /\ stage[p] = "data" => blob[p].header = inbox[p].head
  /\ \A p, q \in Pipelines :
       stage[p] = "served" /\ stage[q] = "served" /\ serving[p] = serving[q] => p = q

(***************************************************************************)
(* The chunk a pipeline has, wherever it keeps it.                         *)
(***************************************************************************)
Busy(p) == stage[p] \notin {"down", "idle"}
Cargo(p) ==
  IF stage[p] = "served" THEN memory[serving[p]]
  ELSE IF stage[p] \in {"header", "data"} THEN inbox[p]
  ELSE IF stage[p] = "process" THEN [head |-> blob[p].header, body |-> blob[p].raw]
  ELSE [head |-> blob[p].header, body |-> blob[p].sky]

Ready == {s \in Slots : mode[s] = "ready"}

(***************************************************************************)
(* A chunk that may be somewhere: it was offered, and has its own          *)
(* visibilities if its packet was filled.                                  *)
(***************************************************************************)
Proper(x) ==
  \A i \in 1..Len(offers[x.head.from]) :
    /\ offers[x.head.from][i].pkt = x.head.pkt
    /\ offers[x.head.from][i].range = x.head.range
    /\ offers[x.head.from][i].whole
    => x.body = x.head

Known(x) ==
  /\ x \in [head : ChunkIds, body : Contents]
  /\ Offered(x.head)
  /\ Proper(x)

Places ==
  /\ \A s \in Ready : Known(memory[s])
  /\ \A p \in Pipelines : Busy(p) => Known(Cargo(p))
  /\ \A x \in images : Known(x)

(***************************************************************************)
(* No chunk is in two places.                                              *)
(***************************************************************************)
Apart ==
  /\ \A s, t \in Ready : memory[s].head = memory[t].head => s = t
  /\ \A p, q \in Pipelines :
       Busy(p) /\ Busy(q) /\ Cargo(p).head = Cargo(q).head => p = q
  /\ \A s \in Ready, p \in Pipelines : Busy(p) => memory[s].head # Cargo(p).head
  /\ \A x \in images :
       /\ \A s \in Ready : x.head # memory[s].head
       /\ \A p \in Pipelines : Busy(p) => x.head # Cargo(p).head

SysInv == OfferInv /\ PipeTypes /\ Transfers /\ Places /\ Apart

-----------------------------------------------------------------------------
(***************************************************************************)
(* What OfferInv says of the store.                                        *)
(***************************************************************************)
LEMMA StoreFacts ==
  ASSUME SysInv
  PROVE  /\ IInv
         /\ mode \in [Slots -> SlotModes]
         /\ memory \in [Slots -> [head : Contents, body : Contents]]
         /\ queue \in Seq(Slots) /\ IsInjective(queue) /\ Range(queue) = Ready
         /\ queue # <<>> => Head(queue) \in Ready
         /\ \A c \in Chunkers : HeldSlots(c) \subseteq Slots
         /\ \A c \in Chunkers : \A s \in HeldSlots(c) : mode[s] = "writing"
<1>1. /\ IInv
      /\ mode \in [Slots -> SlotModes]
      /\ memory \in [Slots -> [head : Contents, body : Contents]]
      /\ queue \in Seq(Slots) /\ IsInjective(queue) /\ Range(queue) = Ready
      /\ \A c \in Chunkers : \A s \in HeldSlots(c) : mode[s] = "writing"
      /\ held \in [Chunkers -> Seq(Slots)]
  BY DEF SysInv, OfferInv, IInv, Storing, StoreTypeInv, SlotOwnership, Ready
<1>2. queue # <<>> => Head(queue) \in Ready
  BY <1>1, TailRange
<1>3. \A c \in Chunkers : HeldSlots(c) \subseteq Slots
  BY <1>1, RangeOfSeq DEF HeldSlots
<1> QED
  BY <1>1, <1>2, <1>3

LEMMA SysInitial == SystemInit => SysInv
<1> SUFFICES ASSUME SystemInit PROVE SysInv
  OBVIOUS
<1>1. Init /\ \A p \in Pipelines : stage[p] = "idle" /\ serving[p] = NoSlot
  BY DEF SystemInit
<1>2. OfferInv
  BY <1>1, FramingInit, StoringInit, OfferInit DEF OfferInv, IInv
<1>3. PipeTypes
  BY SystemAssumption DEF SystemInit, PipeTypes, Stages, NoChunk, NoBlob, Blobs, Contents
<1>4. Ready = {} /\ images = {} /\ \A p \in Pipelines : ~Busy(p)
  BY <1>1 DEF SystemInit, Init, StoreInit, Ready, Busy
<1> QED
  BY <1>1, <1>2, <1>3, <1>4 DEF SysInv, Transfers, Places, Apart

-----------------------------------------------------------------------------
(***************************************************************************)
(* A pipeline changes the store as StreamChunker lets pipelines do.        *)
(***************************************************************************)
LEMMA SystemStep ==
  ASSUME Transfers, [SystemNext]_sysVars
  PROVE  [Next]_vars
<1>1. CASE ServerNext
  BY <1>1 DEF ServerNext, Next
<1>2. ASSUME NEW p \in Pipelines, Poll(p) PROVE Next
  BY <1>2 DEF Poll, ServeChunk, Next
<1>3. ASSUME NEW p \in Pipelines, Deliver(p) PROVE Next
  <2>1. ReleaseChunk(serving[p]) /\ serving[p] \in Slots
    BY <1>3 DEF Deliver, ReleaseChunk, Transfers
  <2> QED
    BY <2>1 DEF Next
<1>4. ASSUME NEW p \in Pipelines, Crash(p) PROVE [Next]_vars
  <2>1. CASE serving[p] = NoSlot
    BY <1>4, <2>1 DEF Crash, vars
  <2>2. CASE serving[p] # NoSlot
    <3>1. ReleaseChunk(serving[p]) /\ serving[p] \in Slots
      BY <1>4, <2>2 DEF Crash, ReleaseChunk, Transfers
    <3> QED
      BY <3>1 DEF Next
  <2> QED
    BY <2>1, <2>2
<1>5. ASSUME NEW p \in Pipelines,
             \/ DeserialiseHeader(p) \/ DeserialiseData(p) \/ Process(p) \/ Output(p)
             \/ Restart(p)
      PROVE  UNCHANGED vars
  BY <1>5 DEF DeserialiseHeader, DeserialiseData, Process, Output, Restart
<1> QED
  BY <1>1, <1>2, <1>3, <1>4, <1>5 DEF SystemNext, Iterate, sysVars

(***************************************************************************)
(* Steps after which nothing is anywhere where it was not before.          *)
(***************************************************************************)
Fewer ==
  /\ offers' = offers
  /\ images' = images
  /\ \A s \in Ready' : s \in Ready /\ memory'[s] = memory[s]
  /\ \A p \in Pipelines : Busy(p)' => Busy(p) /\ Cargo(p)' = Cargo(p)

LEMMA FewerPlaces ==
  ASSUME Places, Apart, Fewer
  PROVE  Places' /\ Apart'
<1>1. \A x : Known(x)' <=> Known(x)
  BY DEF Known, Offered, Proper, Fewer
<1>2. Places'
  <2>1. \A s \in Ready' : Known(memory'[s])
    BY DEF Fewer, Places
  <2>2. \A p \in Pipelines : Busy(p)' => Known(Cargo(p)')
    BY DEF Fewer, Places
  <2>3. \A x \in images' : Known(x)
    BY DEF Fewer, Places
  <2>4. \A s \in Ready' : Known(memory[s])'
    BY <2>1 DEF Known, Offered, Proper, Fewer
  <2>5. \A p \in Pipelines : Busy(p)' => Known(Cargo(p))'
    BY <2>2 DEF Known, Offered, Proper, Fewer
  <2> QED
    BY <1>1, <2>3, <2>4, <2>5 DEF Places
<1>3. Apart'
  BY DEF Apart, Fewer
<1> QED
  BY <1>2, <1>3

(***************************************************************************)
(* The server: a slot it takes or fills is never one that is being sent.   *)
(***************************************************************************)
LEMMA ServingKept ==
  ASSUME SysInv, ChunkerNext, NEW s \in Slots, mode[s] = "serving"
  PROVE  mode'[s] = "serving" /\ memory'[s] = memory[s]
<1>0. IInv /\ mode \in [Slots -> SlotModes]
      /\ memory \in [Slots -> [head : Contents, body : Contents]]
      /\ \A c \in Chunkers : s \notin HeldSlots(c)
  BY StoreFacts
<1>1. PICK c \in Chunkers : Correlator(c) \/ Receiver(c) \/ Deactivate(c)
  BY DEF ChunkerNext
<1>2. ASSUME NEW t \in Slots, Allocate(c, t)
      PROVE  mode'[s] = "serving" /\ memory'[s] = memory[s]
  <2>1. mode[t] # "serving" /\ mode' = [mode EXCEPT ![t] = "writing"]
    BY <1>0, <1>2, ObtainFacts DEF IInv, Allocate
  <2> QED
    BY <1>0, <1>2, <2>1 DEF Allocate
<1>3. CASE Fill(c)
  BY <1>0, <1>3 DEF Fill
<1>4. CASE PublishNext(c)
  <2>1. Head(held[c]) \in HeldSlots(c) /\ Head(held[c]) \in Slots
    BY <1>0, <1>4, TailRange DEF PublishNext, IInv, Storing, SlotOwnership, HeldSlots
  <2> QED
    BY <1>0, <1>4, <2>1 DEF PublishNext, Publish
<1>5. CASE UNCHANGED storeVars
  BY <1>5 DEF storeVars
<1> QED
  BY <1>1, <1>2, <1>3, <1>4, <1>5 DEF Correlator, Connect, SendHeader, SendBlock,
     Disconnect, Deactivate, Receiver, InNext, NewDevice, EnterNext, ReadHeader, ReadBlock,
     Skip, Accept, Shortage, Return

LEMMA CargoKept ==
  ASSUME SysInv, ServerNext, NEW p \in Pipelines
  PROVE  (Busy(p)' <=> Busy(p)) /\ Cargo(p)' = Cargo(p)
<1>1. UNCHANGED pipeVars /\ ChunkerNext
  BY DEF ServerNext
<1>2. stage[p] = "served" => memory'[serving[p]] = memory[serving[p]]
  BY <1>1, ServingKept DEF SysInv, Transfers
<1> QED
  BY <1>1, <1>2 DEF Busy, Cargo, pipeVars

LEMMA ServerTransfers ==
  ASSUME SysInv, ServerNext
  PROVE  PipeTypes' /\ Transfers'
<1>1. UNCHANGED pipeVars /\ ChunkerNext
  BY DEF ServerNext
<1>2. PipeTypes'
  BY <1>1 DEF SysInv, PipeTypes, pipeVars
<1>3. \A p \in Pipelines :
        stage[p] = "served" => serving[p] \in Slots /\ mode'[serving[p]] = "serving"
  BY <1>1, ServingKept DEF SysInv, Transfers
<1> QED
  BY <1>1, <1>2, <1>3 DEF SysInv, Transfers, pipeVars

(***************************************************************************)
(* The chunk that is published was never offered before, and is offered    *)
(* by this step with its visibilities or without.                          *)
(***************************************************************************)
Offerable == [pkt : Packets, range : 1..NumRanges, whole : BOOLEAN]

Publishing(c, s, id, n, o) ==
  /\ mode[s] = "writing"
  /\ id = memory[s].head /\ id.from = c /\ n = Len(offers[c])
  /\ \A i \in 1..n : ~(offers[c][i].pkt = id.pkt /\ offers[c][i].range = id.range)
  /\ o.pkt = id.pkt /\ o.range = id.range /\ (o.whole => memory[s].body = id)
  /\ offers' = [offers EXCEPT ![c] = Append(offers[c], o)]
  /\ mode' = [mode EXCEPT ![s] = "ready"]
  /\ memory' = memory

LEMMA PublishFacts ==
  ASSUME SysInv, NEW c \in Chunkers, PublishNext(c)
  PROVE  \E s \in Slots, id \in ChunkIds, n \in Nat, o \in Offerable : Publishing(c, s, id, n, o)
<1>1. /\ IInv
      /\ offers \in [Chunkers ->
                       Seq([pkt : Packets, range : 1..NumRanges, whole : BOOLEAN])]
  BY StoreFacts DEF IInv, Storing
<1>2. PICK s \in Slots : s = Head(held[c]) /\ mode[s] = "writing"
  <2>1. Head(held[c]) \in HeldSlots(c)
    BY <1>1, TailRange DEF PublishNext, IInv, Storing, SlotOwnership, HeldSlots
  <2> QED
    BY <2>1, StoreFacts
<1>3. PICK id \in ChunkIds, n \in Nat :
        /\ id = memory[s].head /\ id.from = c /\ n = Len(offers[c])
        /\ \A i \in 1..n : ~(offers[c][i].pkt = id.pkt /\ offers[c][i].range = id.range)
  <2>1. /\ memory[s].head \in ChunkIds /\ memory[s].head.from = c
        /\ \A i \in 1..Len(offers[c]) :
             ~(offers[c][i].pkt = memory[s].head.pkt /\ offers[c][i].range = memory[s].head.range)
    BY <1>2, Fresh DEF SysInv
  <2>2. Len(offers[c]) \in Nat
    BY <1>1, LenProperties
  <2> QED
    BY <2>1, <2>2
<1>4. PICK o \in [pkt : Packets, range : 1..NumRanges, whole : BOOLEAN] :
        /\ o.pkt = id.pkt /\ o.range = id.range /\ (o.whole => memory[s].body = id)
        /\ offers' = [offers EXCEPT ![c] = Append(offers[c], o)]
  <2> DEFINE e == [pkt |-> id.pkt, range |-> id.range, whole |-> memory[s].body = id]
  <2>1. e \in [pkt : Packets, range : 1..NumRanges, whole : BOOLEAN]
    BY DEF ChunkIds, Packets
  <2>2. e.whole => memory[s].body = id
    OBVIOUS
  <2> QED
    BY <1>2, <1>3, <2>1, <2>2 DEF PublishNext
<1>5. mode' = [mode EXCEPT ![s] = "ready"] /\ memory' = memory
  BY <1>2 DEF PublishNext, Publish
<1>6. o \in Offerable /\ Publishing(c, s, id, n, o)
  BY <1>2, <1>3, <1>4, <1>5 DEF Publishing, Offerable
<1> QED
  BY <1>6

(***************************************************************************)
(* Publishing puts a chunk into the queue that was nowhere before, because *)
(* everything that is somewhere was offered.                               *)
(***************************************************************************)
LEMMA PublishPlaces ==
  ASSUME SysInv, ServerNext, NEW c \in Chunkers, PublishNext(c)
  PROVE  Places' /\ Apart'
<1>1. /\ IInv
      /\ mode \in [Slots -> SlotModes]
      /\ memory \in [Slots -> [head : Contents, body : Contents]]
      /\ offers \in [Chunkers ->
                       Seq([pkt : Packets, range : 1..NumRanges, whole : BOOLEAN])]
      /\ Places /\ Apart
  BY StoreFacts DEF SysInv, IInv, Storing
<1>2. PICK s \in Slots, id \in ChunkIds, n \in Nat, o \in Offerable :
        Publishing(c, s, id, n, o)
  BY PublishFacts
<1>3. /\ id = memory[s].head /\ id.from = c /\ n = Len(offers[c])
      /\ \A i \in 1..n : ~(offers[c][i].pkt = id.pkt /\ offers[c][i].range = id.range)
      /\ mode[s] = "writing"
  BY <1>2 DEF Publishing
<1>4. /\ o \in [pkt : Packets, range : 1..NumRanges, whole : BOOLEAN]
      /\ o.pkt = id.pkt /\ o.range = id.range /\ (o.whole => memory[s].body = id)
      /\ offers' = [offers EXCEPT ![c] = Append(offers[c], o)]
  BY <1>2 DEF Publishing, Offerable
<1>5. /\ mode' = [mode EXCEPT ![s] = "ready"]
      /\ memory' = memory
      /\ images' = images
  BY <1>2 DEF Publishing, ServerNext, pipeVars
<1>6. Ready' = Ready \cup {s} /\ s \notin Ready
  BY <1>1, <1>3, <1>5 DEF Ready
<1>7. /\ Len(offers'[c]) = n + 1
      /\ \A i \in 1..n : offers'[c][i] = offers[c][i] /\ i \in 1..(n + 1)
      /\ offers'[c][n + 1] = o /\ n + 1 \in 1..(n + 1)
      /\ \A i \in 1..(n + 1) : i \in 1..n \/ i = n + 1
      /\ \A d \in Chunkers : d # c => offers'[d] = offers[d]
  BY <1>1, <1>3, <1>4, AppendProperties
<1>8. ~Offered(id)
  BY <1>3 DEF Offered
<1>9. ASSUME NEW x, Known(x) PROVE Known(x)' /\ x.head # id
  <2>1. x.head # id
    BY <1>8, <1>9 DEF Known
  <2>2. x.head \in ChunkIds /\ x.head.from \in Chunkers
    BY <1>9 DEF Known, ChunkIds
  <2>3. x.head.from = c => ~(o.pkt = x.head.pkt /\ o.range = x.head.range)
    BY <1>3, <1>4, <2>1, <2>2 DEF ChunkIds
  <2>4. Offered(x.head)'
    <3>1. CASE x.head.from = c
      BY <1>3, <1>7, <1>9, <3>1 DEF Known, Offered
    <3>2. CASE x.head.from # c
      BY <1>7, <1>9, <2>2, <3>2 DEF Known, Offered
    <3> QED
      BY <3>1, <3>2
  <2>5. Proper(x)'
    <3>1. CASE x.head.from = c
      BY <1>3, <1>7, <1>9, <2>3, <3>1 DEF Known, Proper
    <3>2. CASE x.head.from # c
      BY <1>7, <1>9, <2>2, <3>2 DEF Known, Proper
    <3> QED
      BY <3>1, <3>2
  <2> QED
    BY <1>9, <2>1, <2>4, <2>5 DEF Known
<1>10. Known(memory[s])'
  <2>1. memory[s] \in [head : ChunkIds, body : Contents] /\ memory[s].head = id
    BY <1>1, <1>3
  <2>2. Offered(id)'
    BY <1>3, <1>4, <1>7 DEF Offered
  <2>3. ASSUME NEW i \in 1..(n + 1), offers'[c][i].pkt = id.pkt, offers'[c][i].range = id.range,
               offers'[c][i].whole
        PROVE  memory[s].body = id
    BY <1>3, <1>4, <1>7, <2>3
  <2>4. Proper(memory[s])'
    BY <1>3, <1>5, <1>7, <2>1, <2>3, SMTT(30) DEF Proper
  <2> QED
    BY <1>5, <2>1, <2>2, <2>4, SMTT(30) DEF Known, Offered
<1>11. \A p \in Pipelines : (Busy(p)' <=> Busy(p)) /\ Cargo(p)' = Cargo(p)
  BY CargoKept
<1>12. Places'
  <2>1. \A t \in Ready' : Known(memory[t])'
    <3>1. \A t \in Ready : Known(memory[t])
      BY <1>1 DEF Places
    <3>2. \A t \in Ready : Known(memory[t])'
      BY <1>5, <1>9, <3>1 DEF Known, Offered, Proper
    <3> QED
      BY <1>6, <1>10, <3>2
  <2>2. \A p \in Pipelines : Busy(p)' => Known(Cargo(p))'
    <3>1. \A p \in Pipelines : Busy(p)' => Known(Cargo(p))
      BY <1>1, <1>11 DEF Places
    <3>2. ASSUME NEW p \in Pipelines, Busy(p)' PROVE Known(Cargo(p))'
      <4>1. PICK x : x = Cargo(p)
        OBVIOUS
      <4>2. Known(x)' /\ Cargo(p)' = x
        BY <1>9, <1>11, <3>1, <3>2, <4>1
      <4> QED
        BY <4>2 DEF Known, Offered, Proper
    <3> QED
      BY <3>2
  <2>3. \A x \in images : Known(x)'
    BY <1>1, <1>9 DEF Places
  <2> QED
    BY <1>5, <2>1, <2>2, <2>3 DEF Places
<1>13. Apart'
  <2>1. /\ \A t \in Ready : memory[t].head # id
        /\ \A p \in Pipelines : Busy(p) => Cargo(p).head # id
        /\ \A x \in images : x.head # id
    BY <1>1, <1>9 DEF Places
  <2> QED
    BY <1>1, <1>3, <1>5, <1>6, <1>11, <2>1 DEF Apart
<1> QED
  BY <1>12, <1>13

LEMMA ServerPlaces ==
  ASSUME SysInv, ServerNext
  PROVE  Places' /\ Apart'
<1>1. PICK c \in Chunkers : Correlator(c) \/ Receiver(c) \/ Deactivate(c)
  BY DEF ServerNext, ChunkerNext
<1>2. images' = images /\ \A p \in Pipelines : (Busy(p)' <=> Busy(p)) /\ Cargo(p)' = Cargo(p)
  BY CargoKept DEF ServerNext, pipeVars
<1>3. /\ IInv /\ mode \in [Slots -> SlotModes]
      /\ memory \in [Slots -> [head : Contents, body : Contents]]
      /\ \A s \in HeldSlots(c) : mode[s] = "writing"
  BY StoreFacts
<1>4. ASSUME NEW s \in Slots, Allocate(c, s) PROVE Fewer
  <2>1. /\ mode' = [mode EXCEPT ![s] = "writing"] /\ offers' = offers
        /\ \A t \in Slots : t # s => memory'[t] = memory[t]
    BY <1>3, <1>4, ObtainFacts DEF IInv, Allocate
  <2> QED
    BY <1>2, <1>3, <2>1 DEF Fewer, Ready
<1>5. CASE Fill(c)
  <2>1. mode' = mode /\ offers' = offers /\ \A t \in Ready : memory'[t] = memory[t]
    BY <1>3, <1>5 DEF Fill, Ready
  <2> QED
    BY <1>2, <2>1, FewerPlaces DEF SysInv, Fewer, Ready
<1>6. CASE UNCHANGED <<storeVars, offers>>
  <2>1. Fewer
    BY <1>2, <1>6 DEF Fewer, Ready, storeVars
  <2> QED
    BY <2>1, FewerPlaces DEF SysInv
<1>7. CASE PublishNext(c)
  BY <1>7, PublishPlaces
<1> QED
  BY <1>1, <1>4, <1>5, <1>6, <1>7, FewerPlaces DEF SysInv, Correlator, Connect, SendHeader,
     SendBlock, Disconnect, Deactivate, Receiver, InNext, NewDevice, EnterNext, ReadHeader,
     ReadBlock, Skip, Accept, Shortage, Return, nextVars

-----------------------------------------------------------------------------
(***************************************************************************)
(* A pipeline leaves the others as they are, and the bytes of the store.   *)
(***************************************************************************)
LEMMA PipelineAlone ==
  ASSUME SysInv, NEW p \in Pipelines, Iterate(p) \/ Crash(p) \/ Restart(p)
  PROVE  /\ memory' = memory /\ offers' = offers
         /\ \A q \in Pipelines : q # p =>
              /\ stage'[q] = stage[q] /\ serving'[q] = serving[q]
              /\ inbox'[q] = inbox[q] /\ blob'[q] = blob[q]
              /\ Busy(q)' <=> Busy(q)
              /\ Cargo(q)' = Cargo(q)
<1>1. PipeTypes
  BY DEF SysInv
<1>2. memory' = memory /\ offers' = offers
  BY DEF Iterate, Poll, Deliver, DeserialiseHeader, DeserialiseData, Process, Output, Crash,
     Restart, Serve, Release, vars, storeVars, nextVars
<1>3. ASSUME NEW q \in Pipelines, q # p
      PROVE  /\ stage'[q] = stage[q] /\ serving'[q] = serving[q]
             /\ inbox'[q] = inbox[q] /\ blob'[q] = blob[q]
  BY <1>1, <1>3 DEF Iterate, Poll, Deliver, DeserialiseHeader, DeserialiseData, Process,
     Output, Crash, Restart, PipeTypes
<1> QED
  BY <1>2, <1>3 DEF Busy, Cargo

(***************************************************************************)
(* The steps that only move a chunk within the pipeline, or drop it.       *)
(***************************************************************************)
Moving(p) ==
  \/ Deliver(p) \/ DeserialiseHeader(p) \/ DeserialiseData(p) \/ Process(p)
  \/ Crash(p) \/ Restart(p)

LEMMA MovingFewer ==
  ASSUME SysInv, NEW p \in Pipelines, Moving(p)
  PROVE  Fewer
<1>1. PipeTypes /\ Transfers /\ mode \in [Slots -> SlotModes]
  BY StoreFacts DEF SysInv
<1>2. /\ memory' = memory /\ offers' = offers
      /\ \A q \in Pipelines : q # p => (Busy(q)' <=> Busy(q)) /\ Cargo(q)' = Cargo(q)
  BY PipelineAlone DEF Moving, Iterate
<1>3. images' = images
  BY DEF Moving, Deliver, DeserialiseHeader, DeserialiseData, Process, Crash, Restart
<1>4. \A s \in Ready' : s \in Ready
  BY <1>1 DEF Moving, Deliver, DeserialiseHeader, DeserialiseData, Process, Crash, Restart,
     Release, vars, storeVars, Ready, Transfers
<1>5. Busy(p)' => Busy(p) /\ Cargo(p)' = Cargo(p)
  <2>1. CASE Deliver(p)
    BY <1>1, <1>2, <2>1 DEF Deliver, PipeTypes, Busy, Cargo
  <2>2. CASE DeserialiseHeader(p)
    BY <1>1, <2>2 DEF DeserialiseHeader, PipeTypes, Busy, Cargo
  <2>3. CASE DeserialiseData(p)
    <3>1. /\ stage[p] = "data" /\ stage'[p] = "process"
          /\ blob'[p].raw = inbox[p].body /\ blob'[p].header = inbox[p].head
      BY <1>1, <2>3 DEF DeserialiseData, PipeTypes, Transfers, Blobs
    <3>2. inbox[p] = [head |-> inbox[p].head, body |-> inbox[p].body]
      BY <1>1 DEF PipeTypes
    <3> QED
      BY <3>1, <3>2 DEF Busy, Cargo
  <2>4. CASE Process(p)
    BY <1>1, <2>4 DEF Process, PipeTypes, Blobs, Busy, Cargo
  <2>5. CASE Crash(p) \/ Restart(p)
    BY <1>1, <2>5 DEF Crash, Restart, PipeTypes, Busy
  <2> QED
    BY <2>1, <2>2, <2>3, <2>4, <2>5 DEF Moving
<1> QED
  BY <1>2, <1>3, <1>4, <1>5 DEF Fewer

LEMMA PipelineTypes ==
  ASSUME SysInv, NEW p \in Pipelines, Iterate(p) \/ Crash(p) \/ Restart(p)
  PROVE  PipeTypes'
<1>1. PipeTypes /\ memory \in [Slots -> [head : Contents, body : Contents]] /\ Transfers
      /\ (queue # <<>> => Head(queue) \in Slots)
  BY StoreFacts DEF SysInv, Ready
<1>2. Blank \in Contents /\ NoBlob \in Blobs /\ NoChunk \in [head : Contents, body : Contents]
  BY DEF Contents, NoBlob, Blobs, NoChunk
<1>3. CASE Poll(p)
  BY <1>1, <1>3 DEF Poll, Serve, PipeTypes, Stages
<1>4. CASE Deliver(p)
  <2>1. memory[serving[p]] \in [head : Contents, body : Contents]
    BY <1>1, <1>4 DEF Deliver, Transfers
  <2> QED
    BY <1>1, <1>4, <2>1 DEF Deliver, PipeTypes, Stages
<1>5. CASE DeserialiseHeader(p)
  BY <1>1, <1>2, <1>5 DEF DeserialiseHeader, PipeTypes, Stages, Blobs
<1>6. CASE DeserialiseData(p)
  BY <1>1, <1>2, <1>6 DEF DeserialiseData, PipeTypes, Stages, Blobs
<1>7. CASE Process(p)
  BY <1>1, <1>7 DEF Process, PipeTypes, Stages, Blobs
<1>8. CASE Output(p)
  <2>1. Known(Cargo(p)) /\ Cargo(p) = [head |-> blob[p].header, body |-> blob[p].sky]
    BY <1>8 DEF SysInv, Places, Busy, Cargo, Output
  <2> QED
    BY <1>1, <1>8, <2>1 DEF Output, PipeTypes, Stages, Known
<1>9. CASE Crash(p)
  <2>1. crashes + 1 \in 0..MaxCrashes
    BY <1>1, <1>9, SystemAssumption DEF Crash, PipeTypes
  <2> QED
    BY <1>1, <1>2, <1>9, <2>1 DEF Crash, PipeTypes, Stages
<1>10. CASE Restart(p)
  BY <1>1, <1>10 DEF Restart, PipeTypes, Stages
<1> QED
  BY <1>3, <1>4, <1>5, <1>6, <1>7, <1>8, <1>9, <1>10 DEF Iterate

LEMMA PipelineTransfers ==
  ASSUME SysInv, NEW p \in Pipelines, Iterate(p) \/ Crash(p) \/ Restart(p)
  PROVE  Transfers'
<1>1. PipeTypes /\ Transfers /\ mode \in [Slots -> SlotModes]
      /\ (queue # <<>> => Head(queue) \in Ready)
  BY StoreFacts DEF SysInv
<1>2. \A q \in Pipelines : q # p =>
        /\ stage'[q] = stage[q] /\ serving'[q] = serving[q]
        /\ inbox'[q] = inbox[q] /\ blob'[q] = blob[q]
  BY PipelineAlone
<1>3. CASE Poll(p)
  <2>1. PICK h \in Slots : h = Head(queue) /\ mode[h] = "ready"
    BY <1>1, <1>3 DEF Poll, Serve, Ready
  <2>2. /\ mode' = [mode EXCEPT ![h] = "serving"]
        /\ stage'[p] = "served" /\ serving'[p] = h
    BY <1>1, <1>3, <2>1 DEF Poll, Serve, PipeTypes
  <2>3. \A q \in Pipelines : stage[q] = "served" => serving[q] # h
    BY <1>1, <2>1 DEF Transfers
  <2> QED
    BY <1>1, <1>2, <2>1, <2>2, <2>3 DEF Transfers
<1>4. CASE Deliver(p) \/ Crash(p)
  <2>1. /\ stage'[p] \notin {"served", "data"} /\ serving'[p] = NoSlot
        /\ mode' = mode \/ (stage[p] = "served" /\ mode' = [mode EXCEPT ![serving[p]] = "free"])
    BY <1>1, <1>4 DEF Deliver, Crash, Release, PipeTypes, Transfers, storeVars
  <2> QED
    BY <1>1, <1>2, <2>1 DEF Transfers
<1>5. CASE DeserialiseHeader(p)
  <2>1. mode' = mode /\ stage'[p] = "data" /\ serving'[p] = NoSlot
        /\ inbox'[p] = inbox[p] /\ blob'[p].header = inbox[p].head
    BY <1>1, <1>5 DEF DeserialiseHeader, PipeTypes, Blobs, Transfers, vars, storeVars
  <2> QED
    BY <1>1, <1>2, <2>1 DEF Transfers
<1>6. CASE DeserialiseData(p) \/ Process(p) \/ Output(p) \/ Restart(p)
  <2>1. mode' = mode /\ stage'[p] \notin {"served", "data"} /\ serving'[p] = NoSlot
    BY <1>1, <1>6 DEF DeserialiseData, Process, Output, Restart, PipeTypes, Transfers, vars,
       storeVars
  <2> QED
    BY <1>1, <1>2, <2>1 DEF Transfers
<1> QED
  BY <1>3, <1>4, <1>5, <1>6 DEF Iterate

(***************************************************************************)
(* The queue hands its oldest chunk to a pipeline that had none.           *)
(***************************************************************************)
LEMMA PollPlaces ==
  ASSUME SysInv, NEW p \in Pipelines, Poll(p)
  PROVE  Places' /\ Apart'
<1>1. PipeTypes /\ Places /\ Apart /\ mode \in [Slots -> SlotModes]
  BY StoreFacts DEF SysInv
<1>2. /\ memory' = memory /\ offers' = offers /\ images' = images
      /\ \A q \in Pipelines : q # p => (Busy(q)' <=> Busy(q)) /\ Cargo(q)' = Cargo(q)
  BY PipelineAlone DEF Iterate, Poll
<1>3. PICK h \in Ready : h = Head(queue) /\ mode' = [mode EXCEPT ![h] = "serving"]
  BY StoreFacts DEF Poll, Serve
<1>4. Ready' = Ready \ {h}
  BY <1>1, <1>3 DEF Ready
<1>5. Busy(p)' /\ Cargo(p)' = memory[h] /\ ~Busy(p)
  BY <1>1, <1>2, <1>3 DEF Poll, PipeTypes, Busy, Cargo
<1>6. ASSUME NEW x, Known(x) PROVE Known(x)'
  BY <1>2, <1>6 DEF Known, Offered, Proper
<1>7. Places'
  <2>1. \A s \in Ready' : Known(memory[s])'
    BY <1>1, <1>2, <1>4, ZenonT(40) DEF Places, Known, Offered, Proper
  <2>2. ASSUME NEW q \in Pipelines, Busy(q)' PROVE Known(Cargo(q))'
    <3>1. PICK x : x = Cargo(q)' /\ Known(x)
      BY <1>1, <1>2, <1>5, <2>2 DEF Places
    <3> QED
      BY <1>6, <3>1 DEF Known, Offered, Proper
  <2>3. \A x \in images' : Known(x)'
    BY <1>1, <1>2, <1>6 DEF Places
  <2> QED
    BY <2>1, <2>2, <2>3 DEF Places
<1>8. Apart'
  BY <1>1, <1>2, <1>3, <1>4, <1>5 DEF Apart
<1> QED
  BY <1>7, <1>8

(***************************************************************************)
(* An image is written and the pipeline has no chunk any more.             *)
(***************************************************************************)
LEMMA OutputPlaces ==
  ASSUME SysInv, NEW p \in Pipelines, Output(p)
  PROVE  Places' /\ Apart'
<1>1. PipeTypes /\ Places /\ Apart
  BY DEF SysInv
<1>2. /\ memory' = memory /\ offers' = offers
      /\ \A q \in Pipelines : q # p => (Busy(q)' <=> Busy(q)) /\ Cargo(q)' = Cargo(q)
  BY PipelineAlone DEF Iterate
<1>3. Ready' = Ready
  BY DEF Output, vars, storeVars, Ready
<1>4. PICK x : x = Cargo(p) /\ images' = images \cup {x}
  BY DEF Output, Cargo
<1>5. Busy(p) /\ ~Busy(p)'
  BY <1>1 DEF Output, PipeTypes, Busy
<1>6. ASSUME NEW y, Known(y) PROVE Known(y)'
  BY <1>2, <1>6 DEF Known, Offered, Proper
<1>7. Places'
  <2>1. \A s \in Ready' : Known(memory[s])'
    BY <1>1, <1>2, <1>3 DEF Places, Known, Offered, Proper
  <2>2. ASSUME NEW q \in Pipelines, Busy(q)' PROVE Known(Cargo(q))'
    <3>1. PICK y : y = Cargo(q)' /\ Known(y)
      BY <1>1, <1>2, <1>5, <2>2 DEF Places
    <3> QED
      BY <1>6, <3>1 DEF Known, Offered, Proper
  <2>3. \A y \in images' : Known(y)'
    BY <1>1, <1>4, <1>5, <1>6 DEF Places
  <2> QED
    BY <2>1, <2>2, <2>3 DEF Places
<1>8. Apart'
  BY <1>1, <1>2, <1>3, <1>4, <1>5 DEF Apart
<1> QED
  BY <1>7, <1>8

-----------------------------------------------------------------------------
LEMMA SysInductive == SysInv /\ [SystemNext]_sysVars => SysInv'
<1> SUFFICES ASSUME SysInv, [SystemNext]_sysVars PROVE SysInv'
  OBVIOUS
<1>1. OfferInv'
  BY SystemStep, OfferInductive DEF SysInv
<1>2. CASE ServerNext
  BY <1>1, <1>2, ServerTransfers, ServerPlaces DEF SysInv
<1>3. ASSUME NEW p \in Pipelines, Iterate(p) \/ Crash(p) \/ Restart(p) PROVE SysInv'
  <2>1. Places' /\ Apart'
    BY <1>3, PollPlaces, OutputPlaces, MovingFewer, FewerPlaces DEF Iterate, Moving, SysInv
  <2> QED
    BY <1>1, <1>3, <2>1, PipelineTypes, PipelineTransfers DEF SysInv
<1>4. CASE UNCHANGED sysVars
  <2>1. mode' = mode /\ memory' = memory /\ offers' = offers /\ UNCHANGED pipeVars
    BY <1>4 DEF sysVars, vars, storeVars, nextVars
  <2>2. PipeTypes' /\ Transfers'
    BY <2>1 DEF SysInv, PipeTypes, Transfers, pipeVars
  <2>3. Fewer
    BY <2>1 DEF Fewer, Ready, Busy, Cargo, pipeVars
  <2> QED
    BY <1>1, <2>2, <2>3, FewerPlaces DEF SysInv
<1> QED
  BY <1>2, <1>3, <1>4 DEF SystemNext

LEMMA SysInvariance == SystemSpec => []SysInv
  BY SysInitial, SysInductive, PTL DEF SystemSpec

(***************************************************************************)
(* Ready, Busy and Cargo are what the properties mean by waiting and taken.*)
(***************************************************************************)
LEMMA Whereabouts ==
  SysInv => \A id \in ChunkIds :
    /\ Waiting(id) <=> \E s \in Ready : memory[s].head = id
    /\ \A p \in Pipelines : WithPipeline(id, p) <=> Busy(p) /\ Cargo(p).head = id
<1> SUFFICES ASSUME SysInv, NEW id \in ChunkIds
             PROVE  /\ Waiting(id) <=> \E s \in Ready : memory[s].head = id
                    /\ \A p \in Pipelines :
                         WithPipeline(id, p) <=> Busy(p) /\ Cargo(p).head = id
  OBVIOUS
<1>1. Waiting(id) <=> \E s \in Ready : memory[s].head = id
  <2>1. queue \in Seq(Slots) /\ Range(queue) = Ready
    BY StoreFacts
  <2>2. \A s : s \in Ready <=> \E i \in 1..Len(queue) : queue[i] = s
    BY <2>1 DEF Range
  <2> QED
    BY <2>2 DEF Waiting
<1>2. ASSUME NEW p \in Pipelines
      PROVE  WithPipeline(id, p) <=> Busy(p) /\ Cargo(p).head = id
  BY DEF SysInv, PipeTypes, Stages, WithPipeline, Busy, Cargo
<1> QED
  BY <1>1, <1>2

(***************************************************************************)
(* The pipelines use the server as StreamChunker lets pipelines do: what   *)
(* is proved of the chunkers and their buffer holds in the whole system.   *)
(***************************************************************************)
THEOREM SystemIsServer == SystemSpec => Spec
<1>1. SystemInit => Init
  BY DEF SystemInit
<1>2. SysInv /\ [SystemNext]_sysVars => [Next]_vars
  BY SystemStep DEF SysInv
<1> QED
  BY <1>1, <1>2, SysInvariance, PTL DEF SystemSpec, Spec

(***************************************************************************)
(* The variables of the server and of every pipeline keep their types: a   *)
(* served slot is a slot, an image has the header of a chunk.              *)
(***************************************************************************)
THEOREM SystemTypeCorrect == SystemSpec => []SystemTypeInv
<1>1. SysInv => SystemTypeInv
  BY DEF SysInv, OfferInv, IInv, Framing, Storing, StreamTypes, Holding, PipeTypes, TypeInv,
     SystemTypeInv
<1> QED
  BY <1>1, SysInvariance, PTL

(***************************************************************************)
(* A chunk is never in two places, however many pipelines poll the server, *)
(* die in the middle of a transfer and are started again.                  *)
(***************************************************************************)
THEOREM AlwaysOnePlace == SystemSpec => []OnePlace
<1>1. ASSUME SysInv PROVE OnePlace
  <2>1. ASSUME NEW id \in ChunkIds
        PROVE  /\ Waiting(id) <=> \E s \in Ready : memory[s].head = id
               /\ \A p \in Pipelines : WithPipeline(id, p) <=> Busy(p) /\ Cargo(p).head = id
    BY <1>1, Whereabouts
  <2>2. ASSUME NEW id \in ChunkIds, NEW i \in 1..Len(queue), NEW j \in 1..Len(queue),
               memory[queue[i]].head = id, memory[queue[j]].head = id
        PROVE  i = j
    <3>1. queue[i] \in Ready /\ queue[j] \in Ready
      <4>1. Range(queue) = Ready
        BY <1>1, StoreFacts
      <4> QED
        BY <4>1 DEF Range
    <3>2. queue[i] = queue[j]
      BY <1>1, <2>2, <3>1 DEF SysInv, Apart
    <3> QED
      BY <1>1, <3>2, StoreFacts DEF IsInjective
  <2> QED
    BY <1>1, <2>1, <2>2 DEF OnePlace, SysInv, Apart, Taken, Imaged
<1> QED
  BY <1>1, SysInvariance, PTL

(***************************************************************************)
(* The image of a chunk whose packet was filled is made of its own         *)
(* visibilities, however often its slot is handed out again.               *)
(***************************************************************************)
THEOREM AlwaysWholeImages == SystemSpec => []WholeImages
<1>1. SysInv => WholeImages
  BY DEF SysInv, Places, Known, Proper, WholeImages
<1> QED
  BY <1>1, SysInvariance, PTL

-----------------------------------------------------------------------------
(***************************************************************************)
(* The refinement of ChunkDelivery.  Located says of every chunk where it  *)
(* is, in terms of slots and pipelines, and that it is in one place.       *)
(***************************************************************************)
Located ==
  \A id \in ChunkIds :
    /\ Waiting(id) <=> \E s \in Ready : memory[s].head = id
    /\ Taken(id) <=> \E p \in Pipelines : Busy(p) /\ Cargo(p).head = id
    /\ Imaged(id) => ~Taken(id) /\ ~Waiting(id)
    /\ Taken(id) => ~Waiting(id)
    /\ Imaged(id) \/ Taken(id) \/ Waiting(id) => Offered(id)

LEMMA WhereEverythingIs == SysInv => Located
<1> SUFFICES ASSUME SysInv, NEW id \in ChunkIds
             PROVE  /\ Waiting(id) <=> \E s \in Ready : memory[s].head = id
                    /\ Taken(id) <=> \E p \in Pipelines : Busy(p) /\ Cargo(p).head = id
                    /\ Imaged(id) => ~Taken(id) /\ ~Waiting(id)
                    /\ Taken(id) => ~Waiting(id)
                    /\ Imaged(id) \/ Taken(id) \/ Waiting(id) => Offered(id)
  BY DEF Located
<1>1. /\ Waiting(id) <=> \E s \in Ready : memory[s].head = id
      /\ Taken(id) <=> \E p \in Pipelines : Busy(p) /\ Cargo(p).head = id
  BY Whereabouts DEF Taken
<1>2. Places /\ Apart
  BY DEF SysInv
<1>3. /\ Imaged(id) => ~Taken(id) /\ ~Waiting(id)
      /\ Taken(id) => ~Waiting(id)
  BY <1>1, <1>2 DEF Imaged, Apart
<1>4. Imaged(id) \/ Taken(id) \/ Waiting(id) => Offered(id)
  BY <1>1, <1>2 DEF Imaged, Places, Known
<1> QED
  BY <1>1, <1>3, <1>4

LEMMA WhereNext == SysInv' => Located'
  BY WhereEverythingIs, PTL

(***************************************************************************)
(* A chunk whose place does not change keeps its status.                   *)
(***************************************************************************)
Steady(id) ==
  /\ Imaged(id)' <=> Imaged(id)
  /\ Taken(id)' <=> Taken(id)
  /\ Waiting(id)' <=> Waiting(id)
  /\ Offered(id)' <=> Offered(id)

LEMMA SteadyStatus == (\A id \in ChunkIds : Steady(id)) => ChunkStatus' = ChunkStatus
  BY DEF Steady, ChunkStatus

LEMMA OneMoves ==
  ASSUME NEW id \in ChunkIds, \A j \in ChunkIds : j # id => Steady(j),
         NEW from, NEW to, ChunkStatus[id] \in from, ChunkStatus'[id] = to
  PROVE  Delivery!Becomes(id, from, to)
<1>1. \A j \in ChunkIds : j # id => ChunkStatus'[j] = ChunkStatus[j]
  BY DEF Steady, ChunkStatus
<1>2. /\ ChunkStatus' = [j \in ChunkIds |-> ChunkStatus'[j]]
      /\ ChunkStatus = [j \in ChunkIds |-> ChunkStatus[j]]
  BY DEF ChunkStatus
<1>3. ChunkStatus' = [ChunkStatus EXCEPT ![id] = to]
  BY <1>1, <1>2
<1> QED
  BY <1>3 DEF Delivery!Becomes

LEMMA StatusIs ==
  \A id \in ChunkIds :
    /\ Imaged(id) => ChunkStatus[id] = "imaged"
    /\ ~Imaged(id) /\ Taken(id) => ChunkStatus[id] = "taken"
    /\ ~Imaged(id) /\ ~Taken(id) /\ Waiting(id) => ChunkStatus[id] = "offered"
    /\ ~Imaged(id) /\ ~Taken(id) /\ ~Waiting(id) /\ Offered(id) => ChunkStatus[id] = "lost"
    /\ ~Imaged(id) /\ ~Taken(id) /\ ~Waiting(id) /\ ~Offered(id) =>
         ChunkStatus[id] = "unseen"
  BY DEF ChunkStatus

(***************************************************************************)
(* What leaves alone the slots that are ready, or the pipelines.           *)
(***************************************************************************)
StoreStill == Ready' = Ready /\ \A s \in Ready : memory'[s] = memory[s]
PipesStill ==
  \A p \in Pipelines : (Busy(p)' <=> Busy(p)) /\ (Busy(p) => Cargo(p)' = Cargo(p))

LEMMA NothingMoves ==
  ASSUME Located, Located', StoreStill, PipesStill, offers' = offers, images' = images
  PROVE  ChunkStatus' = ChunkStatus
<1>1. \A id \in ChunkIds : Steady(id)
  <2> SUFFICES ASSUME NEW id \in ChunkIds PROVE Steady(id)
    OBVIOUS
  <2>1. /\ Imaged(id)' <=> Imaged(id)
        /\ Offered(id)' <=> Offered(id)
    BY DEF Imaged, Offered
  <2>2. Waiting(id)' <=> Waiting(id)
    BY DEF Located, StoreStill
  <2>3. Taken(id)' <=> Taken(id)
    BY DEF Located, PipesStill
  <2> QED
    BY <2>1, <2>2, <2>3 DEF Steady
<1> QED
  BY <1>1, SteadyStatus

LEMMA InitialStatus == SystemInit => Delivery!DeliveryInit
<1> SUFFICES ASSUME SystemInit, NEW id \in ChunkIds
             PROVE  ~Imaged(id) /\ ~Taken(id) /\ ~Waiting(id) /\ ~Offered(id)
  BY DEF Delivery!DeliveryInit, ChunkStatus
<1> QED
  BY DEF SystemInit, Init, StoreInit, ChunkIds, Imaged, Taken, WithPipeline, Waiting, Offered

LEMMA StatusNext ==
  \A id \in ChunkIds :
    /\ Imaged(id)' => ChunkStatus'[id] = "imaged"
    /\ ~Imaged(id)' /\ Taken(id)' => ChunkStatus'[id] = "taken"
    /\ ~Imaged(id)' /\ ~Taken(id)' /\ Waiting(id)' => ChunkStatus'[id] = "offered"
    /\ ~Imaged(id)' /\ ~Taken(id)' /\ ~Waiting(id)' /\ Offered(id)' =>
         ChunkStatus'[id] = "lost"
  BY DEF ChunkStatus

(***************************************************************************)
(* What a pipeline had is dropped with it.                                 *)
(***************************************************************************)
LEMMA PipelineDrops ==
  ASSUME SysInv, SysInv', StoreStill, offers' = offers, images' = images,
         NEW p \in Pipelines, Busy(p), ~Busy(p)',
         \A q \in Pipelines : q # p => (Busy(q)' <=> Busy(q)) /\ Cargo(q)' = Cargo(q)
  PROVE  Delivery!DeliveryNext
<1>1. Located /\ Located' /\ Apart
  BY WhereEverythingIs, WhereNext DEF SysInv
<1>2. PICK id \in ChunkIds : id = Cargo(p).head
  BY DEF SysInv, Places, Known
<1>3. \A j \in ChunkIds : /\ Imaged(j)' <=> Imaged(j)
                          /\ Offered(j)' <=> Offered(j)
                          /\ Waiting(j)' <=> Waiting(j)
  BY <1>1 DEF Located, StoreStill, Imaged, Offered
<1>4. \A j \in ChunkIds : j # id => (Taken(j)' <=> Taken(j))
  BY <1>1, <1>2 DEF Located
<1>5. Taken(id) /\ ~Taken(id)'
  BY <1>1, <1>2 DEF Located, Apart
<1>6. ~Imaged(id) /\ ~Waiting(id) /\ Offered(id)
  BY <1>1, <1>5 DEF Located
<1>7. ChunkStatus[id] = "taken" /\ ChunkStatus'[id] = "lost"
  BY <1>3, <1>5, <1>6, StatusIs, StatusNext
<1>8. \A j \in ChunkIds : j # id => Steady(j)
  BY <1>3, <1>4 DEF Steady
<1>9. Delivery!Lose(id)
  BY <1>7, <1>8, OneMoves DEF Delivery!Lose
<1> QED
  BY <1>9 DEF Delivery!DeliveryNext

(***************************************************************************)
(* A chunk that nobody fetched is lost when its slot is handed out again.  *)
(***************************************************************************)
LEMMA SlotRecycled ==
  ASSUME SysInv, SysInv', PipesStill, offers' = offers, images' = images,
         NEW s \in Ready, Ready' = Ready \ {s}, \A t \in Ready' : memory'[t] = memory[t]
  PROVE  Delivery!DeliveryNext
<1>1. Located /\ Located' /\ Apart
  BY WhereEverythingIs, WhereNext DEF SysInv
<1>2. PICK id \in ChunkIds : id = memory[s].head
  BY DEF SysInv, Places, Known
<1>3. \A j \in ChunkIds : /\ Imaged(j)' <=> Imaged(j)
                          /\ Offered(j)' <=> Offered(j)
                          /\ Taken(j)' <=> Taken(j)
  BY <1>1 DEF Located, PipesStill, Imaged, Offered
<1>4. \A j \in ChunkIds : j # id => (Waiting(j)' <=> Waiting(j))
  BY <1>1, <1>2 DEF Located
<1>5. Waiting(id) /\ ~Waiting(id)'
  BY <1>1, <1>2 DEF Located, Apart
<1>6. ~Imaged(id) /\ ~Taken(id) /\ Offered(id)
  BY <1>1, <1>5 DEF Located
<1>7. ChunkStatus[id] = "offered" /\ ChunkStatus'[id] = "lost"
  BY <1>3, <1>5, <1>6, StatusIs, StatusNext
<1>8. \A j \in ChunkIds : j # id => Steady(j)
  BY <1>3, <1>4 DEF Steady
<1>9. Delivery!Lose(id)
  BY <1>7, <1>8, OneMoves DEF Delivery!Lose
<1> QED
  BY <1>9 DEF Delivery!DeliveryNext

LEMMA PollTakes ==
  ASSUME SysInv, SysInv', NEW p \in Pipelines, Poll(p)
  PROVE  Delivery!DeliveryNext
<1>1. Located /\ Located' /\ Apart /\ PipeTypes /\ mode \in [Slots -> SlotModes]
  BY WhereEverythingIs, WhereNext, StoreFacts DEF SysInv
<1>2. /\ memory' = memory /\ offers' = offers /\ images' = images
      /\ \A q \in Pipelines : q # p => (Busy(q)' <=> Busy(q)) /\ Cargo(q)' = Cargo(q)
  BY PipelineAlone DEF Iterate, Poll
<1>3. PICK h \in Ready : h = Head(queue) /\ mode' = [mode EXCEPT ![h] = "serving"]
  BY StoreFacts DEF Poll, Serve
<1>4. Ready' = Ready \ {h}
  BY <1>1, <1>3 DEF Ready
<1>5. Busy(p)' /\ Cargo(p)' = memory[h] /\ ~Busy(p)
  BY <1>1, <1>2, <1>3 DEF Poll, PipeTypes, Busy, Cargo
<1>6. PICK id \in ChunkIds : id = memory[h].head
  BY DEF SysInv, Places, Known
<1>7. \A j \in ChunkIds : /\ Imaged(j)' <=> Imaged(j)
                          /\ Offered(j)' <=> Offered(j)
  BY <1>2 DEF Imaged, Offered
<1>8. \A j \in ChunkIds : j # id => (Waiting(j)' <=> Waiting(j)) /\ (Taken(j)' <=> Taken(j))
  BY <1>1, <1>2, <1>4, <1>5, <1>6 DEF Located
<1>9. Waiting(id) /\ Taken(id)'
  BY <1>1, <1>5, <1>6 DEF Located
<1>10. ~Imaged(id) /\ ~Taken(id)
  BY <1>1, <1>9 DEF Located
<1>11. ChunkStatus[id] = "offered" /\ ChunkStatus'[id] = "taken"
  BY <1>7, <1>9, <1>10, StatusIs, StatusNext
<1>12. \A j \in ChunkIds : j # id => Steady(j)
  BY <1>7, <1>8 DEF Steady
<1>13. Delivery!Take(id)
  BY <1>11, <1>12, OneMoves DEF Delivery!Take
<1> QED
  BY <1>13 DEF Delivery!DeliveryNext

LEMMA OutputImages ==
  ASSUME SysInv, SysInv', NEW p \in Pipelines, Output(p)
  PROVE  Delivery!DeliveryNext
<1>1. Located /\ Located' /\ Apart /\ PipeTypes
  BY WhereEverythingIs, WhereNext DEF SysInv
<1>2. /\ memory' = memory /\ offers' = offers
      /\ \A q \in Pipelines : q # p => (Busy(q)' <=> Busy(q)) /\ Cargo(q)' = Cargo(q)
  BY PipelineAlone DEF Iterate
<1>3. Ready' = Ready
  BY DEF Output, vars, storeVars, Ready
<1>4. images' = images \cup {Cargo(p)}
  BY DEF Output, Cargo
<1>5. Busy(p) /\ ~Busy(p)'
  BY <1>1 DEF Output, PipeTypes, Busy
<1>6. PICK id \in ChunkIds : id = Cargo(p).head
  BY <1>5 DEF SysInv, Places, Known
<1>7. \A j \in ChunkIds : /\ Waiting(j)' <=> Waiting(j)
                          /\ Offered(j)' <=> Offered(j)
  BY <1>1, <1>2, <1>3 DEF Located, Offered
<1>8. \A j \in ChunkIds : j # id => (Imaged(j)' <=> Imaged(j)) /\ (Taken(j)' <=> Taken(j))
  BY <1>1, <1>2, <1>4, <1>5, <1>6 DEF Located, Imaged
<1>9. Taken(id) /\ Imaged(id)'
  BY <1>1, <1>4, <1>5, <1>6 DEF Located, Imaged
<1>10. ~Imaged(id)
  BY <1>1, <1>9 DEF Located
<1>11. ChunkStatus[id] = "taken" /\ ChunkStatus'[id] = "imaged"
  BY <1>9, <1>10, StatusIs, StatusNext
<1>12. \A j \in ChunkIds : j # id => Steady(j)
  BY <1>7, <1>8 DEF Steady
<1>13. Delivery!Image(id)
  BY <1>11, <1>12, OneMoves DEF Delivery!Image
<1> QED
  BY <1>13 DEF Delivery!DeliveryNext

LEMMA PublishOffers ==
  ASSUME SysInv, SysInv', ServerNext, NEW c \in Chunkers, PublishNext(c)
  PROVE  Delivery!DeliveryNext
<1>1. /\ Located /\ Located'
      /\ mode \in [Slots -> SlotModes]
      /\ offers \in [Chunkers ->
                       Seq([pkt : Packets, range : 1..NumRanges, whole : BOOLEAN])]
  BY WhereEverythingIs, WhereNext, StoreFacts DEF SysInv, IInv, Storing
<1>2. PICK s \in Slots, id \in ChunkIds, n \in Nat, o \in Offerable :
        Publishing(c, s, id, n, o)
  BY PublishFacts
<1>3. /\ mode[s] = "writing"
      /\ id = memory[s].head /\ id.from = c /\ n = Len(offers[c])
      /\ \A i \in 1..n : ~(offers[c][i].pkt = id.pkt /\ offers[c][i].range = id.range)
      /\ o \in [pkt : Packets, range : 1..NumRanges, whole : BOOLEAN]
      /\ o.pkt = id.pkt /\ o.range = id.range
      /\ offers' = [offers EXCEPT ![c] = Append(offers[c], o)]
      /\ mode' = [mode EXCEPT ![s] = "ready"]
      /\ memory' = memory
  BY <1>2 DEF Publishing, Offerable
<1>4. Ready' = Ready \cup {s}
  BY <1>1, <1>3 DEF Ready
<1>5. /\ images' = images
      /\ \A p \in Pipelines : (Busy(p)' <=> Busy(p)) /\ Cargo(p)' = Cargo(p)
  BY CargoKept DEF ServerNext, pipeVars
<1>6. ~Offered(id)
  BY <1>3 DEF Offered
<1>7. \A j \in ChunkIds : j # id => (Offered(j)' <=> Offered(j))
  <2>1. /\ Len(offers'[c]) = n + 1
        /\ \A i \in 1..n : offers'[c][i] = offers[c][i] /\ i \in 1..(n + 1)
        /\ offers'[c][n + 1] = o
        /\ \A i \in 1..(n + 1) : i \in 1..n \/ i = n + 1
        /\ \A d \in Chunkers : d # c => offers'[d] = offers[d]
    BY <1>1, <1>3, AppendProperties
  <2>2. ASSUME NEW j \in ChunkIds, j # id, j.from = c PROVE Offered(j)' <=> Offered(j)
    <3>1. ~(o.pkt = j.pkt /\ o.range = j.range)
      BY <1>3, <2>2 DEF ChunkIds
    <3> QED
      BY <1>3, <2>1, <2>2, <3>1, SMTT(30) DEF Offered
  <2>3. ASSUME NEW j \in ChunkIds, j.from # c PROVE Offered(j)' <=> Offered(j)
    BY <2>1, <2>3 DEF Offered, ChunkIds
  <2> QED
    BY <2>2, <2>3
<1>8. \A j \in ChunkIds : /\ Imaged(j)' <=> Imaged(j)
                          /\ Taken(j)' <=> Taken(j)
  BY <1>1, <1>5 DEF Located, Imaged
<1>9. \A j \in ChunkIds : j # id => (Waiting(j)' <=> Waiting(j))
  BY <1>1, <1>3, <1>4 DEF Located
<1>10. ~Imaged(id) /\ ~Taken(id) /\ ~Waiting(id) /\ Waiting(id)'
  BY <1>1, <1>3, <1>4, <1>6 DEF Located
<1>11. ChunkStatus[id] = "unseen" /\ ChunkStatus'[id] = "offered"
  BY <1>6, <1>8, <1>10, StatusIs, StatusNext
<1>12. \A j \in ChunkIds : j # id => Steady(j)
  BY <1>7, <1>8, <1>9 DEF Steady
<1>13. Delivery!Offer(id)
  BY <1>11, <1>12, OneMoves DEF Delivery!Offer
<1> QED
  BY <1>13 DEF Delivery!DeliveryNext

LEMMA StatusStep ==
  ASSUME SysInv, SysInv', [SystemNext]_sysVars
  PROVE  Delivery!DeliveryNext \/ ChunkStatus' = ChunkStatus
<1>1. Located /\ Located' /\ PipeTypes /\ Transfers /\ mode \in [Slots -> SlotModes]
  BY WhereEverythingIs, WhereNext, StoreFacts DEF SysInv
<1>2. CASE ServerNext
  <2>1. PICK c \in Chunkers : Correlator(c) \/ Receiver(c) \/ Deactivate(c)
    BY <1>2 DEF ServerNext, ChunkerNext
  <2>2. images' = images /\ PipesStill
    BY <1>2, CargoKept DEF ServerNext, pipeVars, PipesStill
  <2>3. \A s \in HeldSlots(c) : mode[s] = "writing"
    BY StoreFacts
  <2>4. ASSUME NEW s \in Slots, Allocate(c, s)
        PROVE  Delivery!DeliveryNext \/ ChunkStatus' = ChunkStatus
    <3>1. /\ mode' = [mode EXCEPT ![s] = "writing"] /\ offers' = offers
          /\ \A t \in Slots : t # s => memory'[t] = memory[t]
      BY <2>4, StoreFacts, ObtainFacts DEF IInv, Allocate
    <3>2. Ready' = Ready \ {s} /\ \A t \in Ready' : memory'[t] = memory[t]
      BY <1>1, <3>1 DEF Ready
    <3>3. CASE s \in Ready
      BY <2>2, <3>1, <3>2, <3>3, SlotRecycled
    <3>4. CASE s \notin Ready
      BY <1>1, <2>2, <3>1, <3>2, <3>4, NothingMoves DEF StoreStill
    <3> QED
      BY <3>3, <3>4
  <2>5. CASE Fill(c)
    <3>1. mode' = mode /\ offers' = offers /\ \A t \in Ready : memory'[t] = memory[t]
      BY <2>3, <2>5, StoreFacts DEF Fill, Ready
    <3> QED
      BY <1>1, <2>2, <3>1, NothingMoves DEF StoreStill, Ready
  <2>6. CASE UNCHANGED <<storeVars, offers>>
    BY <1>1, <2>2, <2>6, NothingMoves DEF StoreStill, Ready, storeVars
  <2>7. CASE PublishNext(c)
    BY <1>2, <2>7, PublishOffers
  <2> QED
    BY <2>1, <2>4, <2>5, <2>6, <2>7 DEF Correlator, Connect, SendHeader, SendBlock,
       Disconnect, Deactivate, Receiver, InNext, NewDevice, EnterNext, ReadHeader, ReadBlock,
       Skip, Accept, Shortage, Return, nextVars
<1>3. ASSUME NEW p \in Pipelines, Iterate(p) \/ Crash(p) \/ Restart(p)
      PROVE  Delivery!DeliveryNext \/ ChunkStatus' = ChunkStatus
  <2>1. /\ memory' = memory /\ offers' = offers
        /\ \A q \in Pipelines : q # p => (Busy(q)' <=> Busy(q)) /\ Cargo(q)' = Cargo(q)
    BY <1>3, PipelineAlone
  <2>2. CASE Poll(p) \/ Output(p)
    BY <2>2, PollTakes, OutputImages
  <2>3. CASE Moving(p)
    <3>1. Fewer /\ images' = images
      BY <2>3, MovingFewer DEF Fewer
    <3>2. StoreStill
      BY <1>1, <2>1, <2>3 DEF Moving, Deliver, DeserialiseHeader, DeserialiseData, Process,
         Crash, Restart, Release, vars, storeVars, Ready, Transfers, StoreStill
    <3>3. CASE Busy(p) /\ ~Busy(p)'
      BY <2>1, <3>1, <3>2, <3>3, PipelineDrops
    <3>4. CASE ~(Busy(p) /\ ~Busy(p)')
      <4>1. PipesStill
        BY <2>1, <3>1, <3>4 DEF PipesStill, Fewer
      <4> QED
        BY <1>1, <2>1, <3>1, <3>2, <4>1, NothingMoves
    <3> QED
      BY <3>3, <3>4
  <2> QED
    BY <1>3, <2>2, <2>3 DEF Iterate, Moving
<1>4. CASE UNCHANGED sysVars
  <2>1. mode' = mode /\ memory' = memory /\ offers' = offers /\ UNCHANGED pipeVars
    BY <1>4 DEF sysVars, vars, storeVars, nextVars
  <2>2. StoreStill /\ PipesStill /\ images' = images
    BY <2>1 DEF StoreStill, PipesStill, Ready, Busy, Cargo, pipeVars
  <2> QED
    BY <1>1, <2>1, <2>2, NothingMoves
<1> QED
  BY <1>2, <1>3, <1>4 DEF SystemNext

(***************************************************************************)
(* The server and the pipelines deliver every chunk at most once: with any *)
(* number of streams, slots, pipelines and deaths of pipelines, a chunk    *)
(* goes from unseen to offered, taken and imaged, may be lost on the way,  *)
(* and never goes back.                                                    *)
(***************************************************************************)
THEOREM ImplementsDelivery == SystemSpec => AtMostOnce
<1>1. SysInv /\ SysInv' /\ [SystemNext]_sysVars => [Delivery!DeliveryNext]_ChunkStatus
  BY StatusStep
<1> QED
  BY <1>1, InitialStatus, SysInvariance, PTL
  DEF SystemSpec, AtMostOnce, Delivery!DeliverySafety

-----------------------------------------------------------------------------
(***************************************************************************)
(* SettledInTheEnd.  What is ahead of a chunk that a pipeline has fetched: *)
(* Rank steps of its pipeline, none of which waits for anybody.            *)
(***************************************************************************)
Rank ==
  [down |-> 0, idle |-> 0, served |-> 5, header |-> 4, data |-> 3, process |-> 2,
   output |-> 1]

Over(id) == ChunkStatus[id] \in {"imaged", "lost"}

\* The pipeline has the chunk, at most k steps from its image, or that is over.
Has(id, p, k) ==
  \/ Busy(p) /\ Cargo(p).head = id /\ Rank[stage[p]] <= k
  \/ Over(id)

\* An image is written of a chunk that is output.
LEMMA OutputIsOver ==
  ASSUME SysInv, SysInv', NEW id \in ChunkIds, NEW p \in Pipelines,
         Cargo(p).head = id, Output(p)
  PROVE  Over(id)'
<1>1. images' = images \cup {Cargo(p)}
  BY DEF Output, Cargo
<1>2. Imaged(id)'
  BY <1>1 DEF Imaged
<1>3. ChunkStatus'[id] = "imaged"
  BY <1>2, StatusNext
<1> QED
  BY <1>3 DEF Over

\* A chunk is lost with the pipeline that has it, and with no other.
LEMMA CrashIsOver ==
  ASSUME SysInv, SysInv', NEW id \in ChunkIds, NEW p \in Pipelines, Busy(p),
         Cargo(p).head = id, Crash(p)
  PROVE  Over(id)'
<1>1. Located /\ Located' /\ Apart /\ PipeTypes
  BY WhereEverythingIs, WhereNext DEF SysInv
<1>2. Fewer
  BY MovingFewer DEF Moving
<1>3. ~Busy(p)'
  BY <1>1 DEF Crash, PipeTypes, Busy
<1>4. \A q \in Pipelines : Busy(q)' => Busy(q) /\ q # p /\ Cargo(q)' = Cargo(q)
  BY <1>2, <1>3 DEF Fewer
<1>5. ~Taken(id)'
  BY <1>1, <1>4 DEF Located, Apart
<1>6. Taken(id) /\ ~Waiting(id) /\ ~Imaged(id) /\ Offered(id)
  BY <1>1 DEF Located
<1>7. ~Waiting(id)'
  BY <1>1, <1>2, <1>6 DEF Located, Fewer
<1>8. (~Imaged(id))' /\ Offered(id)'
  BY <1>2, <1>6 DEF Fewer, Imaged, Offered
<1>9. ChunkStatus'[id] = "lost"
  BY <1>5, <1>7, <1>8, StatusNext
<1> QED
  BY <1>9 DEF Over

\* A step of the pipeline takes the chunk it has nearer to its image.
LEMMA IterateFalls ==
  ASSUME SysInv, SysInv', NEW id \in ChunkIds, NEW p \in Pipelines, Busy(p),
         Cargo(p).head = id, Iterate(p)
  PROVE  \/ /\ Busy(p)' /\ Cargo(p)'.head = id
            /\ Rank[stage[p]] \in Nat /\ Rank[stage'[p]] = Rank[stage[p]] - 1
         \/ Over(id)'
<1>1. PipeTypes
  BY DEF SysInv
<1>2. CASE Output(p)
  BY <1>2, OutputIsOver
<1>3. CASE Deliver(p) \/ DeserialiseHeader(p) \/ DeserialiseData(p) \/ Process(p)
  <2>1. Fewer
    BY <1>3, MovingFewer DEF Moving
  <2>2. /\ Busy(p)'
        /\ Rank[stage[p]] \in Nat /\ Rank[stage'[p]] = Rank[stage[p]] - 1
    BY <1>1, <1>3 DEF Deliver, DeserialiseHeader, DeserialiseData, Process, PipeTypes, Busy,
       Rank
  <2> QED
    BY <2>1, <2>2 DEF Fewer
<1>4. ~Poll(p)
  BY DEF Poll, Busy
<1> QED
  BY <1>2, <1>3, <1>4 DEF Iterate

\* No step of anybody else takes the chunk away from the pipeline.
LEMMA HasKept ==
  ASSUME SysInv, SysInv', [SystemNext]_sysVars, NEW id \in ChunkIds, NEW p \in Pipelines,
         Busy(p), Cargo(p).head = id, ~Iterate(p)
  PROVE  \/ Busy(p)' /\ Cargo(p)'.head = id /\ stage'[p] = stage[p]
         \/ Over(id)'
<1>1. CASE ServerNext
  <2>1. stage'[p] = stage[p]
    BY <1>1 DEF ServerNext, pipeVars
  <2> QED
    BY <1>1, <2>1, CargoKept
<1>2. ASSUME NEW q \in Pipelines, q # p, Iterate(q) \/ Crash(q) \/ Restart(q)
      PROVE  Busy(p)' /\ Cargo(p)'.head = id /\ stage'[p] = stage[p]
  BY <1>2, PipelineAlone
<1>3. CASE Crash(p)
  BY <1>3, CrashIsOver
<1>4. ~Restart(p)
  BY DEF Restart, Busy
<1>5. CASE UNCHANGED sysVars
  <2>1. memory' = memory /\ UNCHANGED pipeVars
    BY <1>5 DEF sysVars, vars, storeVars
  <2> QED
    BY <2>1 DEF Busy, Cargo, pipeVars
<1> QED
  BY <1>1, <1>2, <1>3, <1>4, <1>5 DEF SystemNext

(***************************************************************************)
(* What the provers cannot see is that a pipeline that has a chunk has a   *)
(* step to take: StepsEnable says so, and every stage but "down" and       *)
(* "idle" has one action whose guard is that stage.                        *)
(***************************************************************************)
StepsEnable == \A p \in Pipelines : Busy(p) => ENABLED <<Iterate(p)>>_sysVars

Watched == [](SysInv /\ StepsEnable) /\ [][SystemNext]_sysVars
Closer(id, p, k, j) == Has(id, p, k) ~> Has(id, p, j)

LEMMA StepCloser ==
  ASSUME NEW id \in ChunkIds, NEW p \in Pipelines,
         NEW k \in 0..5, NEW j \in 0..5, k = j + 1
  PROVE  Watched /\ PipelineRuns(p) => Closer(id, p, k, j)
<1> DEFINE Here == Has(id, p, k) /\ ~Has(id, p, j)
<1>1. SysInv /\ Here => Busy(p) /\ Cargo(p).head = id /\ Rank[stage[p]] = k
  <2>1. SysInv => Rank[stage[p]] \in 0..5
    BY DEF SysInv, PipeTypes, Stages, Rank
  <2> QED
    BY <2>1 DEF Has
<1>2. SysInv /\ Here /\ [SystemNext]_sysVars => Has(id, p, k)'
  <2> SUFFICES ASSUME SysInv, Here, [SystemNext]_sysVars PROVE Has(id, p, k)'
    OBVIOUS
  <2>1. SysInv'
    BY SysInductive
  <2>2. CASE Iterate(p)
    <3>1. \/ Busy(p)' /\ Cargo(p)'.head = id /\ Rank[stage'[p]] = Rank[stage[p]] - 1
          \/ Over(id)'
      BY <1>1, <2>1, <2>2, IterateFalls
    <3> QED
      BY <1>1, <3>1 DEF Has
  <2>3. CASE ~Iterate(p)
    <3>1. \/ Busy(p)' /\ Cargo(p)'.head = id /\ stage'[p] = stage[p]
          \/ Over(id)'
      BY <1>1, <2>1, <2>3, HasKept
    <3> QED
      BY <1>1, <3>1 DEF Has
  <2> QED
    BY <2>2, <2>3
<1>3. SysInv /\ Here /\ <<SystemNext /\ Iterate(p)>>_sysVars => Has(id, p, j)'
  <2> SUFFICES ASSUME SysInv, Here, SystemNext, Iterate(p) PROVE Has(id, p, j)'
    OBVIOUS
  <2>1. SysInv'
    BY SysInductive
  <2>2. \/ Busy(p)' /\ Cargo(p)'.head = id /\ Rank[stage'[p]] = Rank[stage[p]] - 1
        \/ Over(id)'
    BY <1>1, <2>1, IterateFalls
  <2> QED
    BY <1>1, <2>2 DEF Has
<1>4. SysInv /\ StepsEnable => (Here => ENABLED <<Iterate(p)>>_sysVars)
  BY <1>1 DEF StepsEnable
<1>5. Iterate(p) => SystemNext
  BY DEF SystemNext
<1> QED
  BY <1>2, <1>3, <1>4, <1>5, PTL DEF PipelineRuns, Closer, Watched

\* What a pipeline that keeps running has fetched is settled.
Settles(id, p) == WithPipeline(id, p) ~> Over(id)

LEMMA FetchedSettles ==
  ASSUME NEW id \in ChunkIds, NEW p \in Pipelines
  PROVE  Watched /\ PipelineRuns(p) => Settles(id, p)
<1> DEFINE Runs == Watched /\ PipelineRuns(p)
<1>1. Runs => Closer(id, p, 5, 4)
  BY StepCloser
<1>2. Runs => Closer(id, p, 4, 3)
  BY StepCloser
<1>3. Runs => Closer(id, p, 3, 2)
  BY StepCloser
<1>4. Runs => Closer(id, p, 2, 1)
  BY StepCloser
<1>5. Runs => Closer(id, p, 1, 0)
  BY StepCloser
<1>6. SysInv /\ WithPipeline(id, p) => Has(id, p, 5)
  BY Whereabouts DEF SysInv, PipeTypes, Stages, Rank, Has
<1>7. SysInv /\ Has(id, p, 0) => Over(id)
  BY DEF SysInv, PipeTypes, Stages, Rank, Has, Busy
<1> QED
  BY <1>1, <1>2, <1>3, <1>4, <1>5, <1>6, <1>7, PTL DEF Closer, Settles, Watched

(***************************************************************************)
(* Whatever a pipeline has fetched is imaged in the end, or lost with it,  *)
(* for any number of streams, slots, pipelines and deaths, if the server   *)
(* and the pipelines keep running (UniboardPipeline.cpp:46-83).            *)
(***************************************************************************)
EachSettles == \A id \in ChunkIds, p \in Pipelines : Settles(id, p)

THEOREM FetchedIsSettled == FairSystemSpec /\ []StepsEnable => EachSettles
<1>1. ASSUME NEW id \in ChunkIds, NEW p \in Pipelines
      PROVE  Watched /\ PipelineRuns(p) => Settles(id, p)
  BY FetchedSettles
<1>2. Watched /\ (\A p \in Pipelines : PipelineRuns(p)) => EachSettles
  BY <1>1 DEF EachSettles
<1>3. FairSystemSpec /\ []StepsEnable => Watched /\ \A p \in Pipelines : PipelineRuns(p)
  BY SysInvariance, PTL DEF FairSystemSpec, SystemSpec, Watched
<1> QED
  BY <1>2, <1>3, PTL

(***************************************************************************)
(* The same of the delivery of chunks, where the pipeline that fetched a   *)
(* chunk may be any.  Fairness of every pipeline is asked for at all times *)
(* here, which says no more than FairSystemSpec: fairness is about what    *)
(* happens infinitely often, but the provers cannot move [] past \A.       *)
(***************************************************************************)
THEOREM ChunksSettle ==
  FairSystemSpec /\ []StepsEnable /\ [](\A p \in Pipelines : PipelineRuns(p))
    => SettledInTheEnd
<1> DEFINE AllRun == \A p \in Pipelines : PipelineRuns(p)
           Ends(id) == <>Over(id)
           Later(id, p) == WithPipeline(id, p) => Ends(id)
           Taking(id) == Taken(id) => Ends(id)
           Delivered(id) ==
             ChunkStatus[id] = "taken" ~> ChunkStatus[id] \in {"imaged", "lost"}
<1>1. ASSUME NEW id \in ChunkIds PROVE [](Watched /\ AllRun) => Delivered(id)
  <2>1. ASSUME NEW p \in Pipelines PROVE Watched /\ PipelineRuns(p) => Later(id, p)
    <3>1. Watched /\ PipelineRuns(p) => Settles(id, p)
      BY FetchedSettles
    <3>2. Settles(id, p) => Later(id, p)
      BY PTL DEF Settles
    <3> QED
      BY <3>1, <3>2
  <2>2. Watched /\ AllRun => \A p \in Pipelines : Later(id, p)
    <3> HIDE DEF Later
    <3> QED
      BY <2>1
  <2>3. (\A p \in Pipelines : Later(id, p)) => Taking(id)
    <3> HIDE DEF Ends
    <3> QED
      BY DEF Taken
  <2>4. ChunkStatus[id] = "taken" => Taken(id)
    BY StatusIs
  <2>5. Watched /\ AllRun => Taking(id)
    BY <2>2, <2>3
  <2> QED
    BY <2>4, <2>5, PTL DEF Over
<1>2. [](Watched /\ AllRun) => \A id \in ChunkIds : Delivered(id)
  <2> HIDE DEF Delivered, AllRun
  <2> QED
    BY <1>1
<1>3. (\A id \in ChunkIds : Delivered(id)) => SettledInTheEnd
  BY DEF SettledInTheEnd, Delivery!Settled
<1>4. FairSystemSpec /\ []StepsEnable /\ []AllRun => [](Watched /\ AllRun)
  BY SysInvariance, PTL DEF FairSystemSpec, SystemSpec, Watched
<1> QED
  BY <1>2, <1>3, <1>4, PTL

=============================================================================
