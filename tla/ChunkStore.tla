----------------------------- MODULE ChunkStore -----------------------------
(***************************************************************************)
(* The chunk buffer of the server.  The class belongs to the Pelican       *)
(* framework and not to this repository: it is modelled from the way       *)
(* StreamChunker asks it for memory and from the README ("the server will  *)
(* start discarding old data to make space for new").                      *)
(*                                                                         *)
(* The buffer is a fixed set of slots.  A slot is free, being written by a *)
(* chunker, ready (in the queue), or being served to a pipeline.  Memory   *)
(* is never erased: a slot that is handed out again still holds the bytes  *)
(* of its previous chunk until its writer overwrites them.                 *)
(***************************************************************************)
EXTENDS Naturals, Sequences, FiniteSets

CONSTANTS
  Chunkers,    \* the StreamChunkers of the server, one per TCP stream
  Slots,       \* the slots of the StreamBlob buffer
  NumRanges,   \* channel ranges a chunker cuts every packet into
  MaxPackets,  \* bound: packets a correlator sends on one stream
  Blank        \* what never written memory holds

ASSUME StoreAssumption ==
  /\ NumRanges \in Nat \ {0}
  /\ MaxPackets \in Nat
  /\ IsFiniteSet(Slots)

(***************************************************************************)
(* A chunk is identified by the chunker it comes from, the number of the   *)
(* packet on that stream and the channel range.                            *)
(***************************************************************************)
ChunkIds == [from : Chunkers, pkt : 1..MaxPackets, range : 1..NumRanges]

ASSUME BlankAssumption == Blank \notin ChunkIds

VARIABLES
  mode,    \* what each slot is used for
  queue,   \* the slots that are ready, oldest first
  memory   \* the chunk header and the chunk body found in each slot

storeVars == <<mode, queue, memory>>

SlotModes == {"free", "writing", "ready", "serving"}
Contents == ChunkIds \cup {Blank}

StoreTypeInv ==
  /\ mode \in [Slots -> SlotModes]
  /\ queue \in Seq(Slots)
  /\ memory \in [Slots -> [head : Contents, body : Contents]]

StoreInit ==
  /\ mode = [s \in Slots |-> "free"]
  /\ queue = <<>>
  /\ memory = [s \in Slots |-> [head |-> Blank, body |-> Blank]]

FreeSlots == {s \in Slots : mode[s] = "free"}

\* Mutant: a recycled slot stays in the queue.
ObtainKeepingQueue(s) ==
  /\ s \in FreeSlots \/ (FreeSlots = {} /\ queue # <<>> /\ s = Head(queue))
  /\ mode' = [mode EXCEPT ![s] = "writing"]
  /\ queue' = queue

\* Mutant: a slot that is being sent to a pipeline may be written.
ObtainServed(s) ==
  /\ \/ s \in FreeSlots /\ mode' = [mode EXCEPT ![s] = "writing"]
     \/ FreeSlots = {} /\ mode[s] = "serving" /\ mode' = mode
  /\ queue' = queue

(***************************************************************************)
(* getDataStorage: a free slot or, when there is none, the oldest chunk    *)
(* nobody has fetched yet, which is lost.                                  *)
(***************************************************************************)
Obtain(s) ==
  /\ \/ /\ s \in FreeSlots
        /\ queue' = queue
     \/ /\ FreeSlots = {}
        /\ queue # <<>>
        /\ s = Head(queue)
        /\ queue' = Tail(queue)
  /\ mode' = [mode EXCEPT ![s] = "writing"]

\* Mutant: a full store makes its caller wait.
NeverRefuses == FALSE

(***************************************************************************)
(* getDataStorage may return invalid storage whenever no slot is free.     *)
(***************************************************************************)
MayRefuse == FreeSlots = {}

(***************************************************************************)
(* A WritableData handle goes out of scope: its slot becomes ready.        *)
(***************************************************************************)
Publish(s) ==
  /\ mode' = [mode EXCEPT ![s] = "ready"]
  /\ queue' = Append(queue, s)
  /\ memory' = memory

(***************************************************************************)
(* A pipeline asks for data and the oldest ready slot is served to it ...  *)
(***************************************************************************)
\* Mutant: the last chunk of the queue is kept back.
ServeAllButLast ==
  /\ Len(queue) > 1
  /\ mode' = [mode EXCEPT ![Head(queue)] = "serving"]
  /\ queue' = Tail(queue)
  /\ memory' = memory

Serve ==
  /\ queue # <<>>
  /\ mode' = [mode EXCEPT ![Head(queue)] = "serving"]
  /\ queue' = Tail(queue)
  /\ memory' = memory

(***************************************************************************)
(* ... and is free again when the transfer has ended.                      *)
(***************************************************************************)
Release(s) ==
  /\ mode[s] = "serving"
  /\ mode' = [mode EXCEPT ![s] = "free"]
  /\ UNCHANGED <<queue, memory>>

=============================================================================
