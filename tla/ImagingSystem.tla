---------------------------- MODULE ImagingSystem ----------------------------
(***************************************************************************)
(* The server with its pipelines.  A pipeline polls the server, which      *)
(* serves it the oldest chunk; StreamAdapter::deserialise() reads the      *)
(* chunk header into the pipeline's StreamBlob, resets the blob, and reads *)
(* the visibilities; the modules turn them into an image, and the output   *)
(* streams write it.  A pipeline is a process of its own that may die at   *)
(* any point and be started again.                                         *)
(***************************************************************************)
EXTENDS StreamChunker

CONSTANTS
  Pipelines,   \* the pipeline processes
  NoSlot,      \* the slot of a pipeline that is not being served
  MaxCrashes   \* bound: how often pipelines die

ASSUME SystemAssumption ==
  /\ NoSlot \notin Slots
  /\ MaxCrashes \in Nat

VARIABLES
  stage,    \* where each pipeline is in its iteration
  serving,  \* the slot that is being sent to each pipeline
  inbox,    \* the chunk on its way to each pipeline
  blob,     \* the StreamBlob of each pipeline
  images,   \* history: the images written, by header and contents
  crashes   \* how often a pipeline has died

pipeVars == <<stage, serving, inbox, blob, images, crashes>>
sysVars == <<vars, pipeVars>>

Stages == {"down", "idle", "served", "header", "data", "process", "output"}
NoChunk == [head |-> Blank, body |-> Blank]

(***************************************************************************)
(* What the properties need of a StreamBlob: mHeader, and whose            *)
(* visibilities mRawData and mSkyMap hold.                                 *)
(***************************************************************************)
Blobs == [header : Contents, raw : Contents, sky : Contents]
NoBlob == [header |-> Blank, raw |-> Blank, sky |-> Blank]

SystemTypeInv ==
  /\ TypeInv
  /\ stage \in [Pipelines -> Stages]
  /\ serving \in [Pipelines -> Slots \cup {NoSlot}]
  /\ inbox \in [Pipelines -> [head : Contents, body : Contents]]
  /\ blob \in [Pipelines -> Blobs]
  /\ images \subseteq [head : ChunkIds, body : Contents]
  /\ crashes \in 0..MaxCrashes

SystemInit ==
  /\ Init
  /\ stage = [p \in Pipelines |-> "idle"]
  /\ serving = [p \in Pipelines |-> NoSlot]
  /\ inbox = [p \in Pipelines |-> NoChunk]
  /\ blob = [p \in Pipelines |-> NoBlob]
  /\ images = {}
  /\ crashes = 0

-----------------------------------------------------------------------------
(***************************************************************************)
(* The pipeline asks for remote data and the server serves the oldest      *)
(* chunk; the slot is free again when the chunk has been sent.             *)
(***************************************************************************)
Poll(p) ==
  /\ stage[p] = "idle"
  /\ Serve
  /\ serving' = [serving EXCEPT ![p] = Head(queue)]
  /\ stage' = [stage EXCEPT ![p] = "served"]
  /\ UNCHANGED <<streamVars, active, nextVars, inbox, blob, images, crashes>>

Deliver(p) ==
  /\ stage[p] = "served"
  /\ inbox' = [inbox EXCEPT ![p] = memory[serving[p]]]
  /\ Release(serving[p])
  /\ serving' = [serving EXCEPT ![p] = NoSlot]
  /\ stage' = [stage EXCEPT ![p] = "header"]
  /\ UNCHANGED <<streamVars, active, nextVars, blob, images, crashes>>

(***************************************************************************)
(* deserialise(): the header, StreamBlob::reset(), the visibilities.       *)
(***************************************************************************)
DeserialiseHeader(p) ==
  /\ stage[p] = "header"
  /\ blob' = [blob EXCEPT ![p].header = inbox[p].head, ![p].sky = Blank]
  /\ stage' = [stage EXCEPT ![p] = "data"]
  /\ UNCHANGED <<vars, serving, inbox, images, crashes>>

\* Mutant: the second wait does not subtract the header, which was already
\* read, from the size of the chunk: the bytes never come.
DeserialiseDataNever(p) == FALSE

DeserialiseData(p) ==
  /\ stage[p] = "data"
  /\ blob' = [blob EXCEPT ![p].raw = inbox[p].body]
  /\ inbox' = [inbox EXCEPT ![p] = NoChunk]
  /\ stage' = [stage EXCEPT ![p] = "process"]
  /\ UNCHANGED <<vars, serving, images, crashes>>

(***************************************************************************)
(* UniboardPipeline::run(): flag, calibrate, image; then dataOutput.       *)
(***************************************************************************)
Process(p) ==
  /\ stage[p] = "process"
  /\ blob' = [blob EXCEPT ![p].sky = blob[p].raw]
  /\ stage' = [stage EXCEPT ![p] = "output"]
  /\ UNCHANGED <<vars, serving, inbox, images, crashes>>

\* Mutant: the pipeline goes round again without having asked for data.
OutputAndRepeat(p) ==
  /\ stage[p] = "output"
  /\ images' = images \cup {[head |-> blob[p].header, body |-> blob[p].sky]}
  /\ stage' = [stage EXCEPT ![p] = "process"]
  /\ UNCHANGED <<vars, serving, inbox, blob, crashes>>

Output(p) ==
  /\ stage[p] = "output"
  /\ images' = images \cup {[head |-> blob[p].header, body |-> blob[p].sky]}
  /\ stage' = [stage EXCEPT ![p] = "idle"]
  /\ UNCHANGED <<vars, serving, inbox, blob, crashes>>

(***************************************************************************)
(* The process dies: a qFatal(), as when an image cannot be saved, or a    *)
(* signal.  The server frees the slot of a transfer that is cut off.       *)
(***************************************************************************)
\* Mutant: the server puts the chunk back in the queue.
CrashReturningChunk(p) ==
  /\ stage[p] # "down"
  /\ crashes < MaxCrashes
  /\ crashes' = crashes + 1
  /\ stage' = [stage EXCEPT ![p] = "down"]
  /\ serving' = [serving EXCEPT ![p] = NoSlot]
  /\ inbox' = [inbox EXCEPT ![p] = NoChunk]
  /\ blob' = [blob EXCEPT ![p] = NoBlob]
  /\ IF serving[p] = NoSlot THEN UNCHANGED storeVars ELSE Publish(serving[p])
  /\ UNCHANGED <<streamVars, active, nextVars, images>>

Crash(p) ==
  /\ stage[p] # "down"
  /\ crashes < MaxCrashes
  /\ crashes' = crashes + 1
  /\ stage' = [stage EXCEPT ![p] = "down"]
  /\ serving' = [serving EXCEPT ![p] = NoSlot]
  /\ inbox' = [inbox EXCEPT ![p] = NoChunk]
  /\ blob' = [blob EXCEPT ![p] = NoBlob]
  /\ IF serving[p] = NoSlot THEN UNCHANGED storeVars ELSE Release(serving[p])
  /\ UNCHANGED <<streamVars, active, nextVars, images>>

Restart(p) ==
  /\ stage[p] = "down"
  /\ stage' = [stage EXCEPT ![p] = "idle"]
  /\ UNCHANGED <<vars, serving, inbox, blob, images, crashes>>

-----------------------------------------------------------------------------
Iterate(p) ==
  \/ Poll(p) \/ Deliver(p)
  \/ DeserialiseHeader(p) \/ DeserialiseData(p)
  \/ Process(p) \/ Output(p)

ServerNext == ChunkerNext /\ UNCHANGED pipeVars

SystemNext ==
  \/ ServerNext
  \/ \E p \in Pipelines : Iterate(p) \/ Crash(p) \/ Restart(p)

(***************************************************************************)
(* Fairness: the threads of the server and the processes that are up run,  *)
(* and a pipeline that died is started again.                              *)
(***************************************************************************)
SystemSpec == SystemInit /\ [][SystemNext]_sysVars
StreamRuns(c) == WF_sysVars(Receiver(c) /\ UNCHANGED pipeVars)
PipelineRuns(p) == WF_sysVars(Iterate(p)) /\ WF_sysVars(Restart(p))
FairSystemSpec ==
  /\ SystemSpec
  /\ \A c \in Chunkers : StreamRuns(c)
  /\ \A p \in Pipelines : PipelineRuns(p)

-----------------------------------------------------------------------------
(***************************************************************************)
(* Where a chunk is: waiting in the queue, with a pipeline (in the slot    *)
(* that is being sent, on its way, or in its blob), or imaged.             *)
(***************************************************************************)
Waiting(id) == \E i \in 1..Len(queue) : memory[queue[i]].head = id
WithPipeline(id, p) ==
  \/ stage[p] = "served" /\ memory[serving[p]].head = id
  \/ stage[p] \in {"header", "data"} /\ inbox[p].head = id
  \/ stage[p] \in {"process", "output"} /\ blob[p].header = id
Taken(id) == \E p \in Pipelines : WithPipeline(id, p)
Imaged(id) == \E i \in images : i.head = id
Offered(id) ==
  \E i \in 1..Len(offers[id.from]) :
    /\ offers[id.from][i].pkt = id.pkt
    /\ offers[id.from][i].range = id.range

ChunkStatus ==
  [id \in ChunkIds |->
     CASE Imaged(id) -> "imaged"
       [] ~Imaged(id) /\ Taken(id) -> "taken"
       [] ~Imaged(id) /\ ~Taken(id) /\ Waiting(id) -> "offered"
       [] ~Imaged(id) /\ ~Taken(id) /\ ~Waiting(id) /\ Offered(id) -> "lost"
       [] OTHER -> "unseen"]

(***************************************************************************)
(* AtMostOnce: the server and the pipelines implement the delivery of      *)
(* chunks: whatever slots are recycled and whichever pipelines die, a      *)
(* chunk that was imaged or lost never turns up again (StreamChunker.cpp,  *)
(* StreamAdapter.cpp, UniboardPipeline.cpp together).                      *)
(***************************************************************************)
Delivery == INSTANCE ChunkDelivery WITH Chunks <- ChunkIds, status <- ChunkStatus
AtMostOnce == Delivery!DeliverySafety

(***************************************************************************)
(* OnePlace: a chunk is never in two slots of the queue, with two          *)
(* pipelines, or imaged while somebody could still fetch it.               *)
(***************************************************************************)
OnePlace ==
  \A id \in ChunkIds :
    /\ \A i, j \in 1..Len(queue) :
         memory[queue[i]].head = id /\ memory[queue[j]].head = id => i = j
    /\ \A p, q \in Pipelines : WithPipeline(id, p) /\ WithPipeline(id, q) => p = q
    /\ ~(Waiting(id) /\ Taken(id))
    /\ ~(Imaged(id) /\ (Waiting(id) \/ Taken(id)))

(***************************************************************************)
(* WholeImages: the image of a chunk whose packet was filled shows the     *)
(* visibilities its header names, although its slot may have been handed   *)
(* out again before the image was made (StreamChunker.cpp:96-132,          *)
(* StreamAdapter.cpp:16-36).                                               *)
(***************************************************************************)
WholeImages ==
  \A img \in images : \A i \in 1..Len(offers[img.head.from]) :
    LET o == offers[img.head.from][i]
    IN o.pkt = img.head.pkt /\ o.range = img.head.range /\ o.whole =>
         img.body = img.head

(***************************************************************************)
(* QueueDrains: a chunk does not wait for ever while pipelines come back.  *)
(***************************************************************************)
QueueDrains == \A id \in ChunkIds : Waiting(id) ~> ~Waiting(id)

(***************************************************************************)
(* SettledInTheEnd: what a pipeline fetched is imaged, or is lost with it. *)
(***************************************************************************)
SettledInTheEnd == Delivery!Settled

-----------------------------------------------------------------------------
(***************************************************************************)
(* SingleIntegration: a chunk corresponds "to a single integration of a    *)
(* particular subband" (README.rst:25), and so does the image made of it.  *)
(* The code does not keep this.                                            *)
(***************************************************************************)
SingleIntegration == \A img \in images : img.body = img.head

=============================================================================
