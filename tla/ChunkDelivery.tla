---------------------------- MODULE ChunkDelivery ----------------------------
(***************************************************************************)
(* What the server and the pipelines promise together: every chunk that is *)
(* offered is imaged at most once.  Chunks may be lost, while they wait or *)
(* with the pipeline that fetched them, but none comes back afterwards.    *)
(***************************************************************************)
CONSTANT Chunks  \* the chunks the streams can be cut into

VARIABLE status  \* how far each chunk has come

Statuses == {"unseen", "offered", "taken", "imaged", "lost"}

DeliveryTypeInv == status \in [Chunks -> Statuses]

DeliveryInit == status = [id \in Chunks |-> "unseen"]

Becomes(id, from, to) ==
  /\ status[id] \in from
  /\ status' = [status EXCEPT ![id] = to]

Offer(id) == Becomes(id, {"unseen"}, "offered")
Take(id) == Becomes(id, {"offered"}, "taken")
Image(id) == Becomes(id, {"taken"}, "imaged")
Lose(id) == Becomes(id, {"offered", "taken"}, "lost")

DeliveryNext ==
  \E id \in Chunks : Offer(id) \/ Take(id) \/ Image(id) \/ Lose(id)

DeliverySafety == DeliveryInit /\ [][DeliveryNext]_status

(***************************************************************************)
(* Settled: what a pipeline fetched is imaged, or lost with the pipeline   *)
(* (UniboardPipeline.cpp:46-83).                                           *)
(***************************************************************************)
Settled == \A id \in Chunks : status[id] = "taken" ~> status[id] \in {"imaged", "lost"}

=============================================================================
