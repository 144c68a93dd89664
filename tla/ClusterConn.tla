---------------------------- MODULE ClusterConn ----------------------------
(***************************************************************************)
(* The two ends of a cluster connection side by side: the sender of one    *)
(* node (PeerSender) and the receiving side of another (InboundDispatch).  *)
(* Neither reads the state of the other: what travels between them is      *)
(* chosen freely on both ends.                                             *)
(***************************************************************************)
EXTENDS PeerSender

CONSTANTS Requests, Sends, Barriers, Shards, InboundQueue, MaxInboundCalls

VARIABLES
  open, stopped, admissionNext, admissionDone, admissionFinished, barrierPending, calls, shard,
  job, admissionSeq, canceled, verdict, answers, queue, slots, callSlots, worker, barrier,
  barrierSeq

inboundVars ==
  <<open, stopped, admissionNext, admissionDone, admissionFinished, barrierPending, calls,
    shard, job, admissionSeq, canceled, verdict, answers, queue, slots, callSlots, worker,
    barrier, barrierSeq>>

Inbound == INSTANCE InboundDispatch WITH Calls <- Requests

ASSUME ConnAssumption == Inbound!InboundAssumption

\* A barrier is answered only when admission has been decided for every frame that
\* was read before it.
BarrierWaits == Inbound!BarrierWaits

\* Frames for one shard are admitted in the order in which they were read.
AdmittedInOrder == [][Inbound!AdmitsInOrder]_inboundVars
============================================================================
