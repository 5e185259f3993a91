---------------------------- MODULE MCPacketQueue ----------------------------
(***************************************************************************)
(* A queue-config reply of each version growing to two queues of two      *)
(* properties: enough for a property appended to a queue that sits after  *)
(* another one, so that every length write is relocated.                   *)
(***************************************************************************)
EXTENDS PacketQueue

MCMaxQueues == 2
MCMaxProps == 2
MCQueueIds == {1, 65536}   \* a queue id in the low and one in the high half
MCPorts == {7}
\* Every queue property, including those a version lacks.
MCPropIds == IdsOfFamily("queue_prop")
=============================================================================
