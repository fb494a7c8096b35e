---------------------------- MODULE MCMessageQueue ----------------------------
(* Two messages of different urgency (the guard path enqueues at priority 0,
   the rest at 100), two consumers, a message dead-lettered at its second
   failure, one deferral and one crash. *)
EXTENDS MessageQueue, TLC

CONSTANTS m1, m2

MCPriority == (m1 :> 0) @@ (m2 :> 1)
===============================================================================
