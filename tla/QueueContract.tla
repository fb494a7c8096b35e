---------------------------- MODULE QueueContract ----------------------------
(***************************************************************************)
(* What a Postgres-backed queue of the pipeline promises its producers and  *)
(* consumers: "at-least-once delivery + consumer dedup on dedup_key"        *)
(* (schema/news-store-schema.sql).  A key is sent once, may be delivered    *)
(* any number of times while it is open, and leaves the queue only after a  *)
(* delivery: settled by a consumer, or given up into the dead letters.      *)
(***************************************************************************)
CONSTANT Keys          \* dedup keys of one queue

VARIABLES
  sent,       \* keys that have a row
  delivered,  \* keys handed to a consumer at least once
  settled,    \* keys no consumer will be given again
  dead        \* keys with a dead-letter (news.quarantine) row

vars == <<sent, delivered, settled, dead>>

Init == sent = {} /\ delivered = {} /\ settled = {} /\ dead = {}

Send(k) ==
  /\ sent' = sent \cup {k}
  /\ UNCHANGED <<delivered, settled, dead>>

Deliver(k) ==
  /\ k \in sent \ settled
  /\ delivered' = delivered \cup {k}
  /\ UNCHANGED <<sent, settled, dead>>

Settle(k) ==
  /\ k \in delivered
  /\ settled' = settled \cup {k}
  /\ UNCHANGED <<sent, delivered, dead>>

(* A message can be dead-lettered after it was settled: the consumer's ack
   committed, its reply was lost, and the consumer reported a failure. *)
DeadLetter(k) ==
  /\ k \in delivered
  /\ settled' = settled \cup {k}
  /\ dead' = dead \cup {k}
  /\ UNCHANGED <<sent, delivered>>

Next == \E k \in Keys : Send(k) \/ Deliver(k) \/ Settle(k) \/ DeadLetter(k)

Spec == Init /\ [][Next]_vars
==============================================================================
