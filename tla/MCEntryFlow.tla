----------------------------- MODULE MCEntryFlow -----------------------------
(* Every intent asks for two shares, so that an order can fill in part. *)
EXTENDS EntryFlow

MCQty == [i \in Intents |-> 2]
==============================================================================
