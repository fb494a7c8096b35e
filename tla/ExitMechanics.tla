---------------------------- MODULE ExitMechanics ----------------------------
(***************************************************************************)
(* One long position from its first exit decision to its end: the engine     *)
(* task running execute_exit (c4_exec/mechanics.py), the reconciliation task *)
(* for the same row (c4_exec/reconcile.py), and the broker under both, with  *)
(* its resting catastrophe stop and the marketable exit orders.              *)
(*                                                                           *)
(* The tasks share one event loop and interleave at every await: each broker *)
(* call and each transaction is an action.  The engine works from a copy of  *)
(* the row taken at the start of its pass.  Why it wants to exit (engine.py, *)
(* exits.py) is left open: any pass may scale out or exit in full.           *)
(***************************************************************************)
EXTENDS Integers, FiniteSets

CONSTANTS
  Shares,     \* quantity of the position
  MaxPasses,  \* bound: exits attempted
  MaxFaults   \* bound: calls that raise, process deaths

ASSUME ExitAssumption ==
  Shares \in Nat \ {0} /\ MaxPasses \in Nat /\ MaxFaults \in Nat

Passes == 1 .. MaxPasses
Stops == 0 .. MaxPasses   \* stop 0 comes from the entry, stop p from pass p
NoStop == -1              \* no link: the entry's stop failed, or an adopted row

VARIABLES
  \* the journal
  row,      \* the position: status and qty_open
  link,     \* catastrophe_stop_order_id
  \* the broker
  stop,     \* [Stops -> order]
  exit,     \* [Passes -> order]
  held,     \* signed position
  \* the engine task: place, pass number, copied quantity, quantity to sell,
  \* the stop it found, the quantity it wants protected
  pc, passes, pos, want, cat, cover,
  \* the reconciliation task
  rpc, rHeld, rLocal,
  \* history
  booked,   \* times the fill of a stop was booked, per stop
  anomalies,\* what happened that the sequence does not provide for
  faults

journal == <<row, link>>
broker == <<stop, exit, held>>
engine == <<pc, passes, pos, want, cat, cover>>
recon == <<rpc, rHeld, rLocal>>
history == <<booked, anomalies, faults>>
vars == <<journal, broker, engine, recon, history>>

NoOrder == [status |-> "none", qty |-> 0, filled |-> 0]
Orders == [status : {"none", "accepted", "filled", "canceled"}, qty : Nat, filled : Nat]
Rows == [status : {"OPEN", "CLOSED"}, qty : Int]
Places == {"idle", "lookup", "cancel", "confirm", "bookStop", "submit", "poll",
           "book", "final", "protect", "link"}
Anomalies == {"interrupted", "blind", "partial", "raced", "overlap"}

TypeOK ==
  /\ row \in Rows /\ link \in Stops \cup {NoStop}
  /\ stop \in [Stops -> Orders] /\ exit \in [Passes -> Orders] /\ held \in Int
  /\ pc \in Places /\ passes \in 0 .. MaxPasses
  /\ pos \in Int /\ want \in Int /\ cover \in Int /\ cat \in Stops \cup {NoStop}
  /\ rpc \in {"idle", "local", "commit"} /\ rHeld \in Int /\ rLocal \in Rows
  /\ booked \in [Stops -> Nat] /\ anomalies \subseteq Anomalies
  /\ faults \in 0 .. MaxFaults

Live(o) == o.status = "accepted"
Resting(n) == [status |-> "accepted", qty |-> n, filled |-> 0]
Cancelled(o) == IF Live(o) THEN [o EXCEPT !.status = "canceled"] ELSE o
NoRow == [status |-> "CLOSED", qty |-> 0]

Init ==
  /\ row = [status |-> "OPEN", qty |-> Shares]
  /\ link \in {0, NoStop}
  /\ stop = [s \in Stops |-> IF s = link THEN Resting(Shares) ELSE NoOrder]
  /\ exit = [p \in Passes |-> NoOrder]
  /\ held = Shares
  /\ pc = "idle" /\ passes = 0 /\ pos = 0 /\ want = 0 /\ cat = NoStop /\ cover = 0
  /\ rpc = "idle" /\ rHeld = 0 /\ rLocal = NoRow
  /\ booked = [s \in Stops |-> 0] /\ anomalies = {} /\ faults = 0

-----------------------------------------------------------------------------
(* The engine task: execute_exit *)

Goto(place) == pc' = place /\ UNCHANGED <<passes, pos, want, cat, cover>>

Return == /\ pc' = "idle" /\ pos' = 0 /\ want' = 0 /\ cat' = NoStop /\ cover' = 0
          /\ UNCHANGED passes

(* The stop goes back for n shares, if the position had one. *)
Protect(n) ==
  IF cat # NoStop /\ n > 0
    THEN pc' = "protect" /\ cover' = n /\ UNCHANGED <<passes, pos, want, cat>>
    ELSE Return

(* open_positions, then a decision: everything, or a part of several shares. *)
Begin ==
  /\ pc = "idle" /\ passes < MaxPasses /\ row.status = "OPEN"
  /\ pc' = "lookup" /\ passes' = passes + 1 /\ pos' = row.qty
  /\ \E n \in 1 .. row.qty : want' = n
  /\ UNCHANGED <<journal, broker, cat, cover, recon, history>>

Lookup ==
  /\ pc = "lookup"
  /\ cat' = link
  /\ pc' = IF link = NoStop THEN "submit" ELSE "cancel"
  /\ UNCHANGED <<journal, broker, passes, pos, want, cover, recon, history>>

(* A mutant: the exit is submitted next to the resting stop. *)
KeepStop ==
  /\ pc = "cancel"
  /\ Goto(IF Live(stop[cat]) THEN "submit" ELSE "confirm")
  /\ UNCHANGED <<journal, broker, recon, history>>

(* cancel answers True only if there was something to cancel. *)
CancelStop ==
  /\ pc = "cancel"
  /\ stop' = [stop EXCEPT ![cat] = Cancelled(@)]
  /\ Goto(IF Live(stop[cat]) THEN "submit" ELSE "confirm")
  /\ UNCHANGED <<journal, exit, held, recon, history>>

ConfirmStop ==
  /\ pc = "confirm"
  /\ Goto(IF stop[cat].status = "filled" THEN "bookStop" ELSE "submit")
  /\ UNCHANGED <<journal, broker, recon, history>>

(* The reading raises: the engine goes on with the exit, blind. *)
ConfirmRaises ==
  /\ pc = "confirm" /\ faults < MaxFaults
  /\ faults' = faults + 1
  /\ anomalies' = IF stop[cat].status = "filled" THEN anomalies \cup {"blind"} ELSE anomalies
  /\ Goto("submit")
  /\ UNCHANGED <<journal, broker, recon, booked>>

(* record_exit: no look at the status or at what is left. *)
Booked(n) ==
  row' = [qty |-> row.qty - n, status |-> IF row.qty - n <= 0 THEN "CLOSED" ELSE row.status]

BookStop ==
  /\ pc = "bookStop"
  /\ Booked(stop[cat].filled)
  /\ booked' = [booked EXCEPT ![cat] = @ + 1]
  /\ Return
  /\ UNCHANGED <<link, broker, recon, anomalies, faults>>

(* submit_limit under a fresh id, and the order row; a refusal puts the stop
   back first. *)
SubmitExit ==
  /\ pc = "submit"
  /\ \/ /\ exit' = [exit EXCEPT ![passes] = Resting(want)]
        /\ Goto("poll")
     \/ Protect(pos) /\ UNCHANGED exit
  /\ UNCHANGED <<journal, stop, held, recon, history>>

(* The loop polls for "filled" until exit_unprotected_max_secs are over. *)
PollFilled ==
  /\ pc = "poll" /\ exit[passes].status = "filled"
  /\ Goto("book")
  /\ UNCHANGED <<journal, broker, recon, history>>

(* A mutant: the copied quantity is protected, not what the exit left. *)
BookExitKeepCover ==
  /\ pc = "book"
  /\ Booked(exit[passes].filled)
  /\ IF pos > exit[passes].filled THEN Protect(pos) ELSE Return
  /\ UNCHANGED <<link, broker, recon, history>>

(* Booked; what remains is protected again. *)
BookExit ==
  /\ pc = "book"
  /\ Booked(exit[passes].filled)
  /\ Protect(pos - exit[passes].filled)
  /\ UNCHANGED <<link, broker, recon, history>>

(* The window closes on an order last seen unfilled: cancel it ... *)
Expire ==
  /\ pc = "poll"
  /\ exit' = [exit EXCEPT ![passes] = Cancelled(@)]
  /\ Goto("final")
  /\ UNCHANGED <<journal, stop, held, recon, history>>

(* ... and read it once more.  Filled after all: booked, and nothing else, also
   after a scale-out.  Otherwise the stop is put back for the copied quantity,
   also when a part was sold. *)
Final ==
  LET o == exit[passes]
  IN /\ pc = "final"
     /\ IF o.status = "filled"
          THEN /\ Booked(o.filled)
               /\ anomalies' = IF pos > o.filled THEN anomalies \cup {"raced"} ELSE anomalies
               /\ Return
          ELSE /\ anomalies' = IF o.filled > 0 THEN anomalies \cup {"partial"} ELSE anomalies
               /\ Protect(pos)
               /\ UNCHANGED row
     /\ UNCHANGED <<link, broker, recon, booked, faults>>

(* _place_catastrophe: the stop, then its order row and the link. *)
PlaceStop ==
  /\ pc = "protect"
  /\ stop' = [stop EXCEPT ![passes] = Resting(cover)]
  /\ Goto("link")
  /\ UNCHANGED <<journal, exit, held, recon, history>>

LinkStop ==
  /\ pc = "link"
  /\ link' = passes
  /\ Return
  /\ UNCHANGED <<row, broker, recon, history>>

(* A call raises or the process dies: a call that took effect first is its effect
   followed by this step.  Before the cancellation that leaves everything as it
   was; after it nobody finishes the sequence. *)
Interrupt ==
  /\ pc # "idle" /\ faults < MaxFaults
  /\ faults' = faults + 1
  /\ anomalies' = IF pc \in {"lookup", "cancel"} THEN anomalies
                                                 ELSE anomalies \cup {"interrupted"}
  /\ Return
  /\ UNCHANGED <<journal, broker, recon, booked>>

-----------------------------------------------------------------------------
(* The reconciliation task *)

FetchBroker ==
  /\ rpc = "idle"
  /\ rHeld' = held /\ rpc' = "local"
  /\ UNCHANGED <<journal, broker, engine, rLocal, history>>

ReadLocal ==
  /\ rpc = "local"
  /\ rLocal' = row /\ rpc' = "commit"
  /\ UNCHANGED <<journal, broker, engine, rHeld, history>>

StopFilled == rHeld = 0 /\ link # NoStop /\ stop[link].status = "filled"

(* A mutant: a position missing at the broker is only reported. *)
ReconcileQuantityOnly ==
  row' = IF rHeld > 0 /\ rLocal.qty # rHeld THEN [row EXCEPT !.qty = rHeld] ELSE row

Reconcile ==
  IF rHeld > 0 THEN row' = IF rLocal.qty # rHeld THEN [row EXCEPT !.qty = rHeld] ELSE row
  ELSE IF StopFilled THEN Booked(stop[link].filled)
  ELSE row' = [status |-> "CLOSED", qty |-> 0]

(* The pass acts on a row it read as OPEN, whatever became of it since. *)
Commit ==
  /\ rpc = "commit"
  /\ IF rLocal.status = "OPEN"
       THEN /\ Reconcile
            /\ booked' = IF StopFilled THEN [booked EXCEPT ![link] = @ + 1] ELSE booked
            /\ anomalies' = IF row' # row /\ (rHeld # held \/ rLocal # row \/ pc # "idle")
                              THEN anomalies \cup {"overlap"} ELSE anomalies
       ELSE UNCHANGED <<row, booked, anomalies>>
  /\ rpc' = "idle" /\ rHeld' = 0 /\ rLocal' = NoRow
  /\ UNCHANGED <<link, broker, engine, faults>>

-----------------------------------------------------------------------------
(* The broker: a stop fills at once, an exit order share by share. *)

TriggerStop(s) ==
  /\ Live(stop[s])
  /\ stop' = [stop EXCEPT ![s] = [@ EXCEPT !.status = "filled", !.filled = stop[s].qty]]
  /\ held' = held - stop[s].qty
  /\ UNCHANGED <<journal, exit, engine, recon, history>>

FillExit(p) ==
  /\ Live(exit[p])
  /\ exit' = [exit EXCEPT ![p].filled = @ + 1,
                          ![p].status = IF exit[p].filled + 1 = exit[p].qty THEN "filled" ELSE @]
  /\ held' = held - 1
  /\ UNCHANGED <<journal, stop, engine, recon, history>>

-----------------------------------------------------------------------------
Engine == \/ Begin \/ Lookup \/ CancelStop \/ ConfirmStop \/ ConfirmRaises \/ BookStop
          \/ SubmitExit \/ PollFilled \/ BookExit \/ Expire \/ Final
          \/ PlaceStop \/ LinkStop

Reconciliation == FetchBroker \/ ReadLocal \/ Commit

Next == \/ Engine \/ Interrupt
        \/ Reconciliation
        \/ \E s \in Stops : TriggerStop(s)
        \/ \E p \in Passes : FillExit(p)

Spec == Init /\ [][Next]_vars

(* Reconciliation runs every reconcile_interval_min, forever. *)
FairSpec == Spec /\ WF_vars(Reconciliation)

-----------------------------------------------------------------------------
(* Properties.  Each names the anomalies it makes allowance for: outside them
   the sequence of execute_exit is right under every interleaving. *)

(* Stop and exit order never sell the same shares twice. *)
NotOversold == anomalies = {} => held >= 0

(* Between two passes an open position that had a stop has one for exactly
   its quantity, or one that has filled and waits to be booked. *)
ProtectedAtRest ==
  anomalies = {} /\ pc = "idle" /\ row.status = "OPEN" /\ link # NoStop =>
    stop[link].status \in {"accepted", "filled"} /\ stop[link].qty = row.qty

(* Between two passes the books show what the broker holds, except for a stop
   that has filled and waits to be booked. *)
BooksAgreeAtRest ==
  anomalies = {} /\ pc = "idle" =>
    row.qty = held \/ (link # NoStop /\ stop[link].status = "filled" /\ booked[link] = 0)

(* Engine and reconciliation both book the fill of a stop; unless the two
   overlap, it is booked once. *)
StopBookedOnce == "overlap" \notin anomalies => \A s \in Stops : booked[s] <= 1

(* Whatever was lost, raced or interrupted, a position that is gone at the broker
   for good is closed in the books for good. *)
GoneIsClosed == <>[](held <= 0) => <>[](row.status = "CLOSED")

(* "never knowingly unprotected ... if SCALE_OUT, re-place the catastrophe for
   the remaining shares" (mechanics.py): as long as no call raises and no process
   dies, an open position is protected between two passes. *)
ScaleOutReplacesStop ==
  faults = 0 /\ pc = "idle" /\ row.status = "OPEN" /\ link # NoStop =>
    stop[link].status \in {"accepted", "filled"}
===============================================================================
