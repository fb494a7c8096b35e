------------------------------- MODULE Alerts -------------------------------
(***************************************************************************)
(* The watchdog (c7_watchdog/service.py) and the mailer (c5_mailer/         *)
(* service.py): two timers of five minutes that meet in journal.outbox.     *)
(*                                                                          *)
(* A watchdog pass probes the units, compares what it finds with the        *)
(* fingerprint of the last alert, and writes its decision as up to six      *)
(* statements, each a transaction; a pass may die between any two.  A       *)
(* fingerprint is the set of findings.  A mailer pass sends the QUEUED rows *)
(* it read at its start, oldest first, and marks each.  Health rows, which  *)
(* nothing here reads back, and texts are left out.                         *)
(***************************************************************************)
EXTENDS Integers, FiniteSets, Sequences, SequencesExt

CONSTANTS
  Probes,          \* what a look at the units can give: see Codes
  ConfirmPasses,   \* warn_confirm_passes
  Realert,         \* realert_hours, in passes
  MailAttempts,    \* MAX_ATTEMPTS
  MaxPasses, MaxStops

VARIABLES
  flag,            \* journal.control: fp, sev, pendingFp, pendingN
  since,           \* passes since the time stamp of the last alert
  watchdog,        \* the pass: what it found and still has to write
  outbox,          \* journal.outbox: [about, status, attempts, copies]
  mailer,          \* the pass: rows it read and has not dealt with
  passes,
  stops,           \* passes that died, or found no mail server
  found,           \* history: findings of the last complete pass
  torn             \* history: an alert was queued and its fingerprint not written

alertVars == <<flag, since, watchdog, outbox, mailer, passes, stops, found, torn>>
mailVars  == <<outbox, mailer>>

AlertsInit ==
  /\ flag = [fp |-> {}, sev |-> "", pendingFp |-> {}, pendingN |-> 0]
  /\ since = Realert + 1
  /\ watchdog = [phase |-> "none"]
  /\ outbox = <<>> /\ mailer = [phase |-> "none"]
  /\ passes = 0 /\ stops = 0 /\ found = {} /\ torn = FALSE

(***************************************************************************)
(* Findings.                                                               *)
(***************************************************************************)
(* evaluate: a unit that is gone is not judged further, and one that is     *)
(* starting or stopping is left to the next pass; its heartbeat is judged   *)
(* in any case.                                                             *)
Codes(u) ==
  (IF ~u.loaded THEN {"UNIT_NOT_FOUND"}
   ELSE IF u.state = "starting" THEN {}
   ELSE (IF u.state = "failed" THEN {"DOWN"} ELSE {}) \union (IF u.enabled THEN {} ELSE {"NOT_ENABLED"}))
  \union (IF u.fresh THEN {} ELSE {"HEARTBEAT_STALE"})

Evaluate(probe) == UNION {{[code |-> c, unit |-> n] : c \in Codes(probe[n])} : n \in DOMAIN probe}

HasCritical(findings) == \E f \in findings : f.code \in {"DOWN", "HEARTBEAT_STALE"}

Severity(findings) == IF HasCritical(findings) THEN "CRITICAL" ELSE "WARNING"

(***************************************************************************)
(* Decision.                                                               *)
(***************************************************************************)
Pending(fp, n) == [fp |-> fp, n |-> n]

Confirmed(findings) ==
  IF flag.pendingFp = findings /\ findings # {} THEN flag.pendingN + 1 ELSE 1

(* A mutant: every new set is damped, one with a critical finding, too. *)
DampedAll(findings) ==
  IF findings # {} /\ findings # flag.fp
  THEN IF Confirmed(findings) >= ConfirmPasses
       THEN [mode |-> "NEW", pending |-> Pending({}, 0)]
       ELSE [mode |-> "none", pending |-> Pending(findings, Confirmed(findings))]
  ELSE [mode |-> IF findings # {} THEN (IF since >= Realert THEN "REPEAT" ELSE "none")
                 ELSE IF flag.fp = {} THEN "none" ELSE IF flag.sev = "CRITICAL" THEN "RECOVERED" ELSE "CLEARED",
        pending |-> Pending({}, 0)]

(* should_alert_damped *)
Damped(findings) ==
  IF findings # {} /\ findings # flag.fp
  THEN IF HasCritical(findings) \/ Confirmed(findings) >= ConfirmPasses
       THEN [mode |-> "NEW", pending |-> Pending({}, 0)]
       ELSE [mode |-> "none", pending |-> Pending(findings, Confirmed(findings))]
  ELSE [mode |-> IF findings # {} THEN (IF since >= Realert THEN "REPEAT" ELSE "none")
                 ELSE IF flag.fp = {} THEN "none" ELSE IF flag.sev = "CRITICAL" THEN "RECOVERED" ELSE "CLEARED",
        pending |-> Pending({}, 0)]

(* The statements of a pass, in order. *)
Writes(findings, verdict) ==
  (IF verdict.pending = Pending(flag.pendingFp, flag.pendingN) THEN <<>>
   ELSE << <<"pendingFp", verdict.pending.fp>>, <<"pendingN", verdict.pending.n>> >>)
  \o (CASE verdict.mode = "none"    -> <<>>
        [] verdict.mode = "CLEARED" -> << <<"fp", {}>>, <<"sev", "">> >>
        [] OTHER -> << <<"alert", findings>>, <<"fp", findings>>, <<"ts", 0>>,
                       <<"sev", IF verdict.mode = "RECOVERED" THEN "" ELSE Severity(findings)>> >>)

Look ==
  /\ watchdog.phase = "none" /\ passes < MaxPasses
  /\ passes' = passes + 1
  /\ \E probe \in Probes :
       watchdog' = [phase |-> "write", findings |-> Evaluate(probe), todo |-> Writes(Evaluate(probe), Damped(Evaluate(probe)))]
  /\ UNCHANGED <<flag, since, mailVars, stops, found, torn>>

Write ==
  /\ watchdog.phase = "write" /\ watchdog.todo # <<>>
  /\ watchdog' = [watchdog EXCEPT !.todo = Tail(@)]
  /\ LET key == Head(watchdog.todo)[1]
         value == Head(watchdog.todo)[2]
     IN  /\ flag' = IF key \in DOMAIN flag THEN [flag EXCEPT ![key] = value] ELSE flag
         /\ since' = IF key = "ts" THEN 0 ELSE since
         /\ outbox' = IF key = "alert"
                      THEN Append(outbox, [about |-> value, status |-> "QUEUED", attempts |-> 0, copies |-> 0])
                      ELSE outbox
         /\ torn' = IF key = "fp" THEN FALSE ELSE torn
  /\ UNCHANGED <<mailer, passes, stops, found>>

(* Five minutes go by. *)
Done ==
  /\ watchdog.phase = "write" /\ watchdog.todo = <<>>
  /\ found' = watchdog.findings
  /\ watchdog' = [phase |-> "none"]
  /\ since' = IF since <= Realert THEN since + 1 ELSE since
  /\ UNCHANGED <<flag, mailVars, passes, stops, torn>>

WatchdogDies ==
  /\ watchdog.phase = "write" /\ stops < MaxStops
  /\ stops' = stops + 1
  /\ torn' = (torn \/ (Len(watchdog.todo) = 3 /\ watchdog.todo[1][1] = "fp"))
  /\ found' = {}
  /\ watchdog' = [phase |-> "none"]
  /\ since' = IF since <= Realert THEN since + 1 ELSE since
  /\ UNCHANGED <<flag, mailVars, passes>>

(***************************************************************************)
(* The mailer.                                                             *)
(***************************************************************************)
QueuedRows == SelectSeq([i \in DOMAIN outbox |-> i], LAMBDA i : outbox[i].status = "QUEUED")

MailPass ==
  /\ mailer.phase = "none" /\ QueuedRows # <<>>
  /\ mailer' = [phase |-> "send", todo |-> QueuedRows]
  /\ UNCHANGED <<flag, since, watchdog, outbox, passes, stops, found, torn>>

Row == Head(mailer.todo)

SendSucceeds ==
  /\ mailer.phase = "send" /\ mailer.todo # <<>>
  /\ outbox' = [outbox EXCEPT ![Row].copies = @ + 1]
  /\ mailer' = [mailer EXCEPT !.phase = "mark"]
  /\ UNCHANGED <<flag, since, watchdog, passes, stops, found, torn>>

MarkSent ==
  /\ mailer.phase = "mark"
  /\ outbox' = [outbox EXCEPT ![Row] = [@ EXCEPT !.status = "SENT", !.attempts = outbox[Row].attempts + 1]]
  /\ mailer' = [phase |-> "send", todo |-> Tail(mailer.todo)]
  /\ UNCHANGED <<flag, since, watchdog, passes, stops, found, torn>>

(* A mutant: a failure is written down without being counted. *)
SendFailsUncounted ==
  /\ mailer.phase = "send" /\ mailer.todo # <<>>
  /\ \E late \in {0, 1} :
       outbox' = [outbox EXCEPT ![Row] = [@ EXCEPT !.copies = outbox[Row].copies + late,
                    !.status = IF outbox[Row].attempts + 1 >= MailAttempts THEN "FAILED" ELSE "QUEUED"]]
  /\ mailer' = [mailer EXCEPT !.todo = Tail(@)]
  /\ UNCHANGED <<flag, since, watchdog, passes, stops, found, torn>>

(* An attempt that raised is counted, and the next row has its turn.  The   *)
(* transport may raise after the server took the mail (a time-out of the    *)
(* answer to DATA, an error of QUIT): then a copy is delivered all the same *)
(* (late), and a row put back is mailed again.                              *)
SendFails ==
  /\ mailer.phase = "send" /\ mailer.todo # <<>>
  /\ \E late \in {0, 1} :
       LET tried == outbox[Row].attempts + 1
       IN  outbox' = [outbox EXCEPT ![Row] = [@ EXCEPT !.attempts = tried, !.copies = outbox[Row].copies + late,
                        !.status = IF tried >= MailAttempts THEN "FAILED" ELSE "QUEUED"]]
  /\ mailer' = [mailer EXCEPT !.todo = Tail(@)]
  /\ UNCHANGED <<flag, since, watchdog, passes, stops, found, torn>>

MailDone ==
  /\ mailer.phase = "send" /\ mailer.todo = <<>>
  /\ mailer' = [phase |-> "none"]
  /\ UNCHANGED <<flag, since, watchdog, outbox, passes, stops, found, torn>>

(* It dies, perhaps with a row sent and not marked. *)
MailerDies ==
  /\ mailer.phase # "none" /\ stops < MaxStops
  /\ stops' = stops + 1
  /\ mailer' = [phase |-> "none"]
  /\ UNCHANGED <<flag, since, watchdog, outbox, passes, found, torn>>

Mailing == MailPass \/ SendSucceeds \/ MarkSent \/ SendFails \/ MailDone

AlertsNext == Look \/ Write \/ Done \/ WatchdogDies \/ Mailing \/ MailerDies

AlertsSpec == AlertsInit /\ [][AlertsNext]_alertVars /\ WF_alertVars(Mailing)

(***************************************************************************)
(* Properties.                                                             *)
(***************************************************************************)

(* After every complete pass that found something critical, the newest alert *)
(* is about what it found, though findings come and go between passes and    *)
(* warnings are damped; when a pass died between an alert and its            *)
(* fingerprint, this holds again at the next repetition.                     *)
CriticalIsTold ==
  watchdog.phase = "none" /\ HasCritical(found)
    => (outbox # <<>> /\ Last(outbox).about = found) \/ (torn /\ since <= Realert)

(* Every row is sent or given up, whatever fails and dies, and at no time   *)
(* are there more copies of it than attempts written down, passes that      *)
(* died and the attempt in hand: no copy is made that nothing accounts for. *)
(* It is no promise of a single copy: an attempt that raised late is made   *)
(* again.                                                                   *)
EveryMailSettles ==
  /\ \A i \in 1 .. MaxPasses : i \in DOMAIN outbox ~> i \in DOMAIN outbox /\ outbox[i].status \in {"SENT", "FAILED"}
  /\ [](\A i \in DOMAIN outbox :
          outbox[i].copies <= outbox[i].attempts + stops + (IF mailer.phase = "mark" /\ i = Row THEN 1 ELSE 0))

(* "send QUEUED rows oldest-first" (c5_mailer/service.py:78): nothing older *)
(* is waiting when a row goes out.                                          *)
MailsInOrder ==
  [][\A i, j \in DOMAIN outbox : i < j /\ outbox'[j].copies > outbox[j].copies => outbox[i].status # "QUEUED"]_alertVars
=============================================================================
