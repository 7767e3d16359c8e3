------------------------------ MODULE AuditLog ------------------------------
(***************************************************************************)
(* What the edge promises of its audit events, whatever carries them: the  *)
(* contract of telemetry/store.py and telemetry/sender.py together, which  *)
(* TelemetrySender is shown to implement, and TelemetryReplicas as long as *)
(* no pod rotates the file away from under another.                        *)
(*                                                                         *)
(* Events are numbered in the order of their decisions.  An event that has *)
(* been accepted waits in the log until it is settled, that is, the gateway*)
(* has it, has refused it, or it went with a log set aside as corrupt; only*)
(* then may it leave; and a younger event is settled only with every older *)
(* one.  Nothing is settled and then forgotten, or comes back.             *)
(***************************************************************************)
EXTENDS Integers

CONSTANT Event      \* the audit events: numbers, in the order of the decisions

VARIABLES
    queued,     \* the events in the log
    settled     \* the events settled so far

logVars == <<queued, settled>>

Known == queued \cup settled

Init == queued = {} /\ settled = {}

(* A decision's event joins the log, the youngest of those known.          *)
Accept(e) ==
    /\ \A d \in Known : d < e
    /\ queued' = queued \cup {e}
    /\ UNCHANGED settled

(* The gateway answers for the events in E, or ingests them unheard.       *)
Settle(E) ==
    /\ \A d \in E, e \in Known : e < d => e \in E \cup settled
    /\ settled' = settled \cup E
    /\ UNCHANGED queued

(* Events that are settled leave the log.                                  *)
Leave(E) ==
    /\ queued' = queued \ E
    /\ UNCHANGED settled

(* The log is corrupt and another takes its place.                         *)
SetAside ==
    /\ settled' = settled \cup queued
    /\ queued' = {}

Next ==
    \/ \E e \in Event : Accept(e)
    \/ \E E \in SUBSET Known : Settle(E)
    \/ \E E \in SUBSET (queued \cap settled) : Leave(E)
    \/ SetAside

Spec == Init /\ [][Next]_logVars
=============================================================================
