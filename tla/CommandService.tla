--------------------------- MODULE CommandService ---------------------------
(***************************************************************************)
(* What the operator of the robot is promised by the command and control   *)
(* server, one request at a time: a browser asks, the robot gives its      *)
(* verdict on a command, and the browser is told the one outcome that the  *)
(* request and the verdict call for.  There are no sockets, no counters    *)
(* and no threads here.                                                    *)
(***************************************************************************)
CONSTANTS
  Requests,   \* the HTTP requests the browsers may send
  Kinds,      \* the kinds of request the browsers send
  Verdicts    \* the answers the robot may give to a command

VARIABLES
  kind,       \* the kind of each request, "none" before it is asked
  verdict,    \* what the robot answered to each command
  out         \* what the browser was told, "none" before it is

vars == <<kind, verdict, out>>

Commands == {"drive", "sleep", "other", "telemetry"}

\* The outcome of a command that the robot has judged.
Told(k, v) ==
  IF v = "ack"
  THEN CASE k = "drive"     -> "Driving"
         [] k = "sleep"     -> "Sleeping"
         [] k = "other"     -> "Bad Command"
         [] k = "telemetry" -> "Telemetry"
  ELSE IF k = "telemetry" THEN "Bad Telemetry Packet" ELSE "Bad Command Packet"

\* The outcomes a request may have.  The connection of a command is reset only
\* if the robot never saw the command.
Outcomes(k, v) ==
  CASE k = "index"     -> {"Index"}
    [] k = "connect"   -> {"Command", "Index"}
    [] k = "malformed" -> {"500"}
    [] k \in Commands  -> IF v = "none" THEN {"reset"} ELSE {Told(k, v)}

Pending(r) == kind[r] # "none" /\ out[r] = "none"

Ask(r) ==
  /\ kind[r] = "none"
  /\ \A q \in Requests : ~Pending(q)
  /\ \E k \in Kinds : kind' = [kind EXCEPT ![r] = k]
  /\ UNCHANGED <<verdict, out>>

Decide(r) ==
  /\ Pending(r) /\ kind[r] \in Commands /\ verdict[r] = "none"
  /\ \E v \in Verdicts : verdict' = [verdict EXCEPT ![r] = v]
  /\ UNCHANGED <<kind, out>>

Tell(r) ==
  /\ Pending(r)
  /\ \E o \in Outcomes(kind[r], verdict[r]) : out' = [out EXCEPT ![r] = o]
  /\ UNCHANGED <<kind, verdict>>

Init ==
  /\ kind    = [r \in Requests |-> "none"]
  /\ verdict = [r \in Requests |-> "none"]
  /\ out     = [r \in Requests |-> "none"]

Next == \E r \in Requests : Ask(r) \/ Decide(r) \/ Tell(r)

Spec == Init /\ [][Next]_vars
=============================================================================
