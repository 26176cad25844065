----------------------------- MODULE CommandService -----------------------------
(***************************************************************************)
(* What the target promises an initiator about its commands, whatever the  *)
(* handlers, the window, the R2Ts and the Data-Outs do: a command that was *)
(* issued is given to the device at most once, a write with the data of    *)
(* that write, and is answered at most once and after that.  Commands may  *)
(* overtake each other.  ScsiTransfers implements this.                    *)
(***************************************************************************)
EXTENDS Naturals, FiniteSets

CONSTANT Tasks   \* commands

VARIABLES
  writes,    \* the commands the device must find the data of
  issued,    \* commands the initiator has sent
  device,    \* task -> how often the device was given the command
  found,     \* task -> the tasks whose data the device found with it
  answers    \* task -> answers the initiator has read

vars == <<writes, issued, device, found, answers>>

Init ==
  /\ writes \subseteq Tasks
  /\ issued = {}
  /\ device = [t \in Tasks |-> 0]
  /\ found = [t \in Tasks |-> {}]
  /\ answers = [t \in Tasks |-> 0]

Issue(t) ==
  /\ t \notin issued
  /\ issued' = issued \cup {t}
  /\ UNCHANGED <<writes, device, found, answers>>

Execute(t) ==
  /\ t \in issued /\ device[t] = 0
  /\ device' = [device EXCEPT ![t] = 1]
  /\ \A u \in Tasks \ {t} : found'[u] = found[u]
  /\ t \in writes => found'[t] = {t}
  /\ UNCHANGED <<writes, issued, answers>>

Answer(t) ==
  /\ device[t] = 1 /\ answers[t] = 0
  /\ answers' = [answers EXCEPT ![t] = 1]
  /\ UNCHANGED <<writes, issued, device, found>>

Next == \E t \in Tasks : Issue(t) \/ Execute(t) \/ Answer(t)

Spec == Init /\ [][Next]_vars

===============================================================================
