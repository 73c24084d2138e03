------------------------------ MODULE AgentRunMC ------------------------------
(* Instances of AgentRun for TLC. *)
EXTENDS AgentRun

(* One kind of call for each thing the policy can say.                     *)
MCPolicy == [k \in Kinds |-> CASE k = "read" -> "allow"
                               [] k = "shell" -> "ask"
                               [] k = "unknown" -> "refuse"
                               [] k = "bad" -> "malformed"]
=============================================================================
