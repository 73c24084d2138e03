--------------------------- MODULE ApprovalBrokerMC ---------------------------
(* Instances of ApprovalBroker for TLC. *)
EXTENDS ApprovalBroker

(* Every call has the id its server gave it, one of its own ...            *)
UniqueIds == [c \in Calls |-> c]

(* ... or the server gives none and the calls of each response are         *)
(* numbered from call_1 on (ollama.py): the only call of each response has *)
(* the same id.                                                            *)
SameId == [c \in Calls |-> CHOOSE i \in Ids : TRUE]

=============================================================================
