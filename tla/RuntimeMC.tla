------------------------------ MODULE RuntimeMC ------------------------------
(* Instances of Runtime for TLC: the recorder, an asynchronous subscriber  *)
(* of the runtime's events and the services' first one, so that the second *)
(* may overtake it, and a synchronous subscriber of services' events only. *)
EXTENDS Runtime

CONSTANTS recorder, slow, quick

MCCallers == {Starter} \union Stoppers
MCCalls == {<<Starter, "started">>} \union (Stoppers \X {"stopping", "stopped"})
MCWants == [s \in Subs |-> CASE s = recorder -> Events
                             [] s = slow -> Calls \union {<<NoOne, 1>>}
                             [] s = quick -> Notes]
=============================================================================
