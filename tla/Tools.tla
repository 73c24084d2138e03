--------------------------------- MODULE Tools ---------------------------------
(***************************************************************************)
(* The tool pipeline: tools/service.py with the registry, the policy and   *)
(* its hooks, and the tools that leave something behind: filesystem.write, *)
(* shell.execute and, for what a reader may see, filesystem.read.          *)
(*                                                                         *)
(* Requests come from several threads of one process; the person who       *)
(* approves, the files and the started commands are outside.  What the     *)
(* hooks look at (paths, names and values that look like credentials, the  *)
(* class of a command) is one bit of a request: a hook refuses it or not.  *)
(* A network request is a read here.                                       *)
(***************************************************************************)
EXTENDS Integers, Sequences, SequencesExt

CONSTANTS ToolRequests, \* requests of the instance
          Workloads,    \* what they may be: see ToolRequest
          Modes         \* security.mode

Risk == [read |-> "low", write |-> "medium", shell |-> "high", list |-> "safe",
         format |-> "critical"]
ToolKinds == DOMAIN Risk

ToolRequest == [tool : ToolKinds \cup {"unknown"}, wellFormed : BOOLEAN,
                refused : BOOLEAN, atomic : BOOLEAN]

ToolsAssumption ==
    /\ Workloads \subseteq [ToolRequests -> ToolRequest]
    /\ Modes \subseteq {"development", "standard", "lockdown"}

VARIABLES
    asks,               \* what each request is
    mode, allowLow,     \* SecurityPolicy
    provider,           \* ToolService.approval is set
    up,                 \* the service: registry and policy are there
    call,               \* each request: where its execute is, and how it ended
    audit,              \* the events published for it, oldest first
    file,               \* the file they all write: [of, whole]
    temps,              \* temporary files left beside it
    child               \* the command of each shell request

toolVars == <<asks, mode, allowLow, provider, up, call, audit, file, temps, child>>
world == <<file, temps, child>>
settings == <<asks, mode, allowLow, provider>>

ToolInit ==
    /\ asks \in Workloads
    /\ mode \in Modes /\ allowLow \in BOOLEAN /\ provider \in BOOLEAN
    /\ up = TRUE
    /\ call = [r \in ToolRequests |-> "new"]
    /\ audit = [r \in ToolRequests |-> <<>>]
    /\ file = [of |-> "before", whole |-> TRUE]
    /\ temps = {}
    /\ child = [r \in ToolRequests |-> "none"]

Says(r, events) == audit' = [audit EXCEPT ![r] = @ \o events]
WellFormed(r) == asks[r].wellFormed      \* the arguments match the schema
To(r, place) == call' = [call EXCEPT ![r] = place]
Risks(r) == Risk[asks[r].tool]

(* _risk_decision, tightened by the hooks: they only ever deny.            *)
RiskDecision(risk) ==
    CASE risk = "critical" -> "deny"
      [] risk # "critical" /\ mode = "lockdown" -> IF risk = "safe" THEN "allow" ELSE "deny"
      [] mode # "lockdown" /\ risk = "safe" -> "allow"
      [] mode # "lockdown" /\ risk = "low" -> IF allowLow THEN "allow" ELSE "ask"
      [] mode = "development" /\ risk = "medium" -> "allow"
      [] OTHER -> "ask"
Decision(r) == IF asks[r].refused THEN "deny" ELSE RiskDecision(Risks(r))

-----------------------------------------------------------------------------
(* The look-up and the arguments; a request for no tool is announced and   *)
(* failed in one go.                                                       *)
Receives(r) ==
    /\ call[r] = "new"
    /\ \/ ~up /\ To(r, "unavailable") /\ UNCHANGED audit
       \/ /\ up /\ asks[r].tool = "unknown"
          /\ Says(r, <<"requested", "failed">>) /\ To(r, "failed")
       \/ /\ up /\ asks[r].tool # "unknown" /\ ~WellFormed(r)
          /\ Says(r, <<"requested", "failed">>) /\ To(r, "failed")
       \/ /\ up /\ asks[r].tool # "unknown" /\ WellFormed(r)
          /\ Says(r, <<"requested">>) /\ To(r, "checked")
    /\ UNCHANGED <<settings, up, world>>

(* _enforce_policy; a shutdown since the look-up has taken the policy.     *)
Decides(r) ==
    /\ call[r] = "checked"
    /\ \/ ~up /\ To(r, "raised") /\ UNCHANGED audit
       \/ /\ up /\ Decision(r) = "allow"
          /\ Says(r, <<"allowed">>) /\ To(r, "allowed")
       \/ /\ up /\ Decision(r) = "deny"
          /\ Says(r, <<"denied">>) /\ To(r, "denied")
       \/ /\ up /\ Decision(r) = "ask" /\ ~provider
          /\ Says(r, <<"approvalRequested", "denied">>) /\ To(r, "denied")
       \/ /\ up /\ Decision(r) = "ask" /\ provider
          /\ Says(r, <<"approvalRequested">>) /\ To(r, "asking")
    /\ UNCHANGED <<settings, up, world>>

(* A mutant of Answers: a provider that raises counts as a yes.            *)
AnswersAnyway(r) ==
    /\ call[r] = "asking"
    /\ \/ Says(r, <<"approved", "allowed">>) /\ To(r, "allowed")
       \/ Says(r, <<"rejected", "denied">>) /\ To(r, "denied")
       \/ Says(r, <<"allowed">>) /\ To(r, "allowed")
    /\ UNCHANGED <<settings, up, world>>

(* The answer of the person, no answer, or a provider that raises.         *)
Answers(r) ==
    /\ call[r] = "asking"
    /\ \/ Says(r, <<"approved", "allowed">>) /\ To(r, "allowed")
       \/ Says(r, <<"rejected", "denied">>) /\ To(r, "denied")
       \/ To(r, "raised") /\ UNCHANGED audit
    /\ UNCHANGED <<settings, up, world>>

ToolBegins(r) ==
    /\ call[r] = "allowed"
    /\ Says(r, <<"started">>) /\ To(r, "running")
    /\ UNCHANGED <<settings, up, world>>

-----------------------------------------------------------------------------
(* What the tools do.  A result with success FALSE, a ToolExecutionError   *)
(* and any other exception are a failed result; ToolPermissionDenied is a  *)
(* denial.                                                                 *)
Returns(r, outcome) ==
    /\ To(r, outcome)
    /\ Says(r, <<outcome>>)

Refuses(r) ==
    /\ call[r] = "running" /\ child[r] = "none"
    /\ \E outcome \in {"failed", "denied"} : Returns(r, outcome)
    /\ UNCHANGED <<settings, up, world>>

Looks(r) ==
    /\ call[r] = "running" /\ asks[r].tool \in {"read", "list"}
    /\ Returns(r, "completed")
    /\ UNCHANGED <<settings, up, world>>

(* A mutant of WriteBegins: the target is opened for every write.          *)
WriteBeginsInPlace(r) ==
    /\ call[r] = "running" /\ asks[r].tool = "write" /\ r \notin temps
    /\ file # [of |-> r, whole |-> FALSE]
    /\ file' = [of |-> r, whole |-> FALSE]
    /\ temps' = IF asks[r].atomic THEN temps \cup {r} ELSE temps
    /\ UNCHANGED <<settings, up, call, audit, child>>

(* filesystem.write: into a temporary file that replaces the target, or    *)
(* over the target itself.                                                 *)
WriteBegins(r) ==
    /\ call[r] = "running" /\ asks[r].tool = "write" /\ r \notin temps
    /\ file # [of |-> r, whole |-> FALSE]
    /\ IF asks[r].atomic
       THEN temps' = temps \cup {r} /\ UNCHANGED file
       ELSE file' = [of |-> r, whole |-> FALSE] /\ UNCHANGED temps
    /\ UNCHANGED <<settings, up, call, audit, child>>

WriteEnds(r) ==
    /\ call[r] = "running"
    /\ r \in temps \/ file = [of |-> r, whole |-> FALSE]
    /\ \/ /\ file' = [of |-> r, whole |-> TRUE]
          /\ temps' = temps \ {r}
          /\ Returns(r, "completed")
       \/ Returns(r, "failed") /\ UNCHANGED <<file, temps>>   \* OSError
    /\ UNCHANGED <<settings, up, child>>

(* _run_limited: the command ends by itself or is killed at the timeout.   *)
Spawns(r) ==
    /\ call[r] = "running" /\ asks[r].tool = "shell" /\ child[r] = "none"
    /\ child' = [child EXCEPT ![r] = "running"]
    /\ UNCHANGED <<settings, up, call, audit, file, temps>>

ChildEnds(r) ==
    /\ child[r] = "running"
    /\ \E code \in {"zero", "other"} : child' = [child EXCEPT ![r] = code]
    /\ UNCHANGED <<settings, up, call, audit, file, temps>>

ChildTimesOut(r) ==
    /\ call[r] = "running" /\ child[r] = "running"
    /\ child' = [child EXCEPT ![r] = "killed"]
    /\ Returns(r, "failed")
    /\ UNCHANGED <<settings, up, file, temps>>

ChildReaped(r) ==
    /\ call[r] = "running" /\ child[r] \in {"zero", "other"}
    /\ Returns(r, IF child[r] = "zero" THEN "completed" ELSE "failed")
    /\ UNCHANGED <<settings, up, world>>

-----------------------------------------------------------------------------
(* shutdown of the service under the calls that are in it.                 *)
ToolShutdown ==
    /\ up
    /\ up' = FALSE
    /\ UNCHANGED <<settings, call, audit, world>>

(* The process dies under a call: what it left in the world stays.         *)
ProcessDies ==
    /\ \E r \in ToolRequests : call[r] = "running"
    /\ call' = [r \in ToolRequests |->
         IF call[r] \in {"new", "checked", "asking", "allowed", "running"} THEN "dead" ELSE call[r]]
    /\ UNCHANGED <<settings, up, audit, world>>

ToolNext ==
    \/ \E r \in ToolRequests :
         \/ Receives(r) \/ Decides(r) \/ Answers(r) \/ ToolBegins(r)
         \/ Refuses(r) \/ Looks(r) \/ WriteBegins(r) \/ WriteEnds(r)
         \/ Spawns(r) \/ ChildEnds(r) \/ ChildTimesOut(r) \/ ChildReaped(r)
    \/ ToolShutdown \/ ProcessDies

ToolSpec == ToolInit /\ [][ToolNext]_toolVars

-----------------------------------------------------------------------------
Terminal == {"completed", "failed", "denied"}
Has(r, e) == Contains(audit[r], e)

(* The audit of a request tells what happened to it: one terminal event,   *)
(* the last, for every call that returned a result or a denial, whichever  *)
(* way it took; a tool has started only after it was allowed, and after a  *)
(* yes where one was asked for; and a command is not left running by a     *)
(* call that returned.                                                     *)
AuditTellsTheStory ==
    \A r \in ToolRequests :
        /\ call[r] \in Terminal =>
             /\ Last(audit[r]) = call[r]
             /\ \A k \in 1..(Len(audit[r]) - 1) : audit[r][k] \notin Terminal
             /\ child[r] # "running"
        /\ Has(r, "started") =>
             /\ Has(r, "allowed")
             /\ Has(r, "approvalRequested") => Has(r, "approved")

(* A file written with atomic (the default) is always whole: after a crash *)
(* or a failed write it has the old content or the new one, and a reader   *)
(* between two writers sees one of them.  Only a write that asked for      *)
(* atomic to be off can leave a torn file.                                 *)
WholeFile == file.whole \/ ~asks[file.of].atomic
=============================================================================
