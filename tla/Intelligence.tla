------------------------------ MODULE Intelligence ------------------------------
(***************************************************************************)
(* The AI providers and the service in front of them: intelligence/.       *)
(*                                                                         *)
(* "local" is an Ollama server on this machine, "opencode" an OpenCode     *)
(* server that runs an agent of its own.  A provider has a state that      *)
(* probes and failed requests move; the router offers a request only to    *)
(* those that are ready and capable.  Calls and health probes run on       *)
(* threads of their own.  The servers are nobody's here: each request has  *)
(* any of its outcomes, so an answer may be older than a failure that was  *)
(* seen before it.  OpenCode answers a prompt by writing a session's       *)
(* timeline, message after message, and at last that it is idle; generate  *)
(* polls the timeline, and what a poll shows may be older than what is     *)
(* there when it is read.                                                  *)
(***************************************************************************)
EXTENDS Integers, Sequences, FiniteSets, SequencesExt

CONSTANTS Calls,        \* threads that generate
          Probes,       \* threads that ask for the health
          Questions,    \* [hint, coding, tools]: hint is a provider or "none"
          Defaults,     \* what ai.default_provider may be: a provider or "none"
    MaxMessages   \* bound: messages the executor writes for a prompt

Registered == <<"local", "opencode">>           \* _register_from_config, both enabled
Providers == {"local", "opencode"}
Starter == "starter"                            \* the thread that starts the service
Threads == Probes \cup {Starter}

ProviderState == {"uninitialized", "initializing", "ready", "unavailable", "degraded", "stopped"}
AIRequest == [hint : Providers \cup {"none"}, coding : BOOLEAN, tools : BOOLEAN]

AIAssumption ==
    /\ Starter \notin Probes
    /\ Questions \subseteq AIRequest
    /\ Defaults \subseteq Providers \cup {"none"}
    /\ MaxMessages \in Nat

VARIABLES
    default,    \* ai.default_provider
    service,    \* "new", "starting", "up", "stopping", "down"
    state,      \* ProviderState of each provider
    tools,      \* _tool_capable of the local one
    probe,      \* each probing thread: the provider it asks, or "none"
    todo,       \* what start has still to initialise, and shutdown to stop
    request,    \* each call: [at, req, via, alternatives, seen]: seen by its last poll
    session     \* each request's OpenCode session: [is, said, text, idle, lost]: how many
                \* messages it has, the last one's text, and the requests that were lost

aiVars == <<default, service, state, tools, probe, todo, request, session>>

Unseen == [said |-> 0, text |-> "none", idle |-> "no"]
NoCall == [at |-> "idle", req |-> "none", via |-> "none", alternatives |-> {}, seen |-> Unseen]
NoSession == [is |-> "none", said |-> 0, text |-> "none", idle |-> "no", lost |-> {}]

AIInit ==
    /\ default \in Defaults
    /\ service = "new"
    /\ state = [p \in Providers |-> "uninitialized"]
    /\ tools = FALSE
    /\ probe = [t \in Threads |-> "none"]
    /\ todo = <<>>
    /\ request = [c \in Calls |-> NoCall]
    /\ session = [c \in Calls |-> NoSession]

Served == <<default, service, state, tools, probe, todo>>

-----------------------------------------------------------------------------
(* The life of a provider.                                                 *)
Move(p, to) == state' = [state EXCEPT ![p] = to]

Asks(t, p) == probe' = [probe EXCEPT ![t] = p]

(* start: the router first, then initialize_all in order.                  *)
Start ==
    /\ service = "new"
    /\ service' = "starting"
    /\ todo' = Registered
    /\ UNCHANGED <<default, state, tools, probe, request, session>>

(* init does nothing unless the provider was never up, or is stopped;      *)
(* start then probes those once more that did not get ready.               *)
StartNext ==
    /\ service = "starting" /\ probe[Starter] = "none"
    /\ \/ /\ todo # <<>>
          /\ todo' = Tail(todo)
          /\ Asks(Starter, Head(todo))
          /\ IF state[Head(todo)] \in {"uninitialized", "stopped"}
             THEN Move(Head(todo), "initializing") ELSE UNCHANGED state
          /\ UNCHANGED service
       \/ /\ todo = <<>>
          /\ \/ \E p \in Providers :
                  /\ state[p] # "ready"
                  /\ Asks(Starter, p) /\ UNCHANGED service
             \/ service' = "up" /\ UNCHANGED probe
          /\ UNCHANGED <<todo, state>>
    /\ UNCHANGED <<default, tools, request, session>>

(* shutdown: provider after provider, then the router.                     *)
Shutdown ==
    /\ \/ /\ service = "up"
          /\ service' = "stopping" /\ todo' = Registered
          /\ UNCHANGED <<state, tools>>
       \/ /\ service = "stopping" /\ todo # <<>>
          /\ Move(Head(todo), "stopped")
          /\ tools' = (tools /\ Head(todo) # "local")
          /\ todo' = Tail(todo) /\ UNCHANGED service
       \/ /\ service = "stopping" /\ todo = <<>>
          /\ service' = "down" /\ UNCHANGED <<state, tools, todo>>
    /\ UNCHANGED <<default, probe, request, session>>

(* health: a stopped provider is not probed.                               *)
Health(t) ==
    /\ probe[t] = "none" /\ service # "new" /\ (t = Starter => service # "starting")
    /\ \E p \in Providers : state[p] # "stopped" /\ Asks(t, p)
    /\ UNCHANGED <<default, service, state, tools, todo, request, session>>

(* _probe_health of either provider, and the recovery in health: no        *)
(* connection, an answer that is none, or an answer.                       *)
Probed == ProviderState \ {"uninitialized", "initializing", "stopped"}

(* A second request asks the local server whether the model has tools.     *)
ProbeToolCapability == tools' \in BOOLEAN

ProbeEnds(t) ==
    /\ probe[t] # "none"
    /\ \E to \in Probed :
         /\ Move(probe[t], to)
         /\ IF probe[t] = "local" /\ to = "ready" THEN ProbeToolCapability ELSE UNCHANGED tools
    /\ probe' = [probe EXCEPT ![t] = "none"]
    /\ UNCHANGED <<default, service, todo, request, session>>

-----------------------------------------------------------------------------
(* Routing.                                                                *)
Caps(p) ==
    IF p = "local"
    THEN {"text_generation", "streaming", "local"} \cup (IF tools THEN {"tool_calling"} ELSE {})
    ELSE {"text_generation", "remote", "code_execution"}

RequiredCapabilities(r) ==
    {"text_generation"} \cup (IF r.coding THEN {"code_execution"} ELSE {})
                        \cup (IF r.tools THEN {"tool_calling"} ELSE {})

AvailableProviders(r) ==
    SelectSeq(Registered, LAMBDA p : state[p] = "ready" /\ RequiredCapabilities(r) \subseteq Caps(p))

RequestedProvider(r) == IF r.hint # "none" THEN r.hint ELSE default

FirstWith(ps, Test(_)) == Head(SelectSeq(ps, Test))

(* _policy_select: the first that executes code, whatever the request is.  *)
PolicySelect(ps) ==
    LET Runs(p) == "code_execution" \in Caps(p)
        LocalOnly(p) == "local" \in Caps(p) /\ "remote" \notin Caps(p)
    IN IF \E p \in ToSet(ps) : Runs(p) THEN FirstWith(ps, Runs)
       ELSE IF \E p \in ToSet(ps) : LocalOnly(p) THEN FirstWith(ps, LocalOnly)
       ELSE Head(ps)

(* route: "none" where it raises.                                          *)
RouteTo(r) ==
    LET asked == RequestedProvider(r)
    IN IF asked # "none" THEN (IF state[asked] = "ready" THEN asked ELSE "none")
       ELSE IF AvailableProviders(r) = <<>> THEN "none"
       ELSE PolicySelect(AvailableProviders(r))

-----------------------------------------------------------------------------
(* generate.                                                               *)
At(c, at) == request' = [request EXCEPT ![c].at = at]

Generate(c) ==
    /\ request[c].at = "idle"
    /\ \E r \in Questions :
         LET via == IF service \in {"new", "down"} THEN "none" ELSE RouteTo(r)
         IN request' = [request EXCEPT ![c] = [at |-> IF via = "none" THEN "failed" ELSE "routed",
                                          req |-> r, via |-> via, seen |-> Unseen,
                                          alternatives |-> ToSet(AvailableProviders(r))]]
    /\ UNCHANGED <<Served, session>>

(* The provider looks at its own state and capabilities again.             *)
Begins(c) ==
    /\ request[c].at = "routed"
    /\ At(c, IF \/ state[request[c].via] # "ready"
                \/ request[c].req.tools /\ "tool_calling" \notin Caps(request[c].via)
             THEN "failed"
             ELSE IF request[c].via = "local" THEN "asked" ELSE "creating")
    /\ UNCHANGED <<Served, session>>

(* OllamaProvider.generate: one request.  Only a failed connection costs   *)
(* the provider its state.                                                 *)
LocalAnswers(c) ==
    /\ request[c].at = "asked"
    /\ \/ Move("local", "unavailable") /\ At(c, "failed")
       \/ UNCHANGED state /\ \E end \in {"replied", "failed"} : At(c, end)
    /\ UNCHANGED <<default, service, tools, probe, todo, session>>

(* OpenCodeProvider.generate: a session, the prompt, the poll, and the     *)
(* session's deletion.  A session whose answer was lost stays behind.      *)
Lost(c, what) == session' = [session EXCEPT ![c].is = "open", ![c].lost = @ \cup {what}]

CreatesSession(c) ==
    /\ request[c].at = "creating"
    /\ \/ session' = [session EXCEPT ![c].is = "open"] /\ At(c, "prompting")
       \/ Lost(c, "create") /\ At(c, "failed")
       \/ At(c, "failed") /\ UNCHANGED session
    /\ UNCHANGED Served

SendsPrompt(c) ==
    /\ request[c].at = "prompting"
    /\ \E to \in {"polling", "failing"} : At(c, to)
    /\ UNCHANGED <<Served, session>>

(* The executor: messages one after the other, each begun and finished, or *)
(* ended by an error, and at last that the session is idle; it does not    *)
(* wait for the polls.  A session that succeeded has no message that is    *)
(* not finished.                                                           *)
ExecutorWrites(c) ==
    LET s == session[c] IN
    /\ request[c].at \in {"polling", "shown", "closing", "failing"} /\ s.idle = "no"
    /\ \/ /\ s.text \in {"none", "whole"} /\ s.said < MaxMessages
          /\ session' = [session EXCEPT ![c].said = @ + 1, ![c].text = "partial"]
       \/ /\ s.text = "partial"
          /\ \E to \in {"whole", "error"} : session' = [session EXCEPT ![c].text = to]
       \/ \E outcome \in {"succeeded", "failed"} :
            /\ outcome = "succeeded" => s.text # "partial"
            /\ session' = [session EXCEPT ![c].idle = outcome]
    /\ UNCHANGED <<Served, request>>

(* _session_messages: the timeline as it is, on its way back.  A poll that *)
(* fails shows nothing, and is forgotten until the deadline; an answer     *)
(* that is no timeline fails the request.                                  *)
Timeline(c) == [said |-> session[c].said, text |-> session[c].text, idle |-> session[c].idle]
Polls(c) ==
    /\ request[c].at = "polling"
    /\ \/ request' = [request EXCEPT ![c].at = "shown", ![c].seen = Timeline(c)]
       \/ At(c, "failing")
    /\ UNCHANGED <<Served, session>>

(* Fault: any message of the session will do.                              *)
PollTakesFirst(c) ==
    LET s == request[c].seen
    IN \/ (s.idle = "failed" \/ s.text = "error") /\ At(c, "failing")
       \/ s.text \in {"partial", "whole"} /\ s.idle # "failed" /\ At(c, "closing")
       \/ s.text = "none" /\ s.idle # "failed" /\ \E to \in {"polling", "failing"} : At(c, to)

(* _await_assistant: a session or a last message that failed; a message    *)
(* without an error in a session that is idle; else the next poll, or the  *)
(* deadline.                                                               *)
PollTakes(c) ==
    LET s == request[c].seen
        fails == s.idle = "failed" \/ s.text = "error"
        returns == ~fails /\ s.idle = "succeeded" /\ s.said > 0
    IN \/ fails /\ At(c, "failing")
       \/ returns /\ At(c, "closing")
       \/ ~fails /\ ~returns /\ \E to \in {"polling", "failing"} : At(c, to)

AwaitsAssistant(c) ==
    /\ request[c].at = "shown"
    /\ PollTakes(c)
    /\ UNCHANGED <<Served, session>>

(* _cleanup_session, however the request ended: its failure is swallowed.  *)
CleansUp(c) ==
    /\ request[c].at \in {"closing", "failing"}
    /\ \/ session' = [session EXCEPT ![c].is = "deleted"]
       \/ Lost(c, "delete")
    /\ At(c, IF request[c].at = "closing" THEN "replied" ELSE "failed")
    /\ UNCHANGED Served

AINext ==
    \/ Start \/ StartNext \/ Shutdown
    \/ \E t \in Threads : Health(t) \/ ProbeEnds(t)
    \/ \E c \in Calls :
         \/ Generate(c) \/ Begins(c) \/ LocalAnswers(c)
         \/ CreatesSession(c) \/ SendsPrompt(c) \/ ExecutorWrites(c)
         \/ Polls(c) \/ AwaitsAssistant(c) \/ CleansUp(c)

AISpec == AIInit /\ [][AINext]_aiVars

-----------------------------------------------------------------------------
(* A reply from OpenCode is what its session said last, finished, in a     *)
(* session that ended well, however the executor's writes, the polls and   *)
(* what they show cross; and however a request ends, its session is left   *)
(* open only when the answer to its creation, or its deletion, was lost    *)
(* (opencode.py generate).                                                 *)
ReplyIsTheAnswer ==
    \A c \in Calls :
      /\ request[c].at = "replied" /\ request[c].via = "opencode" =>
           /\ request[c].seen = Timeline(c)
           /\ session[c].text = "whole" /\ session[c].idle = "succeeded"
      /\ request[c].at \in {"replied", "failed"} /\ session[c].is = "open" =>
           session[c].lost # {}

(* "coding tasks prefer the remote code-execution provider; otherwise a    *)
(* local-only provider is preferred".                                      *)
LocalPreferred ==
    \A c \in Calls :
        /\ request[c].at # "idle" /\ ~request[c].req.coding
        /\ RequestedProvider(request[c].req) = "none"
        /\ "local" \in request[c].alternatives
        => request[c].via = "local"
=============================================================================
