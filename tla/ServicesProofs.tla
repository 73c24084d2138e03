----------------------------- MODULE ServicesProofs -----------------------------
(***************************************************************************)
(* Four services, each for any number of clients:                          *)
(*                                                                         *)
(*   - a reply of OpenCode is the last of what its session said, and       *)
(*     finished: once a poll shows an idle session, nothing is written any *)
(*     more; and no session stays open but for a request that was lost;    *)
(*   - the version in a database file is that of the tables in it, for     *)
(*     every list of migrations that ends each one with its version,       *)
(*     however the processes that open it interleave and die;              *)
(*   - Telegram forgets no message that nobody has handled;                *)
(*   - a tick of the scheduler runs all that was due when it began, and    *)
(*     what it settled does not run again.                                 *)
(***************************************************************************)
EXTENDS Intelligence, DatabaseOpening, Telegram, Scheduler, FiniteSetTheorems, TLAPS

-----------------------------------------------------------------------------
(* Replies: Intelligence.                                                  *)

Finished(c) ==
    request[c].seen = Timeline(c) /\ session[c].text = "whole" /\ session[c].idle = "succeeded"
ClosedUp(c) == session[c].is = "open" => session[c].lost # {}

(* The fields, of any values: what a route leads to is not asked.          *)
IsRequest(r) ==
    r = [at |-> r.at, req |-> r.req, via |-> r.via, alternatives |-> r.alternatives, seen |-> r.seen]
IsSession(s) ==
    s = [is |-> s.is, said |-> s.said, text |-> s.text, idle |-> s.idle, lost |-> s.lost]

(* A timeline begins with no message, and one that succeeded has none that *)
(* is not finished.                                                        *)
SessionInv(s) ==
    /\ s.said \in Nat /\ s.text \in {"none", "partial", "whole", "error"}
    /\ s.said > 0 => s.text # "none"
    /\ s.idle = "succeeded" => s.text # "partial"

(* Who asks the local server was sent there; what a poll shows is all there*)
(* will be once it shows an idle session; who is done polling has seen the *)
(* answer; and who has not created a session has none.                     *)
CallInv(c) ==
    /\ IsRequest(request[c]) /\ IsSession(session[c]) /\ SessionInv(session[c])
    /\ request[c].seen.idle # "no" => request[c].seen = Timeline(c)
    /\ request[c].at = "asked" => request[c].via = "local"
    /\ request[c].at = "closing" => Finished(c)
    /\ request[c].at = "replied" => request[c].via = "local" \/ Finished(c)
    /\ request[c].at \in {"idle", "routed", "asked", "creating"} => session[c].is = "none"
    /\ request[c].at \in {"replied", "failed"} => ClosedUp(c)

ReplyInv ==
    /\ DOMAIN request = Calls /\ DOMAIN session = Calls
    /\ \A c \in Calls : CallInv(c)

-----------------------------------------------------------------------------
LEMMA ReplyInit == AIInit => ReplyInv
BY DEF AIInit, ReplyInv, CallInv, IsRequest, IsSession, SessionInv, Finished, ClosedUp, NoCall,
       NoSession, Unseen

(* What a step of one call does to its place leaves the rest of it.        *)
LEMMA PlaceOfCall ==
    ASSUME ReplyInv, NEW c \in Calls, NEW to, At(c, to)
    PROVE  /\ DOMAIN request' = Calls
           /\ \A d \in Calls \ {c} : request'[d] = request[d]
           /\ IsRequest(request'[c])
           /\ request'[c].at = to /\ request'[c].via = request[c].via
           /\ request'[c].seen = request[c].seen
<1>1. request[c] = [at |-> request[c].at, req |-> request[c].req, via |-> request[c].via,
                    alternatives |-> request[c].alternatives, seen |-> request[c].seen]
  BY DEF ReplyInv, CallInv, IsRequest
<1>2. request'[c] = [request[c] EXCEPT !.at = to]
  BY DEF ReplyInv, At
<1>3. request'[c] = [at |-> to, req |-> request[c].req, via |-> request[c].via,
                     alternatives |-> request[c].alternatives, seen |-> request[c].seen]
  BY <1>1, <1>2
<1> QED BY <1>3 DEF ReplyInv, At, IsRequest

(* The calls a step does not touch keep their part.                        *)
LEMMA OthersKeep ==
    ASSUME NEW d \in Calls, CallInv(d), request'[d] = request[d], session'[d] = session[d]
    PROVE  CallInv(d)'
BY DEF CallInv, IsRequest, IsSession, SessionInv, Finished, ClosedUp, Timeline

(* A step that touches one call keeps the invariant if it keeps its part.  *)
LEMMA OneCall ==
    ASSUME ReplyInv, NEW c \in Calls, CallInv(c)', DOMAIN request' = Calls, DOMAIN session' = Calls,
           \A d \in Calls \ {c} : request'[d] = request[d] /\ session'[d] = session[d]
    PROVE  ReplyInv'
<1>1. \A d \in Calls \ {c} : CallInv(d)'
  BY OthersKeep DEF ReplyInv
<1> QED BY <1>1 DEF ReplyInv

(* A call that only goes on to its next place.                             *)
LEMMA PlaceKeeps ==
    ASSUME ReplyInv, NEW c \in Calls, NEW to, At(c, to), UNCHANGED session,
           to = "asked" => request[c].via = "local",
           to = "closing" => Finished(c),
           to = "replied" => request[c].via = "local" \/ Finished(c),
           to \in {"idle", "routed", "asked", "creating", "replied", "failed"} => session[c].is = "none"
    PROVE  ReplyInv'
<1>1. CallInv(c)
  BY DEF ReplyInv
<1>2. CallInv(c)'
  BY <1>1, PlaceOfCall DEF CallInv, IsSession, SessionInv, Finished, ClosedUp, Timeline
<1> QED BY <1>2, PlaceOfCall, OneCall DEF ReplyInv

(* A session that is opened, left behind or deleted: its timeline stays.   *)
LEMMA SessionKeeps ==
    ASSUME ReplyInv, NEW c \in Calls, NEW to, At(c, to), DOMAIN session' = Calls,
           \A d \in Calls \ {c} : session'[d] = session[d],
           NEW is, NEW lost,
           session'[c] = [is |-> is, said |-> session[c].said, text |-> session[c].text,
                           idle |-> session[c].idle, lost |-> lost],
           to \in {"prompting", "replied", "failed"},
           to = "replied" => Finished(c),
           to # "prompting" /\ is = "open" => lost # {}
    PROVE  ReplyInv'
<1>1. CallInv(c)
  BY DEF ReplyInv
<1>4. /\ IsSession(session'[c]) /\ session'[c].is = is /\ session'[c].lost = lost
      /\ session'[c].said = session[c].said /\ session'[c].text = session[c].text
      /\ session'[c].idle = session[c].idle
  BY DEF IsSession
<1>5. CallInv(c)'
  BY <1>1, <1>4, PlaceOfCall DEF CallInv, SessionInv, Finished, ClosedUp, Timeline
<1> QED BY <1>5, PlaceOfCall, OneCall

(* A request that was lost leaves its session open, and is known as lost.  *)
LEMMA LostKeeps ==
    ASSUME ReplyInv, NEW c \in Calls, NEW what, Lost(c, what), NEW to \in {"replied", "failed"},
           At(c, to), to = "replied" => Finished(c)
    PROVE  ReplyInv'
<1>1. IsSession(session[c]) /\ DOMAIN session = Calls
  BY DEF ReplyInv, CallInv
<1>2. /\ DOMAIN session' = Calls /\ \A d \in Calls \ {c} : session'[d] = session[d]
      /\ session'[c] = [session[c] EXCEPT !.is = "open", !.lost = @ \cup {what}]
  BY <1>1 DEF Lost
<1>4. session'[c] = [is |-> "open", said |-> session[c].said, text |-> session[c].text,
                     idle |-> session[c].idle, lost |-> session[c].lost \cup {what}]
  BY <1>1, <1>2 DEF IsSession
<1>3. session[c].lost \cup {what} # {}
  OBVIOUS
<1> DEFINE losses == session[c].lost \cup {what}
<1>5. /\ to \in {"prompting", "replied", "failed"}
      /\ to # "prompting" /\ "open" = "open" => losses # {}
  BY <1>3
<1>6. session'[c] = [is |-> "open", said |-> session[c].said, text |-> session[c].text,
                     idle |-> session[c].idle, lost |-> losses]
  BY <1>4
<1> HIDE DEF losses
<1> QED BY <1>2, <1>5, <1>6, SessionKeeps, Zenon

(* The executor goes on writing; what was seen of an idle session stays.   *)
LEMMA WritesKeep == ASSUME ReplyInv, NEW c \in Calls, ExecutorWrites(c) PROVE ReplyInv'
<1>1. CallInv(c) /\ request' = request /\ session[c].idle = "no"
      /\ request[c].at \in {"polling", "shown", "closing", "failing"}
  BY DEF ExecutorWrites, ReplyInv
<1>2. request[c].at # "closing"
  BY <1>1 DEF CallInv, Finished
<1>3. request[c].seen.idle = "no"
  BY <1>1 DEF CallInv, Timeline
<1>4. session[c] = [is |-> session[c].is, said |-> session[c].said, text |-> session[c].text,
                    idle |-> session[c].idle, lost |-> session[c].lost]
  BY <1>1 DEF CallInv, IsSession
<1>5. ASSUME NEW s, session'[c] = s, IsSession(s), SessionInv(s), DOMAIN session' = Calls,
             \A d \in Calls \ {c} : session'[d] = session[d]
      PROVE  ReplyInv'
  <2>2. CallInv(c)'
    BY <1>1, <1>2, <1>3, <1>5 DEF CallInv, IsRequest
  <2> QED BY <1>1, <1>5, <2>2, OneCall DEF ReplyInv
<1>6. CASE session' = [session EXCEPT ![c].said = @ + 1, ![c].text = "partial"]
  <2> DEFINE s == [is |-> session[c].is, said |-> session[c].said + 1, text |-> "partial",
                   idle |-> session[c].idle, lost |-> session[c].lost]
  <2>1. /\ DOMAIN session' = Calls /\ \A d \in Calls \ {c} : session'[d] = session[d]
        /\ session'[c] = [session[c] EXCEPT !.said = @ + 1, !.text = "partial"]
    BY <1>6 DEF ReplyInv
  <2>3. session'[c] = s
    BY <1>4, <2>1
  <2>2. IsSession(s) /\ SessionInv(s)
    BY <1>1 DEF CallInv, IsSession, SessionInv
  <2> QED BY <1>5, <2>1, <2>2, <2>3
<1>7. ASSUME NEW to \in {"whole", "error"}, session' = [session EXCEPT ![c].text = to]
      PROVE  ReplyInv'
  <2> DEFINE s == [is |-> session[c].is, said |-> session[c].said, text |-> to,
                   idle |-> session[c].idle, lost |-> session[c].lost]
  <2>1. /\ DOMAIN session' = Calls /\ \A d \in Calls \ {c} : session'[d] = session[d]
        /\ session'[c] = [session[c] EXCEPT !.text = to]
    BY <1>7 DEF ReplyInv
  <2>3. session'[c] = s
    BY <1>4, <2>1
  <2>2. IsSession(s) /\ SessionInv(s)
    BY <1>1, <1>7 DEF CallInv, IsSession, SessionInv
  <2> QED BY <1>5, <2>1, <2>2, <2>3
<1>8. ASSUME NEW outcome \in {"succeeded", "failed"}, outcome = "succeeded" => session[c].text # "partial",
             session' = [session EXCEPT ![c].idle = outcome]
      PROVE  ReplyInv'
  <2> DEFINE s == [is |-> session[c].is, said |-> session[c].said, text |-> session[c].text,
                   idle |-> outcome, lost |-> session[c].lost]
  <2>1. /\ DOMAIN session' = Calls /\ \A d \in Calls \ {c} : session'[d] = session[d]
        /\ session'[c] = [session[c] EXCEPT !.idle = outcome]
    BY <1>8 DEF ReplyInv
  <2>3. session'[c] = s
    BY <1>4, <2>1
  <2>2. IsSession(s) /\ SessionInv(s)
    BY <1>1, <1>8 DEF CallInv, IsSession, SessionInv
  <2> QED BY <1>5, <2>1, <2>2, <2>3
<1> QED BY <1>6, <1>7, <1>8 DEF ExecutorWrites

LEMMA PollsKeep == ASSUME ReplyInv, NEW c \in Calls, Polls(c) PROVE ReplyInv'
<1>1. CallInv(c) /\ session' = session
  BY DEF Polls, ReplyInv
<1>2. CASE At(c, "failing")
  BY <1>1, <1>2, PlaceKeeps
<1>3. CASE request' = [request EXCEPT ![c].at = "shown", ![c].seen = Timeline(c)]
  <2>1. request[c] = [at |-> request[c].at, req |-> request[c].req, via |-> request[c].via,
                      alternatives |-> request[c].alternatives, seen |-> request[c].seen]
    BY <1>1 DEF CallInv, IsRequest
  <2>2. request'[c] = [request[c] EXCEPT !.at = "shown", !.seen = Timeline(c)]
    BY <1>3 DEF ReplyInv
  <2>3. request'[c] = [at |-> "shown", req |-> request[c].req, via |-> request[c].via,
                       alternatives |-> request[c].alternatives, seen |-> Timeline(c)]
    BY <2>1, <2>2
  <2>4. IsRequest(request'[c]) /\ request'[c].at = "shown" /\ request'[c].seen = Timeline(c)
    BY <2>3 DEF IsRequest
  <2>5. Timeline(c)' = Timeline(c)
    BY <1>1 DEF Timeline
  <2>6. CallInv(c)'
    BY <1>1, <2>4, <2>5 DEF CallInv, IsSession, SessionInv
  <2>7. DOMAIN request' = Calls /\ \A d \in Calls \ {c} : request'[d] = request[d]
    BY <1>3 DEF ReplyInv
  <2> QED BY <1>1, <2>6, <2>7, OneCall DEF ReplyInv
<1> QED BY <1>2, <1>3 DEF Polls

(* A poll that returns has seen an idle session that succeeded, with a     *)
(* message: that is all there will be, and it is finished.                 *)
LEMMA TakesKeep == ASSUME ReplyInv, NEW c \in Calls, AwaitsAssistant(c) PROVE ReplyInv'
<1>1. CallInv(c) /\ session' = session /\ PollTakes(c)
  BY DEF AwaitsAssistant, ReplyInv
<1>2. ASSUME request[c].seen.idle = "succeeded", request[c].seen.said > 0, request[c].seen.text # "error"
      PROVE  Finished(c)
  <2>1. request[c].seen = Timeline(c)
    BY <1>1, <1>2 DEF CallInv
  <2>2. session[c].idle = "succeeded" /\ session[c].said > 0 /\ session[c].text # "error"
    BY <1>2, <2>1 DEF Timeline
  <2>3. SessionInv(session[c])
    BY <1>1 DEF CallInv
  <2> QED BY <2>1, <2>2, <2>3 DEF Finished, SessionInv
<1>3. PICK to \in {"failing", "closing", "polling"} : At(c, to) /\ (to = "closing" => Finished(c))
  BY <1>1, <1>2 DEF PollTakes
<1> QED BY <1>1, <1>3, PlaceKeeps

LEMMA ReplyStep == ReplyInv /\ [AINext]_aiVars => ReplyInv'
<1> SUFFICES ASSUME ReplyInv, [AINext]_aiVars PROVE ReplyInv'
  OBVIOUS
<1>1. CASE UNCHANGED <<request, session>>
  BY <1>1, OthersKeep DEF ReplyInv
<1>2. ASSUME NEW c \in Calls, Generate(c) PROVE ReplyInv'
  <2>1. \E r \in Questions, at \in {"failed", "routed"} : \E via, alternatives :
          request' = [request EXCEPT ![c] = [at |-> at, req |-> r, via |-> via, seen |-> Unseen,
                                             alternatives |-> alternatives]]
    BY <1>2 DEF Generate
  <2>2. session' = session /\ session[c].is = "none" /\ CallInv(c)
    BY <1>2 DEF Generate, ReplyInv, CallInv
  <2>3. CallInv(c)'
    BY <2>1, <2>2 DEF ReplyInv, CallInv, IsRequest, IsSession, SessionInv, ClosedUp, Unseen
  <2> QED BY <2>1, <2>2, <2>3, OneCall DEF ReplyInv
<1>4. ASSUME NEW c \in Calls, Begins(c) PROVE ReplyInv'
  <2>1. PICK to \in {"failed", "asked", "creating"} :
          At(c, to) /\ (to = "asked" => request[c].via = "local")
    BY <1>4 DEF Begins
  <2>2. session[c].is = "none" /\ session' = session
    BY <1>4 DEF Begins, ReplyInv, CallInv
  <2> QED BY <2>1, <2>2, PlaceKeeps
<1>5. ASSUME NEW c \in Calls, LocalAnswers(c) PROVE ReplyInv'
  <2>1. request[c].via = "local" /\ session' = session /\ session[c].is = "none"
    BY <1>5 DEF LocalAnswers, ReplyInv, CallInv
  <2>2. PICK to \in {"failed", "replied"} : At(c, to)
    BY <1>5 DEF LocalAnswers
  <2> QED BY <2>1, <2>2, PlaceKeeps
<1>6. ASSUME NEW c \in Calls, CreatesSession(c) PROVE ReplyInv'
  <2>1. session[c].is = "none" /\ DOMAIN session = Calls
    BY <1>6 DEF CreatesSession, ReplyInv, CallInv
  <2>2. CASE session' = [session EXCEPT ![c].is = "open"] /\ At(c, "prompting")
    <3>1. /\ DOMAIN session' = Calls /\ \A d \in Calls \ {c} : session'[d] = session[d]
          /\ session'[c] = [session[c] EXCEPT !.is = "open"]
      BY <2>1, <2>2
    <3>2. session'[c] = [is |-> "open", said |-> session[c].said, text |-> session[c].text,
                         idle |-> session[c].idle, lost |-> session[c].lost]
      <4>1. IsSession(session[c])
        BY DEF ReplyInv, CallInv
      <4> QED BY <3>1, <4>1 DEF IsSession
    <3> DEFINE to == "prompting"
               losses == session[c].lost
    <3>3. /\ At(c, to) /\ to \in {"prompting", "replied", "failed"}
          /\ to = "replied" => Finished(c)
          /\ to # "prompting" /\ "open" = "open" => losses # {}
      BY <2>2
    <3> HIDE DEF to, losses
    <3>4. session'[c] = [is |-> "open", said |-> session[c].said, text |-> session[c].text,
                         idle |-> session[c].idle, lost |-> losses]
      BY <3>2 DEF losses
    <3> QED BY <3>1, <3>3, <3>4, SessionKeeps, Zenon
  <2>3. CASE Lost(c, "create") /\ At(c, "failed")
    BY <2>1, <2>3, LostKeeps
  <2>4. CASE At(c, "failed") /\ UNCHANGED session
    BY <2>1, <2>4, PlaceKeeps
  <2> QED BY <1>6, <2>2, <2>3, <2>4 DEF CreatesSession
<1>7. ASSUME NEW c \in Calls, SendsPrompt(c) PROVE ReplyInv'
  <2>1. PICK to \in {"polling", "failing"} : At(c, to)
    BY <1>7 DEF SendsPrompt
  <2> QED BY <1>7, <2>1, PlaceKeeps DEF SendsPrompt
<1>8. ASSUME NEW c \in Calls, CleansUp(c) PROVE ReplyInv'
  <2>1. PICK to \in {"replied", "failed"} : At(c, to) /\ (to = "replied" => Finished(c))
    BY <1>8 DEF CleansUp, ReplyInv, CallInv
  <2>2. CASE session' = [session EXCEPT ![c].is = "deleted"]
    <3>1. /\ DOMAIN session' = Calls /\ \A d \in Calls \ {c} : session'[d] = session[d]
          /\ session'[c] = [session[c] EXCEPT !.is = "deleted"]
      BY <2>2 DEF ReplyInv
    <3>2. session'[c] = [is |-> "deleted", said |-> session[c].said, text |-> session[c].text,
                         idle |-> session[c].idle, lost |-> session[c].lost]
      <4>1. IsSession(session[c])
        BY DEF ReplyInv, CallInv
      <4> QED BY <3>1, <4>1 DEF IsSession
    <3> QED BY <2>1, <3>1, <3>2, SessionKeeps
  <2>3. CASE Lost(c, "delete")
    BY <2>1, <2>3, LostKeeps
  <2> QED BY <1>8, <2>2, <2>3 DEF CleansUp
<1>9. CASE Start \/ StartNext \/ Shutdown
  BY <1>1, <1>9 DEF Start, StartNext, Shutdown
<1>10. ASSUME NEW t \in Threads, Health(t) \/ ProbeEnds(t) PROVE ReplyInv'
  BY <1>1, <1>10 DEF Health, ProbeEnds
<1> QED BY <1>1, <1>2, <1>4, <1>5, <1>6, <1>7, <1>8, <1>9, <1>10, WritesKeep, PollsKeep, TakesKeep
        DEF AINext, aiVars

(* intelligence/opencode.py generate: a reply of OpenCode is what its      *)
(* session said last, finished, in a session that ended well; and a        *)
(* session is left open only when its creation's answer or its deletion    *)
(* was lost.                                                               *)
THEOREM RepliesAreAnswers == AISpec => []ReplyIsTheAnswer
<1>1. ReplyInv => ReplyIsTheAnswer
  BY DEF ReplyInv, CallInv, ReplyIsTheAnswer, Finished, ClosedUp
<1> QED BY <1>1, ReplyInit, ReplyStep, PTL DEF AISpec

-----------------------------------------------------------------------------
(* Opening a database: DatabaseOpening.                                    *)

(* What the statements before a place make.                                *)
Before(k) == {Script[j].makes : j \in {i \in 1..k - 1 : Script[i].op = "ddl"}}
Upto(k) == Versions \cap 1..k

(* The version in the file is that of a statement, and what comes before   *)
(* that statement is there.                                                *)
FileInv ==
    /\ version \in Nat
    /\ version # 0 /\ version <= Current =>
         \E k \in Versions : version = Cardinality(Upto(k)) /\ Before(k) \subseteq made

(* A process has made what comes before its place, or will with its        *)
(* transaction, which ends before its script does.                         *)
OpenerInv(p) ==
    /\ opener[p] = [at |-> opener[p].at, pc |-> opener[p].pc, made |-> opener[p].made]
    /\ opener[p].at = "migrating" =>
         /\ opener[p].pc \in 1..Len(Script) + 1
         /\ Before(opener[p].pc) \subseteq made \cup opener[p].made
    /\ opener[p].made # {} => writer = p
    /\ writer = p => opener[p].at = "migrating" /\ opener[p].pc \in 1..Len(Script)
    /\ opener[p].at = "healthy" => Before(Len(Script) + 1) \subseteq made

OpeningInv ==
    /\ store \in Stores
    /\ DOMAIN opener = Openers
    /\ FileInv
    /\ \A p \in Openers : OpenerInv(p)
    /\ OthersFilesKept
    /\ store.commits = "each" => writer = NoWriter /\ TolerantFileOpens

LEMMA ScriptFacts ==
    ASSUME DatabaseOpeningAssumption, store \in Stores
    PROVE  /\ Script \in Seq(Statement) /\ Len(Script) \in Nat /\ Len(Script) >= 1
           /\ DOMAIN Script = 1..Len(Script) /\ Script[Len(Script)].op = "version"
           /\ NoWriter \notin Openers
<1>1. IsStore(store)
  BY DEF DatabaseOpeningAssumption
<1> QED BY <1>1 DEF IsStore, Script, DatabaseOpeningAssumption

LEMMA VersionsCount ==
    ASSUME DatabaseOpeningAssumption, store \in Stores
    PROVE  /\ IsFiniteSet(Versions) /\ Current \in Nat
           /\ \A k \in Int : /\ IsFiniteSet(Upto(k)) /\ Cardinality(Upto(k)) \in Nat
                             /\ Cardinality(Upto(k)) <= Current
<1>1. IsFiniteSet(Versions)
  <2>1. Versions \subseteq 1..Len(Script) /\ 1 \in Int /\ Len(Script) \in Int
    BY ScriptFacts DEF Versions
  <2> QED BY <2>1, FS_Interval, FS_Subset
<1>2. Current \in Nat
  BY <1>1, FS_CardinalityType DEF Current
<1>3. ASSUME NEW k \in Int
      PROVE  /\ IsFiniteSet(Upto(k)) /\ Cardinality(Upto(k)) \in Nat
             /\ Cardinality(Upto(k)) <= Current
  <2>1. Upto(k) \in SUBSET Versions
    BY DEF Upto
  <2> QED BY <1>1, <2>1, FS_Subset, FS_CardinalityType DEF Current
<1> QED BY <1>1, <1>2, <1>3

(* Of two places the later one has seen no fewer versions, and more if it  *)
(* is a version.                                                           *)
LEMMA CountGrows ==
    ASSUME DatabaseOpeningAssumption, store \in Stores, NEW j \in Int, NEW k \in Int, j <= k
    PROVE  /\ Cardinality(Upto(j)) <= Cardinality(Upto(k))
           /\ k \in Versions /\ j < k => Cardinality(Upto(j)) # Cardinality(Upto(k))
<1>1. Upto(j) \in SUBSET Upto(k) /\ IsFiniteSet(Upto(k))
  BY VersionsCount DEF Upto
<1>2. k \in Versions /\ j < k => k \in Upto(k) /\ k \notin Upto(j)
  BY ScriptFacts DEF Upto, Versions
<1> QED BY <1>1, <1>2, FS_Subset

LEMMA SameVersion ==
    ASSUME DatabaseOpeningAssumption, store \in Stores,
           NEW j \in Versions, NEW k \in Versions, Cardinality(Upto(j)) = Cardinality(Upto(k))
    PROVE  j = k
<1>1. j \in Int /\ k \in Int
  BY ScriptFacts DEF Versions
<1>2. ~(j < k) /\ ~(k < j)
  BY <1>1, CountGrows
<1> QED BY <1>1, <1>2

LEMMA NextPlace ==
    ASSUME DatabaseOpeningAssumption, store \in Stores, NEW k \in 1..Len(Script)
    PROVE  /\ Script[k].op = "version" => Before(k + 1) = Before(k)
           /\ Script[k].op = "ddl" => Before(k + 1) = Before(k) \cup {Script[k].makes}
<1>1. 1..(k + 1) - 1 = (1..k - 1) \cup {k} /\ k \notin 1..k - 1
  BY ScriptFacts
<1>2. Script[k].op = "version" => {i \in 1..(k + 1) - 1 : Script[i].op = "ddl"}
                                   = {i \in 1..k - 1 : Script[i].op = "ddl"}
  BY <1>1
<1>3. Script[k].op = "ddl" => {i \in 1..(k + 1) - 1 : Script[i].op = "ddl"}
                               = {i \in 1..k - 1 : Script[i].op = "ddl"} \cup {k}
  BY <1>1
<1> QED BY <1>2, <1>3 DEF Before

(* Where a script starts, what it leaves out is there.                     *)
LEMMA StartsRight ==
    ASSUME DatabaseOpeningAssumption, store \in Stores, FileInv, version <= Current
    PROVE  /\ StartOf(version) \in 1..Len(Script) + 1
           /\ Before(StartOf(version)) \subseteq made
<1>1. CASE version = 0
  <2>1. StartOf(version) = 1 /\ Before(1) = {}
    BY <1>1 DEF StartOf, Before
  <2> QED BY <2>1, ScriptFacts
<1>2. CASE version # 0
  <2>1. PICK k \in Versions : version = Cardinality(Upto(k)) /\ Before(k) \subseteq made
    BY <1>2 DEF FileInv
  <2>2. StartOf(version) = 1 + CHOOSE n \in Versions : Cardinality(Upto(n)) = version
    BY <1>2 DEF StartOf, Upto
  <2>3. PICK n \in Versions : /\ Cardinality(Upto(n)) = version
                              /\ StartOf(version) = 1 + n
    BY <2>1, <2>2
  <2>4. n = k
    BY <2>1, <2>3, SameVersion
  <2>5. k \in 1..Len(Script) /\ Script[k].op = "version"
    BY ScriptFacts DEF Versions
  <2> QED BY <2>1, <2>3, <2>4, <2>5, NextPlace, ScriptFacts
<1> QED BY <1>1, <1>2

(* What the invariant says of the file.                                    *)
LEMMA TruthFollows ==
    ASSUME DatabaseOpeningAssumption, OpeningInv
    PROVE  VersionTellsTheSchema
<1>1. store \in Stores /\ FileInv /\ \A p \in Openers : OpenerInv(p)
  BY DEF OpeningInv
<1>2. ASSUME version <= Current PROVE MadeBy(version) \subseteq made
  <2>1. CASE version = 0
    <3>1. \A j \in DOMAIN Script : ~(Cardinality(Upto(j)) < version)
      BY <1>1, <2>1, VersionsCount, ScriptFacts
    <3> QED BY <3>1 DEF MadeBy, Upto
  <2>2. CASE version # 0
    <3>1. PICK k \in Versions : version = Cardinality(Upto(k)) /\ Before(k) \subseteq made
      BY <1>1, <1>2, <2>2 DEF FileInv
    <3>2. k \in 1..Len(Script)
      BY <1>1, ScriptFacts DEF Versions
    <3>3. ASSUME NEW j \in DOMAIN Script, Script[j].op = "ddl", Cardinality(Upto(j)) < version
          PROVE  Script[j].makes \in Before(k)
      <4>1. j \in Int /\ j >= 1 /\ k \in Int
        BY <1>1, <3>2, ScriptFacts
      <4>2. k <= j => Cardinality(Upto(k)) <= Cardinality(Upto(j))
        BY <1>1, <4>1, CountGrows
      <4>3. Cardinality(Upto(k)) \in Nat /\ Cardinality(Upto(j)) \in Nat
        BY <1>1, <4>1, VersionsCount
      <4>4. j \in 1..k - 1
        BY <3>1, <3>3, <4>1, <4>2, <4>3
      <4> QED BY <3>3, <4>4 DEF Before
    <3> QED BY <3>1, <3>3 DEF MadeBy, Upto
  <2> QED BY <2>1, <2>2
<1>3. MadeBy(Current) \subseteq Before(Len(Script) + 1)
  <2>1. \A j \in DOMAIN Script : j \in 1..(Len(Script) + 1) - 1
    BY <1>1, ScriptFacts
  <2> QED BY <2>1 DEF MadeBy, Before
<1> QED BY <1>1, <1>2, <1>3 DEF VersionTellsTheSchema, OpenerInv

-----------------------------------------------------------------------------
(* What a step of one process leaves of the invariant.                     *)

LEMMA SameScript ==
    ASSUME store' = store
    PROVE  /\ Script' = Script /\ Versions' = Versions /\ Current' = Current
           /\ \A k : Before(k)' = Before(k) /\ Upto(k)' = Upto(k)
BY DEF Script, Versions, Current, Before, Upto

LEMMA FileStays ==
    ASSUME FileInv, UNCHANGED <<store, version>>, made \subseteq made'
    PROVE  FileInv'
<1>1. Versions' = Versions /\ Current' = Current /\ \A k : Before(k)' = Before(k) /\ Upto(k)' = Upto(k)
  BY SameScript
<1> QED BY <1>1 DEF FileInv

(* Another process sees more tables, and keeps the lock if it has it.      *)
LEMMA OthersKept ==
    ASSUME NEW q \in Openers, OpenerInv(q), store' = store, opener'[q] = opener[q],
           made \subseteq made', (writer' = q) <=> (writer = q)
    PROVE  OpenerInv(q)'
<1>1. Script' = Script /\ \A k : Before(k)' = Before(k)
  BY SameScript
<1> QED BY <1>1 DEF OpenerInv

(* Only a file of this version or older is worked on.                      *)
LEMMA WorkedOn ==
    ASSUME DatabaseOpeningAssumption, OpeningInv, NEW p \in Openers, opener[p].at = "migrating"
    PROVE  sound = TRUE /\ version <= Current
<1>1. version \in Nat /\ Current \in Nat
  BY VersionsCount DEF OpeningInv, FileInv
<1> QED BY <1>1 DEF OpeningInv, OthersFilesKept

(* What a step has to show: the rest of it follows.                        *)
LEMMA StepOfOne ==
    ASSUME DatabaseOpeningAssumption, OpeningInv, NEW p \in Openers,
           store' = store, sound' = sound, DOMAIN opener' = Openers,
           \A q \in Openers \ {p} : opener'[q] = opener[q],
           made \subseteq made', writer' \in {writer, NoWriter, p},
           writer \in Openers \ {p} => writer' = writer,
           FileInv', OpenerInv(p)', OthersFilesKept',
           store.commits = "each" => writer' = NoWriter /\ (Tolerant => refused' = refused)
    PROVE  OpeningInv'
<1>1. ASSUME NEW q \in Openers \ {p} PROVE OpenerInv(q)'
  <2>1. q # NoWriter
    BY DEF DatabaseOpeningAssumption
  <2>2. (writer' = q) <=> (writer = q)
    BY <2>1
  <2> QED BY <2>2, OthersKept DEF OpeningInv
<1>2. \A q \in Openers : OpenerInv(q)'
  BY <1>1
<1>3. Tolerant' = Tolerant
  BY SameScript DEF Tolerant
<1>4. store.commits = "each" => TolerantFileOpens'
  BY <1>3 DEF OpeningInv, TolerantFileOpens
<1> QED BY <1>2, <1>4 DEF OpeningInv

LEMMA ReadsKeeps == ASSUME DatabaseOpeningAssumption, OpeningInv, NEW p \in Openers, Reads(p)
                    PROVE  OpeningInv'
<1>1. /\ UNCHANGED <<store, made, version, sound, writer, refused>>
      /\ opener[p].at \in {"closed", "unavailable"} /\ OpenerInv(p) /\ FileInv
      /\ store \in Stores /\ DOMAIN opener = Openers
  BY DEF Reads, OpeningInv
<1>2. /\ opener[p].made = {} /\ writer # p
  BY <1>1 DEF OpenerInv
<1>3. FileInv'
  BY <1>1, FileStays
<1>4. Script' = Script /\ Current' = Current /\ \A k : Before(k)' = Before(k)
  BY <1>1, SameScript
<1>5. version \in Nat /\ Current \in Nat
  BY <1>1, VersionsCount DEF FileInv
<1>6. CASE Goes(p, "unavailable") /\ (~sound \/ version > Current)
  <2>1. /\ DOMAIN opener' = Openers /\ \A q \in Openers \ {p} : opener'[q] = opener[q]
        /\ opener'[p] = [at |-> "unavailable", pc |-> opener[p].pc, made |-> opener[p].made]
    BY <1>1, <1>6 DEF Goes, OpenerInv
  <2>2. OpenerInv(p)'
    BY <1>1, <1>2, <2>1 DEF OpenerInv
  <2>3. OthersFilesKept'
    BY <1>1, <1>4, <2>1 DEF OthersFilesKept, OpeningInv
  <2> QED BY <1>1, <1>2, <1>3, <2>1, <2>2, <2>3, StepOfOne DEF OpeningInv
<1>7. CASE /\ sound /\ version <= Current
           /\ opener' = [opener EXCEPT ![p] =
                [at |-> "migrating", pc |-> StartOf(version), made |-> {}]]
  <2>1. /\ DOMAIN opener' = Openers /\ \A q \in Openers \ {p} : opener'[q] = opener[q]
        /\ opener'[p] = [at |-> "migrating", pc |-> StartOf(version), made |-> {}]
    BY <1>1, <1>7
  <2>2. /\ StartOf(version) \in 1..Len(Script) + 1 /\ Before(StartOf(version)) \subseteq made
    BY <1>1, <1>7, StartsRight
  <2>3. Before(StartOf(version))' = Before(StartOf(version)) /\ StartOf(version)' = StartOf(version)
    BY <1>1 DEF Before, StartOf, Script, Versions
  <2>4. \A k : Before(k)' = Before(k)
    BY <1>1, SameScript
  <2>5. OpenerInv(p)'
    BY <1>1, <1>2, <1>4, <2>1, <2>2, <2>4 DEF OpenerInv
  <2>6. OthersFilesKept'
    BY <1>1, <1>4, <1>5, <1>7 DEF OthersFilesKept
  <2> QED BY <1>1, <1>2, <1>3, <2>1, <2>5, <2>6, StepOfOne DEF OpeningInv
<1> QED BY <1>6, <1>7 DEF Reads

LEMMA CreatesKeeps == ASSUME DatabaseOpeningAssumption, OpeningInv, NEW p \in Openers, Creates(p)
                      PROVE  OpeningInv'
<1>1. /\ UNCHANGED <<store, version, sound, writer, opens, copies, refused>>
      /\ opener[p].at = "migrating" /\ OpenerInv(p) /\ FileInv
      /\ store \in Stores /\ DOMAIN opener = Openers
      /\ opener[p].pc <= Len(Script) /\ writer \in {NoWriter, p}
      /\ Script[opener[p].pc].op = "ddl"
  BY DEF Creates, Runs, Now, OpeningInv
<1>2. /\ Script' = Script /\ Current' = Current /\ \A k : Before(k)' = Before(k)
  BY <1>1, SameScript
<1>3. PICK k \in 1..Len(Script) : /\ k = opener[p].pc /\ k # Len(Script) /\ k + 1 \in 1..Len(Script)
                                  /\ k + 1 \in 1..Len(Script) + 1
  <2>1. opener[p].pc \in 1..Len(Script) + 1
    BY <1>1 DEF OpenerInv
  <2>2. opener[p].pc # Len(Script) /\ Len(Script) \in Nat
    BY <1>1, ScriptFacts
  <2> QED BY <1>1, <2>1, <2>2
<1>4. Before(k + 1) = Before(k) \cup {Script[k].makes}
  BY <1>1, <1>3, NextPlace
<1>5. sound = TRUE /\ version <= Current /\ version \in Nat /\ Current \in Nat
  BY <1>1, WorkedOn, VersionsCount DEF FileInv
<1>6. OthersFilesKept'
  BY <1>1, <1>2, <1>5 DEF OthersFilesKept
<1>7. CASE /\ writer = p
           /\ opener' = [opener EXCEPT ![p].pc = @ + 1, ![p].made = @ \cup {Now(p).makes}]
           /\ UNCHANGED made
  <2>1. /\ DOMAIN opener' = Openers /\ \A q \in Openers \ {p} : opener'[q] = opener[q]
        /\ opener'[p] = [opener[p] EXCEPT !.pc = k + 1, !.made = @ \cup {Script[k].makes}]
    BY <1>1, <1>3, <1>7 DEF Now
  <2>2. opener'[p] = [at |-> "migrating", pc |-> k + 1, made |-> opener[p].made \cup {Script[k].makes}]
    BY <1>1, <2>1 DEF OpenerInv
  <2>3. OpenerInv(p)'
    <3>1. Before(k + 1) \subseteq made' \cup opener'[p].made
      <4>1. Before(k) \subseteq made \cup opener[p].made
        BY <1>1, <1>3 DEF OpenerInv
      <4>2. opener'[p].made = opener[p].made \cup {Script[k].makes}
        BY <2>2
      <4>3. made' = made
        BY <1>7
      <4> QED BY <1>4, <4>1, <4>2, <4>3
    <3>2. writer' = p /\ Len(Script)' = Len(Script)
      BY <1>1, <1>2, <1>7
    <3> QED BY <1>2, <1>3, <2>2, <3>1, <3>2 DEF OpenerInv
  <2>4. FileInv'
    BY <1>1, <1>7, FileStays
  <2> QED BY <1>1, <1>6, <1>7, <2>1, <2>3, <2>4, StepOfOne DEF OpeningInv
<1>8. CASE /\ writer # p
           /\ opener' = [opener EXCEPT ![p].pc = @ + 1]
           /\ made' = made \cup {Now(p).makes}
  <2>1. /\ DOMAIN opener' = Openers /\ \A q \in Openers \ {p} : opener'[q] = opener[q]
        /\ opener'[p] = [opener[p] EXCEPT !.pc = k + 1]
        /\ made' = made \cup {Script[k].makes}
    BY <1>1, <1>3, <1>8 DEF Now
  <2>2. opener'[p] = [at |-> "migrating", pc |-> k + 1, made |-> opener[p].made]
    BY <1>1, <2>1 DEF OpenerInv
  <2>3. OpenerInv(p)'
    BY <1>1, <1>2, <1>3, <1>4, <1>8, <2>1, <2>2 DEF OpenerInv
  <2>4. FileInv'
    BY <1>1, <2>1, FileStays
  <2> QED BY <1>1, <1>6, <1>8, <2>1, <2>3, <2>4, StepOfOne DEF OpeningInv
<1> QED BY <1>7, <1>8 DEF Creates

(* The process gives up; what it had not committed is gone.                *)
LEMMA GivesUpKeeps ==
    ASSUME DatabaseOpeningAssumption, OpeningInv, NEW p \in Openers,
           UNCHANGED <<store, made, version, sound>>,
           NEW place, place \in {"closed", "unavailable"},
           opener' = [opener EXCEPT ![p] = [at |-> place, pc |-> 0, made |-> {}]],
           writer' = IF writer = p THEN NoWriter ELSE writer,
           store.commits = "each" /\ Tolerant => refused' = refused
    PROVE  OpeningInv'
<1>1. DOMAIN opener = Openers /\ FileInv /\ p # NoWriter
  BY DEF OpeningInv, DatabaseOpeningAssumption
<1>2. /\ DOMAIN opener' = Openers /\ \A q \in Openers \ {p} : opener'[q] = opener[q]
      /\ opener'[p] = [at |-> place, pc |-> 0, made |-> {}]
  BY <1>1
<1>3. FileInv'
  BY <1>1, FileStays
<1>4. OpenerInv(p)'
  BY <1>1, <1>2 DEF OpenerInv
<1>5. OthersFilesKept'
  BY <1>2, SameScript DEF OthersFilesKept, OpeningInv
<1> QED BY <1>2, <1>3, <1>4, <1>5, StepOfOne DEF OpeningInv

LEMMA SetsVersionKeeps ==
    ASSUME DatabaseOpeningAssumption, OpeningInv, NEW p \in Openers, SetsVersion(p)
    PROVE  OpeningInv'
<1>1. /\ UNCHANGED <<store, sound, opens, copies, refused>>
      /\ opener[p].at = "migrating" /\ OpenerInv(p) /\ FileInv
      /\ store \in Stores /\ DOMAIN opener = Openers
      /\ opener[p].pc <= Len(Script) /\ writer \in {NoWriter, p}
      /\ Script[opener[p].pc].op = "version"
  BY DEF SetsVersion, Runs, Now, OpeningInv
<1>2. /\ Script' = Script /\ Current' = Current /\ Versions' = Versions
      /\ \A k : Before(k)' = Before(k) /\ Upto(k)' = Upto(k)
  BY <1>1, SameScript
<1>3. PICK k \in 1..Len(Script) : k = opener[p].pc /\ k \in Versions /\ k \in Int
                                  /\ k + 1 \in 1..Len(Script) + 1
  BY <1>1, ScriptFacts DEF OpenerInv, Versions
<1>4. Before(k + 1) = Before(k)
  BY <1>1, <1>3, NextPlace
<1>5. sound = TRUE /\ version <= Current /\ version \in Nat /\ Current \in Nat
  BY <1>1, WorkedOn, VersionsCount DEF FileInv
<1>6. CASE /\ version' = Reached(p)
           /\ made' = made \cup opener[p].made
           /\ writer' = NoWriter
           /\ opener' = [opener EXCEPT ![p] = [at |-> "migrating", pc |-> @.pc + 1, made |-> {}]]
  <2>1. /\ DOMAIN opener' = Openers /\ \A q \in Openers \ {p} : opener'[q] = opener[q]
        /\ opener'[p] = [at |-> "migrating", pc |-> k + 1, made |-> {}]
    BY <1>1, <1>3, <1>6
  <2>2. version' = Cardinality(Upto(k)) /\ version' \in Nat /\ version' <= Current
    BY <1>1, <1>3, <1>6, VersionsCount DEF Reached, Upto
  <2>3. Before(k) \subseteq made'
    BY <1>1, <1>3, <1>6 DEF OpenerInv
  <2>4. FileInv'
    BY <1>2, <1>3, <2>2, <2>3 DEF FileInv
  <2>5. OpenerInv(p)'
    <3>1. p # NoWriter
      BY DEF DatabaseOpeningAssumption
    <3> QED BY <1>1, <1>2, <1>3, <1>4, <1>6, <2>1, <2>3, <3>1 DEF OpenerInv
  <2>6. OthersFilesKept'
    BY <1>1, <1>2, <1>5, <2>2 DEF OthersFilesKept
  <2>7. made \subseteq made'
    BY <1>6
  <2> QED BY <1>1, <1>6, <2>1, <2>4, <2>5, <2>6, <2>7, StepOfOne DEF OpeningInv
<1>7. CASE /\ store.commits # "each" /\ opener[p].pc # Len(Script)
           /\ writer' = p
           /\ opener' = [opener EXCEPT ![p].pc = @ + 1]
           /\ UNCHANGED <<version, made>>
  <2>1. /\ DOMAIN opener' = Openers /\ \A q \in Openers \ {p} : opener'[q] = opener[q]
        /\ opener'[p] = [opener[p] EXCEPT !.pc = k + 1]
    BY <1>1, <1>3, <1>7
  <2>2. opener'[p] = [at |-> "migrating", pc |-> k + 1, made |-> opener[p].made]
    BY <1>1, <2>1 DEF OpenerInv
  <2>3. FileInv'
    BY <1>1, <1>7, FileStays
  <2>4. k + 1 \in 1..Len(Script)
    BY <1>1, <1>3, <1>7, ScriptFacts
  <2>5. OpenerInv(p)'
    BY <1>1, <1>2, <1>3, <1>4, <1>7, <2>2, <2>4 DEF OpenerInv
  <2>6. OthersFilesKept'
    BY <1>1, <1>2, <1>5, <1>7 DEF OthersFilesKept
  <2> QED BY <1>1, <1>7, <2>1, <2>3, <2>5, <2>6, StepOfOne
         DEF OpeningInv, DatabaseOpeningAssumption
<1> QED BY <1>6, <1>7 DEF SetsVersion

LEMMA ReadyKeeps == ASSUME DatabaseOpeningAssumption, OpeningInv, NEW p \in Openers, Ready(p)
                    PROVE  OpeningInv'
<1>1. /\ UNCHANGED <<store, made, version, sound, writer, refused>>
      /\ opener[p].at = "migrating" /\ opener[p].pc > Len(Script) /\ OpenerInv(p) /\ FileInv
      /\ store \in Stores /\ DOMAIN opener = Openers
  BY DEF Ready, OpeningInv
<1>2. /\ DOMAIN opener' = Openers /\ \A q \in Openers \ {p} : opener'[q] = opener[q]
      /\ opener'[p] = [opener[p] EXCEPT !.at = "healthy"]
  BY <1>1 DEF Ready, Goes
<1>3. opener[p].pc = Len(Script) + 1 /\ writer # p /\ opener[p].made = {}
  BY <1>1, ScriptFacts DEF OpenerInv
<1>4. Script' = Script /\ Current' = Current /\ \A k : Before(k)' = Before(k)
  BY <1>1, SameScript
<1>5. OpenerInv(p)'
  BY <1>1, <1>2, <1>3, <1>4 DEF OpenerInv
<1>6. FileInv'
  BY <1>1, FileStays
<1>7. sound = TRUE /\ version <= Current /\ version \in Nat /\ Current \in Nat
  BY <1>1, WorkedOn, VersionsCount DEF FileInv
<1>8. OthersFilesKept'
  BY <1>1, <1>4, <1>7 DEF OthersFilesKept
<1> QED BY <1>1, <1>2, <1>5, <1>6, <1>8, StepOfOne DEF OpeningInv

LEMMA OpeningKeeps ==
    ASSUME DatabaseOpeningAssumption, OpeningInv, [OpeningNext]_openingVars
    PROVE  OpeningInv'
<1>1. ASSUME NEW p \in Openers, AlreadyExists(p) PROVE OpeningInv'
  <2>1. ~(Script[opener[p].pc].op = "ddl" /\ Script[opener[p].pc].tolerant)
    BY <1>1 DEF AlreadyExists, Now
  <2>2. opener[p].pc \in DOMAIN Script
    <3>1. OpenerInv(p) /\ opener[p].at = "migrating" /\ opener[p].pc <= Len(Script) /\ store \in Stores
      BY <1>1 DEF AlreadyExists, Runs, OpeningInv
    <3> QED BY <3>1, ScriptFacts DEF OpenerInv
  <2>3. ~Tolerant
    BY <1>1, <2>1, <2>2 DEF AlreadyExists, Now, Tolerant
  <2>4. [Fresh EXCEPT !.at = "unavailable"] = [at |-> "unavailable", pc |-> 0, made |-> {}]
    BY DEF Fresh
  <2> QED BY <1>1, <2>3, <2>4, GivesUpKeeps DEF AlreadyExists
<1>2. ASSUME NEW p \in Openers, Locked(p) PROVE OpeningInv'
  <2>1. store.commits # "each"
    BY <1>2 DEF Locked, OpeningInv
  <2>2. writer # p
    BY <1>2 DEF Locked
  <2>3. [Fresh EXCEPT !.at = "unavailable"] = [at |-> "unavailable", pc |-> 0, made |-> {}]
    BY DEF Fresh
  <2> QED BY <1>2, <2>1, <2>2, <2>3, GivesUpKeeps DEF Locked
<1>3. ASSUME NEW p \in Openers, Leaves(p) PROVE OpeningInv'
  BY <1>3, GivesUpKeeps DEF Leaves, Fresh
<1>4. CASE UNCHANGED openingVars
  <2>1. UNCHANGED <<store, made, version, sound, opener, writer, refused>>
    BY <1>4 DEF openingVars
  <2>2. Tolerant' = Tolerant /\ Current' = Current
    BY <2>1, SameScript DEF Tolerant
  <2>3. FileInv'
    BY <2>1, FileStays DEF OpeningInv
  <2>4. \A p \in Openers : OpenerInv(p)'
    BY <2>1, OthersKept DEF OpeningInv
  <2>5. OthersFilesKept'
    BY <2>1, <2>2 DEF OpeningInv, OthersFilesKept
  <2>6. TolerantFileOpens' <=> TolerantFileOpens
    BY <2>1, <2>2 DEF TolerantFileOpens
  <2> QED BY <2>1, <2>3, <2>4, <2>5, <2>6 DEF OpeningInv
<1> QED BY <1>1, <1>2, <1>3, <1>4, ReadsKeeps, CreatesKeeps, SetsVersionKeeps, ReadyKeeps
        DEF OpeningNext

LEMMA OpeningStarts == ASSUME DatabaseOpeningAssumption, OpeningInit PROVE OpeningInv
<1>1. /\ store \in Stores /\ made = {} /\ opener = [p \in Openers |-> Fresh] /\ writer = NoWriter
      /\ refused = FALSE /\ version \in {0, Current + 1}
  BY DEF OpeningInit
<1>2. Current \in Nat /\ NoWriter \notin Openers
  BY <1>1, VersionsCount DEF DatabaseOpeningAssumption
<1>3. FileInv
  BY <1>1, <1>2 DEF FileInv
<1>4. \A p \in Openers : OpenerInv(p)
  BY <1>1, <1>2 DEF OpenerInv, Fresh
<1>5. OthersFilesKept /\ TolerantFileOpens
  BY <1>1 DEF OthersFilesKept, TolerantFileOpens, Fresh
<1> QED BY <1>1, <1>3, <1>4, <1>5 DEF OpeningInv

LEMMA OpeningAlways == ASSUME DatabaseOpeningAssumption PROVE OpeningSpec => []OpeningInv
<1>1. OpeningInit => OpeningInv
  BY OpeningStarts
<1>2. OpeningInv /\ [OpeningNext]_openingVars => OpeningInv'
  BY OpeningKeeps
<1> QED BY <1>1, <1>2, PTL DEF OpeningSpec

(* However many processes open a store together and wherever they are cut  *)
(* off, its schema_version and its health tell the truth, for any list of  *)
(* statements (initialize and _migrate of the repositories).               *)
THEOREM VersionIsTrue ==
    ASSUME DatabaseOpeningAssumption PROVE OpeningSpec => []VersionTellsTheSchema
<1>1. OpeningInv => VersionTellsTheSchema
  BY TruthFollows DEF OpeningInv
<1>2. OpeningSpec => []OpeningInv
  BY OpeningAlways
<1> QED BY <1>1, <1>2, PTL

(* A damaged file, or one of a newer version, is left as it was            *)
(* (_validate_or_repair_schema, and initialize of the other repositories). *)
THEOREM OthersFilesAreKept ==
    ASSUME DatabaseOpeningAssumption PROVE OpeningSpec => []OthersFilesKept
<1>1. OpeningInv => OthersFilesKept
  BY DEF OpeningInv
<1>2. OpeningSpec => []OpeningInv
  BY OpeningAlways
<1> QED BY <1>1, <1>2, PTL

(* A store that says IF NOT EXISTS in all its statements and commits each  *)
(* migration with its version never refuses a sound file.                  *)
THEOREM TolerantStoresOpen ==
    ASSUME DatabaseOpeningAssumption PROVE OpeningSpec => []TolerantFileOpens
<1>1. OpeningInv => TolerantFileOpens
  BY DEF OpeningInv, TolerantFileOpens
<1>2. OpeningSpec => []OpeningInv
  BY OpeningAlways
<1> QED BY <1>1, <1>2, PTL

(* The three together, of every store and any number of openings.          *)
THEOREM OpeningsAreSafe ==
    ASSUME DatabaseOpeningAssumption PROVE OpeningSpec => []OpeningIsSafe
<1>1. VersionTellsTheSchema /\ TolerantFileOpens /\ OthersFilesKept => OpeningIsSafe
  BY DEF OpeningIsSafe
<1> QED BY <1>1, VersionIsTrue, OthersFilesAreKept, TolerantStoresOpen, PTL

-----------------------------------------------------------------------------
(* Messages of a chat: Telegram.                                           *)

ListenerFields == {"at", "offset", "batch", "polls", "once", "content"}

(* A listener has handled, once each, what Telegram keeps below its        *)
(* offset, and nothing from there on; its batch begins there.              *)
HandlingInv(l) ==
    /\ DOMAIN listener[l] = ListenerFields
    /\ DOMAIN handled[l] = 1..Updates
    /\ \A u \in 1..Updates : handled[l][u] \in {0, 1}
    /\ listener[l].offset \in 0..arrived + 1
    /\ \A u \in 1..Updates : u >= listener[l].offset => handled[l][u] = 0
    /\ \A u \in kept..listener[l].offset - 1 : handled[l][u] = 1

BatchInv(l) ==
    /\ \E a, b \in Nat : listener[l].batch = a..b
    /\ \A u \in listener[l].batch :
         /\ u \in 1..arrived /\ u >= listener[l].offset
         /\ \A v \in kept..u : v >= listener[l].offset => v \in listener[l].batch

StandingInv(l) ==
    /\ approver[l] = "standing" => listener[l].at \in {"capturing", "done"}
    /\ listener[l].at = "capturing" =>
         listener[l].content /\ Sent[listener[l].offset - 1] = "screenshot"

TelegramInv ==
    /\ arrived \in 0..Updates /\ kept \in 1..arrived + 1
    /\ DOMAIN listener = Listeners /\ DOMAIN handled = Listeners /\ DOMAIN approver = Listeners
    /\ \A u \in 1..kept - 1 : \E l \in Listeners : handled[l][u] = 1
    /\ \A l \in Listeners : HandlingInv(l) /\ BatchInv(l) /\ StandingInv(l)

LEMMA TelegramStarts == ASSUME TelegramAssumption, TelegramInit PROVE TelegramInv
<1>1. /\ arrived = 0 /\ kept = 1 /\ Updates \in Nat
      /\ DOMAIN listener = Listeners
      /\ approver = [l \in Listeners |-> "prompt"]
      /\ handled = [l \in Listeners |-> [u \in 1..Updates |-> 0]]
  BY DEF TelegramInit, TelegramAssumption
<1>2. ASSUME NEW l \in Listeners
      PROVE  /\ DOMAIN listener[l] = ListenerFields
             /\ listener[l].at = "polling" /\ listener[l].offset = 0 /\ listener[l].batch = {}
  BY DEF TelegramInit, NoOffset, ListenerFields
<1>3. \A l \in Listeners : HandlingInv(l)
  BY <1>1, <1>2 DEF HandlingInv
<1>4. \A l \in Listeners : BatchInv(l)
  <2>1. 1..0 = {} /\ 1 \in Nat /\ 0 \in Nat
    OBVIOUS
  <2> QED BY <1>2, <2>1 DEF BatchInv
<1>5. \A l \in Listeners : StandingInv(l)
  BY <1>1, <1>2 DEF StandingInv
<1> QED BY <1>1, <1>3, <1>4, <1>5 DEF TelegramInv

(* A listener that does nothing sees only more messages arrive, and more   *)
(* of them forgotten.                                                      *)
LEMMA OthersWait ==
    ASSUME TelegramAssumption, TelegramInv, NEW l \in Listeners,
           listener'[l] = listener[l], handled'[l] = handled[l], approver'[l] = approver[l],
           arrived' \in Nat, arrived <= arrived', kept' \in Nat, kept <= kept'
    PROVE  HandlingInv(l)' /\ BatchInv(l)' /\ StandingInv(l)'
<1>1. HandlingInv(l) /\ BatchInv(l) /\ StandingInv(l) /\ arrived \in Nat /\ kept \in Nat
  BY DEF TelegramInv, TelegramAssumption
<1>2. HandlingInv(l)'
  <2>1. kept'..listener[l].offset - 1 \subseteq kept..listener[l].offset - 1
    BY <1>1 DEF HandlingInv
  <2>2. listener[l].offset \in 0..arrived' + 1
    BY <1>1 DEF HandlingInv
  <2> QED BY <1>1, <2>1, <2>2 DEF HandlingInv
<1>3. BatchInv(l)'
  <2>1. \A u \in listener[l].batch : kept'..u \subseteq kept..u /\ u \in 1..arrived'
    BY <1>1 DEF BatchInv
  <2> QED BY <1>1, <2>1 DEF BatchInv
<1>4. StandingInv(l)'
  BY <1>1 DEF StandingInv
<1> QED BY <1>2, <1>3, <1>4

(* What Telegram forgets at a confirmation has been handled by whoever     *)
(* confirms.                                                               *)
LEMMA ConfirmForgets ==
    ASSUME TelegramAssumption, TelegramInv, NEW l \in Listeners,
           kept' \in {kept, Confirms(listener[l].offset)}, UNCHANGED <<arrived, handled>>
    PROVE  /\ kept' \in 1..arrived + 1 /\ kept <= kept' /\ kept' \in Nat /\ kept \in Nat
           /\ \A u \in 1..kept' - 1 : \E m \in Listeners : handled'[m][u] = 1
<1>1. HandlingInv(l) /\ arrived \in Nat /\ kept \in 1..arrived + 1
  BY DEF TelegramInv, TelegramAssumption
<1>2. listener[l].offset \in 0..arrived + 1
  BY <1>1 DEF HandlingInv
<1> DEFINE offset == listener[l].offset
<1>3. \/ kept' = kept
      \/ kept' = offset /\ offset > kept
  BY DEF Confirms
<1>4. /\ kept \in Nat /\ offset \in Int /\ \A u \in kept..offset - 1 : handled[l][u] = 1
      /\ \A u \in 1..kept - 1 : \E m \in Listeners : handled[m][u] = 1
  BY <1>1, <1>2 DEF HandlingInv, TelegramInv
<1> HIDE DEF offset
<1>5. kept' \in 1..arrived + 1 /\ kept <= kept' /\ kept' \in Nat
  <2>1. offset \in 0..arrived + 1
    BY <1>2 DEF offset
  <2> QED BY <1>1, <1>3, <1>4, <2>1
<1>6. ASSUME NEW u \in 1..kept' - 1 PROVE \E m \in Listeners : handled'[m][u] = 1
  <2>1. CASE u \in 1..kept - 1
    BY <1>4, <2>1
  <2>2. CASE u \notin 1..kept - 1
    <3>1. u \in kept..offset - 1
      <4>1. kept' # kept
        BY <2>2
      <4>2. kept' = offset
        BY <1>3, <4>1
      <4>3. u \in 1..offset - 1
        BY <4>2
      <4> QED BY <1>4, <2>2, <4>3
    <3> QED BY <1>4, <3>1
  <2> QED BY <2>1, <2>2
<1> QED BY <1>4, <1>5, <1>6

(* One listener moves.                                                     *)
LEMMA OneMoves ==
    ASSUME TelegramAssumption, TelegramInv, NEW l \in Listeners,
           arrived' = arrived, kept' \in 1..arrived + 1, kept <= kept',
           DOMAIN listener' = Listeners, DOMAIN handled' = Listeners, DOMAIN approver' = Listeners,
           \A m \in Listeners \ {l} : /\ listener'[m] = listener[m] /\ handled'[m] = handled[m]
                                      /\ approver'[m] = approver[m],
           \A u \in 1..kept' - 1 : \E m \in Listeners : handled'[m][u] = 1,
           HandlingInv(l)', BatchInv(l)', StandingInv(l)'
    PROVE  TelegramInv'
<1>1. arrived \in Nat /\ kept \in Nat /\ kept' \in Nat /\ arrived' \in Nat /\ arrived <= arrived'
  BY DEF TelegramInv, TelegramAssumption
<1>2. ASSUME NEW m \in Listeners PROVE HandlingInv(m)' /\ BatchInv(m)' /\ StandingInv(m)'
  <2>1. CASE m = l
    BY <2>1
  <2>2. CASE m # l
    BY <1>1, <2>2, OthersWait
  <2> QED BY <2>1, <2>2
<1> QED BY <1>1, <1>2 DEF TelegramInv

(* The first of a batch, and what is left of it.                           *)
LEMMA FirstOfBatch ==
    ASSUME TelegramAssumption, TelegramInv, NEW l \in Listeners, listener[l].batch # {}
    PROVE  /\ First(l) \in listener[l].batch /\ First(l) \in 1..Updates
           /\ First(l) \in 1..arrived /\ First(l) >= listener[l].offset
           /\ \A u \in listener[l].batch : First(l) <= u
           /\ Past(listener[l].offset, First(l)) = First(l) + 1
           /\ \E a, b \in Nat : listener[l].batch \ {First(l)} = a..b
<1>1. PICK a, b \in Nat : listener[l].batch = a..b
  BY DEF TelegramInv, BatchInv
<1>2. a \in listener[l].batch /\ \A u \in listener[l].batch : a <= u
  BY <1>1
<1>3. /\ First(l) \in listener[l].batch /\ \A u \in listener[l].batch : First(l) <= u
  BY <1>2 DEF First
<1>4. First(l) = a
  BY <1>1, <1>2, <1>3
<1>5. listener[l].batch \ {First(l)} = (a + 1)..b
  BY <1>1, <1>4
<1>6. /\ First(l) \in 1..arrived /\ First(l) >= listener[l].offset
      /\ listener[l].offset \in 0..arrived + 1 /\ arrived \in 0..Updates /\ Updates \in Nat
  BY <1>3 DEF TelegramInv, BatchInv, HandlingInv, TelegramAssumption
<1>7. Past(listener[l].offset, First(l)) = First(l) + 1
  BY <1>6 DEF Past
<1> QED BY <1>1, <1>3, <1>5, <1>6, <1>7

(* The first of a batch is handled: the offset passes it.                  *)
LEMMA TakingKeeps ==
    ASSUME TelegramAssumption, TelegramInv, NEW l \in Listeners, listener[l].batch # {},
           Handles(l, First(l)), UNCHANGED <<arrived, kept>>,
           NEW place, listener' = [listener EXCEPT ![l] = [Taken(l) EXCEPT !.at = place]],
           DOMAIN approver' = Listeners, \A m \in Listeners \ {l} : approver'[m] = approver[m],
           IF place = "capturing" THEN listener[l].content /\ Sent[First(l)] = "screenshot"
                                  ELSE approver'[l] # "standing"
    PROVE  TelegramInv'
<1> DEFINE u == First(l)
<1>1. /\ u \in listener[l].batch /\ u \in 1..Updates /\ u \in 1..arrived /\ u >= listener[l].offset
      /\ \A v \in listener[l].batch : u <= v
      /\ Past(listener[l].offset, u) = u + 1
      /\ \E a, b \in Nat : listener[l].batch \ {u} = a..b
  BY FirstOfBatch
<1>2. /\ arrived \in 0..Updates /\ kept \in 1..arrived + 1 /\ Updates \in Nat
      /\ DOMAIN listener = Listeners /\ DOMAIN handled = Listeners
      /\ HandlingInv(l) /\ BatchInv(l) /\ StandingInv(l)
      /\ \A v \in 1..kept - 1 : \E m \in Listeners : handled[m][v] = 1
  BY DEF TelegramInv, TelegramAssumption
<1>3. /\ handled' = [handled EXCEPT ![l][u] = @ + 1]
  BY DEF Handles
<1> HIDE DEF u
<1>4. /\ DOMAIN handled' = Listeners /\ DOMAIN handled'[l] = 1..Updates
      /\ \A m \in Listeners \ {l} : handled'[m] = handled[m]
      /\ handled'[l][u] = handled[l][u] + 1
      /\ \A v \in 1..Updates : v # u => handled'[l][v] = handled[l][v]
  BY <1>1, <1>2, <1>3 DEF HandlingInv
<1>5. handled[l][u] = 0 /\ handled'[l][u] = 1
  BY <1>1, <1>2, <1>4 DEF HandlingInv
<1>6. /\ DOMAIN listener' = Listeners /\ \A m \in Listeners \ {l} : listener'[m] = listener[m]
      /\ DOMAIN listener'[l] = ListenerFields
      /\ listener'[l].at = place /\ listener'[l].offset = u + 1
      /\ listener'[l].batch = listener[l].batch \ {u} /\ listener'[l].content = listener[l].content
  BY <1>1, <1>2 DEF Taken, HandlingInv, ListenerFields, u
<1>7. HandlingInv(l)'
  <2>1. \A v \in 1..Updates : handled'[l][v] \in {0, 1}
    BY <1>2, <1>4, <1>5 DEF HandlingInv
  <2>2. ASSUME NEW v \in 1..Updates, v >= u + 1 PROVE handled'[l][v] = 0
    <3>1. v # u /\ v >= listener[l].offset
      BY <1>1, <1>2, <2>2 DEF HandlingInv
    <3> QED BY <1>2, <1>4, <3>1 DEF HandlingInv
  <2>3. ASSUME NEW v \in kept..u PROVE handled'[l][v] = 1
    <3>1. v \in 1..Updates /\ v <= u /\ listener[l].offset \in Int
      BY <1>1, <1>2 DEF HandlingInv
    <3>2. CASE v = u
      BY <1>5, <3>2
    <3>3. CASE v # u /\ v < listener[l].offset
      <4>1. v \in kept..listener[l].offset - 1
        BY <1>2, <3>1, <3>3
      <4> QED BY <1>2, <1>4, <3>1, <3>3, <4>1 DEF HandlingInv
    <3>4. CASE v # u /\ v >= listener[l].offset
      <4>1. v \in listener[l].batch
        BY <1>1, <1>2, <3>4 DEF BatchInv
      <4> QED BY <1>1, <3>1, <3>4, <4>1
    <3> QED BY <3>1, <3>2, <3>3, <3>4
  <2>4. u + 1 \in 0..arrived + 1 /\ (u + 1) - 1 = u
    BY <1>1, <1>2
  <2> QED BY <1>4, <1>6, <2>1, <2>2, <2>3, <2>4 DEF HandlingInv
<1>8. BatchInv(l)'
  <2>1. ASSUME NEW w \in listener[l].batch \ {u}
        PROVE  /\ w \in 1..arrived /\ w >= u + 1
               /\ \A v \in kept..w : v >= u + 1 => v \in listener[l].batch \ {u}
    <3>1. w \in 1..arrived /\ u <= w /\ w # u
      BY <1>1, <1>2 DEF BatchInv
    <3>2. listener[l].offset \in Int
      BY <1>2 DEF HandlingInv
    <3>3. ASSUME NEW v \in kept..w, v >= u + 1 PROVE v \in listener[l].batch \ {u}
      <4>1. v >= listener[l].offset /\ v # u
        BY <1>1, <1>2, <3>2, <3>3
      <4> QED BY <1>2, <3>3, <4>1 DEF BatchInv
    <3> QED BY <1>1, <3>1, <3>3
  <2>2. \E a, b \in Nat : listener'[l].batch = a..b
    <3>1. PICK a \in Nat, b \in Nat : listener[l].batch \ {u} = a..b
      BY <1>1
    <3>2. listener'[l].batch = a..b
      BY <1>6, <3>1
    <3> QED BY <3>2
  <2>3. ASSUME NEW w \in listener'[l].batch
        PROVE  /\ w \in 1..arrived' /\ w >= listener'[l].offset
               /\ \A v \in kept'..w : v >= listener'[l].offset => v \in listener'[l].batch
    BY <1>6, <2>1
  <2> QED BY <2>2, <2>3 DEF BatchInv
<1>9. StandingInv(l)'
  <2>1. (u + 1) - 1 = u
    BY <1>1
  <2> QED BY <1>6, <2>1 DEF StandingInv, u
<1>10. \A v \in 1..kept' - 1 : \E m \in Listeners : handled'[m][v] = 1
  <2>1. ASSUME NEW v \in 1..kept - 1 PROVE \E m \in Listeners : handled'[m][v] = 1
    <3>1. PICK m \in Listeners : handled[m][v] = 1
      BY <1>2
    <3>2. CASE m = l
      BY <1>2, <1>4, <1>5, <3>1, <3>2
    <3>3. CASE m # l
      BY <1>4, <3>1, <3>3
    <3> QED BY <3>2, <3>3
  <2> QED BY <2>1
<1> QED BY <1>2, <1>4, <1>6, <1>7, <1>8, <1>9, <1>10, OneMoves

(* A listener goes on, with nothing changed but its place.                 *)
LEMMA GoingOnKeeps ==
    ASSUME TelegramAssumption, TelegramInv, NEW l \in Listeners,
           UNCHANGED <<arrived, kept, handled>>,
           NEW place, place # "capturing",
           listener' = [listener EXCEPT ![l] = [listener[l] EXCEPT !.at = place]],
           DOMAIN approver' = Listeners, \A m \in Listeners \ {l} : approver'[m] = approver[m],
           approver'[l] = "standing" => place = "done"
    PROVE  TelegramInv'
<1>1. /\ arrived \in 0..Updates /\ kept \in 1..arrived + 1 /\ Updates \in Nat
      /\ DOMAIN listener = Listeners /\ DOMAIN handled = Listeners
      /\ HandlingInv(l) /\ BatchInv(l)
      /\ \A v \in 1..kept - 1 : \E m \in Listeners : handled[m][v] = 1
  BY DEF TelegramInv, TelegramAssumption
<1>2. /\ DOMAIN listener' = Listeners /\ \A m \in Listeners \ {l} : listener'[m] = listener[m]
      /\ DOMAIN listener'[l] = ListenerFields
      /\ listener'[l].at = place /\ listener'[l].offset = listener[l].offset
      /\ listener'[l].batch = listener[l].batch
  BY <1>1 DEF HandlingInv, ListenerFields
<1>3. HandlingInv(l)'
  BY <1>1, <1>2 DEF HandlingInv
<1>4. BatchInv(l)'
  BY <1>1, <1>2 DEF BatchInv
<1>5. StandingInv(l)'
  BY <1>2 DEF StandingInv
<1> QED BY <1>1, <1>2, <1>3, <1>4, <1>5, OneMoves

LEMMA PollKeeps ==
    ASSUME TelegramAssumption, TelegramInv, NEW l \in Listeners, Poll(l) \/ PollFails(l)
    PROVE  TelegramInv'
<1>1. /\ arrived \in 0..Updates /\ kept \in 1..arrived + 1 /\ Updates \in Nat /\ arrived \in Nat
      /\ DOMAIN listener = Listeners /\ DOMAIN handled = Listeners /\ DOMAIN approver = Listeners
      /\ HandlingInv(l) /\ BatchInv(l) /\ StandingInv(l)
      /\ listener[l].at = "polling" /\ UNCHANGED <<arrived, approver, handled>>
      /\ kept' \in {kept, Confirms(listener[l].offset)}
  BY DEF TelegramInv, TelegramAssumption, Poll, PollFails, Polling
<1>2. /\ kept' \in 1..arrived + 1 /\ kept <= kept' /\ kept' \in Nat /\ kept \in Nat
      /\ \A u \in 1..kept' - 1 : \E m \in Listeners : handled'[m][u] = 1
  BY <1>1, ConfirmForgets
<1>3. /\ DOMAIN listener' = Listeners /\ \A m \in Listeners \ {l} : listener'[m] = listener[m]
      /\ DOMAIN listener'[l] = ListenerFields
      /\ listener'[l].offset = listener[l].offset /\ listener'[l].at # "capturing"
      /\ \/ listener'[l].batch = listener[l].batch
         \/ kept' = Confirms(listener[l].offset) /\ listener'[l].batch = kept'..arrived
  <2>1. CASE Poll(l)
    <3>1. listener' = [listener EXCEPT ![l] =
            [listener[l] EXCEPT !.polls = @ + 1, !.batch = HandedOut(listener[l].offset),
               !.at = IF HandedOut(listener[l].offset) # {} THEN "handling"
                      ELSE IF listener[l].once THEN "done" ELSE @]]
      BY <2>1 DEF Poll, Set
    <3>2. kept' = Confirms(listener[l].offset)
      BY <2>1 DEF Poll
    <3> QED BY <1>1, <3>1, <3>2 DEF HandedOut, HandlingInv, ListenerFields
  <2>2. CASE PollFails(l)
    <3>1. listener' = [listener EXCEPT ![l] =
            [listener[l] EXCEPT !.polls = @ + 1, !.at = IF listener[l].once THEN "done" ELSE @]]
      BY <2>2 DEF PollFails, Set
    <3> QED BY <1>1, <3>1 DEF HandlingInv, ListenerFields
  <2> QED BY <2>1, <2>2
<1> DEFINE batch == listener'[l].batch
<1>4. approver'[l] # "standing"
  BY <1>1 DEF StandingInv
<1>5. HandlingInv(l)'
  <2>1. kept'..listener[l].offset - 1 \subseteq kept..listener[l].offset - 1
    BY <1>1, <1>2 DEF HandlingInv
  <2> QED BY <1>1, <1>3, <2>1 DEF HandlingInv
<1>6. BatchInv(l)'
  <2>1. CASE batch = listener[l].batch
    <3>1. \A u \in batch : kept'..u \subseteq kept..u
      BY <1>1, <1>2, <2>1 DEF BatchInv
    <3> QED BY <1>1, <1>3, <2>1, <3>1 DEF BatchInv
  <2>2. CASE kept' = Confirms(listener[l].offset) /\ batch = kept'..arrived
    <3>1. kept' >= listener[l].offset
      BY <1>1, <1>2, <2>2 DEF Confirms, HandlingInv
    <3>2. listener[l].offset \in Int
      BY <1>1 DEF HandlingInv
    <3>3. \A u \in batch : /\ u \in 1..arrived /\ u >= listener[l].offset
                           /\ \A v \in kept'..u : v \in batch
      BY <1>1, <1>2, <2>2, <3>1, <3>2
    <3> QED BY <1>1, <1>2, <1>3, <2>2, <3>3 DEF BatchInv
  <2> QED BY <1>3, <2>1, <2>2
<1>7. StandingInv(l)'
  BY <1>3, <1>4 DEF StandingInv
<1> QED BY <1>1, <1>2, <1>3, <1>5, <1>6, <1>7, OneMoves

LEMMA TelegramKeeps ==
    ASSUME TelegramAssumption, TelegramInv, [TelegramNext]_telegramVars
    PROVE  TelegramInv'
<1>1. /\ arrived \in 0..Updates /\ kept \in 1..arrived + 1 /\ Updates \in Nat
      /\ DOMAIN listener = Listeners /\ DOMAIN approver = Listeners
      /\ \A l \in Listeners : DOMAIN listener[l] = ListenerFields /\ StandingInv(l)
  BY DEF TelegramInv, TelegramAssumption, HandlingInv
<1>2. CASE Arrives \/ UNCHANGED telegramVars
  <2>1. /\ arrived' \in 0..Updates /\ arrived <= arrived' /\ arrived' \in Nat /\ kept \in Nat
        /\ UNCHANGED <<kept, listener, approver, handled>> /\ kept \in 1..arrived' + 1
    BY <1>1, <1>2 DEF Arrives, telegramVars
  <2>2. \A l \in Listeners : HandlingInv(l)' /\ BatchInv(l)' /\ StandingInv(l)'
    BY <2>1, OthersWait
  <2> QED BY <2>1, <2>2 DEF TelegramInv
<1>3. ASSUME NEW l \in Listeners, Passes(l) \/ Raises(l) \/ CarriesOut(l) PROVE TelegramInv'
  <2>1. /\ listener[l].at = "handling" /\ listener[l].batch # {} /\ Handles(l, First(l))
        /\ UNCHANGED <<arrived, kept>> /\ approver[l] # "standing"
    BY <1>1, <1>3 DEF Passes, Raises, CarriesOut, StandingInv
  <2>2. Taken(l) = [Taken(l) EXCEPT !.at = "handling"]
    BY <1>1, <2>1 DEF Taken, ListenerFields
  <2>3. CASE Passes(l)
    BY <1>1, <2>1, <2>2, <2>3, TakingKeeps DEF Passes, Set
  <2>4. CASE Raises(l)
    BY <1>1, <2>1, <2>4, TakingKeeps DEF Raises, Set
  <2>5. CASE CarriesOut(l) /\ Sent[First(l)] = "screenshot" /\ listener[l].content
    <3>1. DOMAIN approver' = Listeners /\ \A m \in Listeners \ {l} : approver'[m] = approver[m]
      BY <1>1, <2>5 DEF CarriesOut
    <3>2. listener' = [listener EXCEPT ![l] = [Taken(l) EXCEPT !.at = "capturing"]]
      BY <2>5 DEF CarriesOut, Set
    <3> QED BY <2>1, <2>5, <3>1, <3>2, TakingKeeps
  <2>6. CASE CarriesOut(l) /\ ~(Sent[First(l)] = "screenshot" /\ listener[l].content)
    BY <1>1, <2>1, <2>6, TakingKeeps DEF CarriesOut, Set
  <2> QED BY <1>3, <2>3, <2>4, <2>5, <2>6
<1>4. ASSUME NEW l \in Listeners, Captured(l) PROVE TelegramInv'
  <2>1. /\ DOMAIN approver' = Listeners /\ \A m \in Listeners \ {l} : approver'[m] = approver[m]
        /\ approver'[l] = "prompt"
    BY <1>1, <1>4 DEF Captured
  <2> QED BY <1>4, <2>1, GoingOnKeeps DEF Captured, Set
<1>5. ASSUME NEW l \in Listeners, Replies(l) \/ BatchDone(l) PROVE TelegramInv'
  <2>1. approver' = approver /\ approver[l] # "standing"
    BY <1>1, <1>5 DEF Replies, BatchDone, StandingInv
  <2> QED BY <1>1, <1>5, <2>1, GoingOnKeeps DEF Replies, BatchDone, Set
<1>6. ASSUME NEW l \in Listeners, Stops(l) PROVE TelegramInv'
  BY <1>1, <1>6, GoingOnKeeps DEF Stops, Set
<1> QED BY <1>2, <1>3, <1>4, <1>5, <1>6, PollKeeps DEF TelegramNext

(* Whatever fails, is killed or listens beside it, and however many        *)
(* messages there are: Telegram forgets none that nobody has handled, a    *)
(* listener handles each once and in order, and the standing approval      *)
(* covers only the screenshot it is for (TelegramService.listen).          *)
THEOREM NothingForgotten ==
    ASSUME TelegramAssumption PROVE TelegramSpec => []HandledBeforeForgotten
<1>1. TelegramInv => HandledBeforeForgotten
  <2> SUFFICES ASSUME TelegramInv PROVE HandledBeforeForgotten
    OBVIOUS
  <2>1. /\ arrived \in 0..Updates /\ kept \in 1..arrived + 1 /\ Updates \in Nat
        /\ \A l \in Listeners : HandlingInv(l) /\ StandingInv(l)
    BY DEF TelegramInv, TelegramAssumption
  <2>2. ASSUME NEW l \in Listeners, NEW u \in 1..Updates
        PROVE  /\ handled[l][u] <= 1
               /\ handled[l][u] = 1 /\ u >= kept => \A v \in kept..u : handled[l][v] = 1
    <3>1. handled[l][u] \in {0, 1}
      BY <2>1 DEF HandlingInv
    <3>2. ASSUME handled[l][u] = 1 PROVE kept..u \subseteq kept..listener[l].offset - 1
      <4>1. listener[l].offset \in Int /\ ~(u >= listener[l].offset)
        BY <2>1, <3>2 DEF HandlingInv
      <4> QED BY <2>1, <4>1
    <3> QED BY <2>1, <3>1, <3>2 DEF HandlingInv
  <2>3. ASSUME NEW u \in 1..kept - 1 PROVE Times(u) # {}
    <3>1. PICK l \in Listeners : handled[l][u] = 1
      BY DEF TelegramInv
    <3> QED BY <3>1 DEF Times
  <2> QED BY <2>1, <2>2, <2>3 DEF HandledBeforeForgotten, StandingInv
<1>2. TelegramInit => TelegramInv
  BY TelegramStarts
<1>3. TelegramInv /\ [TelegramNext]_telegramVars => TelegramInv'
  BY TelegramKeeps
<1> QED BY <1>1, <1>2, <1>3, PTL DEF TelegramSpec

-----------------------------------------------------------------------------
(* Schedules: Scheduler.                                                   *)

IsRow(row) == DOMAIN row = {"next", "enabled", "last", "status"} /\ row.next \in Int

RowsInv ==
    /\ clock \in Int /\ DOMAIN command = Commands
    /\ DOMAIN rows \subseteq used /\ \A s \in DOMAIN rows : IsRow(rows[s])
SettledInv ==
    \A s, n : <<s, n>> \in settled =>
        /\ n \in Int /\ s \in used
        /\ s \in DOMAIN rows => n < rows[s].next

(* Where a command is: an id to add is new; a tick has run what was due of *)
(* the part of its list it is through with, and what it has before it was  *)
(* due later than any settled run of it.                                   *)
Later(c, s) == \A n : <<s, n>> \in settled => n < command[c].listed[s].next
AddingInv(c) ==
    command[c].op = "adding" =>
        /\ command[c].schedule \in used /\ command[c].schedule \notin DOMAIN rows
        /\ IsRow(command[c].row)
        /\ \A n : <<command[c].schedule, n>> \notin settled
TickInv(c) ==
    Ticking(c) =>
        /\ {"op", "at", "listed", "todo", "ran", "alone"} \subseteq DOMAIN command[c]
        /\ command[c].at \in Int /\ command[c].alone \in BOOLEAN
        /\ DOMAIN command[c].listed \subseteq used
        /\ \A s \in DOMAIN command[c].listed : IsRow(command[c].listed[s])
        /\ command[c].todo \subseteq DOMAIN command[c].listed
        /\ command[c].ran = {s \in DOMAIN command[c].listed \ command[c].todo : IsDue(c, s)}
        /\ \A s \in command[c].todo : Later(c, s)
SavingInv(c) ==
    command[c].op = "saving" =>
        /\ "schedule" \in DOMAIN command[c]
        /\ command[c].schedule \in command[c].ran /\ Later(c, command[c].schedule)
CommandInv(c) ==
    /\ AddingInv(c) /\ TickInv(c) /\ SavingInv(c)
    /\ command[c].op = "ticked" => command[c].ran = command[c].due

(* Two commands: a tick that is alone is; nobody has listed or adds an id  *)
(* that another still adds.                                                *)
PairInv(c, d) ==
    /\ Ticking(c) /\ command[c].alone => ~Ticking(d)
    /\ command[c].op = "adding" =>
         /\ command[d].op = "adding" => command[c].schedule # command[d].schedule
         /\ Ticking(d) => command[c].schedule \notin DOMAIN command[d].listed

SchedulerInv ==
    /\ RowsInv /\ SettledInv
    /\ \A c \in Commands : CommandInv(c)
    /\ \A c, d \in Commands : c # d => PairInv(c, d)

(* What a step of one command must show of the others.                     *)
LEMMA OneCommandMoves ==
    ASSUME SchedulerInv, NEW c \in Commands, DOMAIN command' = Commands,
           \A d \in Commands \ {c} : command'[d] = command[d],
           used \subseteq used',
           \A d \in Commands \ {c} : command[d].op = "adding" =>
               /\ command[d].schedule \notin DOMAIN rows'
               /\ \A n : <<command[d].schedule, n>> \notin settled',
           (settled' = settled) \/ (\A d \in Commands \ {c} : ~Ticking(d)),
           RowsInv', SettledInv', CommandInv(c)',
           \A d \in Commands \ {c} : PairInv(c, d)' /\ PairInv(d, c)'
    PROVE  SchedulerInv'
<1>1. ASSUME NEW d \in Commands \ {c} PROVE CommandInv(d)'
  <2>1. CommandInv(d) /\ command'[d] = command[d] /\ used \subseteq used'
    BY DEF SchedulerInv
  <2>2. AddingInv(d)'
    BY <2>1 DEF CommandInv, AddingInv
  <2>3. TickInv(d)' /\ SavingInv(d)'
    <3>1. CASE settled' = settled
      BY <2>1, <3>1 DEF CommandInv, TickInv, SavingInv, Later, IsDue, Ticking
    <3>2. CASE ~Ticking(d)
      BY <2>1, <3>2 DEF TickInv, SavingInv, Ticking
    <3> QED BY <3>1, <3>2
  <2> QED BY <2>1, <2>2, <2>3 DEF CommandInv
<1>2. ASSUME NEW d \in Commands \ {c}, NEW e \in Commands \ {c}, d # e PROVE PairInv(d, e)'
  <2>1. PairInv(d, e) /\ command'[d] = command[d] /\ command'[e] = command[e]
    BY <1>2 DEF SchedulerInv
  <2> QED BY <2>1 DEF PairInv, Ticking
<1>3. \A d \in Commands : CommandInv(d)'
  BY <1>1
<1>4. \A d, e \in Commands : d # e => PairInv(d, e)'
  BY <1>2
<1> QED BY <1>3, <1>4 DEF SchedulerInv

(* A command leaves, and the table has nothing it had not.                 *)
LEMMA CommandLeaves ==
    ASSUME SchedulerInv, NEW c \in Commands, NEW code, Ends(c, code),
           UNCHANGED <<used, clock, settled>>,
           \A d \in Commands \ {c} : command[d].op = "adding" => command[d].schedule \notin DOMAIN rows',
           RowsInv', SettledInv'
    PROVE  SchedulerInv'
<1>1. /\ DOMAIN command' = Commands /\ command'[c].op = "idle"
      /\ \A d \in Commands \ {c} : command'[d] = command[d]
  BY DEF Ends, Idle, SchedulerInv, RowsInv
<1>2. CommandInv(c)'
  BY <1>1 DEF CommandInv, AddingInv, TickInv, SavingInv, Ticking
<1>3. \A d \in Commands \ {c} : PairInv(c, d)' /\ PairInv(d, c)'
  BY <1>1 DEF PairInv, Ticking
<1>4. \A d \in Commands \ {c} : command[d].op = "adding" =>
          \A n : <<command[d].schedule, n>> \notin settled'
  BY DEF SchedulerInv, CommandInv, AddingInv
<1> QED BY <1>1, <1>2, <1>3, <1>4, OneCommandMoves

LEMMA TableStays ==
    ASSUME SchedulerInv, UNCHANGED <<rows, clock, settled>>, DOMAIN command' = Commands,
           used \subseteq used'
    PROVE  /\ RowsInv' /\ SettledInv'
           /\ \A d \in Commands : command[d].op = "adding" =>
                /\ command[d].schedule \notin DOMAIN rows'
                /\ \A n : <<command[d].schedule, n>> \notin settled'
<1>1. RowsInv' /\ SettledInv'
  BY DEF SchedulerInv, RowsInv, SettledInv, IsRow
<1>2. \A d \in Commands : command[d].op = "adding" =>
                /\ command[d].schedule \notin DOMAIN rows'
                /\ \A n : <<command[d].schedule, n>> \notin settled'
  BY DEF SchedulerInv, CommandInv, AddingInv
<1> QED BY <1>1, <1>2

LEMMA EndedDomain ==
    ASSUME SchedulerInv, NEW c \in Commands, NEW code, Ends(c, code)
    PROVE  DOMAIN command' = Commands
BY DEF SchedulerInv, RowsInv, Ends

LEMMA UnavailableKeeps ==
    ASSUME SchedulerInv, NEW c \in Commands, Unavailable(c) \/ Kill(c) PROVE SchedulerInv'
<1>1. PICK code : Ends(c, code)
  BY DEF Unavailable, Kill
<1>2. UNCHANGED <<rows, used, clock, settled>>
  BY DEF Unavailable, Kill
<1> QED BY <1>1, <1>2, EndedDomain, TableStays, CommandLeaves

LEMMA AddCountsKeeps ==
    ASSUME SchedulerInv, NEW c \in Commands, AddCounts(c) PROVE SchedulerInv'
<1>1. UNCHANGED <<rows, clock, settled>>
  BY DEF AddCounts
<1>2. CASE Ends(c, "invalid") /\ UNCHANGED used
  BY <1>1, <1>2, EndedDomain, TableStays, CommandLeaves
<1>3. ASSUME NEW s \in Schedules \ used, NEW enabled \in BOOLEAN,
             used' = used \cup {s},
             command' = [command EXCEPT ![c] =
               [op |-> "adding", schedule |-> s, row |-> Row(clock, enabled)]]
      PROVE  SchedulerInv'
  <2>0. DOMAIN command = Commands /\ DOMAIN rows \subseteq used /\ clock \in Int
        /\ \A n : <<s, n>> \notin settled
    BY <1>3 DEF SchedulerInv, RowsInv, SettledInv
  <2>1. /\ DOMAIN command' = Commands /\ command'[c].op = "adding"
        /\ command'[c].schedule = s /\ command'[c].row = Row(clock, enabled)
        /\ \A d \in Commands \ {c} : command'[d] = command[d]
    BY <1>3, <2>0
  <2>2. IsRow(Row(clock, enabled))
    BY <2>0 DEF IsRow, Row
  <2>3. CommandInv(c)'
    <3>1. AddingInv(c)'
      BY <1>1, <1>3, <2>0, <2>1, <2>2 DEF AddingInv, IsRow
    <3> QED BY <2>1, <3>1 DEF CommandInv, TickInv, SavingInv, Ticking
  <2>4. ASSUME NEW d \in Commands \ {c} PROVE PairInv(c, d)' /\ PairInv(d, c)'
    <3>1. /\ command[d].op = "adding" => command[d].schedule \in used
          /\ Ticking(d) => DOMAIN command[d].listed \subseteq used
      BY DEF SchedulerInv, CommandInv, AddingInv, TickInv
    <3> QED BY <1>3, <2>1, <3>1 DEF PairInv, Ticking
  <2>5. used \subseteq used'
    BY <1>3
  <2> QED BY <1>1, <2>1, <2>3, <2>4, <2>5, TableStays, OneCommandMoves
<1> QED BY <1>2, <1>3 DEF AddCounts

LEMMA AddSavesKeeps ==
    ASSUME SchedulerInv, NEW c \in Commands, AddSaves(c) PROVE SchedulerInv'
<1>1. UNCHANGED <<used, clock, settled>> /\ command[c].op = "adding"
  BY DEF AddSaves
<1>2. CASE Ends(c, "raised") /\ UNCHANGED rows
  BY <1>1, <1>2, EndedDomain, TableStays, CommandLeaves
<1>3. CASE Save(command[c].schedule, command[c].row) /\ Ends(c, "ok")
  <2> DEFINE s == command[c].schedule
  <2>1. s \in used /\ IsRow(command[c].row) /\ \A n : <<s, n>> \notin settled
    BY <1>1 DEF SchedulerInv, CommandInv, AddingInv
  <2>2. /\ DOMAIN rows' = DOMAIN rows \cup {s} /\ rows'[s] = command[c].row
        /\ \A t \in DOMAIN rows : t # s => rows'[t] = rows[t]
    BY <1>3 DEF Save
  <2>3. DOMAIN command' = Commands
    BY <1>3, EndedDomain
  <2>4. RowsInv'
    <3>1. clock' \in Int /\ DOMAIN rows' \subseteq used'
      BY <1>1, <2>1, <2>2 DEF SchedulerInv, RowsInv
    <3>2. ASSUME NEW t \in DOMAIN rows' PROVE IsRow(rows'[t])
      BY <2>1, <2>2 DEF SchedulerInv, RowsInv
    <3> QED BY <2>3, <3>1, <3>2 DEF RowsInv, IsRow
  <2>5. SettledInv'
    BY <1>1, <2>1, <2>2 DEF SchedulerInv, SettledInv
  <2>6. ASSUME NEW d \in Commands \ {c}, command[d].op = "adding"
        PROVE  command[d].schedule \notin DOMAIN rows'
    <3>1. PairInv(c, d) /\ CommandInv(d)
      BY DEF SchedulerInv
    <3> QED BY <1>1, <2>2, <2>6, <3>1 DEF PairInv, CommandInv, AddingInv
  <2> QED BY <1>1, <1>3, <2>4, <2>5, <2>6, CommandLeaves
<1> QED BY <1>2, <1>3 DEF AddSaves

LEMMA RemoveKeeps ==
    ASSUME SchedulerInv, NEW c \in Commands, RemoveSchedule(c) PROVE SchedulerInv'
<1>1. PICK s \in used : /\ rows' = [t \in DOMAIN rows \ {s} |-> rows[t]]
                        /\ Ends(c, IF s \in DOMAIN rows THEN "ok" ELSE "failure")
  BY DEF RemoveSchedule
<1>2. UNCHANGED <<used, clock, settled>>
  BY DEF RemoveSchedule
<1>3. DOMAIN rows' \subseteq DOMAIN rows /\ \A t \in DOMAIN rows' : rows'[t] = rows[t]
  BY <1>1
<1>4. DOMAIN command' = Commands
  BY <1>1, EndedDomain
<1>5. RowsInv'
  BY <1>2, <1>3, <1>4 DEF SchedulerInv, RowsInv, IsRow
<1>6. SettledInv'
  BY <1>2, <1>3 DEF SchedulerInv, SettledInv
<1>7. \A d \in Commands \ {c} : command[d].op = "adding" => command[d].schedule \notin DOMAIN rows'
  BY <1>3 DEF SchedulerInv, CommandInv, AddingInv
<1> QED BY <1>1, <1>2, <1>5, <1>6, <1>7, CommandLeaves
-----------------------------------------------------------------------------
LEMMA TickListsKeeps ==
    ASSUME SchedulerInv, NEW c \in Commands, TickLists(c) PROVE SchedulerInv'
<1>1. UNCHANGED <<rows, used, clock, settled>> /\ command[c].op = "idle"
  BY DEF TickLists, Starts, Idle
<1>2. command' = [d \in Commands |->
         IF d = c THEN [op |-> "ticking", at |-> clock, listed |-> rows,
                        todo |-> DOMAIN rows, ran |-> {},
                        alone |-> ~ \E e \in Commands : Ticking(e)]
         ELSE IF Ticking(d) THEN [command[d] EXCEPT !.alone = FALSE] ELSE command[d]]
  BY DEF TickLists
<1>3. /\ DOMAIN command' = Commands
      /\ command'[c].op = "ticking" /\ command'[c].at = clock /\ command'[c].listed = rows
      /\ command'[c].todo = DOMAIN rows /\ command'[c].ran = {}
      /\ command'[c].alone = ~ \E e \in Commands : Ticking(e)
      /\ DOMAIN command'[c] = {"op", "at", "listed", "todo", "ran", "alone"}
  BY <1>2
<1>4. ASSUME NEW d \in Commands \ {c}
      PROVE  /\ ~Ticking(d) => command'[d] = command[d]
             /\ Ticking(d) => /\ DOMAIN command'[d] = DOMAIN command[d]
                              /\ command'[d].alone = FALSE
                              /\ command'[d].op = command[d].op
                              /\ command'[d].at = command[d].at
                              /\ command'[d].listed = command[d].listed
                              /\ command'[d].todo = command[d].todo
                              /\ command'[d].ran = command[d].ran
                              /\ command[d].op = "saving" => command'[d].schedule = command[d].schedule
  <2>1. ~Ticking(d) => command'[d] = command[d]
    BY <1>2
  <2>2. Ticking(d) => command'[d] = [command[d] EXCEPT !.alone = FALSE]
    BY <1>2
  <2>3. Ticking(d) => {"op", "at", "listed", "todo", "ran", "alone"} \subseteq DOMAIN command[d]
    BY DEF SchedulerInv, CommandInv, TickInv
  <2>4. command[d].op = "saving" => "schedule" \in DOMAIN command[d]
    BY DEF SchedulerInv, CommandInv, SavingInv
  <2> QED BY <2>1, <2>2, <2>3, <2>4 DEF Ticking
<1>5. RowsInv' /\ SettledInv'
  BY <1>1, <1>3, TableStays
<1>6. ASSUME NEW d \in Commands \ {c} PROVE CommandInv(d)'
  <2>1. CommandInv(d)
    BY DEF SchedulerInv
  <2>2. CASE ~Ticking(d)
    BY <1>1, <1>4, <2>1, <2>2 DEF CommandInv, AddingInv, TickInv, SavingInv, Ticking
  <2>3. CASE Ticking(d)
    <3>1. /\ command'[d].op = command[d].op
          /\ command[d].op # "adding" /\ command[d].op # "ticked"
      BY <1>4, <2>3 DEF Ticking
    <3>2. TickInv(d)'
      BY <1>1, <1>4, <2>1, <2>3 DEF CommandInv, TickInv, Later, IsDue, Ticking
    <3>3. SavingInv(d)'
      BY <1>1, <1>4, <2>1, <2>3 DEF CommandInv, SavingInv, Later
    <3> QED BY <3>1, <3>2, <3>3 DEF CommandInv, AddingInv
  <2> QED BY <2>2, <2>3
<1>7. CommandInv(c)'
  <2>1. TickInv(c)'
    <3>1. /\ clock \in Int /\ DOMAIN rows \subseteq used
          /\ \A s \in DOMAIN rows : IsRow(rows[s])
          /\ \A s \in DOMAIN rows : \A n : <<s, n>> \in settled => n < rows[s].next
      BY DEF SchedulerInv, RowsInv, SettledInv
    <3>2. command'[c].alone \in BOOLEAN
      BY <1>3
    <3>3. (\A s \in command[c].todo : Later(c, s))'
      BY <1>1, <1>3, <3>1 DEF Later
    <3>4. (\A s \in DOMAIN command[c].listed : IsRow(command[c].listed[s]))'
      BY <1>1, <1>3, <3>1 DEF IsRow
    <3>5. (command[c].ran = {s \in DOMAIN command[c].listed \ command[c].todo : IsDue(c, s)})'
      BY <1>3
    <3> QED BY <1>1, <1>3, <3>1, <3>2, <3>3, <3>4, <3>5 DEF TickInv
  <2> QED BY <1>3, <2>1 DEF CommandInv, AddingInv, SavingInv
<1>8. ASSUME NEW d \in Commands \ {c} PROVE PairInv(c, d)' /\ PairInv(d, c)'
  <2>1. command'[d].op = command[d].op /\ (Ticking(d)' => Ticking(d))
    BY <1>4 DEF Ticking
  <2>2. PairInv(c, d)'
    <3>1. Ticking(d)' => ~command'[c].alone
      BY <1>3, <2>1
    <3> QED BY <1>3, <2>1, <3>1 DEF PairInv
  <2>3. PairInv(d, c)'
    <3>1. Ticking(d)' => ~command'[d].alone
      BY <1>4, <2>1
    <3>2. command'[d].op = "adding" => command'[d].schedule \notin DOMAIN rows
      BY <1>4 DEF SchedulerInv, CommandInv, AddingInv, Ticking
    <3> QED BY <1>3, <3>1, <3>2 DEF PairInv
  <2> QED BY <2>2, <2>3
<1>9. ASSUME NEW d \in Commands \ {c}, NEW e \in Commands \ {c}, d # e PROVE PairInv(d, e)'
  <2>1. PairInv(d, e)
    BY <1>9 DEF SchedulerInv
  <2>2. command'[e].op = command[e].op /\ (Ticking(e)' => Ticking(e) /\ command'[e].listed = command[e].listed)
    BY <1>4 DEF Ticking
  <2>3. Ticking(d)' => ~command'[d].alone
    BY <1>4 DEF Ticking
  <2>4. command'[d].op = "adding" => command[d].op = "adding" /\ command'[d].schedule = command[d].schedule
    BY <1>4 DEF Ticking
  <2>5. command'[e].op = "adding" => command'[e].schedule = command[e].schedule
    BY <1>4 DEF Ticking
  <2> QED BY <2>1, <2>2, <2>3, <2>4, <2>5 DEF PairInv
<1>10. (\A d \in Commands : CommandInv(d)') /\ (\A d, e \in Commands : d # e => PairInv(d, e)')
  BY <1>6, <1>7, <1>8, <1>9
<1> QED BY <1>5, <1>10 DEF SchedulerInv

(* A tick goes on with its list, and the table has nothing new.            *)
LEMMA TickGoesOn ==
    ASSUME SchedulerInv, NEW c \in Commands, Ticking(c), UNCHANGED <<used, clock>>,
           DOMAIN command' = Commands, \A d \in Commands \ {c} : command'[d] = command[d],
           command'[c].op \in {"ticking", "saving"},
           command'[c].listed = command[c].listed, command'[c].alone = command[c].alone,
           (settled' = settled) \/ command[c].alone,
           \A d \in Commands \ {c} : command[d].op = "adding" =>
               /\ command[d].schedule \notin DOMAIN rows'
               /\ \A n : <<command[d].schedule, n>> \notin settled',
           RowsInv', SettledInv', TickInv(c)', SavingInv(c)'
    PROVE  SchedulerInv'
<1>1. CommandInv(c)'
  BY DEF CommandInv, AddingInv
<1>2. ASSUME NEW d \in Commands \ {c} PROVE PairInv(c, d)' /\ PairInv(d, c)'
  <2>1. PairInv(c, d) /\ PairInv(d, c)
    BY DEF SchedulerInv
  <2> QED BY <2>1 DEF PairInv, Ticking
<1>3. (settled' = settled) \/ (\A d \in Commands \ {c} : ~Ticking(d))
  BY DEF SchedulerInv, PairInv
<1> QED BY <1>1, <1>2, <1>3, OneCommandMoves

LEMMA SkipKeeps ==
    ASSUME SchedulerInv, NEW c \in Commands, Skip(c) PROVE SchedulerInv'
<1>1. /\ UNCHANGED <<rows, used, clock, settled>> /\ Ticking(c) /\ command[c].op = "ticking"
      /\ TickInv(c) /\ DOMAIN command = Commands
  BY DEF Skip, Ticking, SchedulerInv, CommandInv, RowsInv
<1>2. PICK s \in command[c].todo :
        ~IsDue(c, s) /\ command' = [command EXCEPT ![c].todo = @ \ {s}]
  BY DEF Skip, NextOf
<1>3. {"op", "at", "listed", "todo", "ran", "alone"} \subseteq DOMAIN command[c]
  BY <1>1 DEF TickInv
<1>4. /\ DOMAIN command' = Commands /\ \A d \in Commands \ {c} : command'[d] = command[d]
      /\ DOMAIN command'[c] = DOMAIN command[c]
      /\ command'[c].op = "ticking" /\ command'[c].todo = command[c].todo \ {s}
      /\ command'[c].at = command[c].at /\ command'[c].listed = command[c].listed
      /\ command'[c].ran = command[c].ran /\ command'[c].alone = command[c].alone
  BY <1>1, <1>2, <1>3
<1>5. TickInv(c)'
  <2>1. command[c].ran = {t \in DOMAIN command[c].listed \ (command[c].todo \ {s}) : IsDue(c, t)}
    BY <1>1, <1>2 DEF TickInv
  <2>2. (command[c].ran = {t \in DOMAIN command[c].listed \ command[c].todo : IsDue(c, t)})'
    BY <1>4, <2>1 DEF IsDue
  <2>3. (\A t \in command[c].todo : Later(c, t))'
    BY <1>1, <1>4 DEF TickInv, Later
  <2> QED BY <1>1, <1>4, <2>2, <2>3 DEF TickInv, IsRow
<1>6. SavingInv(c)'
  BY <1>4 DEF SavingInv
<1> QED BY <1>1, <1>4, <1>5, <1>6, TableStays, TickGoesOn

LEMMA RunHandlerKeeps ==
    ASSUME SchedulerInv, NEW c \in Commands, RunHandler(c) PROVE SchedulerInv'
<1>1. /\ UNCHANGED <<rows, used, clock, settled>> /\ Ticking(c) /\ command[c].op = "ticking"
      /\ TickInv(c) /\ DOMAIN command = Commands
  BY DEF RunHandler, Ticking, SchedulerInv, CommandInv, RowsInv
<1>2. PICK s \in command[c].todo, status \in {"ok", "failed"} : IsDue(c, s) /\ Ran(c, s, status)
  BY DEF RunHandler, NextOf
<1>3. command'[c] = [op |-> "saving", at |-> command[c].at, listed |-> command[c].listed,
                     alone |-> command[c].alone, todo |-> command[c].todo \ {s},
                     ran |-> command[c].ran \cup {s}, schedule |-> s, status |-> status]
  BY <1>1, <1>2 DEF Ran
<1>4. /\ DOMAIN command' = Commands /\ \A d \in Commands \ {c} : command'[d] = command[d]
      /\ DOMAIN command'[c] = {"op", "at", "listed", "alone", "todo", "ran", "schedule", "status"}
      /\ command'[c].op = "saving" /\ command'[c].todo = command[c].todo \ {s}
      /\ command'[c].at = command[c].at /\ command'[c].listed = command[c].listed
      /\ command'[c].ran = command[c].ran \cup {s} /\ command'[c].alone = command[c].alone
      /\ command'[c].schedule = s
  BY <1>1, <1>2, <1>3 DEF Ran
<1>5. TickInv(c)'
  <2>1. command[c].ran \cup {s} = {t \in DOMAIN command[c].listed \ (command[c].todo \ {s}) : IsDue(c, t)}
    BY <1>1, <1>2 DEF TickInv
  <2>2. (command[c].ran = {t \in DOMAIN command[c].listed \ command[c].todo : IsDue(c, t)})'
    BY <1>4, <2>1 DEF IsDue
  <2>3. (\A t \in command[c].todo : Later(c, t))'
    BY <1>1, <1>4 DEF TickInv, Later
  <2> QED BY <1>1, <1>4, <2>2, <2>3 DEF TickInv, IsRow
<1>6. SavingInv(c)'
  BY <1>1, <1>2, <1>4 DEF SavingInv, TickInv, Later
<1> QED BY <1>1, <1>4, <1>5, <1>6, TableStays, TickGoesOn

LEMMA TickSavesKeeps ==
    ASSUME SchedulerAssumption, SchedulerInv, NEW c \in Commands, TickSaves(c) PROVE SchedulerInv'
<1> DEFINE s == command[c].schedule
           at == command[c].at
           row == command[c].listed[s]
           new == [row EXCEPT !.last = at, !.status = command[c].status, !.next = NextRunAt(at, row)]
<1>1. /\ UNCHANGED <<used, clock>> /\ Ticking(c) /\ command[c].op = "saving"
      /\ TickInv(c) /\ SavingInv(c) /\ RowsInv /\ SettledInv
  BY DEF TickSaves, Ticking, SchedulerInv, CommandInv
<1>2. CASE Ends(c, "raised") /\ UNCHANGED <<rows, settled>>
  BY <1>1, <1>2, EndedDomain, TableStays, CommandLeaves
<1>3. CASE /\ Save(s, new)
           /\ command' = [command EXCEPT ![c] =
               [op |-> "ticking", at |-> at, listed |-> @.listed, alone |-> @.alone,
                todo |-> @.todo, ran |-> @.ran]]
           /\ settled' = IF command[c].alone THEN settled \cup {<<s, row.next>>} ELSE settled
  <2>1. /\ s \in DOMAIN command[c].listed /\ s \notin command[c].todo /\ s \in used
        /\ IsRow(row) /\ at \in Int /\ row.next <= at /\ Later(c, s)
    BY <1>1 DEF TickInv, SavingInv, IsDue
  <2>2. /\ DOMAIN command' = Commands /\ \A d \in Commands \ {c} : command'[d] = command[d]
        /\ DOMAIN command'[c] = {"op", "at", "listed", "alone", "todo", "ran"}
        /\ command'[c].op = "ticking" /\ command'[c].todo = command[c].todo
        /\ command'[c].at = command[c].at /\ command'[c].listed = command[c].listed
        /\ command'[c].ran = command[c].ran /\ command'[c].alone = command[c].alone
    BY <1>1, <1>3 DEF RowsInv
  <2>3. IsRow(new) /\ new.next = at + Interval
    BY <2>1 DEF IsRow, NextRunAt, SchedulerAssumption
  <2> HIDE DEF new
  <2>4. /\ DOMAIN rows' = DOMAIN rows \cup {s} /\ rows'[s] = new
        /\ \A t \in DOMAIN rows : t # s => rows'[t] = rows[t]
    BY <1>3 DEF Save
  <2>5. RowsInv'
    <3>1. clock' \in Int /\ DOMAIN rows' \subseteq used'
      BY <1>1, <2>1, <2>4 DEF RowsInv
    <3>2. ASSUME NEW t \in DOMAIN rows' PROVE IsRow(rows'[t])
      BY <1>1, <2>3, <2>4 DEF RowsInv
    <3> QED BY <2>2, <3>1, <3>2 DEF RowsInv, IsRow
  <2>6. \A t, n : <<t, n>> \in settled' => (<<t, n>> \in settled) \/ (t = s /\ n = row.next)
    BY <1>3
  <2>7. row.next \in Int /\ Interval \in Int /\ Interval > 0
    BY <2>1 DEF IsRow, SchedulerAssumption
  <2>8. ASSUME NEW t, NEW n, <<t, n>> \in settled'
        PROVE  n \in Int /\ t \in used' /\ (t \in DOMAIN rows' => n < rows'[t].next)
    <3>1. CASE t = s /\ n = row.next
      BY <1>1, <2>1, <2>3, <2>4, <2>7, <3>1
    <3>2. CASE <<t, n>> \in settled
      <4>1. n \in Int /\ t \in used /\ (t \in DOMAIN rows => n < rows[t].next)
        BY <1>1, <3>2 DEF SettledInv
      <4>2. CASE t = s
        <5>1. n < row.next
          BY <2>1, <3>2, <4>2 DEF Later
        <5> QED BY <1>1, <2>1, <2>3, <2>4, <2>7, <4>1, <4>2, <5>1
      <4>3. CASE t # s
        BY <1>1, <2>4, <4>1, <4>3
      <4> QED BY <4>2, <4>3
    <3> QED BY <2>6, <2>8, <3>1, <3>2
  <2>9. SettledInv'
    BY <2>8 DEF SettledInv
  <2>10. TickInv(c)'
    <3>1. (command[c].ran = {t \in DOMAIN command[c].listed \ command[c].todo : IsDue(c, t)})'
      BY <1>1, <2>2 DEF TickInv, IsDue
    <3>2. (\A t \in command[c].todo : Later(c, t))'
      BY <1>1, <2>1, <2>2, <2>6 DEF TickInv, Later
    <3> QED BY <1>1, <2>2, <3>1, <3>2 DEF TickInv, IsRow
  <2>11. SavingInv(c)'
    BY <2>2 DEF SavingInv
  <2>12. ASSUME NEW d \in Commands \ {c}, command[d].op = "adding"
         PROVE  /\ command[d].schedule \notin DOMAIN rows'
                /\ \A n : <<command[d].schedule, n>> \notin settled'
    <3>1. AddingInv(d) /\ PairInv(d, c)
      BY DEF SchedulerInv, CommandInv
    <3>2. command[d].schedule # s
      BY <1>1, <2>1, <2>12, <3>1 DEF PairInv
    <3> QED BY <2>4, <2>6, <2>12, <3>1, <3>2 DEF AddingInv
  <2>13. (settled' = settled) \/ command[c].alone
    BY <1>3
  <2> QED BY <1>1, <2>2, <2>5, <2>9, <2>10, <2>11, <2>12, <2>13, TickGoesOn
<1> QED BY <1>2, <1>3 DEF TickSaves

LEMMA TickEndsKeeps ==
    ASSUME SchedulerInv, NEW c \in Commands, TickEnds(c) PROVE SchedulerInv'
<1>1. /\ UNCHANGED <<rows, used, clock, settled>> /\ Ticking(c)
      /\ TickInv(c) /\ DOMAIN command = Commands /\ command[c].todo = {}
  BY DEF TickEnds, Ticking, SchedulerInv, CommandInv, RowsInv
<1>2. command' = [command EXCEPT ![c] = [op |-> "ticked", ran |-> @.ran,
                                          due |-> {s \in DOMAIN @.listed : IsDue(c, s)}]]
  BY DEF TickEnds
<1>3. /\ DOMAIN command' = Commands /\ \A d \in Commands \ {c} : command'[d] = command[d]
      /\ command'[c].op = "ticked" /\ command'[c].ran = command[c].ran
      /\ command'[c].due = {s \in DOMAIN command[c].listed : IsDue(c, s)}
  BY <1>1, <1>2
<1>4. command'[c].ran = command'[c].due
  BY <1>1, <1>3 DEF TickInv
<1>5. CommandInv(c)'
  BY <1>3, <1>4 DEF CommandInv, AddingInv, TickInv, SavingInv, Ticking
<1>6. \A d \in Commands \ {c} : PairInv(c, d)' /\ PairInv(d, c)'
  BY <1>3 DEF PairInv, Ticking
<1> QED BY <1>1, <1>3, <1>5, <1>6, TableStays, OneCommandMoves

LEMMA SchedulerKeeps ==
    ASSUME SchedulerAssumption, SchedulerInv, [SchedulerNext]_schedulerVars PROVE SchedulerInv'
<1>1. CASE UNCHANGED schedulerVars
  <2>1. UNCHANGED <<rows, used, clock, command, settled>>
    BY <1>1 DEF schedulerVars
  <2> QED BY <2>1 DEF SchedulerInv, RowsInv, SettledInv, CommandInv, PairInv, AddingInv, TickInv,
             SavingInv, Later, IsDue, IsRow, Ticking
<1>2. CASE TimePasses
  <2>1. UNCHANGED <<rows, used, command, settled>> /\ clock' \in Int
    BY <1>2 DEF TimePasses, SchedulerInv, RowsInv
  <2> QED BY <2>1 DEF SchedulerInv, RowsInv, SettledInv, CommandInv, PairInv, AddingInv, TickInv,
             SavingInv, Later, IsDue, IsRow, Ticking
<1>3. ASSUME NEW c \in Commands, Unavailable(c) \/ Kill(c) PROVE SchedulerInv'
  BY <1>3, UnavailableKeeps
<1>4. ASSUME NEW c \in Commands, AddCounts(c) PROVE SchedulerInv'
  BY <1>4, AddCountsKeeps
<1>5. ASSUME NEW c \in Commands, AddSaves(c) PROVE SchedulerInv'
  BY <1>5, AddSavesKeeps
<1>6. ASSUME NEW c \in Commands, RemoveSchedule(c) PROVE SchedulerInv'
  BY <1>6, RemoveKeeps
<1>7. ASSUME NEW c \in Commands, TickLists(c) PROVE SchedulerInv'
  BY <1>7, TickListsKeeps
<1>8. ASSUME NEW c \in Commands, Skip(c) PROVE SchedulerInv'
  BY <1>8, SkipKeeps
<1>9. ASSUME NEW c \in Commands, RunHandler(c) PROVE SchedulerInv'
  BY <1>9, RunHandlerKeeps
<1>10. ASSUME NEW c \in Commands, TickSaves(c) PROVE SchedulerInv'
  BY <1>10, TickSavesKeeps
<1>11. ASSUME NEW c \in Commands, TickEnds(c) PROVE SchedulerInv'
  BY <1>11, TickEndsKeeps
<1> QED BY <1>1, <1>2, <1>3, <1>4, <1>5, <1>6, <1>7, <1>8, <1>9, <1>10, <1>11 DEF SchedulerNext

LEMMA SchedulerStarts == SchedulerInit => SchedulerInv
<1> SUFFICES ASSUME SchedulerInit PROVE SchedulerInv
  OBVIOUS
<1>1. \A c \in Commands : command[c].op = "idle"
  BY DEF SchedulerInit, Idle
<1>2. RowsInv /\ SettledInv
  <2>1. DOMAIN rows = {}
    BY DEF SchedulerInit
  <2> QED BY <2>1 DEF SchedulerInit, RowsInv, SettledInv
<1> QED BY <1>1, <1>2 DEF SchedulerInv, CommandInv, PairInv, AddingInv, TickInv, SavingInv, Ticking

(* A tick that reported its runs has run what was due when it began,       *)
(* whatever its handlers did and the other commands do meanwhile           *)
(* (SchedulerService.tick).                                                *)
THEOREM TicksRunAllDue ==
    ASSUME SchedulerAssumption PROVE SchedulerSpec => []TickRunsAllDue
<1>1. SchedulerInv => TickRunsAllDue
  BY DEF SchedulerInv, CommandInv, TickRunsAllDue
<1>2. SchedulerInv /\ [SchedulerNext]_schedulerVars => SchedulerInv'
  BY SchedulerKeeps
<1> QED BY <1>1, <1>2, SchedulerStarts, PTL DEF SchedulerSpec

(* What a tick alone at work ran and wrote back is not run again for the   *)
(* same due time, by any later tick, removal or addition (next_run_at).    *)
THEOREM SettledRunsStay ==
    ASSUME SchedulerAssumption PROVE SchedulerSpec => []NoSettledRunRepeats
<1>1. SchedulerInv => NoSettledRunRepeats
  <2> SUFFICES ASSUME SchedulerInv, NEW c \in Commands, command[c].op = "saving"
               PROVE  <<command[c].schedule, command[c].listed[command[c].schedule].next>> \notin settled
    BY DEF NoSettledRunRepeats
  <2>1. /\ command[c].schedule \in DOMAIN command[c].listed
        /\ command[c].listed[command[c].schedule].next \in Int /\ Later(c, command[c].schedule)
    BY DEF SchedulerInv, CommandInv, TickInv, SavingInv, Ticking, IsRow
  <2> QED BY <2>1 DEF Later
<1>2. SchedulerInv /\ [SchedulerNext]_schedulerVars => SchedulerInv'
  BY SchedulerKeeps
<1> QED BY <1>1, <1>2, SchedulerStarts, PTL DEF SchedulerSpec

(* So a tick accounts for what was due and for what ran (tick and          *)
(* next_run_at).                                                           *)
THEOREM TicksAreAccounted ==
    ASSUME SchedulerAssumption PROVE SchedulerSpec => []TicksAccount
<1>1. TickRunsAllDue /\ NoSettledRunRepeats => TicksAccount
  BY DEF TicksAccount
<1> QED BY <1>1, TicksRunAllDue, SettledRunsStay, PTL
=============================================================================
