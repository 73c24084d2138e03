---------------------------- MODULE AssistantProofs ----------------------------
(***************************************************************************)
(* What serves one conversation, for any number of calls, deciders,        *)
(* requests, turns and clients:                                            *)
(*                                                                         *)
(*   - nothing is auto-approved, as long as no two calls have the same     *)
(*     request id (with a shared id it fails: see ApprovalReused.cfg);     *)
(*   - what is published for a tool request is its story, and only a write *)
(*     that asked for it leaves a torn file;                               *)
(*   - what the model is sent is the conversation that took place;         *)
(*   - a memory is found by the vector of its text, and what was forgotten *)
(*     before a recall is not recalled.                                    *)
(***************************************************************************)
EXTENDS ApprovalBroker, Tools, Chat, Memory, SequenceTheorems, FiniteSetTheorems, TLAPS

-----------------------------------------------------------------------------
(* Approvals: ApprovalBroker.                                              *)

(* No two calls have the same id. *)
UniqueIdOf == \A c, d \in Calls : IdOf[c] = IdOf[d] => c = d

(* Why it works: an approval that is recorded, or that the worker has read *)
(* and brings back, is one of a person who saw the call.                   *)
RecordedByPerson ==
    \A c \in Calls : decisions[IdOf[c]] = "approved" => c \in accepted

ReadByPerson ==
    ask.at = "answered" /\ ask.outcome = "approved" => ask.call \in accepted

(* The call that waits has not been answered before.                       *)
AskedOnce == /\ granted \subseteq asked
             /\ ask.at # "idle" => ask.call \in asked \ granted

BrokerInv == /\ TypeOK
             /\ QueueShowsTheWait
             /\ AskedOnce
             /\ RecordedByPerson
             /\ ReadByPerson
             /\ ApprovedByPerson

(* The worker's record keeps its type whichever fields a step changes.     *)
LEMMA AskUpdates ==
    ASSUME NEW a \in Requests
    PROVE  /\ \A p \in Waiting \union {"idle", "answered"} :
                  /\ [a EXCEPT !.at = p] \in Requests
                  /\ [a EXCEPT !.at = p].at = p
                  /\ [a EXCEPT !.at = p].call = a.call
           /\ \A o \in Outcomes :
                  /\ [a EXCEPT !.at = "answered", !.outcome = o] \in Requests
                  /\ [a EXCEPT !.at = "answered", !.outcome = o].at = "answered"
                  /\ [a EXCEPT !.at = "answered", !.outcome = o].call = a.call
                  /\ [a EXCEPT !.at = "answered", !.outcome = o].outcome = o
  BY DEF Requests

LEMMA InitInv == Init => BrokerInv
  <1> SUFFICES ASSUME Init PROVE BrokerInv
    OBVIOUS
  <1> USE IdAssumption, TokenAssumption, NoCallAssumption DEF Init
  <1>1. TypeOK
    BY DEF TypeOK, Idle, Requests, EmptyQueue, NoDecisions, Waiting, Outcomes
  <1>2. QueueShowsTheWait
    BY DEF QueueShowsTheWait, EmptyQueue
  <1>3. RecordedByPerson /\ ReadByPerson /\ ApprovedByPerson /\ AskedOnce
    BY DEF RecordedByPerson, ReadByPerson, ApprovedByPerson, AskedOnce, Idle,
           NoDecisions
  <1> QED
    BY <1>1, <1>2, <1>3 DEF BrokerInv

(* The worker's own steps: posting, the three tests of its loop, leaving.  *)
LEMMA WorkerKeepsInv ==
    ASSUME BrokerInv, Worker \/ \E c \in Calls : Post(c)
    PROVE  BrokerInv'
  <1> USE IdAssumption, NoCallAssumption
  <1>1. ask \in Requests /\ (ask.at # "idle" => ask.call \in Calls)
    BY DEF BrokerInv, TypeOK
  <1>2. ASSUME NEW c \in Calls, Post(c)
        PROVE  BrokerInv'
    <2>1. TypeOK'
      BY <1>2 DEF BrokerInv, TypeOK, Post, Requests, Waiting, Outcomes
    <2>2. QueueShowsTheWait'
      BY <1>2 DEF BrokerInv, TypeOK, Post, QueueShowsTheWait
    <2>3. AskedOnce'
      BY <1>2 DEF BrokerInv, Post, AskedOnce
    <2> QED
      BY <1>2, <2>1, <2>2, <2>3 DEF BrokerInv, Post, RecordedByPerson,
                                    ReadByPerson, ApprovedByPerson
  <1>3. ASSUME \/ CheckToken /\ ~(HasToken /\ cancelled)
               \/ NoDecisionYet
               \/ CheckDeadline /\ ~expired
        PROVE  BrokerInv'
    <2>1. PICK p \in Waiting : ask' = [ask EXCEPT !.at = p]
      <3>1. CASE CheckToken /\ ~(HasToken /\ cancelled)
        BY <3>1 DEF CheckToken, Waiting
      <3>2. CASE NoDecisionYet
        BY <3>2 DEF NoDecisionYet, Waiting
      <3>3. CASE CheckDeadline /\ ~expired
        BY <3>3 DEF CheckDeadline, Waiting
      <3> QED
        BY <1>3, <3>1, <3>2, <3>3
    <2>2. ask' \in Requests /\ ask'.at = p /\ ask'.call = ask.call
      <3>1. p \in Waiting \union {"idle", "answered"}
        OBVIOUS
      <3> QED
        BY <1>1, <2>1, <3>1, AskUpdates, Zenon
    <2>3. ask.at \in Waiting
      BY <1>3 DEF CheckToken, NoDecisionYet, CheckDeadline, Waiting
    <2>4. UNCHANGED <<pending, decisions, expired, cancelled, seen, asked,
                      accepted, granted>>
      BY <1>3 DEF CheckToken, NoDecisionYet, CheckDeadline
    <2>5. p # "idle" /\ p # "answered" /\ ask.at # "idle"
      BY <2>3 DEF Waiting
    <2> HIDE DEF Waiting
    <2>6. TypeOK'
      BY <1>1, <2>2, <2>4, <2>5 DEF BrokerInv, TypeOK
    <2>7. QueueShowsTheWait'
      BY <2>2, <2>4, <2>5 DEF BrokerInv, QueueShowsTheWait
    <2> QED
      BY <2>2, <2>4, <2>5, <2>6, <2>7
         DEF BrokerInv, RecordedByPerson, ReadByPerson, ApprovedByPerson, AskedOnce
  <1>4. ASSUME \/ CheckToken /\ HasToken /\ cancelled
               \/ CheckDeadline /\ expired
               \/ TakeDecision
        PROVE  BrokerInv'
    <2>1. ask.at \in Waiting /\ ask.at # "idle" /\ ask.call \in Calls
      BY <1>1, <1>4 DEF CheckToken, TakeDecision, CheckDeadline, Waiting
    <2>2. PICK o \in Outcomes :
             /\ ask' = [ask EXCEPT !.at = "answered", !.outcome = o]
             /\ o = "approved" => decisions[IdOf[ask.call]] = "approved"
      <3>1. CASE TakeDecision
        BY <2>1, <3>1 DEF TakeDecision, Answer, BrokerInv, TypeOK
      <3> QED
        BY <1>4, <3>1 DEF CheckToken, CheckDeadline, Answer, Outcomes
    <2>3. ask' \in Requests /\ ask'.at = "answered" /\ ask'.call = ask.call
          /\ ask'.outcome = o
      BY ZenonT(60), <1>1, <2>2, AskUpdates
    <2>4. UNCHANGED <<pending, expired, cancelled, seen, asked, accepted, granted>>
      BY <1>4 DEF CheckToken, TakeDecision, CheckDeadline
    <2>5. decisions' \in [Ids -> Outcomes \union {"none"}]
      BY <1>4 DEF BrokerInv, TypeOK, CheckToken, TakeDecision, CheckDeadline
    <2>6. \A i \in Ids : decisions'[i] = "approved" => decisions[i] = "approved"
      BY <1>4 DEF BrokerInv, TypeOK, CheckToken, TakeDecision, CheckDeadline
    <2>7. TypeOK'
      BY <2>1, <2>3, <2>4, <2>5 DEF BrokerInv, TypeOK
    <2>8. QueueShowsTheWait'
      BY <2>1, <2>3, <2>4 DEF BrokerInv, QueueShowsTheWait
    <2>9. RecordedByPerson' /\ ReadByPerson'
      BY <2>1, <2>2, <2>3, <2>4, <2>6
         DEF BrokerInv, RecordedByPerson, ReadByPerson
    <2> QED
      BY <2>1, <2>3, <2>4, <2>7, <2>8, <2>9 DEF BrokerInv, ApprovedByPerson, AskedOnce
  <1>5. ASSUME Leave
        PROVE  BrokerInv'
    <2>1. ask.call \in Calls
      BY <1>1, <1>5 DEF Leave
    <2>2. ask' \in Requests /\ ask'.at = "idle"
      BY <1>5 DEF Leave, Idle, Requests, Waiting, Outcomes
    <2>3. TypeOK'
      BY <1>5, <2>1, <2>2 DEF BrokerInv, TypeOK, Leave
    <2>4. QueueShowsTheWait'
      <3> SUFFICES ASSUME NEW i \in Ids, pending'[i] # NoCall
                   PROVE  FALSE
        BY DEF QueueShowsTheWait
      <3>1. i # IdOf[ask.call] /\ pending[i] # NoCall
        BY <1>5 DEF BrokerInv, TypeOK, Leave
      <3> QED
        BY <3>1 DEF BrokerInv, QueueShowsTheWait
    <2>5. RecordedByPerson'
      BY <1>5 DEF BrokerInv, Leave, RecordedByPerson
    <2>6. ReadByPerson'
      BY <2>2 DEF ReadByPerson
    <2>7. ApprovedByPerson'
      BY <1>5 DEF BrokerInv, Leave, ReadByPerson, ApprovedByPerson
    <2>8. AskedOnce'
      BY <1>5, <2>2 DEF BrokerInv, Leave, AskedOnce
    <2> QED
      BY <2>3, <2>4, <2>5, <2>6, <2>7, <2>8 DEF BrokerInv
  <1>6. CASE CheckToken \/ CheckDeadline
    <2>1. \/ CheckToken /\ HasToken /\ cancelled
          \/ CheckDeadline /\ expired
          \/ CheckToken /\ ~(HasToken /\ cancelled)
          \/ CheckDeadline /\ ~expired
      BY <1>6, Zenon
    <2> QED
      BY <1>3, <1>4, <2>1, Zenon
  <1> QED
    BY <1>2, <1>3, <1>4, <1>5, <1>6, Zenon DEF Worker

(* A rejection takes recorded approvals away and adds none.                *)
LEMMA RejectsKeepInv ==
    ASSUME BrokerInv,
           UNCHANGED <<pending, ask, expired, cancelled, asked, granted>>,
           seen' \in [Deciders -> Calls \union {NoCall}],
           decisions' \in [Ids -> Outcomes \union {"none"}],
           accepted' \in SUBSET accepted,
           ask.at \notin Waiting => accepted' = accepted,
           \A i \in Ids : decisions'[i] = "approved" =>
                             /\ decisions[i] = "approved"
                             /\ pending[i] = NoCall,
           \A c \in accepted \ accepted' : pending[IdOf[c]] = c
    PROVE  BrokerInv'
  <1> USE IdAssumption, NoCallAssumption
  <1>1. TypeOK' /\ QueueShowsTheWait' /\ AskedOnce'
    BY DEF BrokerInv, TypeOK, QueueShowsTheWait, AskedOnce
  <1>2. RecordedByPerson'
    <2> SUFFICES ASSUME NEW c \in Calls, decisions'[IdOf[c]] = "approved"
                 PROVE  c \in accepted'
      BY DEF RecordedByPerson
    <2>1. IdOf[c] \in Ids
      OBVIOUS
    <2>2. decisions[IdOf[c]] = "approved" /\ pending[IdOf[c]] = NoCall
      BY <2>1
    <2> QED
      BY <2>2 DEF BrokerInv, RecordedByPerson
  <1>3. ReadByPerson'
    BY DEF BrokerInv, ReadByPerson, Waiting
  <1>4. ApprovedByPerson'
    <2> SUFFICES ASSUME NEW c \in granted, c \notin accepted'
                 PROVE  FALSE
      BY DEF ApprovedByPerson
    <2>1. c \in Calls /\ c \in accepted
      BY DEF BrokerInv, TypeOK, ApprovedByPerson
    <2>2. pending[IdOf[c]] = c /\ IdOf[c] \in Ids /\ c # NoCall
      BY <2>1
    <2> QED
      BY <2>2 DEF BrokerInv, QueueShowsTheWait, AskedOnce
  <1> QED
    BY <1>1, <1>2, <1>3, <1>4 DEF BrokerInv

(* A decider's answer and reject_all.                                      *)
LEMMA DecidersKeepInv ==
    ASSUME UniqueIdOf, BrokerInv,
           \/ \E d \in Deciders, o \in Outcomes : Decide(d, o)
           \/ RejectAll
    PROVE  BrokerInv'
  <1> USE IdAssumption, NoCallAssumption
  <1>0. TypeOK
    BY DEF BrokerInv
  <1>1. ASSUME NEW d \in Deciders, Decide(d, "approved")
        PROVE  BrokerInv'
    <2> DEFINE s == seen[d]
               i == IdOf[s]
    <2>1. s \in Calls /\ i \in Ids
      BY <1>0, <1>1 DEF TypeOK, Decide
    <2>2. /\ seen' \in [Deciders -> Calls \union {NoCall}]
          /\ UNCHANGED <<pending, ask, expired, cancelled, asked, granted>>
      BY <1>0, <1>1 DEF TypeOK, Decide
    <2>3. CASE pending[i] = NoCall
      <3>1. UNCHANGED <<decisions, accepted>>
        BY <1>1, <2>1, <2>3 DEF Decide
      <3> QED
        BY <2>2, <3>1 DEF BrokerInv, TypeOK, QueueShowsTheWait, AskedOnce,
                          RecordedByPerson, ReadByPerson, ApprovedByPerson
    <2>4. CASE pending[i] # NoCall
      <3>1. pending[i] = s
        BY <1>0, <2>1, <2>4 DEF BrokerInv, TypeOK, QueueShowsTheWait, UniqueIdOf
      <3>2. /\ decisions' = [decisions EXCEPT ![i] = "approved"]
            /\ accepted' = accepted \union {s}
        BY <1>1, <2>1, <2>4, <3>1 DEF Decide
      <3>3. TypeOK' /\ QueueShowsTheWait' /\ AskedOnce' /\ ReadByPerson'
            /\ ApprovedByPerson'
        BY <1>0, <2>1, <2>2, <3>2
           DEF BrokerInv, TypeOK, QueueShowsTheWait, AskedOnce, ReadByPerson,
               ApprovedByPerson, Outcomes
      <3>4. RecordedByPerson'
        BY <1>0, <2>1, <2>2, <3>2
           DEF BrokerInv, TypeOK, RecordedByPerson, UniqueIdOf
      <3> QED
        BY <3>3, <3>4 DEF BrokerInv
    <2> QED
      BY <2>3, <2>4
  <1>2. ASSUME NEW d \in Deciders, Decide(d, "denied")
        PROVE  BrokerInv'
    <2> DEFINE s == seen[d]
               i == IdOf[s]
               c == pending[i]
    <2>1. s \in Calls /\ i \in Ids /\ c \in Calls \union {NoCall}
      BY <1>0, <1>2 DEF TypeOK, Decide
    <2>2. /\ seen' \in [Deciders -> Calls \union {NoCall}]
          /\ UNCHANGED <<pending, ask, expired, cancelled, asked, granted>>
      BY <1>0, <1>2 DEF TypeOK, Decide
    <2>3. decisions' = IF c = NoCall THEN decisions
                                     ELSE [decisions EXCEPT ![i] = "denied"]
      BY <1>2 DEF Decide
    <2>4. accepted' = IF ask.at \in Waiting THEN accepted \ {c} ELSE accepted
      BY <1>2 DEF Decide
    <2>5. c \in Calls => i = IdOf[c]
      BY <2>1 DEF BrokerInv, QueueShowsTheWait
    <2>6. decisions' \in [Ids -> Outcomes \union {"none"}]
      BY <1>0, <2>1, <2>3 DEF TypeOK, Outcomes
    <2>7. \A j \in Ids : decisions'[j] = "approved" => decisions[j] = "approved"
      BY <1>0, <2>1, <2>3 DEF TypeOK
    <2>8. CASE c = NoCall
      <3>1. UNCHANGED <<decisions, accepted>>
        BY <1>0, <2>3, <2>4, <2>8 DEF TypeOK
      <3> QED
        BY <2>2, <3>1 DEF BrokerInv, TypeOK, QueueShowsTheWait, AskedOnce,
                          RecordedByPerson, ReadByPerson, ApprovedByPerson
    <2>9. CASE c # NoCall
      <3>1. \A j \in Ids : decisions'[j] = "approved" =>
                               /\ decisions[j] = "approved"
                               /\ pending[j] = NoCall
        <4> SUFFICES ASSUME NEW j \in Ids, decisions'[j] = "approved"
                     PROVE  pending[j] = NoCall
          BY <2>7
        <4>1. j # i
          BY <1>0, <2>1, <2>3, <2>9 DEF TypeOK
        <4> QED
          BY <2>1, <2>9, <4>1 DEF BrokerInv, QueueShowsTheWait
      <3>2. \A e \in accepted \ accepted' : pending[IdOf[e]] = e
        BY <2>1, <2>4, <2>5, <2>9
      <3>3. accepted' \in SUBSET accepted /\ (ask.at \notin Waiting => accepted' = accepted)
        BY <2>4
      <3> QED
        BY <2>2, <2>6, <3>1, <3>2, <3>3, RejectsKeepInv
    <2> QED
      BY <2>8, <2>9
  <1>3. ASSUME RejectAll
        PROVE  BrokerInv'
    <2>1. /\ seen' \in [Deciders -> Calls \union {NoCall}]
          /\ UNCHANGED <<pending, ask, expired, cancelled, asked, granted>>
      BY <1>0, <1>3 DEF TypeOK, RejectAll
    <2>2. /\ decisions' \in [Ids -> Outcomes \union {"none"}]
          /\ \A j \in Ids : decisions'[j] = "approved" =>
                                /\ decisions[j] = "approved"
                                /\ pending[j] = NoCall
      BY <1>0, <1>3 DEF TypeOK, RejectAll, Pended, Outcomes
    <2>3. /\ accepted' \in SUBSET accepted
          /\ ask.at \notin Waiting => accepted' = accepted
      BY <1>3 DEF RejectAll
    <2>4. ASSUME NEW c \in accepted \ accepted'
          PROVE  pending[IdOf[c]] = c
      <3>1. PICK j \in Ids : c = pending[j] /\ pending[j] # NoCall
        BY <1>3 DEF RejectAll, Pended
      <3> QED
        BY <3>1 DEF BrokerInv, QueueShowsTheWait
    <2> QED
      BY <2>1, <2>2, <2>3, <2>4, RejectsKeepInv
  <1> QED
    BY <1>1, <1>2, <1>3 DEF Outcomes

(* Looking, the clock and the cancellation touch nothing the invariant     *)
(* speaks of.                                                              *)
LEMMA OthersKeepInv ==
    ASSUME BrokerInv,
           \/ \E d \in Deciders : Look(d)
           \/ Expire
           \/ Cancel
           \/ UNCHANGED brokerVars
    PROVE  BrokerInv'
  <1>1. seen' \in [Deciders -> Calls \union {NoCall}] /\ expired' \in BOOLEAN
        /\ cancelled' \in BOOLEAN
    BY DEF BrokerInv, TypeOK, Look, Expire, Cancel, brokerVars
  <1>2. UNCHANGED <<pending, decisions, ask, asked, accepted, granted>>
    BY DEF Look, Expire, Cancel, brokerVars
  <1> QED
    BY <1>1, <1>2 DEF BrokerInv, TypeOK, QueueShowsTheWait, AskedOnce,
                      RecordedByPerson, ReadByPerson, ApprovedByPerson

(* The invariant holds in every reachable state when ids are unique.       *)
THEOREM BrokerInvariant == ASSUME UniqueIdOf PROVE Spec => []BrokerInv
  <1>1. BrokerInv /\ [Next]_brokerVars => BrokerInv'
    BY WorkerKeepsInv, DecidersKeepInv, OthersKeepInv DEF Next, Decider
  <1> QED
    BY InitInv, <1>1, PTL DEF Spec

(* Nothing is auto-approved, for any number of calls and deciders: a call  *)
(* runs only if somebody who was looking at that call approved it.         *)
THEOREM NothingAutoApproved ==
    ASSUME UniqueIdOf PROVE Spec => []ApprovedByPerson
  <1>1. BrokerInv => ApprovedByPerson
    BY DEF BrokerInv
  <1> QED
    BY BrokerInvariant, <1>1, PTL

(* The queue shows exactly the request the worker waits on.                *)
THEOREM QueueIsExact == ASSUME UniqueIdOf PROVE Spec => []QueueShowsTheWait
  <1>1. BrokerInv => QueueShowsTheWait
    BY DEF BrokerInv
  <1> QED
    BY BrokerInvariant, <1>1, PTL

-----------------------------------------------------------------------------
(* Tool requests: Tools.                                                   *)

Events == {"requested", "allowed", "denied", "approvalRequested", "approved", "rejected",
           "started", "completed", "failed"}

(* What a call has published at each of its places.                        *)
Cleared(r) == Has(r, "allowed") /\ (Has(r, "approvalRequested") => Has(r, "approved"))

StoryInv(r) ==
    /\ audit[r] \in Seq(Events)
    /\ call[r] \in Terminal =>
         /\ audit[r] # <<>> /\ Last(audit[r]) = call[r]
         /\ \A k \in 1..(Len(audit[r]) - 1) : audit[r][k] \notin Terminal
    /\ call[r] \notin Terminal => \A k \in 1..Len(audit[r]) : audit[r][k] \notin Terminal
    /\ call[r] = "new" => audit[r] = <<>>
    /\ call[r] = "checked" => ~Has(r, "approvalRequested")
    /\ call[r] \in {"checked", "asking"} => ~Has(r, "started")
    /\ call[r] \in {"allowed", "running"} => Cleared(r)
    /\ Has(r, "started") => Cleared(r)

(* A command belongs to a shell request that waits for it or died; a torn  *)
(* file to a write that asked for it.                                      *)
ChildInv(r) ==
    /\ child[r] # "none" => asks[r].tool = "shell"
    /\ child[r] = "running" => call[r] \in {"running", "dead"}
    /\ r \in temps => asks[r].tool = "write"
FileInv ==
    /\ file = [of |-> file.of, whole |-> file.whole]
    /\ ~file.whole => asks[file.of].tool = "write" /\ ~asks[file.of].atomic

ToolsInv ==
    /\ DOMAIN audit = ToolRequests /\ DOMAIN call = ToolRequests /\ DOMAIN child = ToolRequests
    /\ FileInv
    /\ \A r \in ToolRequests : StoryInv(r) /\ ChildInv(r)

LEMMA Grows ==
    ASSUME NEW S, NEW s \in Seq(S), NEW e \in S
    PROVE  LET t == s \o <<e>> IN
           /\ t \in Seq(S) /\ t # <<>> /\ Last(t) = e
           /\ Len(t) = Len(s) + 1 /\ \A k \in 1..Len(s) : t[k] = s[k]
           /\ \A x : Contains(t, x) <=> Contains(s, x) \/ x = e
<1> DEFINE t == s \o <<e>>
<1>1. /\ t \in Seq(S) /\ Len(t) = Len(s) + 1 /\ t[Len(s) + 1] = e
      /\ \A k \in 1..Len(s) : t[k] = s[k]
  OBVIOUS
<1>2. Len(s) \in Nat /\ 1..(Len(s) + 1) = 1..Len(s) \cup {Len(s) + 1}
  OBVIOUS
<1> HIDE DEF t
<1>3. t # <<>> /\ Last(t) = e
  BY <1>1, <1>2 DEF Last
<1>4. ASSUME NEW x PROVE Contains(t, x) <=> Contains(s, x) \/ x = e
  <2>1. Contains(t, x) <=> \E k \in 1..(Len(s) + 1) : t[k] = x
    BY <1>1 DEF Contains
  <2> QED BY <1>1, <1>2, <2>1 DEF Contains
<1> QED BY <1>1, <1>3, <1>4 DEF t

LEMMA GrowsTwice ==
    ASSUME NEW S, NEW s \in Seq(S), NEW e \in S, NEW f \in S
    PROVE  LET t == s \o <<e, f>> IN
           /\ t \in Seq(S) /\ t # <<>> /\ Last(t) = f
           /\ Len(t) = Len(s) + 2 /\ \A k \in 1..Len(s) : t[k] = s[k]
           /\ t[Len(s) + 1] = e
           /\ \A x : Contains(t, x) <=> Contains(s, x) \/ x = e \/ x = f
<1> DEFINE two == <<e, f>>
           t == s \o two
<1>0. /\ two \in Seq(S) 
      /\ Len(two) = 2 
      /\ two[1] = e /\ two[2] = f
  <2>1. two \in Seq(S) OBVIOUS
  <2>2. Len(two) = 2 OBVIOUS
  <2>3. two[1] = e OBVIOUS
  <2>4. two[2] = f OBVIOUS
  <2> QED BY <2>1,<2>2,<2>3,<2>4
<1> HIDE DEF two
<1>1. /\ t \in Seq(S) 
      /\ Len(t) = Len(s) + 2 /\ Len(s) \in Nat
  <2>1. t \in Seq(S) BY <1>0
  <2>2. Len(t) = Len(s) + Len(two)
    BY ConcatProperties, <1>0, Zenon
  <2>3. Len(s) \in Nat  OBVIOUS
  <2> QED BY <1>0, <2>1,<2>2, <2>3
<1>2. \A k \in 1..Len(s) : t[k] = s[k]
  BY <1>0
<1>3. t[Len(s) + 1] = e
  BY <1>0, <1>1, ConcatProperties
<1>4. t[Len(s) + 2] = f
  BY <1>0, <1>1, ConcatProperties
<1>5. 1..(Len(s) + 2) = 1..Len(s) \cup {Len(s) + 1, Len(s) + 2}
  BY <1>1
<1> HIDE DEF t
<1>6. t # <<>> /\ Last(t) = f
  BY <1>1, <1>4 DEF Last
<1>7. ASSUME NEW x PROVE Contains(t, x) <=> Contains(s, x) \/ x = e \/ x = f
  <2>1. Contains(t, x) <=> \E k \in 1..(Len(s) + 2) : t[k] = x
    BY <1>1 DEF Contains
  <2> QED BY <1>2, <1>3, <1>4, <1>5, <2>1 DEF Contains
<1> QED BY <1>1, <1>2, <1>3, <1>6, <1>7 DEF t, two, two

(* One call moves, and nothing of the others.                              *)
LEMMA OneCallMoves ==
    ASSUME ToolsInv, NEW r \in ToolRequests, UNCHANGED asks,
           DOMAIN audit' = ToolRequests, DOMAIN call' = ToolRequests, DOMAIN child' = ToolRequests,
           \A q \in ToolRequests \ {r} : /\ audit'[q] = audit[q] /\ call'[q] = call[q]
                                     /\ child'[q] = child[q] /\ (q \in temps' => q \in temps),
           FileInv', StoryInv(r)', ChildInv(r)'
    PROVE  ToolsInv'
<1>1. ASSUME NEW q \in ToolRequests \ {r} PROVE StoryInv(q)'
  <2>1. StoryInv(q) /\ audit'[q] = audit[q] /\ call'[q] = call[q]
    BY DEF ToolsInv
  <2> QED BY <2>1 DEF StoryInv, Cleared, Has
<1>2. ASSUME NEW q \in ToolRequests \ {r} PROVE ChildInv(q)'
  BY DEF ToolsInv, ChildInv
<1> QED BY <1>1, <1>2 DEF ToolsInv

(* It goes to another place and publishes nothing, one event or two.       *)
LEMMA Quietly ==
    ASSUME ToolsInv, NEW r \in ToolRequests, NEW place, To(r, place), UNCHANGED audit
    PROVE  /\ DOMAIN call' = ToolRequests /\ DOMAIN audit' = ToolRequests /\ call'[r] = place
           /\ \A q \in ToolRequests \ {r} : call'[q] = call[q] /\ audit'[q] = audit[q]
           /\ audit'[r] = audit[r]
BY DEF ToolsInv, To

LEMMA WithOne ==
    ASSUME ToolsInv, NEW r \in ToolRequests, NEW place, To(r, place),
           NEW e \in Events, Says(r, <<e>>)
    PROVE  /\ DOMAIN call' = ToolRequests /\ DOMAIN audit' = ToolRequests /\ call'[r] = place
           /\ \A q \in ToolRequests \ {r} : call'[q] = call[q] /\ audit'[q] = audit[q]
           /\ audit'[r] \in Seq(Events) /\ audit'[r] # <<>> /\ Last(audit'[r]) = e
           /\ Len(audit'[r]) = Len(audit[r]) + 1
           /\ \A k \in 1..Len(audit[r]) : audit'[r][k] = audit[r][k]
           /\ \A x : Contains(audit'[r], x) <=> Contains(audit[r], x) \/ x = e
<1>1. DOMAIN call = ToolRequests /\ DOMAIN audit = ToolRequests /\ audit[r] \in Seq(Events)
  BY DEF ToolsInv, StoryInv
<1>2. /\ DOMAIN call' = ToolRequests /\ DOMAIN audit' = ToolRequests /\ call'[r] = place
      /\ \A q \in ToolRequests \ {r} : call'[q] = call[q] /\ audit'[q] = audit[q]
      /\ audit'[r] = audit[r] \o <<e>>
  BY <1>1 DEF To, Says
<1> QED BY <1>1, <1>2, Grows

LEMMA WithTwo ==
    ASSUME ToolsInv, NEW r \in ToolRequests, NEW place, To(r, place),
           NEW e \in Events, NEW f \in Events, Says(r, <<e, f>>)
    PROVE  /\ DOMAIN call' = ToolRequests /\ DOMAIN audit' = ToolRequests /\ call'[r] = place
           /\ \A q \in ToolRequests \ {r} : call'[q] = call[q] /\ audit'[q] = audit[q]
           /\ audit'[r] \in Seq(Events) /\ audit'[r] # <<>> /\ Last(audit'[r]) = f
           /\ Len(audit'[r]) = Len(audit[r]) + 2 /\ audit'[r][Len(audit[r]) + 1] = e
           /\ \A k \in 1..Len(audit[r]) : audit'[r][k] = audit[r][k]
           /\ \A x : Contains(audit'[r], x) <=> Contains(audit[r], x) \/ x = e \/ x = f
<1>1. DOMAIN call = ToolRequests /\ DOMAIN audit = ToolRequests /\ audit[r] \in Seq(Events)
  BY DEF ToolsInv, StoryInv
<1>2. /\ DOMAIN call' = ToolRequests /\ DOMAIN audit' = ToolRequests /\ call'[r] = place
      /\ \A q \in ToolRequests \ {r} : call'[q] = call[q] /\ audit'[q] = audit[q]
      /\ audit'[r] = audit[r] \o <<e, f>>
  BY <1>1 DEF To, Says
<1> QED BY <1>1, <1>2, GrowsTwice

(* What a terminal event does to a story that had none: it ends there.     *)
LEMMA EndsWith ==
    ASSUME ToolsInv, NEW r \in ToolRequests, call[r] \notin Terminal, NEW place \in Terminal,
           To(r, place), NEW e \in Events, e \notin Terminal \cup {"started"},
           e = "approvalRequested" => call[r] = "checked",
           Says(r, <<place>>) \/ Says(r, <<e, place>>)
    PROVE  StoryInv(r)'
<1>1. /\ StoryInv(r) /\ audit[r] \in Seq(Events) /\ Len(audit[r]) \in Nat
      /\ \A k \in 1..Len(audit[r]) : audit[r][k] \notin Terminal
  BY DEF ToolsInv, StoryInv
<1>2. place \in Events /\ place # "started"
  BY DEF Terminal, Events
<1>3. CASE Says(r, <<place>>)
  <2>1. /\ call'[r] = place /\ audit'[r] \in Seq(Events) /\ audit'[r] # <<>>
        /\ Last(audit'[r]) = place
        /\ Len(audit'[r]) = Len(audit[r]) + 1
        /\ \A k \in 1..Len(audit[r]) : audit'[r][k] = audit[r][k]
        /\ \A x : Contains(audit'[r], x) <=> Contains(audit[r], x) \/ x = place
    BY <1>2, <1>3, WithOne
  <2>2. \A k \in 1..(Len(audit'[r]) - 1) : audit'[r][k] \notin Terminal
    BY <1>1, <2>1
  <2>3. Has(r, "started")' => Cleared(r)'
    BY <1>1, <1>2, <2>1 DEF StoryInv, Cleared, Has, Terminal
  <2> QED BY <2>1, <2>2, <2>3 DEF StoryInv, Terminal
<1>4. CASE Says(r, <<e, place>>)
  <2>1. /\ call'[r] = place /\ audit'[r] \in Seq(Events) /\ audit'[r] # <<>>
        /\ Last(audit'[r]) = place
        /\ Len(audit'[r]) = Len(audit[r]) + 2 /\ audit'[r][Len(audit[r]) + 1] = e
        /\ \A k \in 1..Len(audit[r]) : audit'[r][k] = audit[r][k]
        /\ \A x : Contains(audit'[r], x) <=> Contains(audit[r], x) \/ x = e \/ x = place
    BY <1>2, <1>4, WithTwo
  <2>2. ASSUME NEW k \in 1..(Len(audit'[r]) - 1) PROVE audit'[r][k] \notin Terminal
    <3>1. k \in 1..Len(audit[r]) \/ k = Len(audit[r]) + 1
      BY <1>1, <2>1
    <3> QED BY <1>1, <2>1, <3>1
  <2>3. Has(r, "started")' => Cleared(r)'
    BY <1>1, <1>2, <2>1 DEF StoryInv, Cleared, Has, Terminal
  <2> QED BY <2>1, <2>2, <2>3 DEF StoryInv, Terminal
<1> QED BY <1>3, <1>4
-----------------------------------------------------------------------------
(* A call that has no command running moves.                               *)
LEMMA CallMoves ==
    ASSUME ToolsInv, NEW r \in ToolRequests, child[r] # "running",
           UNCHANGED <<settings, up, world>>,
           DOMAIN audit' = ToolRequests, DOMAIN call' = ToolRequests,
           \A q \in ToolRequests \ {r} : call'[q] = call[q] /\ audit'[q] = audit[q],
           StoryInv(r)'
    PROVE  ToolsInv'
<1>1. UNCHANGED <<asks, child, temps, file>> /\ FileInv /\ ChildInv(r) /\ DOMAIN child = ToolRequests
  BY DEF settings, world, ToolsInv
<1>2. FileInv' /\ ChildInv(r)'
  BY <1>1 DEF FileInv, ChildInv
<1> QED BY <1>1, <1>2, OneCallMoves

LEMMA NoChild ==
    ASSUME ToolsInv, NEW r \in ToolRequests, call[r] \notin {"running", "dead"}
    PROVE  child[r] # "running"
BY DEF ToolsInv, ChildInv

(* The story of a call goes on, with an event that is no end of it.        *)
LEMMA GoesOn ==
    ASSUME ToolsInv, NEW r \in ToolRequests, call[r] \notin Terminal,
           NEW place, place \notin Terminal, place # "new", To(r, place),
           NEW e \in Events, e \notin Terminal, Says(r, <<e>>),
           e = "approvalRequested" => call[r] = "checked" /\ place = "asking",
           place = "checked" => e = "requested" /\ call[r] = "new",
           place = "asking" => call[r] = "checked" /\ e # "started",
           place \in {"allowed", "running"} => call[r] = "allowed" \/ (call[r] = "checked" /\ e = "allowed"),
           e = "started" => call[r] = "allowed"
    PROVE  /\ StoryInv(r)'
           /\ DOMAIN audit' = ToolRequests /\ DOMAIN call' = ToolRequests
           /\ \A q \in ToolRequests \ {r} : call'[q] = call[q] /\ audit'[q] = audit[q]
<1>1. /\ StoryInv(r) /\ audit[r] \in Seq(Events) /\ Len(audit[r]) \in Nat
      /\ \A k \in 1..Len(audit[r]) : audit[r][k] \notin Terminal
  BY DEF ToolsInv, StoryInv
<1>2. /\ DOMAIN call' = ToolRequests /\ DOMAIN audit' = ToolRequests /\ call'[r] = place
      /\ \A q \in ToolRequests \ {r} : call'[q] = call[q] /\ audit'[q] = audit[q]
      /\ audit'[r] \in Seq(Events)
      /\ Len(audit'[r]) = Len(audit[r]) + 1 /\ Last(audit'[r]) = e
      /\ \A k \in 1..Len(audit[r]) : audit'[r][k] = audit[r][k]
      /\ \A x : Contains(audit'[r], x) <=> Contains(audit[r], x) \/ x = e
  BY WithOne
<1>3. ASSUME NEW k \in 1..Len(audit'[r]) PROVE audit'[r][k] \notin Terminal
  <2>1. k \in 1..Len(audit[r]) \/ k = Len(audit'[r])
    BY <1>1, <1>2
  <2> QED BY <1>1, <1>2, <2>1 DEF Last
<1>4. /\ place = "checked" => ~Has(r, "approvalRequested")' /\ ~Has(r, "started")'
      /\ place = "asking" => ~Has(r, "started")'
  <2>1. call[r] = "new" => ~Has(r, "approvalRequested") /\ ~Has(r, "started")
    BY <1>1 DEF StoryInv, Has, Contains
  <2> QED BY <1>1, <1>2, <2>1 DEF StoryInv, Has
<1>5. Has(r, "started")' => Cleared(r)'
  BY <1>1, <1>2 DEF StoryInv, Has, Cleared
<1>6. place \in {"allowed", "running"} => Cleared(r)'
  BY <1>1, <1>2 DEF StoryInv, Has, Cleared
<1> QED BY <1>2, <1>3, <1>4, <1>5, <1>6 DEF StoryInv

-----------------------------------------------------------------------------
LEMMA ReceivesKeeps == ASSUME ToolsInv, NEW r \in ToolRequests, Receives(r) PROVE ToolsInv'
<1>1. /\ call[r] = "new" /\ audit[r] = <<>> /\ StoryInv(r)
      /\ call[r] \notin Terminal \cup {"running", "dead"}
      /\ UNCHANGED <<settings, up, world>>
  BY DEF Receives, ToolsInv, StoryInv, Terminal
<1>2. child[r] # "running"
  BY <1>1, NoChild
<1>3. CASE To(r, "unavailable") /\ UNCHANGED audit
  <2>1. /\ DOMAIN call' = ToolRequests /\ DOMAIN audit' = ToolRequests /\ call'[r] = "unavailable"
        /\ \A q \in ToolRequests \ {r} : call'[q] = call[q] /\ audit'[q] = audit[q]
        /\ audit'[r] = audit[r]
    BY <1>3, Quietly
  <2>2. StoryInv(r)'
    BY <1>1, <2>1 DEF StoryInv, Cleared, Has, Terminal
  <2> QED BY <1>1, <1>2, <2>1, <2>2, CallMoves
<1>4. CASE Says(r, <<"requested", "failed">>) /\ To(r, "failed")
  <2>1. StoryInv(r)'
    BY <1>1, <1>4, EndsWith DEF Events, Terminal
  <2>2. /\ DOMAIN call' = ToolRequests /\ DOMAIN audit' = ToolRequests
        /\ \A q \in ToolRequests \ {r} : call'[q] = call[q] /\ audit'[q] = audit[q]
    BY <1>4, WithTwo DEF Events
  <2> QED BY <1>1, <1>2, <2>1, <2>2, CallMoves
<1>5. CASE Says(r, <<"requested">>) /\ To(r, "checked")
  <2>1. /\ StoryInv(r)'
        /\ DOMAIN audit' = ToolRequests /\ DOMAIN call' = ToolRequests
        /\ \A q \in ToolRequests \ {r} : call'[q] = call[q] /\ audit'[q] = audit[q]
    BY <1>1, <1>5, GoesOn DEF Events, Terminal
  <2> QED BY <1>1, <1>2, <2>1, CallMoves
<1> QED BY <1>3, <1>4, <1>5 DEF Receives

LEMMA DecidesKeeps == ASSUME ToolsInv, NEW r \in ToolRequests, Decides(r) PROVE ToolsInv'
<1>1. /\ call[r] = "checked" /\ StoryInv(r)
      /\ call[r] \notin Terminal \cup {"running", "dead"}
      /\ UNCHANGED <<settings, up, world>>
  BY DEF Decides, ToolsInv, Terminal
<1>2. child[r] # "running"
  BY <1>1, NoChild
<1>3. CASE To(r, "raised") /\ UNCHANGED audit
  <2>1. /\ DOMAIN call' = ToolRequests /\ DOMAIN audit' = ToolRequests /\ call'[r] = "raised"
        /\ \A q \in ToolRequests \ {r} : call'[q] = call[q] /\ audit'[q] = audit[q]
        /\ audit'[r] = audit[r]
    BY <1>3, Quietly
  <2>2. StoryInv(r)'
    BY <1>1, <2>1 DEF StoryInv, Cleared, Has, Terminal
  <2> QED BY <1>1, <1>2, <2>1, <2>2, CallMoves
<1>4. CASE Says(r, <<"denied">>) /\ To(r, "denied")
  <2>1. StoryInv(r)'
    BY <1>1, <1>4, EndsWith DEF Events, Terminal
  <2>2. /\ DOMAIN call' = ToolRequests /\ DOMAIN audit' = ToolRequests
        /\ \A q \in ToolRequests \ {r} : call'[q] = call[q] /\ audit'[q] = audit[q]
    BY <1>4, WithOne DEF Events
  <2> QED BY <1>1, <1>2, <2>1, <2>2, CallMoves
<1>5. CASE Says(r, <<"approvalRequested", "denied">>) /\ To(r, "denied")
  <2>1. StoryInv(r)'
    BY <1>1, <1>5, EndsWith DEF Events, Terminal
  <2>2. /\ DOMAIN call' = ToolRequests /\ DOMAIN audit' = ToolRequests
        /\ \A q \in ToolRequests \ {r} : call'[q] = call[q] /\ audit'[q] = audit[q]
    BY <1>5, WithTwo DEF Events
  <2> QED BY <1>1, <1>2, <2>1, <2>2, CallMoves
<1>6. CASE Says(r, <<"allowed">>) /\ To(r, "allowed")
  <2>1. /\ StoryInv(r)'
        /\ DOMAIN audit' = ToolRequests /\ DOMAIN call' = ToolRequests
        /\ \A q \in ToolRequests \ {r} : call'[q] = call[q] /\ audit'[q] = audit[q]
    BY <1>1, <1>6, GoesOn DEF Events, Terminal
  <2> QED BY <1>1, <1>2, <2>1, CallMoves
<1>7. CASE Says(r, <<"approvalRequested">>) /\ To(r, "asking")
  <2>1. /\ StoryInv(r)'
        /\ DOMAIN audit' = ToolRequests /\ DOMAIN call' = ToolRequests
        /\ \A q \in ToolRequests \ {r} : call'[q] = call[q] /\ audit'[q] = audit[q]
    BY <1>1, <1>7, GoesOn DEF Events, Terminal
  <2> QED BY <1>1, <1>2, <2>1, CallMoves
<1> QED BY <1>3, <1>4, <1>5, <1>6, <1>7 DEF Decides

LEMMA AnswersKeeps == ASSUME ToolsInv, NEW r \in ToolRequests, Answers(r) PROVE ToolsInv'
<1>1. /\ call[r] = "asking" /\ StoryInv(r)
      /\ call[r] \notin Terminal \cup {"running", "dead"}
      /\ audit[r] \in Seq(Events) /\ Len(audit[r]) \in Nat /\ ~Has(r, "started")
      /\ \A k \in 1..Len(audit[r]) : audit[r][k] \notin Terminal
      /\ UNCHANGED <<settings, up, world>>
  BY DEF Answers, ToolsInv, StoryInv, Terminal
<1>2. child[r] # "running"
  BY <1>1, NoChild
<1>3. CASE To(r, "raised") /\ UNCHANGED audit
  <2>1. /\ DOMAIN call' = ToolRequests /\ DOMAIN audit' = ToolRequests /\ call'[r] = "raised"
        /\ \A q \in ToolRequests \ {r} : call'[q] = call[q] /\ audit'[q] = audit[q]
        /\ audit'[r] = audit[r]
    BY <1>3, Quietly
  <2>2. StoryInv(r)'
    BY <1>1, <2>1 DEF StoryInv, Cleared, Has, Terminal
  <2> QED BY <1>1, <1>2, <2>1, <2>2, CallMoves
<1>4. CASE Says(r, <<"rejected", "denied">>) /\ To(r, "denied")
  <2>1. StoryInv(r)'
    BY <1>1, <1>4, EndsWith DEF Events, Terminal
  <2>2. /\ DOMAIN call' = ToolRequests /\ DOMAIN audit' = ToolRequests
        /\ \A q \in ToolRequests \ {r} : call'[q] = call[q] /\ audit'[q] = audit[q]
    BY <1>4, WithTwo DEF Events
  <2> QED BY <1>1, <1>2, <2>1, <2>2, CallMoves
<1>5. CASE Says(r, <<"approved", "allowed">>) /\ To(r, "allowed")
  <2>1. /\ DOMAIN call' = ToolRequests /\ DOMAIN audit' = ToolRequests /\ call'[r] = "allowed"
        /\ \A q \in ToolRequests \ {r} : call'[q] = call[q] /\ audit'[q] = audit[q]
        /\ audit'[r] \in Seq(Events) /\ audit'[r] # <<>> /\ Last(audit'[r]) = "allowed"
        /\ Len(audit'[r]) = Len(audit[r]) + 2 /\ audit'[r][Len(audit[r]) + 1] = "approved"
        /\ \A k \in 1..Len(audit[r]) : audit'[r][k] = audit[r][k]
        /\ \A x : Contains(audit'[r], x) <=> Contains(audit[r], x) \/ x = "approved" \/ x = "allowed"
    BY <1>5, WithTwo DEF Events
  <2>2. ASSUME NEW k \in 1..Len(audit'[r]) PROVE audit'[r][k] \notin Terminal
    <3>1. k \in 1..Len(audit[r]) \/ k = Len(audit[r]) + 1 \/ k = Len(audit'[r])
      BY <1>1, <2>1
    <3> QED BY <1>1, <2>1, <3>1 DEF Last, Terminal
  <2>3. Cleared(r)'
    BY <2>1 DEF Cleared, Has
  <2>4. StoryInv(r)'
    BY <2>1, <2>2, <2>3 DEF StoryInv, Terminal
  <2> QED BY <1>1, <1>2, <2>1, <2>4, CallMoves
<1> QED BY <1>3, <1>4, <1>5 DEF Answers

LEMMA BeginsKeeps == ASSUME ToolsInv, NEW r \in ToolRequests, ToolBegins(r) PROVE ToolsInv'
<1>1. /\ call[r] = "allowed" /\ call[r] \notin Terminal \cup {"running", "dead"}
      /\ Says(r, <<"started">>) /\ To(r, "running")
      /\ UNCHANGED <<settings, up, world>>
  BY DEF ToolBegins, Terminal
<1>2. child[r] # "running"
  BY <1>1, NoChild
<1>3. /\ StoryInv(r)'
      /\ DOMAIN audit' = ToolRequests /\ DOMAIN call' = ToolRequests
      /\ \A q \in ToolRequests \ {r} : call'[q] = call[q] /\ audit'[q] = audit[q]
  <2>1. /\ "running" \notin Terminal /\ "started" \in Events /\ "started" \notin Terminal
        /\ "running" \notin {"new", "checked", "asking"} /\ "started" # "approvalRequested"
    BY DEF Events, Terminal
  <2>2. /\ "running" # "new" /\ "running" # "checked" /\ "running" # "asking"
        /\ "started" # "allowed"
    OBVIOUS
  <2>3. call[r] = "allowed" /\ call[r] \notin Terminal
    BY <1>1
  <2> HIDE DEF ToolBegins
  <2> QED BY <1>1, <2>1, <2>2, <2>3, GoesOn, Zenon
<1> QED BY <1>1, <1>2, <1>3, CallMoves

(* A tool returns: the call ends as its result says.                       *)
LEMMA ReturnsEnds ==
    ASSUME ToolsInv, NEW r \in ToolRequests, call[r] = "running",
           NEW outcome \in Terminal, Returns(r, outcome)
    PROVE  /\ StoryInv(r)' /\ call'[r] = outcome
           /\ DOMAIN audit' = ToolRequests /\ DOMAIN call' = ToolRequests
           /\ \A q \in ToolRequests \ {r} : call'[q] = call[q] /\ audit'[q] = audit[q]
<1>1. call[r] \notin Terminal /\ To(r, outcome) /\ Says(r, <<outcome>>) /\ outcome \in Events
  BY DEF Returns, Terminal, Events
<1>2. StoryInv(r)'
  BY <1>1, EndsWith DEF Events, Terminal
<1> QED BY <1>1, <1>2, WithOne

LEMMA ReadsKeep ==
    ASSUME ToolsInv, NEW r \in ToolRequests, Refuses(r) \/ Looks(r) PROVE ToolsInv'
<1>1. PICK outcome \in Terminal : Returns(r, outcome)
  BY DEF Refuses, Looks, Terminal
<1>2. call[r] = "running" /\ UNCHANGED <<settings, up, world>>
  BY DEF Refuses, Looks
<1>3. child[r] # "running"
  BY DEF Refuses, Looks, ToolsInv, ChildInv
<1> QED BY <1>1, <1>2, <1>3, ReturnsEnds, CallMoves

LEMMA WriteBeginsKeeps == ASSUME ToolsInv, NEW r \in ToolRequests, WriteBegins(r) PROVE ToolsInv'
<1>1. /\ UNCHANGED <<asks, mode, allowLow, provider, up, call, audit, child>>
      /\ asks[r].tool = "write" /\ temps' \subseteq temps \cup {r}
      /\ file' = file \/ (file' = [of |-> r, whole |-> FALSE] /\ ~asks[r].atomic)
      /\ DOMAIN audit = ToolRequests /\ DOMAIN call = ToolRequests /\ DOMAIN child = ToolRequests
      /\ StoryInv(r) /\ ChildInv(r) /\ FileInv
  <2>1. UNCHANGED <<asks, mode, allowLow, provider, up, call, audit, child>>
    BY DEF WriteBegins, settings
  <2>2. temps' = temps \cup {r} \/ temps' = temps
    BY DEF WriteBegins
  <2>3. file' = file \/ (file' = [of |-> r, whole |-> FALSE] /\ ~asks[r].atomic)
    BY DEF WriteBegins
  <2>4. asks[r].tool = "write"
    BY DEF WriteBegins
  <2> QED BY <2>1, <2>2, <2>3, <2>4 DEF ToolsInv
<1>2. StoryInv(r)'
  BY <1>1 DEF StoryInv, Cleared, Has
<1>3. ChildInv(r)' /\ FileInv'
  BY <1>1 DEF ChildInv, FileInv
<1> QED BY <1>1, <1>2, <1>3, OneCallMoves

LEMMA WriteEndsKeeps == ASSUME ToolsInv, NEW r \in ToolRequests, WriteEnds(r) PROVE ToolsInv'
<1>1. /\ UNCHANGED <<asks, mode, allowLow, provider, up, child>> /\ call[r] = "running"
      /\ \/ file' = [of |-> r, whole |-> TRUE] /\ temps' = temps \ {r} /\ Returns(r, "completed")
         \/ Returns(r, "failed") /\ UNCHANGED <<file, temps>>
  BY DEF WriteEnds, settings
<1>2. PICK outcome \in Terminal : Returns(r, outcome)
  BY <1>1 DEF Terminal
<1>3. /\ ChildInv(r) /\ FileInv /\ DOMAIN child = ToolRequests
      /\ r \in temps \/ file = [of |-> r, whole |-> FALSE]
  BY DEF ToolsInv, WriteEnds
<1>4. child[r] # "running"
  BY <1>3 DEF ChildInv, FileInv
<1>5. ChildInv(r)' /\ FileInv'
  BY <1>1, <1>3, <1>4 DEF ChildInv, FileInv
<1> QED BY <1>1, <1>2, <1>3, <1>5, ReturnsEnds, OneCallMoves

LEMMA ChildKeeps ==
    ASSUME ToolsInv, NEW r \in ToolRequests, Spawns(r) \/ ChildEnds(r)
    PROVE  ToolsInv'
<1>1. /\ UNCHANGED <<asks, mode, allowLow, provider, up, call, audit, file, temps>>
      /\ asks[r].tool = "shell" /\ DOMAIN child' = ToolRequests
      /\ child'[r] = "running" => call[r] = "running"
      /\ \A q \in ToolRequests \ {r} : child'[q] = child[q]
      /\ DOMAIN audit = ToolRequests /\ DOMAIN call = ToolRequests
      /\ StoryInv(r) /\ ChildInv(r) /\ FileInv
  BY DEF Spawns, ChildEnds, settings, ToolsInv, ChildInv
<1>2. StoryInv(r)'
  BY <1>1 DEF StoryInv, Cleared, Has
<1>3. ChildInv(r)' /\ FileInv'
  BY <1>1 DEF ChildInv, FileInv
<1> QED BY <1>1, <1>2, <1>3, OneCallMoves

LEMMA ChildOverKeeps ==
    ASSUME ToolsInv, NEW r \in ToolRequests, ChildTimesOut(r) \/ ChildReaped(r)
    PROVE  ToolsInv'
<1>1. /\ UNCHANGED <<asks, mode, allowLow, provider, up, file, temps>> /\ call[r] = "running"
      /\ child[r] # "none"
      /\ ChildInv(r) /\ FileInv
  BY DEF ChildTimesOut, ChildReaped, settings, world, ToolsInv
<1>2. PICK outcome \in Terminal : Returns(r, outcome)
  BY DEF ChildTimesOut, ChildReaped, Terminal
<1>3. /\ DOMAIN child' = ToolRequests /\ child'[r] # "running"
      /\ \A q \in ToolRequests \ {r} : child'[q] = child[q]
  BY DEF ChildTimesOut, ChildReaped, world, ToolsInv
<1>4. ChildInv(r)' /\ FileInv'
  BY <1>1, <1>3 DEF ChildInv, FileInv
<1> QED BY <1>1, <1>2, <1>3, <1>4, ReturnsEnds, OneCallMoves

LEMMA ProcessDiesKeeps == ASSUME ToolsInv, ToolShutdown \/ ProcessDies PROVE ToolsInv'
<1>1. /\ UNCHANGED <<asks, mode, allowLow, provider, audit, file, temps, child>>
      /\ DOMAIN call' = ToolRequests
      /\ \A r \in ToolRequests : call'[r] = call[r] \/ (call'[r] = "dead" /\ call[r] \notin Terminal)
      /\ DOMAIN audit = ToolRequests /\ DOMAIN child = ToolRequests /\ FileInv
  <2>1. DOMAIN call = ToolRequests /\ DOMAIN audit = ToolRequests /\ DOMAIN child = ToolRequests /\ FileInv
    BY DEF ToolsInv
  <2>2. CASE ToolShutdown
    <3>1. UNCHANGED <<asks, mode, allowLow, provider, call, audit, file, temps, child>>
      BY <2>2 DEF ToolShutdown, settings, world
    <3>2. DOMAIN call' = DOMAIN call /\ \A r \in ToolRequests : call'[r] = call[r]
      BY <3>1
    <3> QED BY <2>1, <3>1, <3>2
  <2>3. CASE ProcessDies
    <3>1. UNCHANGED <<asks, mode, allowLow, provider, audit, file, temps, child>>
      BY <2>3 DEF ProcessDies, settings, world
    <3>2. /\ DOMAIN call' = ToolRequests
          /\ \A r \in ToolRequests : call'[r] = call[r] \/ (call'[r] = "dead" /\ call[r] \notin Terminal)
      <4>1. call' = [r \in ToolRequests |->
              IF call[r] \in {"new", "checked", "asking", "allowed", "running"} THEN "dead" ELSE call[r]]
        BY <2>3 DEF ProcessDies
      <4>2. \A r \in ToolRequests : call[r] \in {"new", "checked", "asking", "allowed", "running"} =>
               call[r] \notin Terminal
        BY DEF Terminal
      <4> QED BY <4>1, <4>2
    <3> QED BY <2>1, <3>1, <3>2
  <2> QED BY <2>2, <2>3
<1>2. ASSUME NEW r \in ToolRequests PROVE StoryInv(r)'
  <2>1. StoryInv(r) /\ audit'[r] = audit[r]
        /\ (call'[r] = call[r] \/ (call'[r] = "dead" /\ call[r] \notin Terminal))
    BY <1>1 DEF ToolsInv
  <2> QED BY <2>1 DEF StoryInv, Cleared, Has, Terminal
<1>3. ASSUME NEW r \in ToolRequests PROVE ChildInv(r)'
  BY <1>1 DEF ToolsInv, ChildInv
<1>4. FileInv'
  BY <1>1 DEF FileInv
<1> QED BY <1>1, <1>2, <1>3, <1>4 DEF ToolsInv

LEMMA ToolsKeep == ASSUME ToolsInv, [ToolNext]_toolVars PROVE ToolsInv'
<1>1. CASE UNCHANGED toolVars
  BY <1>1 DEF toolVars, ToolsInv, StoryInv, ChildInv, FileInv, Cleared, Has
<1>2. ASSUME NEW r \in ToolRequests, Receives(r) PROVE ToolsInv'
  BY <1>2, ReceivesKeeps
<1>3. ASSUME NEW r \in ToolRequests, Decides(r) PROVE ToolsInv'
  BY <1>3, DecidesKeeps
<1>4. ASSUME NEW r \in ToolRequests, Answers(r) PROVE ToolsInv'
  BY <1>4, AnswersKeeps
<1>5. ASSUME NEW r \in ToolRequests, ToolBegins(r) PROVE ToolsInv'
  BY <1>5, BeginsKeeps
<1>6. ASSUME NEW r \in ToolRequests, Refuses(r) \/ Looks(r) PROVE ToolsInv'
  BY <1>6, ReadsKeep
<1>7. ASSUME NEW r \in ToolRequests, WriteBegins(r) PROVE ToolsInv'
  BY <1>7, WriteBeginsKeeps
<1>8. ASSUME NEW r \in ToolRequests, WriteEnds(r) PROVE ToolsInv'
  BY <1>8, WriteEndsKeeps
<1>9. ASSUME NEW r \in ToolRequests, Spawns(r) \/ ChildEnds(r) PROVE ToolsInv'
  BY <1>9, ChildKeeps
<1>10. ASSUME NEW r \in ToolRequests, ChildTimesOut(r) \/ ChildReaped(r) PROVE ToolsInv'
  BY <1>10, ChildOverKeeps
<1>11. CASE ToolShutdown \/ ProcessDies
  BY <1>11, ProcessDiesKeeps
<1> QED BY <1>1, <1>2, <1>3, <1>4, <1>5, <1>6, <1>7, <1>8, <1>9, <1>10, <1>11 DEF ToolNext

LEMMA ToolsStart == ToolInit => ToolsInv
<1> SUFFICES ASSUME ToolInit PROVE ToolsInv
  OBVIOUS
<1>1. ASSUME NEW r \in ToolRequests
      PROVE  audit[r] = <<>> /\ call[r] = "new" /\ child[r] = "none" /\ r \notin temps
  BY DEF ToolInit
<1>2. \A r \in ToolRequests : StoryInv(r) /\ ChildInv(r)
  <2> SUFFICES ASSUME NEW r \in ToolRequests PROVE StoryInv(r) /\ ChildInv(r)
    OBVIOUS
  <2>0. <<>> \in Seq(Events) /\ Len(<<>>) = 0
    BY EmptySeq
  <2>1. audit[r] \in Seq(Events) /\ Len(audit[r]) = 0
    BY <1>1, <2>0
  <2>2. \A e : ~Has(r, e)
    BY <2>1 DEF Has, Contains
  <2>3. StoryInv(r)
    BY <1>1, <2>1, <2>2 DEF StoryInv, Cleared, Terminal
  <2> QED BY <1>1, <2>3 DEF ChildInv
<1> QED BY <1>2 DEF ToolInit, ToolsInv, FileInv

(* Whatever the policy, the person, the tools and a shutdown or a death do *)
(* under it: what is published for a request is its story, with one end,   *)
(* and a tool starts only on what was allowed (ToolService.execute).       *)
THEOREM StoriesAreTold == ToolSpec => []AuditTellsTheStory
<1>1. ToolsInv => AuditTellsTheStory
  <2> SUFFICES ASSUME ToolsInv, NEW r \in ToolRequests
               PROVE  /\ call[r] \in Terminal =>
                           /\ Last(audit[r]) = call[r]
                           /\ \A k \in 1..(Len(audit[r]) - 1) : audit[r][k] \notin Terminal
                           /\ child[r] # "running"
                      /\ Has(r, "started") => Cleared(r)
    BY DEF AuditTellsTheStory, Cleared
  <2> QED BY DEF ToolsInv, StoryInv, ChildInv, Terminal
<1>2. ToolsInv /\ [ToolNext]_toolVars => ToolsInv'
  BY ToolsKeep
<1> QED BY <1>1, <1>2, ToolsStart, PTL DEF ToolSpec

(* Whatever dies or fails in the middle of a write, only one that asked    *)
(* for it leaves a torn file (FilesystemWriteTool).                        *)
THEOREM FileIsWhole == ToolSpec => []WholeFile
<1>1. ToolsInv => WholeFile
  BY DEF ToolsInv, FileInv, WholeFile
<1>2. ToolsInv /\ [ToolNext]_toolVars => ToolsInv'
  BY ToolsKeep
<1> QED BY <1>1, <1>2, ToolsStart, PTL DEF ToolSpec

-----------------------------------------------------------------------------
(* Conversations: Chat.                                                    *)

Message == [role : {"system", "user", "assistant"}, turn : Nat]

(* A conversation: the prompt, then questions and answers in the order of  *)
(* their turns, and every answer but the first after its question.         *)
Follows(h, k) ==
    /\ h[k - 1].turn <= h[k].turn
    /\ h[k].role = "assistant" => h[k - 1] = [role |-> "user", turn |-> h[k].turn]
    /\ h[k].role = "user" => h[k - 1].turn < h[k].turn
Story(h) ==
    /\ h \in Seq(Message) /\ Len(h) >= 1 /\ h[1] = System
    /\ \A k \in 2..Len(h) : h[k].role # "system"
    /\ \A k \in 3..Len(h) : Follows(h, k)

(* All that was said and all that failed is of earlier turns.              *)
Before(n) ==
    /\ \A k \in 2..Len(context) : context[k].turn < n
    /\ \A f \in failed : f < n
WaitingTurn == at = "asking" \/ (Always /\ at \in {"listening", "transcribing"})
Asked ==
    /\ Len(context) >= 2 /\ context[Len(context)] = Said("user")
    /\ \A k \in 2..(Len(context) - 1) : context[k].turn < turn
    /\ \A f \in failed : f < turn

LengthInv ==
    /\ Len(context) <= 2 * MaxHistory + turn + 1
    /\ ~Always => Len(context) <= 2 * MaxHistory + turn
    /\ ~Always /\ at \in {"asking", "generating"} => turn >= 1
    /\ ~Always /\ at = "asking" => Len(context) <= 2 * MaxHistory + turn - 1
    /\ Always /\ WaitingTurn => Len(context) <= 2 * MaxHistory + turn

ChatInv ==
    /\ Story(context) /\ turn \in Nat /\ failed \subseteq Nat
    /\ \A k \in 2..Len(context) : context[k].turn \notin failed
    /\ at \in {"transcribing", "polling"} => Always
    /\ Before(turn + 1)
    /\ WaitingTurn => Before(turn)
    /\ at = "generating" => Asked
    /\ LengthInv

LEMMA Lengths == ASSUME NEW h, Story(h) PROVE Len(h) \in Nat /\ \A k \in 1..Len(h) : h[k] \in Message
BY DEF Story

(* What is said last, taken back, and the oldest that is trimmed.          *)
LEMMA Question ==
    ASSUME NEW h, Story(h), NEW n \in Nat, \A k \in 2..Len(h) : h[k].turn < n
    PROVE  LET t == Append(h, [role |-> "user", turn |-> n]) IN
           /\ Story(t) /\ Len(t) = Len(h) + 1 /\ t[Len(t)] = [role |-> "user", turn |-> n]
           /\ \A k \in 1..Len(h) : t[k] = h[k]
<1> DEFINE e == [role |-> "user", turn |-> n]
           t == Append(h, e)
<1>1. h \in Seq(Message) /\ e \in Message /\ Len(h) \in Nat /\ Len(h) >= 1
  BY DEF Story, Message
<1> HIDE DEF e
<1>2. /\ t \in Seq(Message) /\ Len(t) = Len(h) + 1 /\ t[Len(h) + 1] = e
      /\ \A k \in 1..Len(h) : t[k] = h[k]
  BY <1>1, AppendProperties
<1> HIDE DEF t
<1>3. t[1] = System
  BY <1>1, <1>2 DEF Story
<1>4. ASSUME NEW k \in 2..Len(t) PROVE t[k].role # "system"
  <2>1. CASE k = Len(h) + 1
    BY <1>2, <2>1 DEF e
  <2>2. CASE k # Len(h) + 1
    <3>1. k \in 2..Len(h)
      BY <1>1, <1>2, <2>2
    <3> QED BY <1>2, <3>1 DEF Story
  <2> QED BY <2>1, <2>2
<1>5. ASSUME NEW k \in 3..Len(t) PROVE Follows(t, k)
  <2>1. CASE k = Len(h) + 1
    <3>1. t[k] = e /\ k - 1 \in 2..Len(h) /\ k - 1 \in 1..Len(h)
      BY <1>1, <1>2, <2>1
    <3>2. t[k - 1] = h[k - 1] /\ h[k - 1].turn < n /\ h[k - 1].turn \in Nat
      BY <1>2, <3>1, Lengths DEF Message
    <3> QED BY <3>1, <3>2 DEF Follows, e
  <2>2. CASE k # Len(h) + 1
    <3>1. k \in 3..Len(h) /\ k \in 1..Len(h) /\ k - 1 \in 1..Len(h)
      BY <1>1, <1>2, <2>2
    <3>2. t[k] = h[k] /\ t[k - 1] = h[k - 1] /\ Follows(h, k)
      BY <1>2, <3>1 DEF Story
    <3> QED BY <3>2 DEF Follows
  <2> QED BY <2>1, <2>2
<1>6. Story(t)
  BY <1>1, <1>2, <1>3, <1>4, <1>5 DEF Story
<1> QED BY <1>2, <1>6 DEF t, e

LEMMA AnswerGiven ==
    ASSUME NEW h, Story(h), NEW n \in Nat, Len(h) >= 2, h[Len(h)] = [role |-> "user", turn |-> n]
    PROVE  LET t == Append(h, [role |-> "assistant", turn |-> n]) IN
           /\ Story(t) /\ Len(t) = Len(h) + 1 /\ t[Len(t)].turn = n
           /\ \A k \in 1..Len(h) : t[k] = h[k]
<1> DEFINE e == [role |-> "assistant", turn |-> n]
           t == Append(h, e)
<1>1. h \in Seq(Message) /\ e \in Message /\ Len(h) \in Nat /\ Len(h) >= 1
  BY DEF Story, Message
<1> HIDE DEF e
<1>2. /\ t \in Seq(Message) /\ Len(t) = Len(h) + 1 /\ t[Len(h) + 1] = e
      /\ \A k \in 1..Len(h) : t[k] = h[k]
  BY <1>1, AppendProperties
<1> HIDE DEF t
<1>3. t[1] = System
  BY <1>1, <1>2 DEF Story
<1>4. ASSUME NEW k \in 2..Len(t) PROVE t[k].role # "system"
  <2>1. CASE k = Len(h) + 1
    BY <1>2, <2>1 DEF e
  <2>2. CASE k # Len(h) + 1
    <3>1. k \in 2..Len(h)
      BY <1>1, <1>2, <2>2
    <3> QED BY <1>2, <3>1 DEF Story
  <2> QED BY <2>1, <2>2
<1>5. ASSUME NEW k \in 3..Len(t) PROVE Follows(t, k)
  <2>1. CASE k = Len(h) + 1
    <3>1. t[k] = e /\ k - 1 = Len(h) /\ k - 1 \in 1..Len(h)
      BY <1>1, <1>2, <2>1
    <3>2. t[k - 1] = [role |-> "user", turn |-> n]
      BY <1>2, <3>1
    <3> QED BY <3>1, <3>2 DEF Follows, e
  <2>2. CASE k # Len(h) + 1
    <3>1. k \in 3..Len(h) /\ k \in 1..Len(h) /\ k - 1 \in 1..Len(h)
      BY <1>1, <1>2, <2>2
    <3>2. t[k] = h[k] /\ t[k - 1] = h[k - 1] /\ Follows(h, k)
      BY <1>2, <3>1 DEF Story
    <3> QED BY <3>2 DEF Follows
  <2> QED BY <2>1, <2>2
<1>6. Story(t)
  BY <1>1, <1>2, <1>3, <1>4, <1>5 DEF Story
<1>7. t[Len(t)].turn = n
  BY <1>2 DEF e
<1> QED BY <1>2, <1>6, <1>7 DEF t, e

LEMMA TakenBack ==
    ASSUME NEW h, Story(h), Len(h) >= 2
    PROVE  LET t == ForgetsQuestion(h) IN
           /\ Story(t) /\ Len(t) = Len(h) - 1
           /\ \A k \in 1..Len(t) : t[k] = h[k]
<1> DEFINE t == ForgetsQuestion(h)
<1>1. h \in Seq(Message) /\ Len(h) \in Nat
  BY DEF Story
<1>2. /\ t \in Seq(Message) /\ Len(t) = Len(h) - 1
      /\ \A k \in 1..Len(t) : t[k] = h[k]
  <2>1. \A i \in 1..(Len(h) - 1) : h[i] \in Message
    BY <1>1
  <2>2. Len(h) - 1 \in Int
    BY <1>1
  <2>3. /\ SubSeq(h, 1, Len(h) - 1) \in Seq(Message)
        /\ Len(SubSeq(h, 1, Len(h) - 1)) = Len(h) - 1
        /\ \A i \in 1..(Len(h) - 1) : SubSeq(h, 1, Len(h) - 1)[i] = h[i]
    BY <1>1, <2>1, <2>2, SubSeqProperties
  <2> QED BY <2>3 DEF ForgetsQuestion
<1> HIDE DEF t
<1>3. t[1] = System /\ \A k \in 2..Len(t) : t[k].role # "system"
  BY <1>1, <1>2 DEF Story
<1>4. ASSUME NEW k \in 3..Len(t) PROVE Follows(t, k)
  <2>1. k \in 3..Len(h) /\ k \in 1..Len(t) /\ k - 1 \in 1..Len(t)
    BY <1>1, <1>2
  <2>2. t[k] = h[k] /\ t[k - 1] = h[k - 1] /\ Follows(h, k)
    BY <1>2, <2>1 DEF Story
  <2> QED BY <2>2 DEF Follows
<1>5. Story(t)
  BY <1>1, <1>2, <1>3, <1>4 DEF Story
<1> QED BY <1>2, <1>5 DEF t

LEMMA Trims ==
    ASSUME ChatAssumption, NEW h, Story(h)
    PROVE  LET t == Trimmed(h) IN
           /\ Story(t) /\ Len(t) <= 1 + 2 * MaxHistory
           /\ \A k \in 2..Len(t) : \E j \in 2..Len(h) : t[k] = h[j]
<1> DEFINE most == 1 + 2 * MaxHistory
           t == Trimmed(h)
<1>1. h \in Seq(Message) /\ Len(h) \in Nat /\ Len(h) >= 1 /\ most \in Nat /\ most >= 3
      /\ t = IF Len(h) > most THEN <<h[1]>> \o SubSeq(h, Len(h) - most + 2, Len(h)) ELSE h
  BY DEF Story, ChatAssumption, Trimmed
<1> HIDE DEF most, t
<1>2. CASE Len(h) <= most
  <2>1. t = h
    BY <1>1, <1>2
  <2> QED BY <1>1, <1>2, <2>1 DEF t, most
<1>3. CASE Len(h) > most
  <2> DEFINE first == Len(h) - most + 2
             one == <<h[1]>>
             rest == SubSeq(h, first, Len(h))
  <2>1. first \in Int /\ first >= 3 /\ first <= Len(h) /\ Len(h) - first + 1 = most - 1
    BY <1>1, <1>3
  <2>2. /\ one \in Seq(Message) /\ Len(one) = 1 /\ one[1] = h[1]
    <3>1. h[1] \in Message
      BY <1>1
    <3> QED BY <3>1
  <2>3. /\ rest \in Seq(Message) /\ Len(rest) = most - 1
        /\ \A i \in 1..(most - 1) : rest[i] = h[first + i - 1]
    <3>1. \A i \in first..Len(h) : h[i] \in Message
      BY <1>1, <2>1
    <3> HIDE DEF first
    <3>2. /\ rest \in Seq(Message)
          /\ Len(rest) = IF first <= Len(h) THEN Len(h) - first + 1 ELSE 0
          /\ \A i \in 1..(Len(h) - first + 1) : rest[i] = h[first + i - 1]
      BY <1>1, <2>1, <3>1, SubSeqProperties
    <3> QED BY <2>1, <3>2
  <2> HIDE DEF one, rest
  <2>4. t = one \o rest
    BY <1>1, <1>3 DEF one, rest
  <2>5. /\ t \in Seq(Message) /\ Len(t) = Len(one) + Len(rest)
        /\ \A i \in 1..(Len(one) + Len(rest)) :
             t[i] = IF i <= Len(one) THEN one[i] ELSE rest[i - Len(one)]
    BY <2>2, <2>3, <2>4, ConcatProperties
  <2>6. Len(t) = most /\ t[1] = h[1]
    BY <1>1, <2>2, <2>3, <2>5
  <2>7. ASSUME NEW k \in 2..most
        PROVE  t[k] = h[Len(h) - most + k] /\ Len(h) - most + k \in 3..Len(h)
    <3>1. k - 1 \in 1..(most - 1) /\ k \in 1..most /\ ~(k <= 1)
      BY <1>1
    <3>2. t[k] = rest[k - 1]
      BY <2>2, <2>3, <2>5, <3>1
    <3>3. rest[k - 1] = h[first + (k - 1) - 1]
      BY <2>3, <3>1
    <3>4. first + (k - 1) - 1 = Len(h) - most + k
      BY <1>1
    <3>5. Len(h) - most + k \in 3..Len(h)
      BY <1>1, <1>3
    <3> QED BY <3>2, <3>3, <3>4, <3>5
  <2> HIDE DEF first
  <2>8. ASSUME NEW k \in 3..Len(t) PROVE Follows(t, k)
    <3> DEFINE j == Len(h) - most + k
    <3>1. k \in 2..most /\ k - 1 \in 2..most
      BY <1>1, <2>6
    <3>2. t[k] = h[j] /\ j \in 3..Len(h)
      BY <2>7, <3>1
    <3>3. t[k - 1] = h[Len(h) - most + (k - 1)]
      BY <2>7, <3>1
    <3>4. Len(h) - most + (k - 1) = j - 1
      BY <1>1
    <3>5. Follows(h, j)
      BY <3>2 DEF Story
    <3> HIDE DEF j
    <3> QED BY <3>2, <3>3, <3>4, <3>5 DEF Follows
  <2>9. ASSUME NEW k \in 2..Len(t) PROVE t[k].role # "system"
    <3>1. t[k] = h[Len(h) - most + k] /\ Len(h) - most + k \in 2..Len(h)
      BY <1>1, <2>6, <2>7
    <3> QED BY <3>1 DEF Story
  <2>10. Story(t)
    BY <1>1, <2>5, <2>6, <2>8, <2>9 DEF Story
  <2>11. \A k \in 2..Len(t) : \E j \in 2..Len(h) : t[k] = h[j]
    <3> SUFFICES ASSUME NEW k \in 2..Len(t) PROVE \E j \in 2..Len(h) : t[k] = h[j]
      OBVIOUS
    <3>1. t[k] = h[Len(h) - most + k] /\ Len(h) - most + k \in 2..Len(h)
      BY <1>1, <2>6, <2>7
    <3> QED BY <3>1
  <2>12. Len(t) <= most
    BY <1>1, <2>6
  <2> QED BY <2>10, <2>11, <2>12 DEF t, most
<1> QED BY <1>1, <1>2, <1>3
-----------------------------------------------------------------------------
(* The loop goes elsewhere with the conversation as it is.                 *)
LEMMA Elsewhere ==
    ASSUME ChatInv, UNCHANGED <<style, turn, context, failed>>,
           \/ at' \in {"ended", "raised"}
           \/ at' = at
           \/ /\ Always /\ at \in {"listening", "transcribing"}
              /\ at' \in {"listening", "transcribing", "asking"}
    PROVE  ChatInv'
<1>1. /\ (Always' <=> Always) /\ Before(turn + 1)' /\ (Before(turn) => Before(turn)')
      /\ Story(context)'
  BY DEF ChatInv, Always, Before, Story
<1>2. WaitingTurn' => WaitingTurn
  BY <1>1 DEF WaitingTurn
<1>3. at' = "generating" => Asked'
  BY DEF ChatInv, Asked, Said
<1>4. LengthInv'
  BY <1>1, <1>2 DEF ChatInv, LengthInv, WaitingTurn, Always
<1>5. at' \in {"transcribing", "polling"} => Always'
  BY <1>1 DEF ChatInv
<1>6. (\A k \in 2..Len(context) : context[k].turn \notin failed)' /\ (turn \in Nat)' /\ (failed \subseteq Nat)'
  BY DEF ChatInv
<1> QED BY <1>1, <1>2, <1>3, <1>4, <1>5, <1>6 DEF ChatInv

(* A turn passes in which nothing more is said.                            *)
LEMMA TurnPasses ==
    ASSUME ChatAssumption, ChatInv, UNCHANGED <<context, failed>>, turn' = turn + 1,
           \/ /\ ~Always /\ ~Always' /\ at = "listening" /\ at' \in {"listening", "asking", "ended"}
           \/ Always' /\ at = "polling" /\ at' = "listening" /\ Always
    PROVE  ChatInv'
<1>1. Before(turn + 1) /\ turn \in Nat /\ Story(context) /\ Len(context) \in Nat
  BY Lengths DEF ChatInv
<1>2. \A k \in 2..Len(context) : context[k].turn \in Nat
  BY <1>1, Lengths DEF Message
<1>3. /\ \A f \in failed : f \in Nat
      /\ \A k \in 2..Len(context) : context[k].turn < turn + 1
      /\ \A f \in failed : f < turn + 1
  BY <1>1 DEF ChatInv, Before
<1>4. Before(turn)' /\ Before(turn + 1)'
  BY <1>1, <1>2, <1>3 DEF Before
<1>5. LengthInv'
  <2>1. Len(context') = Len(context) /\ MaxHistory \in Nat
    BY DEF ChatAssumption
  <2>2. /\ Len(context) <= 2 * MaxHistory + turn + 1
        /\ ~Always => Len(context) <= 2 * MaxHistory + turn
    BY DEF ChatInv, LengthInv
  <2>3. Len(context') <= 2 * MaxHistory + turn'
    BY <1>1, <2>1, <2>2
  <2>4. ~Always' => Len(context') <= 2 * MaxHistory + turn' - 1
    BY <1>1, <2>1, <2>2
  <2>5. Len(context') <= 2 * MaxHistory + turn' + 1 /\ turn' >= 1
    BY <1>1, <2>1, <2>3
  <2> QED BY <2>3, <2>4, <2>5 DEF LengthInv
<1>6. (Story(context))' /\ (turn \in Nat)' /\ (failed \subseteq Nat)'
      /\ (\A k \in 2..Len(context) : context[k].turn \notin failed)'
      /\ at' \notin {"transcribing", "polling", "generating"}
  BY <1>1 DEF ChatInv, Story
<1> QED BY <1>4, <1>5, <1>6 DEF ChatInv

LEMMA AskKeeps == ASSUME ChatAssumption, ChatInv, Ask PROVE ChatInv'
<1>1. /\ at = "asking" /\ at' = "generating" /\ UNCHANGED <<style, turn, failed>>
      /\ context' = Append(context, [role |-> "user", turn |-> turn])
      /\ Before(turn) /\ turn \in Nat /\ Story(context)
      /\ Len(context) \in Nat
  BY Lengths DEF Ask, loopVars, Said, ChatInv, WaitingTurn
<1>2. /\ Story(context') /\ Len(context') = Len(context) + 1
      /\ context'[Len(context')] = [role |-> "user", turn |-> turn]
      /\ \A k \in 1..Len(context) : context'[k] = context[k]
  BY <1>1, Question DEF Before
<1>3. ASSUME NEW k \in 2..(Len(context') - 1)
      PROVE  context'[k].turn < turn /\ context'[k].turn \notin failed
  <2>1. k \in 2..Len(context) /\ k \in 1..Len(context)
    BY <1>1, <1>2
  <2> QED BY <1>1, <1>2, <2>1 DEF Before, ChatInv
<1>4. turn \notin failed /\ (\A f \in failed : f < turn)
  <2>1. \A f \in failed : f < turn
    BY <1>1 DEF Before
  <2>2. turn \in Nat /\ ~(turn < turn)
    BY <1>1
  <2> QED BY <2>1, <2>2
<1>5. \A k \in 2..Len(context') : k \in 2..(Len(context') - 1) \/ k = Len(context')
  BY <1>1, <1>2
<1>6. /\ \A k \in 2..Len(context') : context'[k].turn \notin failed'
      /\ Before(turn + 1)'
  <2>1. \A k \in 2..Len(context') : context'[k].turn \in Nat
    BY <1>2, Lengths DEF Message
  <2>2. failed \subseteq Nat
    BY DEF ChatInv
  <2>3. ASSUME NEW k \in 2..Len(context')
        PROVE  context'[k].turn \notin failed' /\ context'[k].turn < turn' + 1
    <3>1. CASE k \in 2..(Len(context') - 1)
      BY <1>1, <1>3, <2>1, <3>1
    <3>2. CASE k = Len(context')
      BY <1>1, <1>2, <1>4, <3>2
    <3> QED BY <1>5, <3>1, <3>2
  <2>4. failed' = failed /\ turn' = turn /\ \A f \in failed : f < turn + 1
    BY <1>1, <1>4, <2>2
  <2> QED BY <2>3, <2>4 DEF Before
<1>7. Asked'
  BY <1>1, <1>2, <1>3, <1>4 DEF Asked, Said, Story
<1>8. LengthInv'
  BY <1>1, <1>2 DEF ChatInv, LengthInv, WaitingTurn, Always, ChatAssumption
<1>9. ~WaitingTurn' /\ at' \notin {"transcribing", "polling"} /\ (turn \in Nat)' /\ (failed \subseteq Nat)'
  BY <1>1 DEF WaitingTurn, ChatInv
<1> QED BY <1>2, <1>6, <1>7, <1>8, <1>9 DEF ChatInv

LEMMA GenerateFailsKeeps == ASSUME ChatAssumption, ChatInv, GenerateFails PROVE ChatInv'
<1>1. /\ at = "generating" /\ at' = "listening" /\ UNCHANGED style
      /\ context' = ForgetsQuestion(context) /\ failed' = failed \cup {turn}
      /\ turn' = NextTurn /\ Asked /\ turn \in Nat /\ Story(context) /\ Len(context) \in Nat
      /\ failed \subseteq Nat
  BY Lengths DEF GenerateFails, ChatInv
<1>2. /\ Story(context') /\ Len(context') = Len(context) - 1
      /\ \A k \in 1..Len(context') : context'[k] = context[k]
  BY <1>1, TakenBack DEF Asked
<1>3. turn' \in Nat /\ turn' >= turn /\ (Always => turn' = turn + 1) /\ (~Always => turn' = turn)
  BY <1>1 DEF NextTurn
<1>4. ASSUME NEW k \in 2..Len(context')
      PROVE  /\ context'[k].turn \in Nat /\ context'[k].turn < turn
             /\ context'[k].turn \notin failed'
  <2>1. k \in 2..(Len(context) - 1) /\ k \in 1..Len(context') /\ k \in 2..Len(context)
    BY <1>1, <1>2
  <2>2. context'[k].turn \in Nat
    BY <1>2, <2>1, Lengths DEF Message
  <2> QED BY <1>1, <1>2, <2>1, <2>2 DEF Asked, ChatInv
<1>5. \A f \in failed' : f \in Nat /\ f <= turn
  BY <1>1 DEF Asked
<1>6. Before(turn + 1)'
  BY <1>1, <1>3, <1>4, <1>5 DEF Before
<1>7. WaitingTurn' => Before(turn)'
  <2>1. WaitingTurn' => turn' = turn + 1
    BY <1>1, <1>3 DEF WaitingTurn, Always
  <2>2. turn' = turn + 1 => Before(turn)'
    BY <1>1, <1>4, <1>5 DEF Before
  <2> QED BY <2>1, <2>2
<1>8. LengthInv'
  <2>1. /\ MaxHistory \in Nat /\ Len(context') = Len(context) - 1 /\ Len(context) \in Nat
        /\ turn \in Nat /\ turn' \in Nat /\ turn' >= turn
    BY <1>1, <1>2, <1>3 DEF ChatAssumption
  <2>2. /\ Len(context) <= 2 * MaxHistory + turn + 1
        /\ ~Always => Len(context) <= 2 * MaxHistory + turn
        /\ (Always <=> Always') /\ at' = "listening"
    BY <1>1 DEF ChatInv, LengthInv, Always
  <2>3. Len(context') <= 2 * MaxHistory + turn'
    BY <2>1, <2>2
  <2>4. Len(context') <= 2 * MaxHistory + turn' + 1
    BY <2>1, <2>3
  <2> QED BY <2>2, <2>3, <2>4 DEF LengthInv, WaitingTurn
<1>9. at' \notin {"transcribing", "polling", "generating"} /\ (failed \subseteq Nat)'
  BY <1>1, <1>5
<1> QED BY <1>2, <1>3, <1>4, <1>6, <1>7, <1>8, <1>9 DEF ChatInv

LEMMA GenerateEmptyKeeps == ASSUME ChatAssumption, ChatInv, GenerateEmpty PROVE ChatInv'
<1>1. /\ at = "generating" /\ at' = "listening" /\ UNCHANGED <<style, context, failed>>
      /\ turn' = NextTurn /\ Asked /\ turn \in Nat /\ Story(context) /\ Len(context) \in Nat
      /\ failed \subseteq Nat /\ Before(turn + 1)
  BY Lengths DEF GenerateEmpty, ChatInv
<1>2. turn' \in Nat /\ turn' >= turn /\ (Always => turn' = turn + 1) /\ (~Always => turn' = turn)
  BY <1>1 DEF NextTurn
<1>3. \A k \in 2..Len(context) : context[k].turn \in Nat /\ context[k].turn < turn + 1
  BY <1>1, Lengths DEF Message, Before
<1>4. \A f \in failed : f \in Nat /\ f < turn + 1
  BY <1>1 DEF Before
<1>5. Before(turn + 1)' /\ (WaitingTurn' => Before(turn)')
  BY <1>1, <1>2, <1>3, <1>4 DEF Before, WaitingTurn, Always
<1>6. LengthInv'
  BY <1>1, <1>2 DEF ChatInv, LengthInv, WaitingTurn, Always, ChatAssumption
<1>7. /\ Story(context)' /\ (failed \subseteq Nat)' /\ at' \notin {"transcribing", "polling", "generating"}
      /\ (\A k \in 2..Len(context) : context[k].turn \notin failed)'
  BY <1>1 DEF ChatInv, Story
<1> QED BY <1>2, <1>5, <1>6, <1>7 DEF ChatInv

LEMMA GeneratesKeeps == ASSUME ChatAssumption, ChatInv, Generates \/ SpeakRaises PROVE ChatInv'
<1>1. /\ at = "generating" /\ UNCHANGED <<style, turn, failed>>
      /\ context' = Trimmed(Append(context, [role |-> "assistant", turn |-> turn]))
      /\ Asked /\ turn \in Nat /\ Story(context) /\ Len(context) \in Nat
      /\ failed \subseteq Nat /\ Before(turn + 1)
      /\ (at' = "polling" /\ Always) \/ (at' \in {"listening", "raised"} /\ ~Always)
  <2>1. UNCHANGED <<style, turn, failed>>
    BY DEF Generates, SpeakRaises, loopVars
  <2>2. (at' = "polling" /\ Always) \/ (at' \in {"listening", "raised"} /\ ~Always)
    BY DEF Generates, SpeakRaises, Always
  <2>3. /\ at = "generating"
        /\ context' = Trimmed(Append(context, [role |-> "assistant", turn |-> turn]))
    BY DEF Generates, SpeakRaises, Said
  <2>4. /\ Asked /\ turn \in Nat /\ Story(context) /\ Len(context) \in Nat
        /\ failed \subseteq Nat /\ Before(turn + 1)
    BY <2>3, Lengths DEF ChatInv
  <2> QED BY <2>1, <2>2, <2>3, <2>4
<1> DEFINE long == Append(context, [role |-> "assistant", turn |-> turn])
<1>2. /\ Story(long) /\ Len(long) = Len(context) + 1 /\ long[Len(long)].turn = turn
      /\ \A k \in 1..Len(context) : long[k] = context[k]
  BY <1>1, AnswerGiven DEF Asked, Said
<1> HIDE DEF long
<1>3. /\ Story(context') /\ Len(context') <= 1 + 2 * MaxHistory
      /\ \A k \in 2..Len(context') : \E j \in 2..Len(long) : context'[k] = long[j]
  <2>1. context' = Trimmed(long)
    BY <1>1 DEF long
  <2> QED BY <1>2, <2>1, Trims
<1>4. ASSUME NEW j \in 2..Len(long) PROVE long[j].turn < turn + 1 /\ long[j].turn \notin failed
  <2>1. CASE j = Len(context) + 1
    BY <1>1, <1>2, <2>1 DEF Asked
  <2>2. CASE j # Len(context) + 1
    <3>1. j \in 2..Len(context) /\ j \in 1..Len(context)
      BY <1>1, <1>2, <2>2
    <3> QED BY <1>1, <1>2, <3>1 DEF Before, ChatInv
  <2> QED BY <2>1, <2>2
<1>5. \A k \in 2..Len(context') : context'[k].turn < turn + 1 /\ context'[k].turn \notin failed
  BY <1>3, <1>4
<1>6. Before(turn + 1)' /\ (\A k \in 2..Len(context) : context[k].turn \notin failed)'
  BY <1>1, <1>5 DEF Before
<1>7. ~WaitingTurn' /\ at' # "generating" /\ (at' \in {"transcribing", "polling"} => Always')
  BY <1>1 DEF WaitingTurn, Always
<1>8. LengthInv'
  <2>1. Len(context') \in Nat
    BY <1>3, Lengths
  <2>2. ~Always => turn >= 1
    BY <1>1 DEF ChatInv, LengthInv
  <2> QED BY <1>1, <1>3, <1>7, <2>1, <2>2 DEF LengthInv, Always, ChatAssumption
<1> QED BY <1>1, <1>3, <1>6, <1>7, <1>8 DEF ChatInv

(* What the speak threads and the operator do beside the loop.             *)
PlaysOn ==
    \/ \E t \in DOMAIN speaker : SpeakFails(t) \/ Plays(t) \/ PlayReturns(t)
    \/ SoundEnds \/ OperatorSpeaksOver

LEMMA PlaysKeep == ASSUME ChatInv, PlaysOn PROVE ChatInv'
<1>1. UNCHANGED <<style, turn, context, failed, at>>
  BY DEF PlaysOn, SpeakFails, Plays, PlayReturns, SoundEnds, OperatorSpeaksOver, loopVars
<1> QED BY <1>1, Elsewhere

LEMMA ListensKeep ==
    ASSUME ChatInv,
           LeavesLoop \/ ListenRaises \/ WindowEmpty \/ HearsOutOfBudget \/ Hears \/ Transcribes
           \/ GenerateRaises
    PROVE  ChatInv'
<1>1. UNCHANGED <<style, turn, context, failed>>
  BY DEF LeavesLoop, ListenRaises, WindowEmpty, HearsOutOfBudget, Hears, Transcribes, GenerateRaises,
         SessionEnds, loopVars
<1>2. \/ at' \in {"ended", "raised"}
      \/ /\ Always /\ at \in {"listening", "transcribing"}
         /\ at' \in {"listening", "transcribing", "asking"}
  <2>1. CASE LeavesLoop \/ ListenRaises \/ HearsOutOfBudget \/ GenerateRaises
    BY <2>1 DEF LeavesLoop, ListenRaises, HearsOutOfBudget, GenerateRaises, SessionEnds
  <2>2. CASE WindowEmpty \/ Hears
    BY <2>2 DEF WindowEmpty, Hears, Silence, InTime
  <2>3. CASE Transcribes
    <3>1. at = "transcribing" /\ Always
      BY <2>3 DEF Transcribes, ChatInv
    <3>2. at' \in {"listening", "asking", "ended", "raised"}
      BY <2>3 DEF Transcribes, Silence, WakeCheck
    <3> QED BY <3>1, <3>2
  <2> QED BY <2>1, <2>2, <2>3
<1> QED BY <1>1, <1>2, Elsewhere

LEMMA TurnsKeep ==
    ASSUME ChatAssumption, ChatInv,
           TurnNothing \/ TurnToTyping \/ TurnText \/ PollsHit \/ PollsDone
    PROVE  ChatInv'
<1>1. UNCHANGED <<context, failed>> /\ turn' = turn + 1
  BY DEF TurnNothing, TurnToTyping, TurnText, PollsHit, PollsDone, TurnDone
<1>2. \/ /\ ~Always /\ ~Always' /\ at = "listening" /\ at' \in {"listening", "asking", "ended"}
      \/ Always' /\ at = "polling" /\ at' = "listening" /\ Always
  <2>1. CASE TurnNothing \/ TurnToTyping \/ TurnText
    BY <2>1 DEF TurnNothing, TurnToTyping, TurnText, InTime, Always
  <2>2. CASE PollsHit \/ PollsDone
    BY <2>2 DEF PollsHit, PollsDone, TurnDone, Always, ChatInv
  <2> QED BY <2>1, <2>2
<1> QED BY <1>1, <1>2, TurnPasses

LEMMA ChatKeeps == ASSUME ChatAssumption, ChatInv, [ChatNext]_chatVars PROVE ChatInv'
<1>1. CASE UNCHANGED chatVars
  <2>1. UNCHANGED <<style, turn, context, failed, at>>
    BY <1>1 DEF chatVars, loopVars
  <2> QED BY <2>1, Elsewhere
<1>2. CASE LeavesLoop \/ ListenRaises \/ WindowEmpty \/ HearsOutOfBudget \/ Hears \/ Transcribes
           \/ GenerateRaises
  BY <1>2, ListensKeep
<1>3. CASE TurnNothing \/ TurnToTyping \/ TurnText \/ PollsHit \/ PollsDone
  BY <1>3, TurnsKeep
<1>4. CASE Ask
  BY <1>4, AskKeeps
<1>5. CASE GenerateFails
  BY <1>5, GenerateFailsKeeps
<1>6. CASE GenerateEmpty
  BY <1>6, GenerateEmptyKeeps
<1>7. CASE Generates \/ SpeakRaises
  BY <1>7, GeneratesKeeps
<1>8. CASE PlaysOn
  BY <1>8, PlaysKeep
<1> QED BY <1>1, <1>2, <1>3, <1>4, <1>5, <1>6, <1>7, <1>8 DEF ChatNext, PlaysOn

LEMMA ChatStarts == ASSUME ChatAssumption, ChatInit PROVE ChatInv
<1>1. context = <<System>> /\ turn = 0 /\ failed = {} /\ at = "listening"
  BY DEF ChatInit
<1>2. context \in Seq(Message) /\ Len(context) = 1 /\ context[1] = System
  <2>1. System \in Message
    BY DEF System, Message
  <2> QED BY <1>1, <2>1
<1>3. Story(context)
  BY <1>2 DEF Story
<1>4. \A n : Before(n)
  BY <1>1, <1>2 DEF Before
<1>5. LengthInv
  BY <1>1, <1>2 DEF LengthInv, ChatAssumption
<1> QED BY <1>1, <1>2, <1>3, <1>4, <1>5 DEF ChatInv

(* For every style, number of turns and length of the history, and         *)
(* whatever fails or is interrupted: the model is sent the prompt, then    *)
(* what was said, in order and in pairs, with no turn that failed and no   *)
(* more than the history allows (ChatSession._generate, _trim_history).    *)
THEOREM ContextIsTold ==
    ASSUME ChatAssumption PROVE ChatSpec => []ContextIsTheConversation
<1>1. ASSUME ChatInv PROVE ContextIsTheConversation
  <2>1. Story(context) /\ Len(context) \in Nat /\ DOMAIN context = 1..Len(context)
    BY <1>1, Lengths DEF ChatInv, Story
  <2>2. ASSUME NEW k \in DOMAIN context PROVE (context[k] = System) = (k = 1)
    <3>1. CASE k = 1
      BY <2>1, <3>1 DEF Story
    <3>2. CASE k # 1
      <4>1. k \in 2..Len(context)
        BY <2>1, <3>2
      <4>2. context[k].role # System.role
        BY <2>1, <4>1 DEF Story, System
      <4>3. context[k] # System
        BY <4>2
      <4> QED BY <3>2, <4>3
    <3> QED BY <3>1, <3>2
  <2>3. ASSUME NEW k \in 3..Len(context) PROVE Follows(context, k)
    BY <2>1 DEF Story
  <2>4. ASSUME NEW k \in DOMAIN context PROVE context[k].turn \notin failed \/ k = 1
    BY <1>1, <2>1 DEF ChatInv
  <2>5. Len(context) <= 1 + 2 * MaxHistory + turn
    BY <1>1, <2>1 DEF ChatInv, LengthInv, ChatAssumption
  <2> QED BY <2>2, <2>3, <2>4, <2>5 DEF ContextIsTheConversation, Follows
<1>2. ChatInv /\ [ChatNext]_chatVars => ChatInv'
  BY ChatKeeps
<1> QED BY <1>1, <1>2, ChatStarts, PTL DEF ChatSpec

-----------------------------------------------------------------------------
(* Memories: Memory.                                                       *)

IsMemory(row) == DOMAIN row = {"text", "expires", "deleted"} /\ row.text \in Int /\ row.expires \in Int

TablesInv ==
    /\ DOMAIN memories = given /\ given \subseteq Memories /\ DOMAIN vectors \subseteq given
    /\ now \in Int /\ DOMAIN client = Clients
    /\ \A m \in given : IsMemory(memories[m])

(* What a call holds while it is at each of its places.                    *)
PlaceInv(c) ==
    /\ client[c].at = "write" =>
         /\ client[c].on \in given /\ IsMemory(client[c].row)
         /\ client[c].row.expires = memories[client[c].on].expires
    /\ client[c].at \in {"drop", "embed", "save"} =>
         /\ client[c].on \in given
         /\ "todo" \in DOMAIN client[c] =>
              client[c].sweep \in {"bulk", "reindex"} /\ client[c].todo \subseteq given
    /\ client[c].at \in {"bulk", "reindex"} =>
         DOMAIN client[c] = {"at", "todo"} /\ client[c].todo \subseteq given
    /\ client[c].at = "recall" =>
         /\ DOMAIN client[c] = {"at", "result", "gone", "listed"}
         /\ client[c].gone \subseteq given /\ client[c].listed \subseteq given
         /\ client[c].result \cap client[c].gone \subseteq revived
         /\ client[c].result \cap client[c].listed = {}
         /\ \A m \in client[c].gone : Live(m) => m \in revived

(* A memory on which no two calls overlapped: the one at work on it has    *)
(* read what is there, and with none its vector is that of its text.       *)
Matches(m) == m \in DOMAIN vectors => memories[m].deleted \/ vectors[m] = memories[m].text
WorkInv(c) ==
    \A m : Works(c, m) /\ m \notin raced =>
        /\ client[c].at = "write" => client[c].row.text = memories[m].text
        /\ client[c].at = "drop" => IF "text" \in DOMAIN client[c]
                                    THEN client[c].text = memories[m].text
                                    ELSE memories[m].deleted
        /\ client[c].at \in {"embed", "save"} => client[c].text = memories[m].text
        /\ client[c].at = "embed" => m \notin DOMAIN vectors
        /\ client[c].at = "save" => Matches(m)
Restful(m) == m \in given /\ m \notin raced /\ (\A c \in Clients : ~Works(c, m)) => Matches(m)

MemoryInv ==
    /\ TablesInv
    /\ \A c \in Clients : PlaceInv(c) /\ WorkInv(c)
    /\ \A c, d \in Clients, m \in given : c # d /\ Works(c, m) /\ Works(d, m) => m \in raced
    /\ \A m \in given : Restful(m)

LEMMA WorksOnGiven ==
    ASSUME MemoryInv, NEW c \in Clients, NEW m, Works(c, m) PROVE m \in given /\ m = client[c].on
BY DEF MemoryInv, PlaceInv, Works

(* What the call of one client does to one memory, m, must show.           *)
LEMMA OneCalls ==
    ASSUME MemoryInv, NEW c \in Clients, NEW m,
           \A d \in Clients \ {c} : client'[d] = client[d],
           given \subseteq given', raced \subseteq raced', revived \subseteq revived',
           \A k \in given : memories'[k].expires = memories[k].expires,
           \A k \in given : Live(k)' => Live(k) \/ k \in revived',
           \A k \in given \ {m} : /\ memories'[k].text = memories[k].text
                                  /\ memories[k].deleted => memories'[k].deleted
                                  /\ k \in DOMAIN vectors' <=> k \in DOMAIN vectors
                                  /\ k \in DOMAIN vectors => vectors'[k] = vectors[k],
           given' \subseteq given \cup {m},
           \A k : k # m => ~Works(c, k) /\ ~Works(c, k)',
           m \in given \cup given' =>
               /\ \A d \in Clients \ {c} : Works(d, m) => m \in raced'
               /\ Restful(m)',
           TablesInv', PlaceInv(c)', WorkInv(c)'
    PROVE  MemoryInv'
<1>1. ASSUME NEW d \in Clients \ {c} PROVE PlaceInv(d)'
  <2>1. PlaceInv(d) /\ client'[d] = client[d]
    BY DEF MemoryInv
  <2>2. (\A k \in client[d].gone : Live(k) => k \in revived) /\ client[d].gone \subseteq given
            => \A k \in client[d].gone : Live(k)' => k \in revived'
    OBVIOUS
  <2> QED BY <2>1, <2>2 DEF PlaceInv
<1>2. ASSUME NEW d \in Clients \ {c} PROVE \A k : Works(d, k)' <=> Works(d, k)
  BY DEF Works
<1>3. ASSUME NEW d \in Clients \ {c}, NEW k, Works(d, k)', k \notin raced'
      PROVE  Works(d, k) /\ k \notin raced /\ k \in given \ {m}
  <2>1. Works(d, k) /\ k \notin raced
    BY <1>2, <1>3
  <2>2. k \in given
    BY <2>1, WorksOnGiven
  <2> QED BY <1>3, <2>1, <2>2
<1>4. ASSUME NEW k \in given \ {m}, Matches(k) PROVE Matches(k)'
  BY <1>4 DEF Matches
<1>5. ASSUME NEW d \in Clients \ {c} PROVE WorkInv(d)'
  <2> SUFFICES ASSUME NEW k, Works(d, k)', k \notin raced'
      PROVE  (/\ client[d].at = "write" => client[d].row.text = memories[k].text
              /\ client[d].at = "drop" => IF "text" \in DOMAIN client[d]
                                          THEN client[d].text = memories[k].text
                                          ELSE memories[k].deleted
              /\ client[d].at \in {"embed", "save"} => client[d].text = memories[k].text
              /\ client[d].at = "embed" => k \notin DOMAIN vectors
              /\ client[d].at = "save" => Matches(k))'
    BY DEF WorkInv
  <2>1. Works(d, k) /\ k \notin raced /\ k \in given \ {m} /\ client'[d] = client[d] /\ WorkInv(d)
    BY <1>3 DEF MemoryInv
  <2> QED BY <1>4, <2>1 DEF WorkInv
<1>6. ASSUME NEW d \in Clients, NEW e \in Clients, NEW k \in given', d # e, Works(d, k)', Works(e, k)'
      PROVE  k \in raced'
  <2>1. CASE d # c /\ e # c
    <3>1. Works(d, k) /\ Works(e, k) /\ k \in given
      BY <1>2, <1>6, <2>1, WorksOnGiven
    <3> QED BY <1>6, <3>1 DEF MemoryInv
  <2>2. CASE d = c
    BY <1>2, <1>6, <2>2
  <2>3. CASE e = c
    BY <1>2, <1>6, <2>3
  <2> QED BY <2>1, <2>2, <2>3
<1>7. ASSUME NEW k \in given' PROVE Restful(k)'
  <2>1. CASE k = m
    BY <1>7, <2>1
  <2>2. CASE k # m /\ k \notin raced' /\ \A d \in Clients : ~Works(d, k)'
    <3>1. k \in given \ {m} /\ k \notin raced /\ \A d \in Clients : ~Works(d, k)
      BY <1>2, <1>7, <2>2
    <3> QED BY <1>4, <3>1 DEF MemoryInv, Restful
  <2> QED BY <2>1, <2>2 DEF Restful
<1>8. \A d \in Clients : PlaceInv(d)' /\ WorkInv(d)'
  BY <1>1, <1>5
<1> QED BY <1>6, <1>7, <1>8 DEF MemoryInv

(* A call that works on nothing and changes neither table.                 *)
LEMMA OnlyLooks ==
    ASSUME MemoryInv, NEW c \in Clients, UNCHANGED <<memories, vectors, given, now, revived>>,
           raced' = raced,
           \A k : ~Works(c, k), client[c].at \notin {"write", "drop", "embed", "save"},
           DOMAIN client' = Clients, \A d \in Clients \ {c} : client'[d] = client[d],
           client'[c].at \notin {"write", "drop", "embed", "save"}, PlaceInv(c)'
    PROVE  MemoryInv'
<1>1. \A k : ~Works(c, k)'
  BY DEF Works
<1>2. WorkInv(c)' /\ TablesInv'
  BY <1>1 DEF WorkInv, MemoryInv, TablesInv, IsMemory
<1>3. \A k : Live(k)' => Live(k)
  BY DEF Live, Stored, Expired
<1>4. ASSUME NEW d \in Clients \ {c}, NEW k, Works(d, k) PROVE Works(d, k)'
  BY <1>4 DEF Works
<1>5. \A k \in given : Restful(k)'
  BY <1>4 DEF MemoryInv, Restful, Matches
<1>6. ASSUME NEW d \in Clients PROVE PlaceInv(d)' /\ WorkInv(d)'
  <2>1. CASE d = c
    BY <1>2, <2>1
  <2>2. CASE d # c
    <3>1. PlaceInv(d) /\ WorkInv(d) /\ client'[d] = client[d]
      BY <2>2 DEF MemoryInv
    <3>2. PlaceInv(d)'
      BY <1>3, <3>1 DEF PlaceInv
    <3>3. WorkInv(d)'
      BY <3>1 DEF WorkInv, Works, Matches
    <3> QED BY <3>2, <3>3
  <2> QED BY <2>1, <2>2
<1>7. ASSUME NEW d \in Clients, NEW e \in Clients, NEW k \in given', d # e, Works(d, k)', Works(e, k)'
      PROVE  k \in raced'
  <2>1. d # c /\ e # c
    BY <1>1, <1>7
  <2>2. Works(d, k) /\ Works(e, k)
    BY <1>7, <2>1 DEF Works
  <2> QED BY <1>7, <2>2 DEF MemoryInv
<1> QED BY <1>2, <1>5, <1>6, <1>7 DEF MemoryInv

LEMMA GoesTo ==
    ASSUME MemoryInv, NEW c \in Clients, NEW to, Proceeds(c, to)
    PROVE  /\ DOMAIN client' = Clients /\ client'[c] = to
           /\ \A d \in Clients \ {c} : client'[d] = client[d]
BY DEF MemoryInv, TablesInv, Proceeds

LEMMA NothingOnHand ==
    ASSUME NEW c, client[c].at \notin {"write", "drop", "embed", "save"} PROVE \A k : ~Works(c, k)
BY DEF Works
-----------------------------------------------------------------------------
LEMMA ListsKeep ==
    ASSUME MemoryInv, NEW c \in Clients,
           BulkLists(c) \/ ReindexLists(c) \/ Recall(c) \/ RecallLists(c)
    PROVE  MemoryInv'
<1>1. /\ client[c].at = "idle" /\ UNCHANGED <<memories, vectors, given, now, revived, raced>>
      /\ TablesInv
  BY DEF BulkLists, ReindexLists, Recall, RecallLists, Invokes, None, MemoryInv
<1>2. Found \subseteq given /\ \A m \in given \ Found : ~Live(m)
  BY DEF Found
<1>3. PICK to : /\ Proceeds(c, to)
                /\ \/ to.at \in {"bulk", "reindex"} /\ DOMAIN to = {"at", "todo"} /\ to.todo \subseteq given
                   \/ /\ to.at = "recall" /\ DOMAIN to = {"at", "result", "gone", "listed"}
                      /\ to.gone \subseteq given /\ to.listed \subseteq given
                      /\ to.result \cap to.gone = {} /\ to.result \cap to.listed = {}
                      /\ \A m \in to.gone : ~Live(m)
  <2>1. CASE BulkLists(c)
    BY <1>2, <2>1 DEF BulkLists
  <2>2. CASE ReindexLists(c)
    BY <2>2 DEF ReindexLists
  <2>3. CASE Recall(c)
    BY <1>2, <2>3 DEF Recall
  <2>4. CASE RecallLists(c)
    <3>1. {m \in DOMAIN vectors : Stored(m)} \subseteq given
      BY <1>1 DEF TablesInv
    <3> QED BY <1>2, <2>4, <3>1 DEF RecallLists
  <2> QED BY <2>1, <2>2, <2>3, <2>4
<1>4. /\ DOMAIN client' = Clients /\ client'[c] = to
      /\ \A d \in Clients \ {c} : client'[d] = client[d]
  BY <1>3, GoesTo
<1>5. \A m : Live(m)' <=> Live(m)
  BY <1>1 DEF Live, Stored, Expired
<1>6. PlaceInv(c)'
  BY <1>1, <1>3, <1>4, <1>5 DEF PlaceInv
<1> QED BY <1>1, <1>3, <1>4, <1>6, NothingOnHand, OnlyLooks

LEMMA RecallTakesKeeps ==
    ASSUME MemoryInv, NEW c \in Clients, RecallTakes(c) PROVE MemoryInv'
<1>1. /\ client[c].at = "recall" /\ UNCHANGED <<memories, vectors, given, now, revived, raced>>
      /\ PlaceInv(c)
  BY DEF RecallTakes, MemoryInv
<1>2. \A m : Live(m)' <=> Live(m)
  BY <1>1 DEF Live, Stored, Expired
<1>3. CASE Proceeds(c, None)
  <2>1. /\ DOMAIN client' = Clients /\ client'[c].at = "idle"
        /\ \A d \in Clients \ {c} : client'[d] = client[d]
    BY <1>3, GoesTo DEF None
  <2>2. PlaceInv(c)'
    BY <2>1 DEF PlaceInv
  <2> QED BY <1>1, <2>1, <2>2, NothingOnHand, OnlyLooks
<1>4. ASSUME NEW m \in client[c].listed,
             Proceeds(c, [client[c] EXCEPT !.listed = @ \ {m},
                                       !.gone = @ \cup (client[c].listed \ Found),
                                       !.result = IF Shows(c, m) THEN @ \cup {m} ELSE @])
      PROVE  MemoryInv'
  <2>1. DOMAIN client[c] = {"at", "result", "gone", "listed"}
    BY <1>1 DEF PlaceInv
  <2>2. /\ DOMAIN client' = Clients
        /\ client'[c] = [client[c] EXCEPT !.listed = @ \ {m},
                                          !.gone = @ \cup (client[c].listed \ Found),
                                          !.result = IF Shows(c, m) THEN @ \cup {m} ELSE @]
        /\ \A d \in Clients \ {c} : client'[d] = client[d]
    BY <1>4, GoesTo
  <2>3. /\ client'[c].at = "recall" /\ DOMAIN client'[c] = {"at", "result", "gone", "listed"}
        /\ client'[c].gone = client[c].gone \cup (client[c].listed \ Found)
        /\ client'[c].listed = client[c].listed \ {m}
        /\ client'[c].result = IF Live(m) THEN client[c].result \cup {m} ELSE client[c].result
    BY <1>1, <2>1, <2>2 DEF Shows
  <2>4. /\ client[c].gone \subseteq given /\ client[c].listed \subseteq given
        /\ client[c].result \cap client[c].gone \subseteq revived
        /\ client[c].result \cap client[c].listed = {}
        /\ \A k \in client[c].gone : Live(k) => k \in revived
    BY <1>1 DEF PlaceInv
  <2>5. \A k \in client[c].listed : k \in Found <=> Live(k)
    BY <2>4 DEF Found
  <2>6. /\ client'[c].gone \subseteq given /\ client'[c].listed \subseteq given
        /\ client'[c].result \cap client'[c].listed = {}
    BY <2>3, <2>4
  <2>7. client'[c].result \cap client'[c].gone \subseteq revived
    BY <2>3, <2>4, <2>5
  <2>8. \A k \in client'[c].gone : Live(k) => k \in revived
    BY <2>3, <2>4, <2>5
  <2>9. PlaceInv(c)'
    BY <1>1, <1>2, <2>3, <2>6, <2>7, <2>8 DEF PlaceInv
  <2> QED BY <1>1, <2>2, <2>3, <2>9, NothingOnHand, OnlyLooks
<1> QED BY <1>3, <1>4 DEF RecallTakes

(* A sweep is through with a memory, or with all of them.                  *)
LEMMA SweepPasses ==
    ASSUME MemoryInv, NEW c \in Clients, client[c].at \in {"bulk", "reindex"},
           UNCHANGED <<memories, vectors, given, now, revived, raced>>,
           Proceeds(c, None) \/ (\E m : client[c].at = "reindex" /\ Proceeds(c, [client[c] EXCEPT !.todo = @ \ {m}]))
    PROVE  MemoryInv'
<1>1. PlaceInv(c)
  BY DEF MemoryInv
<1>2. CASE Proceeds(c, None)
  <2>1. /\ DOMAIN client' = Clients /\ client'[c].at = "idle"
        /\ \A d \in Clients \ {c} : client'[d] = client[d]
    BY <1>2, GoesTo DEF None
  <2>2. PlaceInv(c)'
    BY <2>1 DEF PlaceInv
  <2> QED BY <2>1, <2>2, NothingOnHand, OnlyLooks
<1>3. ASSUME NEW m, client[c].at = "reindex", Proceeds(c, [client[c] EXCEPT !.todo = @ \ {m}])
      PROVE  MemoryInv'
  <2>1. DOMAIN client[c] = {"at", "todo"} /\ client[c].todo \subseteq given
    BY <1>1, <1>3 DEF PlaceInv
  <2>2. /\ DOMAIN client' = Clients /\ client'[c] = [client[c] EXCEPT !.todo = @ \ {m}]
        /\ \A d \in Clients \ {c} : client'[d] = client[d]
    BY <1>3, GoesTo
  <2>3. /\ client'[c].at = "reindex" /\ DOMAIN client'[c] = {"at", "todo"}
        /\ client'[c].todo \subseteq given
    BY <1>3, <2>1, <2>2
  <2>4. PlaceInv(c)'
    BY <2>3 DEF PlaceInv
  <2> QED BY <2>2, <2>3, <2>4, NothingOnHand, OnlyLooks
<1> QED BY <1>2, <1>3

(* Time passes, or what has expired is deleted.                            *)
LEMMA TablesAge ==
    ASSUME MemoryInv, UNCHANGED <<client, vectors, given, revived, raced>>, TablesInv',
           \A k \in given : /\ memories'[k].text = memories[k].text
                            /\ memories'[k].expires = memories[k].expires
                            /\ memories[k].deleted => memories'[k].deleted
                            /\ Live(k)' => Live(k)
    PROVE  MemoryInv'
<1>1. ASSUME NEW k \in given, Matches(k) PROVE Matches(k)'
  BY <1>1 DEF Matches
<1>2. ASSUME NEW c \in Clients PROVE PlaceInv(c)' /\ WorkInv(c)'
  <2>1. PlaceInv(c) /\ WorkInv(c)
    BY DEF MemoryInv
  <2>2. \A k : Works(c, k)' <=> Works(c, k)
    BY DEF Works
  <2>3. PlaceInv(c)'
    BY <2>1 DEF PlaceInv
  <2>4. WorkInv(c)'
    BY <1>1, <2>1, <2>2, WorksOnGiven DEF WorkInv
  <2> QED BY <2>3, <2>4
<1>3. ASSUME NEW k \in given PROVE Restful(k)'
  BY <1>1 DEF MemoryInv, Restful, Works
<1>4. \A c, d \in Clients, k \in given : c # d /\ Works(c, k)' /\ Works(d, k)' => k \in raced
  BY DEF MemoryInv, Works
<1> QED BY <1>2, <1>3, <1>4 DEF MemoryInv

LEMMA AgesKeep ==
    ASSUME MemoryAssumption, MemoryInv, Later \/ (\E c \in Clients : ExpireAll(c)) PROVE MemoryInv'
<1>0. TablesInv
  BY DEF MemoryInv
<1>1. CASE Later
  <2>1. UNCHANGED <<memories, vectors, given, client, revived, raced>> /\ now' = now + 1
    BY <1>1 DEF Later
  <2>2. now' \in Int
    BY <1>0, <2>1 DEF TablesInv
  <2>3. TablesInv'
    BY <1>0, <2>1, <2>2 DEF TablesInv, IsMemory
  <2>4. \A k \in given : Live(k)' => Live(k)
    BY <1>0, <2>1 DEF TablesInv, IsMemory, Live, Stored, Expired
  <2> QED BY <2>1, <2>3, <2>4, TablesAge
<1>2. CASE \E c \in Clients : ExpireAll(c)
  <2>1. /\ UNCHANGED <<vectors, given, now, client, revived, raced>>
        /\ memories' = [m \in DOMAIN memories |-> [memories[m] EXCEPT !.deleted = @ \/ Expired(m)]]
    BY <1>2 DEF ExpireAll
  <2>2. /\ DOMAIN memories' = given
        /\ \A k \in given : /\ DOMAIN memories'[k] = {"text", "expires", "deleted"}
                            /\ memories'[k].text = memories[k].text
                            /\ memories'[k].expires = memories[k].expires
                            /\ memories[k].deleted => memories'[k].deleted
    BY <1>0, <2>1 DEF TablesInv, IsMemory
  <2>3. TablesInv'
    BY <1>0, <2>1, <2>2 DEF TablesInv, IsMemory
  <2>4. \A k \in given : Live(k)' => Live(k)
    BY <1>0, <2>1, <2>2 DEF TablesInv, Live, Stored, Expired
  <2> QED BY <2>1, <2>2, <2>3, <2>4, TablesAge
<1> QED BY <1>1, <1>2

(* A call takes up a memory: another that works on it has then raced it.   *)
LEMMA TakesUp ==
    ASSUME MemoryInv, NEW c \in Clients, client[c].at \notin {"write", "drop", "embed", "save"},
           NEW m \in given, NEW to, Proceeds(c, to), Races(c, m),
           UNCHANGED <<vectors, given, now, revived>>, to.on = m,
           to.at \in {"write", "drop", "save"},
           to.at = "write" => to.row = memories[m] /\ UNCHANGED memories /\ DOMAIN to = {"at", "on", "row"},
           to.at = "save" => to.text = memories[m].text /\ UNCHANGED memories,
           to.at = "drop" => "text" \notin DOMAIN to /\ Deletes(m),
           to.at # "write" /\ "todo" \in DOMAIN to =>
               to.sweep \in {"bulk", "reindex"} /\ to.todo \subseteq given,
           Live(m)
    PROVE  MemoryInv'
<1>1. /\ DOMAIN client' = Clients /\ client'[c] = to
      /\ \A d \in Clients \ {c} : client'[d] = client[d]
  BY GoesTo
<1>2. TablesInv /\ IsMemory(memories[m]) /\ DOMAIN memories = given
  BY DEF MemoryInv, TablesInv
<1>3. /\ DOMAIN memories' = given
      /\ \A k \in given : /\ DOMAIN memories'[k] = {"text", "expires", "deleted"}
                          /\ memories'[k].text = memories[k].text
                          /\ memories'[k].expires = memories[k].expires
                          /\ memories[k].deleted => memories'[k].deleted
      /\ to.at = "drop" => memories'[m].deleted
      /\ to.at # "drop" => UNCHANGED memories
  <2>1. CASE to.at = "drop"
    <3>1. memories' = [memories EXCEPT ![m].deleted = TRUE]
      BY <2>1 DEF Deletes
    <3> QED BY <1>2, <2>1, <3>1 DEF TablesInv, IsMemory
  <2>2. CASE to.at # "drop"
    <3>1. UNCHANGED memories
      BY <2>2
    <3> QED BY <1>2, <2>2, <3>1 DEF TablesInv, IsMemory
  <2> QED BY <2>1, <2>2
<1>4. TablesInv'
  BY <1>1, <1>2, <1>3 DEF TablesInv, IsMemory
<1>5. PlaceInv(c)'
  BY <1>1, <1>2, <1>3 DEF PlaceInv, IsMemory
<1>6. raced \subseteq raced' /\ \A d \in Clients \ {c} : Works(d, m) => m \in raced'
  BY DEF Races
<1>7. \A k : k # m => ~Works(c, k) /\ ~Works(c, k)'
  BY <1>1 DEF Works
<1>8. Restful(m)'
  BY <1>1 DEF Restful, Works
<1>9. WorkInv(c)'
  <2>1. ASSUME m \notin raced', to.at = "save" PROVE Matches(m)'
    <3>1. m \notin raced /\ \A d \in Clients : ~Works(d, m)
      BY <1>6, <2>1 DEF Works
    <3>2. Matches(m)
      BY <3>1 DEF MemoryInv, Restful
    <3> QED BY <1>3, <3>2 DEF Matches
  <2> QED BY <1>1, <1>3, <1>7, <2>1 DEF WorkInv
<1>10. \A k \in given : Live(k)' => Live(k)
  BY <1>2, <1>3 DEF Live, Stored, Expired
<1> QED BY <1>1, <1>3, <1>4, <1>5, <1>6, <1>7, <1>8, <1>9, <1>10, OneCalls

LEMMA UpdateReadsKeeps ==
    ASSUME MemoryInv, NEW c \in Clients, UpdateReads(c) PROVE MemoryInv'
<1>1. client[c].at = "idle" /\ UNCHANGED <<memories, vectors, given, now, revived>>
  BY DEF UpdateReads, Invokes, None
<1>2. PICK m \in given : /\ Live(m) /\ Races(c, m)
                         /\ Proceeds(c, [at |-> "write", on |-> m, row |-> memories[m]])
  BY DEF UpdateReads
<1> DEFINE to == [at |-> "write", on |-> m, row |-> memories[m]]
<1>3. to.on = m /\ to.at = "write" /\ to.row = memories[m] /\ DOMAIN to = {"at", "on", "row"}
  OBVIOUS
<1> HIDE DEF to
<1> QED BY <1>1, <1>2, <1>3, TakesUp DEF to

LEMMA ForgetKeeps ==
    ASSUME MemoryInv, NEW c \in Clients, Forget(c) PROVE MemoryInv'
<1>1. client[c].at = "idle" /\ UNCHANGED <<vectors, given, now, revived>>
  BY DEF Forget, Invokes, None
<1>2. PICK m \in given : Live(m) /\ Deletes(m) /\ Races(c, m) /\ Proceeds(c, Doing(c, "drop", m))
  BY DEF Forget
<1> DEFINE to == Doing(c, "drop", m)
<1>3. to.on = m /\ to.at = "drop" /\ DOMAIN to = {"at", "on"}
  BY DEF Doing
<1> HIDE DEF to
<1> QED BY <1>1, <1>2, <1>3, TakesUp DEF to

LEMMA BulkForgetsKeeps ==
    ASSUME MemoryInv, NEW c \in Clients, BulkForgets(c) PROVE MemoryInv'
<1>1. /\ client[c].at = "bulk" /\ UNCHANGED <<vectors, given, now, revived>>
      /\ client[c].todo \subseteq given
  BY DEF BulkForgets, MemoryInv, PlaceInv
<1>2. CASE Proceeds(c, None) /\ UNCHANGED <<memories, raced>>
  BY <1>1, <1>2, SweepPasses
<1>3. ASSUME NEW m \in client[c].todo, Live(m), Deletes(m), Races(c, m), Proceeds(c, Within(c, "drop", m))
      PROVE  MemoryInv'
  <2> DEFINE to == Within(c, "drop", m)
  <2>1. /\ to.on = m /\ to.at = "drop" /\ DOMAIN to = {"at", "on", "sweep", "todo"}
        /\ to.sweep = "bulk" /\ to.todo \subseteq given
    BY <1>1 DEF Within
  <2>2. m \in given
    BY <1>1
  <2> HIDE DEF to
  <2> QED BY <1>1, <1>3, <2>1, <2>2, TakesUp DEF to
<1> QED BY <1>2, <1>3 DEF BulkForgets

LEMMA ReindexReadsKeeps ==
    ASSUME MemoryInv, NEW c \in Clients, ReindexReads(c) PROVE MemoryInv'
<1>1. /\ client[c].at = "reindex" /\ UNCHANGED <<memories, vectors, given, now, revived>>
      /\ client[c].todo \subseteq given
  BY DEF ReindexReads, MemoryInv, PlaceInv
<1>2. CASE Proceeds(c, None) /\ UNCHANGED raced
  BY <1>1, <1>2, SweepPasses
<1>3. CASE \E m \in client[c].todo : Proceeds(c, [client[c] EXCEPT !.todo = @ \ {m}]) /\ UNCHANGED raced
  BY <1>1, <1>3, SweepPasses
<1>4. ASSUME NEW m \in client[c].todo, Live(m), Races(c, m),
             Proceeds(c, [at |-> "save", on |-> m, text |-> memories[m].text,
                      sweep |-> "reindex", todo |-> client[c].todo \ {m}])
      PROVE  MemoryInv'
  <2> DEFINE to == [at |-> "save", on |-> m, text |-> memories[m].text,
                    sweep |-> "reindex", todo |-> client[c].todo \ {m}]
  <2>1. /\ to.on = m /\ to.at = "save" /\ to.text = memories[m].text
        /\ to.sweep = "reindex" /\ to.todo \subseteq given
    BY <1>1
  <2>2. m \in given
    BY <1>1
  <2> HIDE DEF to
  <2> QED BY <1>1, <1>4, <2>1, <2>2, TakesUp DEF to
<1> QED BY <1>2, <1>3, <1>4 DEF ReindexReads
-----------------------------------------------------------------------------
LEMMA RememberKeeps ==
    ASSUME MemoryAssumption, MemoryInv, NEW c \in Clients, Remember(c) PROVE MemoryInv'
<1>1. client[c].at = "idle" /\ UNCHANGED <<vectors, now, revived, raced>> /\ TablesInv
  BY DEF Remember, Invokes, None, MemoryInv
<1>2. PICK m \in Memories \ given, expires \in {1, Never} :
         /\ memories' = Put(memories, m, NewMemory(expires))
         /\ given' = given \cup {m}
         /\ Proceeds(c, [at |-> "embed", on |-> m, text |-> 0])
  BY DEF Remember
<1>3. /\ DOMAIN client' = Clients
      /\ client'[c].at = "embed" /\ client'[c].on = m /\ client'[c].text = 0
      /\ DOMAIN client'[c] = {"at", "on", "text"}
      /\ \A d \in Clients \ {c} : client'[d] = client[d]
  BY <1>2, GoesTo
<1>4. /\ DOMAIN memories' = given \cup {m} /\ memories'[m] = NewMemory(expires)
      /\ \A k \in given : memories'[k] = memories[k]
  BY <1>1, <1>2 DEF Put, TablesInv
<1>5. IsMemory(NewMemory(expires)) /\ NewMemory(expires).text = 0
  BY <1>2 DEF IsMemory, NewMemory, Never, MemoryAssumption
<1>6. TablesInv'
  BY <1>1, <1>2, <1>3, <1>4, <1>5 DEF TablesInv, IsMemory
<1>7. PlaceInv(c)'
  BY <1>2, <1>3 DEF PlaceInv
<1>8. m \notin given /\ m \notin DOMAIN vectors
  BY <1>1, <1>2 DEF TablesInv
<1>9. \A k : k # m => ~Works(c, k) /\ ~Works(c, k)'
  BY <1>1, <1>3 DEF Works
<1>10. WorkInv(c)'
  BY <1>1, <1>3, <1>4, <1>5, <1>8, <1>9 DEF WorkInv
<1>11. Restful(m)'
  BY <1>1, <1>8 DEF Restful, Matches
<1>12. \A d \in Clients \ {c} : ~Works(d, m)
  BY <1>8, WorksOnGiven
<1>13. \A k \in given : Live(k)' => Live(k)
  BY <1>1, <1>4 DEF Live, Stored, Expired, TablesInv
<1> QED BY <1>1, <1>2, <1>3, <1>4, <1>6, <1>7, <1>9, <1>10, <1>11, <1>12, <1>13, OneCalls

LEMMA UpdateWritesKeeps ==
    ASSUME MemoryInv, NEW c \in Clients, UpdateWrites(c) PROVE MemoryInv'
<1>0. PICK m, row : m = client[c].on /\ row = client[c].row
  OBVIOUS
<1>1. /\ client[c].at = "write" /\ UNCHANGED <<vectors, given, now, raced>> /\ TablesInv
      /\ memories' = [memories EXCEPT ![m] = [row EXCEPT !.text = @ + 1]]
      /\ revived' = IF memories[m].deleted THEN revived \cup {m} ELSE revived
      /\ Proceeds(c, [at |-> "drop", on |-> m, text |-> row.text + 1])
  BY <1>0 DEF UpdateWrites, MemoryInv
<1>2. m \in given /\ IsMemory(row) /\ row.expires = memories[m].expires
  BY <1>0, <1>1 DEF MemoryInv, PlaceInv
<1>3. /\ DOMAIN client' = Clients
      /\ client'[c].at = "drop" /\ client'[c].on = m /\ client'[c].text = row.text + 1
      /\ DOMAIN client'[c] = {"at", "on", "text"}
      /\ \A d \in Clients \ {c} : client'[d] = client[d]
  BY <1>1, GoesTo
<1>4. /\ DOMAIN memories' = given /\ memories'[m].text = row.text + 1 /\ IsMemory(memories'[m])
      /\ memories'[m].expires = memories[m].expires
      /\ \A k \in given \ {m} : memories'[k] = memories[k]
  BY <1>1, <1>2 DEF IsMemory, TablesInv
<1>5. TablesInv'
  BY <1>1, <1>3, <1>4 DEF TablesInv, IsMemory
<1>6. PlaceInv(c)'
  BY <1>1, <1>2, <1>3 DEF PlaceInv
<1>7. /\ Works(c, m) /\ Works(c, m)' /\ \A k : k # m => ~Works(c, k) /\ ~Works(c, k)'
  BY <1>0, <1>1, <1>3 DEF Works
<1>8. \A d \in Clients \ {c} : Works(d, m) => m \in raced'
  BY <1>1, <1>2, <1>7 DEF MemoryInv
<1>9. WorkInv(c)'
  BY <1>3, <1>4, <1>7 DEF WorkInv
<1>10. Restful(m)'
  BY <1>7 DEF Restful
<1>11. ASSUME NEW k \in given, Live(k)' PROVE Live(k) \/ k \in revived'
  <2>1. CASE k # m
    BY <1>1, <1>4, <1>11, <2>1 DEF Live, Stored, Expired, TablesInv
  <2>2. CASE k = m /\ memories[m].deleted
    BY <1>1, <2>2
  <2>3. CASE k = m /\ ~memories[m].deleted
    BY <1>1, <1>4, <1>11, <2>3 DEF Live, Stored, Expired, TablesInv
  <2> QED BY <2>1, <2>2, <2>3
<1> QED BY <1>1, <1>2, <1>3, <1>4, <1>5, <1>6, <1>7, <1>8, <1>9, <1>10, <1>11, OneCalls

LEMMA RestGoesOn ==
    ASSUME MemoryInv, NEW c \in Clients, client[c].at \in {"drop", "embed", "save"}
    PROVE  /\ Rest(c).at \in {"idle", "bulk", "reindex"}
           /\ Rest(c).at \in {"bulk", "reindex"} =>
                DOMAIN Rest(c) = {"at", "todo"} /\ Rest(c).todo \subseteq given
BY DEF MemoryInv, PlaceInv, Rest, None

(* A call lays a memory down: its vector is that of its text, or gone with *)
(* a memory that is deleted, or none.                                      *)
LEMMA LaysDown ==
    ASSUME MemoryInv, NEW c \in Clients, client[c].at \in {"drop", "embed", "save"},
           NEW m, m = client[c].on,
           Proceeds(c, Rest(c)), UNCHANGED <<memories, given, now, revived, raced>>,
           DOMAIN vectors' \subseteq given,
           \A k \in given \ {m} : /\ k \in DOMAIN vectors' <=> k \in DOMAIN vectors
                                  /\ k \in DOMAIN vectors => vectors'[k] = vectors[k],
           m \notin raced => Matches(m)'
    PROVE  MemoryInv'
<1>1. /\ DOMAIN client' = Clients /\ client'[c] = Rest(c)
      /\ \A d \in Clients \ {c} : client'[d] = client[d]
  BY GoesTo
<1>2. /\ client'[c].at \in {"idle", "bulk", "reindex"}
      /\ client'[c].at \in {"bulk", "reindex"} =>
           DOMAIN client'[c] = {"at", "todo"} /\ client'[c].todo \subseteq given
  BY <1>1, RestGoesOn
<1>3. m \in given /\ Works(c, m) /\ TablesInv
  BY DEF MemoryInv, PlaceInv, Works
<1>4. \A k : ~Works(c, k)'
  BY <1>2 DEF Works
<1>5. PlaceInv(c)' /\ WorkInv(c)'
  BY <1>2, <1>4 DEF PlaceInv, WorkInv
<1>6. TablesInv'
  BY <1>1, <1>3 DEF TablesInv, IsMemory
<1>7. \A d \in Clients \ {c} : Works(d, m) => m \in raced
  BY <1>3 DEF MemoryInv
<1>8. \A k : k # m => ~Works(c, k)
  BY DEF Works
<1>9. Restful(m)'
  BY DEF Restful
<1>10. \A k \in given : Live(k)' => Live(k)
  BY DEF Live, Stored, Expired
<1>11. \A k \in given \ {m} : /\ memories'[k].text = memories[k].text
                              /\ memories[k].deleted => memories'[k].deleted
                              /\ k \in DOMAIN vectors' <=> k \in DOMAIN vectors
                              /\ k \in DOMAIN vectors => vectors'[k] = vectors[k]
  OBVIOUS
<1>12. /\ given \subseteq given' /\ raced \subseteq raced' /\ revived \subseteq revived' /\ raced' = raced
       /\ given' \subseteq given \cup {m}
       /\ \A k \in given : memories'[k].expires = memories[k].expires
  OBVIOUS
<1> QED BY <1>1, <1>4, <1>5, <1>6, <1>7, <1>8, <1>9, <1>10, <1>11, <1>12, OneCalls

LEMMA EmbedsKeeps ==
    ASSUME MemoryInv, NEW c \in Clients, Embeds(c) PROVE MemoryInv'
<1>0. PICK m : m = client[c].on
  OBVIOUS
<1>1. /\ client[c].at \in {"embed", "save"} /\ Proceeds(c, Rest(c))
      /\ UNCHANGED <<memories, given, now, revived, raced>>
      /\ Works(c, m) /\ WorkInv(c) /\ m \in given /\ TablesInv
  BY <1>0 DEF Embeds, Works, MemoryInv, PlaceInv
<1>2. CASE UNCHANGED vectors
  <2>1. m \notin raced => Matches(m)'
    BY <1>1, <1>2 DEF WorkInv, Matches
  <2> QED BY <1>0, <1>1, <1>2, <2>1, LaysDown DEF TablesInv
<1>3. CASE Computes(c)
  <2>1. /\ DOMAIN vectors' = DOMAIN vectors \cup {m} /\ vectors'[m] = client[c].text
        /\ \A k \in DOMAIN vectors : k # m => vectors'[k] = vectors[k]
    BY <1>0, <1>3 DEF Computes, SaveEmbedding, Put
  <2>2. m \notin raced => Matches(m)'
    BY <1>1, <2>1 DEF WorkInv, Matches
  <2>3. DOMAIN vectors' \subseteq given
    BY <1>1, <2>1 DEF TablesInv
  <2>4. \A k \in given \ {m} : /\ k \in DOMAIN vectors' <=> k \in DOMAIN vectors
                               /\ k \in DOMAIN vectors => vectors'[k] = vectors[k]
    BY <2>1
  <2> QED BY <1>0, <1>1, <2>2, <2>3, <2>4, LaysDown
<1> QED BY <1>2, <1>3 DEF Embeds

LEMMA DropsVectorKeeps ==
    ASSUME MemoryInv, NEW c \in Clients, DropsVector(c) PROVE MemoryInv'
<1>0. PICK m : m = client[c].on
  OBVIOUS
<1>1. /\ client[c].at = "drop" /\ UNCHANGED <<memories, given, now, revived, raced>>
      /\ Works(c, m) /\ WorkInv(c) /\ m \in given /\ TablesInv
  BY <1>0 DEF DropsVector, Works, MemoryInv, PlaceInv
<1>2. /\ DOMAIN vectors' = DOMAIN vectors \ {m}
      /\ \A k \in DOMAIN vectors : k # m => vectors'[k] = vectors[k]
  BY <1>0 DEF DropsVector, Without
<1>3. CASE "text" \notin DOMAIN client[c]
  <2>1. Proceeds(c, Rest(c))
    BY <1>3 DEF DropsVector
  <2>2. Matches(m)'
    BY <1>1, <1>2 DEF Matches
  <2>3. \A k \in given \ {m} : /\ k \in DOMAIN vectors' <=> k \in DOMAIN vectors
                               /\ k \in DOMAIN vectors => vectors'[k] = vectors[k]
    BY <1>2
  <2>4. DOMAIN vectors' \subseteq given
    BY <1>1, <1>2 DEF TablesInv
  <2> QED BY <1>0, <1>1, <2>1, <2>2, <2>3, <2>4, LaysDown
<1>4. CASE "text" \in DOMAIN client[c]
  <2>1. Proceeds(c, [at |-> "embed", on |-> m, text |-> client[c].text])
    BY <1>0, <1>4 DEF DropsVector
  <2>2. /\ DOMAIN client' = Clients
        /\ client'[c].at = "embed" /\ client'[c].on = m /\ client'[c].text = client[c].text
        /\ DOMAIN client'[c] = {"at", "on", "text"}
        /\ \A d \in Clients \ {c} : client'[d] = client[d]
    BY <2>1, GoesTo
  <2>3. TablesInv'
    BY <1>1, <1>2, <2>2 DEF TablesInv, IsMemory
  <2>4. PlaceInv(c)'
    BY <1>1, <2>2 DEF PlaceInv
  <2>5. Works(c, m)' /\ \A k : k # m => ~Works(c, k) /\ ~Works(c, k)'
    BY <1>0, <2>2 DEF Works
  <2>6. WorkInv(c)'
    BY <1>1, <1>2, <1>4, <2>2, <2>5 DEF WorkInv
  <2>7. \A d \in Clients \ {c} : Works(d, m) => m \in raced'
    BY <1>1 DEF MemoryInv
  <2>8. Restful(m)'
    BY <2>5 DEF Restful
  <2>9. \A k \in given : Live(k)' => Live(k)
    BY <1>1 DEF Live, Stored, Expired
  <2> QED BY <1>1, <1>2, <2>2, <2>3, <2>4, <2>5, <2>6, <2>7, <2>8, <2>9, OneCalls
<1> QED BY <1>3, <1>4

LEMMA MemoryDiesKeeps ==
    ASSUME MemoryInv, NEW c \in Clients, Dies(c) PROVE MemoryInv'
<1>0. PICK m : m = client[c].on
  OBVIOUS
<1>1. /\ Proceeds(c, None) /\ raced' = raced \cup {k \in Memories : Works(c, k)}
      /\ UNCHANGED <<memories, vectors, given, now, revived>> /\ TablesInv
  BY DEF Dies, MemoryInv
<1>2. /\ DOMAIN client' = Clients /\ client'[c].at = "idle"
      /\ \A d \in Clients \ {c} : client'[d] = client[d]
  BY <1>1, GoesTo DEF None
<1>3. \A k : ~Works(c, k)'
  BY <1>2 DEF Works
<1>4. PlaceInv(c)' /\ WorkInv(c)' /\ TablesInv'
  BY <1>1, <1>2, <1>3 DEF PlaceInv, WorkInv, TablesInv, IsMemory
<1>5. \A k : k # m => ~Works(c, k)
  BY <1>0 DEF Works
<1>6. CASE Works(c, m)
  <2>1. m \in given /\ m \in raced'
    BY <1>1, <1>6, WorksOnGiven DEF TablesInv
  <2>2. Restful(m)'
    BY <2>1 DEF Restful
  <2>3. \A k \in given : Live(k)' => Live(k)
    BY <1>1 DEF Live, Stored, Expired
  <2> QED BY <1>1, <1>2, <1>3, <1>4, <1>5, <2>1, <2>2, <2>3, OneCalls
<1>7. CASE ~Works(c, m)
  <2>1. /\ \A k : ~Works(c, k)
        /\ client[c].at \notin {"write", "drop", "embed", "save"}
        /\ raced' = raced
    BY <1>1, <1>5, <1>7 DEF Works
  <2> QED BY <1>1, <1>2, <1>4, <2>1, OnlyLooks
<1> QED BY <1>6, <1>7

LEMMA MemoryKeeps ==
    ASSUME MemoryAssumption, MemoryInv, [MemoryNext]_memoryVars PROVE MemoryInv'
<1>1. CASE UNCHANGED memoryVars
  <2>1. UNCHANGED <<memories, vectors, given, now, client, revived, raced>>
    BY <1>1 DEF memoryVars
  <2>2. TablesInv'
    BY <2>1 DEF MemoryInv, TablesInv, IsMemory
  <2>3. \A k : Live(k)' => Live(k)
    BY <2>1 DEF Live, Stored, Expired
  <2> QED BY <2>1, <2>2, <2>3, TablesAge
<1>2. CASE Later \/ \E c \in Clients : ExpireAll(c)
  BY <1>2, AgesKeep
<1>3. ASSUME NEW c \in Clients, Remember(c) PROVE MemoryInv'
  BY <1>3, RememberKeeps
<1>4. ASSUME NEW c \in Clients, UpdateReads(c) PROVE MemoryInv'
  BY <1>4, UpdateReadsKeeps
<1>5. ASSUME NEW c \in Clients, UpdateWrites(c) PROVE MemoryInv'
  BY <1>5, UpdateWritesKeeps
<1>6. ASSUME NEW c \in Clients, DropsVector(c) PROVE MemoryInv'
  BY <1>6, DropsVectorKeeps
<1>7. ASSUME NEW c \in Clients, Embeds(c) PROVE MemoryInv'
  BY <1>7, EmbedsKeeps
<1>8. ASSUME NEW c \in Clients, Forget(c) PROVE MemoryInv'
  BY <1>8, ForgetKeeps
<1>9. ASSUME NEW c \in Clients, BulkForgets(c) PROVE MemoryInv'
  BY <1>9, BulkForgetsKeeps
<1>10. ASSUME NEW c \in Clients, ReindexReads(c) PROVE MemoryInv'
  BY <1>10, ReindexReadsKeeps
<1>11. ASSUME NEW c \in Clients, BulkLists(c) \/ ReindexLists(c) \/ Recall(c) \/ RecallLists(c)
       PROVE  MemoryInv'
  BY <1>11, ListsKeep
<1>12. ASSUME NEW c \in Clients, RecallTakes(c) PROVE MemoryInv'
  BY <1>12, RecallTakesKeeps
<1>13. ASSUME NEW c \in Clients, Dies(c) PROVE MemoryInv'
  BY <1>13, MemoryDiesKeeps
<1> QED BY <1>1, <1>2, <1>3, <1>4, <1>5, <1>6, <1>7, <1>8, <1>9, <1>10, <1>11, <1>12, <1>13
        DEF MemoryNext

LEMMA MemoryStarts == MemoryInit => MemoryInv
<1> SUFFICES ASSUME MemoryInit PROVE MemoryInv
  OBVIOUS
<1>1. given = {} /\ DOMAIN memories = {} /\ DOMAIN vectors = {} /\ now = 0 /\ DOMAIN client = Clients
  BY DEF MemoryInit
<1>2. \A c \in Clients : client[c].at = "idle"
  BY DEF MemoryInit, None
<1> QED BY <1>1, <1>2 DEF MemoryInv, TablesInv, PlaceInv, WorkInv, Restful, Works

(* Whatever the clients do, are killed in and wait for: a memory on which  *)
(* no two calls overlapped is found by the vector of its present text      *)
(* (MemoryService.update and reindex_embeddings).                          *)
THEOREM VectorsAreOfTheirText ==
    ASSUME MemoryAssumption PROVE MemorySpec => []VectorsMatch
<1>1. MemoryInv => VectorsMatch
  BY DEF MemoryInv, TablesInv, Restful, Matches, VectorsMatch
<1>2. MemoryInv /\ [MemoryNext]_memoryVars => MemoryInv'
  BY MemoryKeeps
<1> QED BY <1>1, <1>2, MemoryStarts, PTL DEF MemorySpec

(* What was forgotten before a recall began is not among its results,      *)
(* whatever is forgotten, updated and expires while it reads               *)
(* (MemoryService._retrieve_semantic).                                     *)
THEOREM ForgottenIsNotRecalled ==
    ASSUME MemoryAssumption PROVE MemorySpec => []NothingForgottenRecalled
<1>1. MemoryInv => NothingForgottenRecalled
  BY DEF MemoryInv, PlaceInv, NothingForgottenRecalled
<1>2. MemoryInv /\ [MemoryNext]_memoryVars => MemoryInv'
  BY MemoryKeeps
<1> QED BY <1>1, <1>2, MemoryStarts, PTL DEF MemorySpec
=============================================================================
