---------------------------- MODULE AgentRunProofs ----------------------------
(***************************************************************************)
(* What a run of the agent promises, for any policy, limits, number of     *)
(* runs, deciders and cancellers: its limits hold over the whole run, no   *)
(* call is repeated for ever, it ends once, a cancel stops it after one    *)
(* more tool at most, and what it asks a person for is shown while it      *)
(* waits and no longer.                                                    *)
(*                                                                         *)
(* One thread works and the others only cancel, decide and let time pass,  *)
(* so each part of the invariant says what holds at the places of that     *)
(* thread, and most steps of the thread do nothing but go on or stop.      *)
(***************************************************************************)
EXTENDS AgentRun, FiniteSetTheorems, TLAPS

Thinking == {"clock", "token", "generate", "reclock", "retoken", "guard"}
Calling == {"call_token", "call_clock", "tool", "asking", "execute", "ran"}
Looping == Thinking \union Calling
Done == {"leave", "record", "exit", "idle"}

(* The status at each place.                                               *)
StateInv ==
    /\ at \in Looping \union Done \union {"begin", "publish"}
    /\ at \in {"clock", "token"} => state \in {"running", "processing_result"}
    /\ at \in {"generate", "reclock", "retoken", "guard"} => state = "running"
    /\ at \in {"call_token", "call_clock"} =>
         state \in {"running", "executing_tool", "waiting_for_approval"}
    /\ at = "tool" => state = "executing_tool"
    /\ at = "asking" => state = "waiting_for_approval"
    /\ at \in {"execute", "ran"} => state \in {"executing_tool", "waiting_for_approval"}
    /\ at = "publish" => state \in Terminal

(* What is told of each run: nothing before it ends, then its state.       *)
Silent == [t \in Terminal |-> 0]
Only(s) == [t \in Terminal |-> IF t = s THEN 1 ELSE 0]

HistoryInv ==
    /\ run \in 0..MaxRuns
    /\ at # "idle" => run # 0
    /\ DOMAIN terminals = Runs /\ DOMAIN recorded = Runs
    /\ \A r \in Runs :
          \/ terminals[r] = Silent /\ recorded[r] = "none"
          \/ \E s \in Terminal : terminals[r] = Only(s) /\ recorded[r] \in {"none", s}
    /\ \A r \in Runs : r > run \/ (r = run /\ at \notin Done) =>
          terminals[r] = Silent /\ recorded[r] = "none"
    /\ run \in Runs /\ at \in Done =>
          \/ state \in Terminal /\ terminals[run] = Only(state)
          \/ state = "created" /\ terminals[run] = Silent /\ at \in {"exit", "idle"}

(* The calls of a batch are made one by one, within the limits.            *)
LimitInv ==
    /\ steps \in 0..MaxSteps
    /\ at \in Looping \ {"clock", "token"} => steps < MaxSteps
    /\ made \in Seq(Kinds) /\ total = Len(made) /\ total <= MaxCalls
    /\ batch \in Seq(Kinds) /\ done \in Nat
    /\ at \in {"reclock", "retoken", "guard"} => done = 0
    /\ at \in Calling => done < Len(batch) /\ total + (Len(batch) - done) <= MaxCalls

(* The calls the detector has seen: those made, and those still to make of *)
(* a batch it let pass.                                                    *)
Shown == IF at \in Calling THEN Len(made) + (Len(batch) - done) ELSE Len(made)
Nth(i) == IF i <= Len(made) THEN made[i] ELSE batch[done + (i - Len(made))]

DetectorInv ==
    /\ streak \in Nat
    /\ \A i \in LoopThreshold..Shown : \E j \in (i - LoopThreshold + 1)..i : Nth(j) # Nth(i)
    /\ at \in Looping =>
         /\ Shown > 0 => last = Nth(Shown)
         /\ \A k \in 1..Shown :
               (\A j \in (Shown - k + 1)..Shown : Nth(j) = Nth(Shown)) => streak >= k

(* The token, and where the worker was when it was set.                    *)
Committed == {"call_clock", "tool", "asking", "execute"}
TokenInv ==
    /\ cancelled \in BOOLEAN /\ current \in BOOLEAN
    /\ at \in {"idle", "begin", "record", "exit"} => current = FALSE
    /\ at = "begin" => cancelled = FALSE
    /\ at \in Committed /\ cancelled = TRUE => cancelledAt \in Committed
    /\ startedLate \in {0, 1}
    /\ startedLate = 1 => /\ cancelledAt \in Committed
                          /\ at \notin Looping \ {"ran"}
                          /\ cancelled = TRUE \/ at \in {"begin", "exit", "idle"}

AskInv ==
    /\ DOMAIN ask = {"call", "at", "outcome"} /\ DOMAIN pending = Ids
    /\ (ask.at # "idle") <=> (at = "asking")
    /\ at = "asking" => ask.call = Call
    /\ Broker!QueueShowsTheWait

-----------------------------------------------------------------------------
(* The steps by what they do                                               *)

(* The worker goes on and nothing else happens, ...                        *)
Hops == {<<"clock", "token">>, <<"reclock", "retoken">>, <<"retoken", "guard">>,
         <<"call_token", "call_clock">>, <<"tool", "ran">>, <<"tool", "execute">>,
         <<"exit", "idle">>}
Hop == \E next : /\ <<at, next>> \in Hops
                 /\ at \in {"retoken", "call_token"} => cancelled = FALSE
                 /\ Goto(next)

(* ... the run stops before it is completed, ...                           *)
Halt == \E t \in Terminal \ {"completed"} :
           at \in Looping \ {"asking", "execute", "ran"} /\ Stop(t)

(* ... a step of the run begins, ...                                       *)
NewStep ==
    /\ at = "token" /\ steps < MaxSteps
    /\ state' = "running" /\ at' = "generate"
    /\ UNCHANGED <<run, current, terminals, recorded, loopVars, overdue, canceller, brokerVars,
                   ghosts>>

(* ... or the calls of a response pass.                                    *)
Passes ==
    /\ at = "guard" /\ at' = "call_token"
    /\ batch # <<>> /\ total + Len(batch) <= MaxCalls
    /\ \A n \in 1..Len(batch) : ~(Streak(n) >= LoopThreshold)
    /\ last' = batch[Len(batch)] /\ streak' = Streak(Len(batch))
    /\ UNCHANGED <<runVars, steps, batch, done, total, overdue, canceller, brokerVars, ghosts>>

(* The other threads and the clocks.                                       *)
Elsewhere ==
    /\ UNCHANGED <<at, runVars, loopVars, ask, pending, made, startedLate>>
    /\ \/ UNCHANGED <<cancelled, cancelledAt>>
       \/ cancelled = FALSE /\ cancelled' = current /\ cancelledAt' = IF current THEN at ELSE cancelledAt

Acts ==
    \/ Start \/ Refuse \/ Begin \/ Hop \/ Halt \/ NewStep \/ Generate \/ FinalResponse \/ Passes
    \/ CallBegin \/ ToolAsks \/ ToolWaits \/ ToolAnswered \/ Execute \/ CallDone
    \/ PublishTerminal \/ LeaveSlot \/ Record \/ Elsewhere

LEMMA WorkerActs ==
    ASSUME LimitInv, Worker
    PROVE  Acts
<1>1. CASE CheckClock("clock", "token") \/ CheckClock("reclock", "retoken")
  <2>1. CASE overdue
    BY <1>1, <2>1 DEF CheckClock, Acts, Halt, Looping, Thinking, Terminal
  <2>2. CASE ~overdue
    BY <1>1, <2>2 DEF CheckClock, Acts, Hop, Hops
  <2> QED  BY <2>1, <2>2
<1>2. CASE CheckToken("retoken", "guard") \/ CheckToken("call_token", "call_clock")
  BY <1>2 DEF CheckToken, Acts, Hop, Hops
<1>3. CASE TokenSeen \/ GenerateFails \/ CallOverdue \/ ToolsStopped
  BY <1>3 DEF TokenSeen, GenerateFails, CallOverdue, ToolsStopped, Acts, Halt, Looping, Thinking,
              Calling, Terminal
<1>4. CASE ToolRefused \/ ToolAllowed \/ Exit
  BY <1>4 DEF ToolRefused, ToolAllowed, Exit, Acts, Hop, Hops
<1>5. CASE StepBegin
  <2>1. CASE steps >= MaxSteps
    BY <1>5, <2>1 DEF StepBegin, Acts, Halt, Looping, Thinking, Terminal
  <2>2. CASE ~(steps >= MaxSteps)
    <3>1. steps < MaxSteps
      BY <2>2, LimitAssumption DEF LimitInv
    <3> QED  BY <1>5, <2>2, <3>1 DEF StepBegin, Acts, NewStep
  <2> QED  BY <2>1, <2>2
<1>6. CASE GuardCalls
  <2>1. CASE \E t \in Terminal \ {"completed"} : at = "guard" /\ Stop(t)
    BY <2>1 DEF Acts, Halt, Looping, Thinking
  <2>2. CASE /\ at = "guard" /\ batch # <<>> /\ total + Len(batch) <= MaxCalls
             /\ \A n \in 1..Len(batch) : ~(Streak(n) >= LoopThreshold)
             /\ last' = batch[Len(batch)] /\ streak' = Streak(Len(batch))
             /\ at' = "call_token"
             /\ UNCHANGED <<runVars, steps, batch, done, total, overdue, canceller, brokerVars,
                            ghosts>>
    BY <2>2 DEF Acts, Passes
  <2> QED  BY <1>6, <2>1, <2>2 DEF GuardCalls, Terminal
<1> QED
  BY <1>1, <1>2, <1>3, <1>4, <1>5, <1>6 DEF Worker, Acts

LEMMA OtherThreads ==
    ASSUME TokenInv,
           \/ \E h \in Cancellers : Canceller(h)
           \/ \E d \in Deciders : Decider(d)
           \/ ClockRunsOut \/ Expire \/ UNCHANGED vars
    PROVE  Elsewhere
<1>1. ASSUME NEW h \in Cancellers, CancelRequest(h) PROVE Elsewhere
  BY <1>1 DEF CancelRequest, Elsewhere, brokerVars
<1>2. ASSUME NEW h \in Cancellers, CancelReject(h) PROVE Elsewhere
  <2>1. UNCHANGED <<ask, pending, cancelled>>
    BY <1>2 DEF CancelReject, Broker!RejectAll, brokerVars
  <2> QED  BY <1>2, <2>1 DEF CancelReject, Elsewhere, ghosts
<1>3. ASSUME NEW h \in Cancellers, CancelSet(h) PROVE Elsewhere
  <2>1. UNCHANGED <<at, runVars, loopVars, ask, pending, made, startedLate>>
    BY <1>3 DEF CancelSet
  <2>2. CASE cancelled = TRUE
    BY <1>3, <2>1, <2>2 DEF CancelSet, Elsewhere
  <2>3. CASE cancelled = FALSE
    BY <1>3, <2>1, <2>3 DEF CancelSet, Elsewhere
  <2> QED  BY <2>2, <2>3 DEF TokenInv
<1>4. ASSUME NEW d \in Deciders, Look(d) PROVE Elsewhere
  BY <1>4 DEF Look, Broker!Look, Elsewhere, ghosts
<1>5. ASSUME NEW d \in Deciders, NEW o, Decide(d, o) PROVE Elsewhere
  BY <1>5 DEF Decide, Broker!Decide, Elsewhere
<1>6. CASE ClockRunsOut
  BY <1>6 DEF ClockRunsOut, Elsewhere, brokerVars, ghosts
<1>7. CASE Expire
  BY <1>7 DEF Expire, Broker!Expire, Elsewhere, ghosts
<1>8. CASE UNCHANGED vars
  BY <1>8 DEF vars, Elsewhere, brokerVars, ghosts
<1> QED  BY <1>1, <1>2, <1>3, <1>4, <1>5, <1>6, <1>7, <1>8 DEF Canceller, Decider

-----------------------------------------------------------------------------
(* The parts of the invariant, one by one                                  *)

LEMMA StateKept ==
    ASSUME StateInv, Acts
    PROVE  StateInv'
<1> USE DEF StateInv, Looping, Thinking, Calling, Done, runVars, loopVars
<1>1. CASE Hop
  BY <1>1 DEF Hop, Hops, Goto
<1>2. CASE Halt
  BY <1>2 DEF Halt, Stop
<1>3. CASE Start \/ Refuse \/ Begin
  BY <1>3 DEF Start, Refuse, Begin
<1>4. CASE NewStep \/ Generate \/ FinalResponse \/ Passes
  BY <1>4 DEF NewStep, Generate, FinalResponse, Passes, Terminal
<1>5. CASE CallBegin \/ ToolAsks \/ ToolWaits
  BY <1>5 DEF CallBegin, ToolAsks, ToolWaits
<1>6. CASE ToolAnswered \/ Execute
  BY <1>6 DEF ToolAnswered, Execute
<1>7. CASE CallDone
  BY <1>7 DEF CallDone, Terminal
<1>8. CASE PublishTerminal \/ LeaveSlot \/ Record
  BY <1>8 DEF PublishTerminal, LeaveSlot, Record
<1>9. CASE Elsewhere
  BY <1>9 DEF Elsewhere
<1> QED  BY <1>1, <1>2, <1>3, <1>4, <1>5, <1>6, <1>7, <1>8, <1>9 DEF Acts

(* The broker's request is that of the call in hand, and its queue holds   *)
(* that request and no other.                                              *)
LEMMA AskKept ==
    ASSUME AskInv, Acts
    PROVE  AskInv'
<1> USE DEF AskInv, Broker!QueueShowsTheWait
<1>1. ASSUME UNCHANGED <<ask, pending>>, at # "asking", at' # "asking"
      PROVE  AskInv'
  BY <1>1
<1>2. CASE Hop \/ Halt
  <2>1. UNCHANGED <<ask, pending>> /\ at # "asking" /\ at' # "asking"
    BY <1>2 DEF Hop, Hops, Goto, Halt, Stop, Looping, Thinking, Calling, brokerVars
  <2> QED  BY <1>1, <2>1
<1>3. CASE Start
  BY <1>3 DEF Start, Broker!EmptyQueue, Broker!Idle
<1>4. CASE Refuse \/ Begin \/ NewStep \/ Generate \/ FinalResponse \/ Passes \/ CallBegin
  BY <1>1, <1>4 DEF Refuse, Begin, NewStep, Generate, FinalResponse, Passes, CallBegin, brokerVars
<1>5. CASE ToolAsks
  <2>1. ask.at = "idle" /\ at' = "asking" /\ UNCHANGED <<run, steps, done>>
    BY <1>5 DEF ToolAsks, Broker!Post, loopVars
  <2>2. pending' = [pending EXCEPT ![IdOf[Call]] = Call]
    BY <1>5 DEF ToolAsks, Broker!Post
  <2>3. ask' = [call |-> Call, at |-> "check", outcome |-> "denied"]
    BY <1>5 DEF ToolAsks, Broker!Post
  <2> HIDE DEF Call
  <2>4. Call' = Call
    BY <2>1 DEF Call
  <2> QED  BY <2>1, <2>2, <2>3, <2>4
<1>6. CASE ToolWaits
  <2>1. at = "asking" /\ UNCHANGED <<at, run, steps, done, pending>>
    BY <1>6 DEF ToolWaits, runVars, loopVars, Broker!CheckToken, Broker!TakeDecision,
                Broker!NoDecisionYet, Broker!CheckDeadline
  <2>2. ask'.at # "idle" /\ ask'.call = ask.call /\ DOMAIN ask' = DOMAIN ask
    BY <1>6 DEF ToolWaits, Broker!CheckToken, Broker!TakeDecision, Broker!Answer,
                Broker!NoDecisionYet, Broker!CheckDeadline
  <2> QED  BY <2>1, <2>2 DEF Call
<1>7. CASE ToolAnswered
  BY <1>7 DEF ToolAnswered, Broker!Leave, Broker!Idle
<1>8. CASE Execute \/ CallDone \/ PublishTerminal \/ LeaveSlot \/ Record
  BY <1>1, <1>8 DEF Execute, CallDone, PublishTerminal, LeaveSlot, Record, brokerVars
<1>9. CASE Elsewhere
  BY <1>9 DEF Elsewhere, runVars, loopVars, Call
<1> QED  BY <1>2, <1>3, <1>4, <1>5, <1>6, <1>7, <1>8, <1>9 DEF Acts

(* What is told of a run is told once, when it ends.                       *)
LEMMA HistoryKept ==
    ASSUME StateInv, HistoryInv, Acts
    PROVE  HistoryInv'
<1> USE DEF HistoryInv, Done, Runs
<1>0. MaxRuns \in Nat /\ run \in Nat
  BY LimitAssumption
<1>1. ASSUME UNCHANGED <<run, terminals, recorded>>, at \notin Done, at' \notin Done
      PROVE  HistoryInv'
  BY <1>1
<1>2. CASE Hop
  <2>1. UNCHANGED runVars /\ <<at, at'>> \in Hops
    BY <1>2 DEF Hop, Goto
  <2>2. CASE at = "exit"
    BY <2>1, <2>2 DEF Hops, runVars
  <2>3. CASE at # "exit"
    BY <1>1, <2>1, <2>3 DEF Hops, runVars
  <2> QED  BY <2>2, <2>3
<1>3. CASE Halt
  BY <1>1, <1>3 DEF Halt, Stop, Looping, Thinking, Calling
<1>4. CASE Start
  BY <1>0, <1>4 DEF Start
<1>5. CASE Refuse
  BY <1>0, <1>5 DEF Refuse
<1>6. CASE Begin \/ NewStep \/ Generate \/ FinalResponse \/ Passes \/ CallBegin
  BY <1>1, <1>6 DEF Begin, NewStep, Generate, FinalResponse, Passes, CallBegin, runVars
<1>7. CASE ToolAsks \/ ToolWaits \/ ToolAnswered \/ Execute
  BY <1>1, <1>7 DEF ToolAsks, ToolWaits, ToolAnswered, Execute, runVars
<1>8. CASE CallDone
  BY <1>1, <1>8 DEF CallDone
<1>9. CASE PublishTerminal
  <2>1. at = "publish" /\ at' = "leave" /\ state \in Terminal /\ run \in Runs
    BY <1>9, <1>0 DEF PublishTerminal, StateInv
  <2>2. terminals[run] = Silent /\ recorded[run] = "none"
    BY <2>1
  <2>3. terminals' = [terminals EXCEPT ![run] = [terminals[run] EXCEPT ![state] = @ + 1]]
    BY <1>9 DEF PublishTerminal
  <2>4. [Silent EXCEPT ![state] = @ + 1] = Only(state)
    BY <2>1 DEF Silent, Only
  <2>5. terminals' = [terminals EXCEPT ![run] = Only(state)]
    BY <2>2, <2>3, <2>4
  <2>6. UNCHANGED <<run, recorded, state>>
    BY <1>9 DEF PublishTerminal
  <2> HIDE DEF Done
  <2>7. at' \in Done /\ at \notin Done
    BY <2>1 DEF Done
  <2> QED  BY <2>1, <2>2, <2>5, <2>6, <2>7
<1>10. CASE LeaveSlot
  BY <1>10 DEF LeaveSlot
<1>11. CASE Record
  <2>1. state \in Terminal /\ terminals[run] = Only(state) /\ run \in Runs
    BY <1>11, <1>0 DEF Record
  <2>2. UNCHANGED <<run, terminals, state>> /\ at = "record" /\ at' = "exit"
    BY <1>11 DEF Record
  <2>3. \/ recorded' = recorded
        \/ recorded' = [recorded EXCEPT ![run] = state]
    BY <1>11 DEF Record
  <2>4. recorded[run] \in {"none", state}
    <3>1. Only(state) # Silent /\ \A s \in Terminal : Only(s) = Only(state) => s = state
      <4>1. state \in Terminal
        BY <2>1
      <4>2. \A s \in Terminal : Only(s)[s] = 1 /\ Silent[s] = 0
        BY DEF Only, Silent
      <4>3. \A s \in Terminal \ {state} : Only(s)[state] = 0
        BY <4>1 DEF Only
      <4> QED  BY <4>1, <4>2, <4>3
    <3> QED  BY <2>1, <3>1
  <2>5. DOMAIN recorded' = Runs /\ recorded'[run] \in {"none", state}
    BY <2>1, <2>3, <2>4
  <2>6. \A r \in Runs : r # run => recorded'[r] = recorded[r]
    BY <2>3
  <2> HIDE DEF Runs
  <2>7. \A r \in Runs : r # run => (r > run <=> r > run') /\ terminals'[r] = terminals[r]
    BY <2>2
  <2>8. \A r \in Runs : \/ terminals'[r] = Silent /\ recorded'[r] = "none"
                       \/ \E s \in Terminal : terminals'[r] = Only(s) /\ recorded'[r] \in {"none", s}
    BY <2>1, <2>2, <2>5, <2>6
  <2> QED  BY <2>1, <2>2, <2>5, <2>6, <2>7, <2>8, <1>0
<1>12. CASE Elsewhere
  BY <1>12 DEF Elsewhere, runVars
<1> QED  BY <1>2, <1>3, <1>4, <1>5, <1>6, <1>7, <1>8, <1>9, <1>10, <1>11, <1>12 DEF Acts

(* A batch is taken on as a whole and worked off call by call: what is     *)
(* done and what is left never exceed the limits.                          *)
LEMMA LimitKept ==
    ASSUME LimitInv, Acts
    PROVE  LimitInv'
<1> USE LimitAssumption DEF LimitInv, Looping, Thinking, Calling
<1>0. MaxSteps \in Nat \ {0} /\ MaxCalls \in Nat \ {0} /\ MaxSingle \in Nat \ {0}
  OBVIOUS
<1>1. ASSUME UNCHANGED <<made, total, steps, batch, done>>,
             at' \in Looping \ {"clock", "token"} => at \in Looping \ {"clock", "token"},
             at' \in Calling => at \in Calling,
             at' \in {"reclock", "retoken", "guard"} => at \in {"reclock", "retoken", "guard"}
      PROVE  LimitInv'
  BY <1>1
<1>2. CASE Hop \/ Halt
  <2>1. UNCHANGED <<made, total, steps, batch, done>>
    BY <1>2 DEF Hop, Goto, Halt, Stop, loopVars, ghosts
  <2>2. CASE Hop
    BY <1>1, <2>1, <2>2 DEF Hop, Hops, Goto
  <2>3. CASE Halt
    BY <1>1, <2>1, <2>3 DEF Halt, Stop
  <2> QED  BY <1>2, <2>2, <2>3
<1>3. CASE Start \/ Refuse
  BY <1>1, <1>3 DEF Start, Refuse, loopVars, ghosts
<1>4. CASE Begin
  BY <1>0, <1>4 DEF Begin
<1>5. CASE NewStep
  <2>1. UNCHANGED <<made, total, steps, batch, done>> /\ at' = "generate" /\ steps < MaxSteps
    BY <1>5 DEF NewStep, loopVars, ghosts
  <2> QED  BY <2>1
<1>6. CASE Generate
  <2>1. UNCHANGED <<made, total, steps>> /\ at = "generate" /\ at' = "reclock" /\ done' = 0
    BY <1>6 DEF Generate, ghosts
  <2>2. batch' \in Seq(Kinds)
    BY <1>0, <1>6 DEF Generate, BoundedSeq, SeqOf
  <2> QED  BY <2>1, <2>2
<1>7. CASE FinalResponse
  <2>1. UNCHANGED <<made, total, batch, done>> /\ steps' = steps + 1 /\ at = "guard" /\ at' = "publish"
    BY <1>7 DEF FinalResponse, ghosts
  <2> QED  BY <1>0, <2>1
<1>8. CASE Passes
  <2>1. /\ UNCHANGED <<made, total, steps, batch, done>> /\ at = "guard" /\ at' = "call_token"
        /\ batch # <<>> /\ total + Len(batch) <= MaxCalls
    BY <1>8 DEF Passes, ghosts
  <2>2. Len(batch) \in Nat \ {0}
    BY <2>1
  <2> QED  BY <2>1, <2>2
<1>9. CASE CallBegin \/ ToolAsks \/ ToolWaits \/ ToolAnswered \/ Execute
  BY <1>1, <1>9 DEF CallBegin, ToolAsks, ToolWaits, ToolAnswered, Execute, loopVars, ghosts
<1>10. CASE CallDone
  <2>1. /\ at = "ran" /\ done' = done + 1 /\ total' = total + 1 /\ made' = Append(made, Kind)
        /\ batch' = batch
    BY <1>10 DEF CallDone, Counted
  <2>2. /\ at' \in {"publish", "call_token", "clock"}
        /\ steps' = IF at' = "clock" THEN steps + 1 ELSE steps
        /\ at' = "call_token" => done + 1 < Len(batch)
    BY <1>10 DEF CallDone
  <2>3. Kind \in Kinds
    BY <2>1 DEF Kind
  <2>4. made' \in Seq(Kinds) /\ Len(made') = Len(made) + 1
    BY <2>1, <2>3
  <2>5. total \in Nat /\ Len(batch) \in Nat /\ done < Len(batch) /\ total + (Len(batch) - done) <= MaxCalls
    BY <2>1
  <2>6. steps' \in 0..MaxSteps
    BY <1>0, <2>1, <2>2
  <2>7. total' <= MaxCalls /\ total' + (Len(batch) - done') = total + (Len(batch) - done)
    BY <1>0, <2>1, <2>5
  <2> QED  BY <2>1, <2>2, <2>4, <2>5, <2>6, <2>7
<1>11. CASE PublishTerminal \/ LeaveSlot \/ Record
  BY <1>1, <1>11 DEF PublishTerminal, LeaveSlot, Record, loopVars, ghosts
<1>12. CASE Elsewhere
  BY <1>1, <1>12 DEF Elsewhere, loopVars
<1> QED  BY <1>2, <1>3, <1>4, <1>5, <1>6, <1>7, <1>8, <1>9, <1>10, <1>11, <1>12 DEF Acts

(* A tool starts late only if its call had passed the test of the token    *)
(* when it was set, and the loop ends with that call.                      *)
LEMMA TokenKept ==
    ASSUME StateInv, TokenInv, Acts
    PROVE  TokenInv'
<1> USE DEF StateInv, TokenInv, Committed, Looping, Thinking, Calling, Done
<1>1. ASSUME UNCHANGED <<current, cancelled, cancelledAt, startedLate>>,
             at' \in {"idle", "begin", "record", "exit"} => at \in {"idle", "begin", "record", "exit"},
             at' # "begin",
             at' \in Committed => at \in Committed,
             at' \in Looping \ {"ran"} => at \in Looping \ {"ran"},
             at \in {"begin", "exit", "idle"} => at' \in {"begin", "exit", "idle"}
      PROVE  TokenInv'
  BY <1>1
<1>2. CASE Hop
  <2>1. \/ at = "clock" /\ at' = "token"
        \/ at = "reclock" /\ at' = "retoken"
        \/ at = "retoken" /\ at' = "guard"
        \/ at = "call_token" /\ at' = "call_clock" /\ cancelled = FALSE
        \/ at = "tool" /\ at' \in {"ran", "execute"}
        \/ at = "exit" /\ at' = "idle"
    BY <1>2 DEF Hop, Hops, Goto
  <2>2. UNCHANGED <<current, cancelled, cancelledAt, startedLate>>
    BY <1>2 DEF Hop, Goto, runVars, brokerVars, ghosts
  <2>3. CASE at = "call_token"
    BY <2>1, <2>2, <2>3
  <2>4. CASE at # "call_token"
    BY <1>1, <2>1, <2>2, <2>4
  <2> QED  BY <2>3, <2>4
<1>3. CASE Halt \/ Refuse
  BY <1>1, <1>3 DEF Halt, Stop, Refuse, brokerVars, ghosts
<1>4. CASE Start
  BY <1>4 DEF Start, ghosts
<1>5. CASE Begin
  BY <1>5 DEF Begin, brokerVars
<1>6. CASE NewStep \/ Generate \/ FinalResponse \/ Passes \/ CallBegin
  BY <1>1, <1>6 DEF NewStep, Generate, FinalResponse, Passes, CallBegin, runVars, brokerVars, ghosts
<1>7. CASE ToolAsks \/ ToolWaits \/ ToolAnswered
  <2>1. UNCHANGED <<current, cancelled, cancelledAt, startedLate>>
    BY <1>7 DEF ToolAsks, ToolWaits, ToolAnswered, runVars, ghosts, Broker!Post, Broker!CheckToken,
                Broker!TakeDecision, Broker!NoDecisionYet, Broker!CheckDeadline, Broker!Leave
  <2> QED  BY <1>1, <1>7, <2>1 DEF ToolAsks, ToolWaits, ToolAnswered
<1>8. CASE Execute
  <2>1. at = "execute" /\ at' = "ran" /\ UNCHANGED <<current, cancelled, cancelledAt>>
    BY <1>8 DEF Execute, runVars, brokerVars
  <2>2. startedLate = 0 /\ startedLate' = IF cancelled THEN 1 ELSE 0
    BY <1>8, <2>1 DEF Execute
  <2>3. CASE cancelled = TRUE
    BY <2>1, <2>2, <2>3
  <2>4. CASE cancelled = FALSE
    BY <2>1, <2>2, <2>4
  <2> QED  BY <2>3, <2>4
<1>9. CASE CallDone
  <2>1. UNCHANGED <<current, cancelled, cancelledAt, startedLate>> /\ at = "ran"
    BY <1>9 DEF CallDone, brokerVars
  <2>2. at' = "publish" \/ (at' \in {"call_token", "clock"} /\ cancelled = FALSE)
    BY <1>9 DEF CallDone
  <2> QED  BY <2>1, <2>2
<1>10. CASE PublishTerminal \/ Record
  BY <1>1, <1>10 DEF PublishTerminal, Record, brokerVars, ghosts
<1>11. CASE LeaveSlot
  BY <1>11 DEF LeaveSlot, brokerVars, ghosts
<1>12. CASE Elsewhere
  <2>1. UNCHANGED <<at, current, startedLate>>
    BY <1>12 DEF Elsewhere, runVars
  <2>2. CASE UNCHANGED <<cancelled, cancelledAt>>
    BY <2>1, <2>2
  <2>3. CASE cancelled = FALSE /\ cancelled' = current /\ cancelledAt' = IF current THEN at ELSE cancelledAt
    <3>1. CASE current = TRUE
      BY <2>1, <2>3, <3>1
    <3>2. CASE current = FALSE
      BY <2>1, <2>3, <3>2
    <3> QED  BY <3>1, <3>2, <2>1
  <2> QED  BY <1>12, <2>2, <2>3 DEF Elsewhere
<1> QED  BY <1>2, <1>3, <1>4, <1>5, <1>6, <1>7, <1>8, <1>9, <1>10, <1>11, <1>12 DEF Acts

-----------------------------------------------------------------------------
LEMMA StreakType ==
    ASSUME NEW n \in Nat, streak \in Nat
    PROVE  /\ Row(n) \subseteq 1..n
           /\ IsFiniteSet(Row(n)) /\ Cardinality(Row(n)) \in Nat
           /\ Streak(n) = Cardinality(Row(n))
                 + (IF Row(n) = 1..n /\ last = batch[n] THEN streak ELSE 0)
           /\ Streak(n) \in Nat
<1>1. Row(n) \subseteq 1..n
  BY DEF Row
<1>2. IsFiniteSet(Row(n)) /\ Cardinality(Row(n)) \in Nat
  <2>1. IsFiniteSet(1..n)
    BY FS_Interval
  <2> QED  BY <1>1, <2>1, FS_Subset, FS_CardinalityType
<1> QED  BY <1>1, <1>2 DEF Streak

(* The loop detector counts every call alike that comes before a call, in  *)
(* its response and in those before it.                                    *)
LEMMA CountsTheRow ==
    ASSUME LimitInv, DetectorInv, at = "guard",
           NEW n \in 1..Len(batch), NEW k \in 1..(Len(made) + n),
           \A j \in (Len(made) + n - k + 1)..(Len(made) + n) : Nth(j) = batch[n]
    PROVE  Streak(n) >= k
<1> USE DEF LimitInv
<1>1. /\ Len(made) \in Nat /\ Len(batch) \in Nat /\ n \in Nat /\ k \in Nat /\ done = 0
      /\ streak \in Nat
  BY DEF DetectorInv
<1>2. /\ Row(n) \subseteq 1..n
      /\ IsFiniteSet(Row(n)) /\ Cardinality(Row(n)) \in Nat
      /\ Streak(n) = Cardinality(Row(n)) + (IF Row(n) = 1..n /\ last = batch[n] THEN streak ELSE 0)
  BY <1>1, StreakType
<1>3. \A m \in 1..n : Nth(Len(made) + m) = batch[m]
  BY <1>1 DEF Nth
<1>4. CASE k <= n
  <2>1. (n - k + 1)..n \subseteq Row(n)
    <3> SUFFICES ASSUME NEW m \in (n - k + 1)..n
                 PROVE  m \in 1..n /\ \A l \in m..n : batch[l] = batch[n]
      BY DEF Row
    <3>1. m \in 1..n
      BY <1>1, <1>4
    <3>2. ASSUME NEW l \in m..n PROVE batch[l] = batch[n]
      <4>1. l \in 1..n /\ Len(made) + l \in (Len(made) + n - k + 1)..(Len(made) + n)
        BY <1>1, <3>1
      <4> QED  BY <1>3, <4>1
    <3> QED  BY <3>1, <3>2
  <2>2. Cardinality((n - k + 1)..n) = k
    BY <1>1, <1>4, FS_Interval
  <2>3. k <= Cardinality(Row(n))
    BY <1>2, <2>1, <2>2, FS_Subset
  <2> QED  BY <1>1, <1>2, <2>3
<1>5. CASE ~(k <= n)
  <2>1. k - n \in 1..Len(made) /\ Len(made) > 0
    BY <1>1, <1>5
  <2>2. Row(n) = 1..n
    <3>1. ASSUME NEW m \in 1..n PROVE batch[m] = batch[n]
      <4>1. Len(made) + m \in (Len(made) + n - k + 1)..(Len(made) + n)
        BY <1>1, <1>5
      <4> QED  BY <1>3, <4>1
    <3> QED  BY <1>1, <3>1 DEF Row
  <2>3. Shown = Len(made) /\ at \in Looping
    BY DEF Shown, Calling, Looping, Thinking
  <2>4. \A j \in (Len(made) - (k - n) + 1)..Len(made) : Nth(j) = batch[n]
    <3> SUFFICES ASSUME NEW j \in (Len(made) - (k - n) + 1)..Len(made) PROVE Nth(j) = batch[n]
      OBVIOUS
    <3>1. j \in (Len(made) + n - k + 1)..(Len(made) + n)
      BY <1>1, <1>5
    <3> QED  BY <3>1
  <2>5. Nth(Len(made)) = batch[n]
    <3>1. Len(made) \in (Len(made) - (k - n) + 1)..Len(made)
      BY <1>1, <2>1
    <3> QED  BY <3>1, <2>4
  <2>6. last = batch[n] /\ streak >= k - n
    BY <2>1, <2>3, <2>4, <2>5 DEF DetectorInv
  <2>7. Cardinality(1..n) = n
    BY <1>1, FS_Interval
  <2>8. Streak(n) = n + streak
    BY <1>2, <2>2, <2>6, <2>7
  <2> QED  BY <1>1, <2>6, <2>8
<1> QED  BY <1>4, <1>5

(* What the detector has let pass and what it remembers of it stay true    *)
(* as long as no new calls pass.                                           *)
LEMMA ShownKept ==
    ASSUME DetectorInv, Shown \in Nat, Shown' \in 0..Shown,
           \A i \in 1..Shown' : Nth(i)' = Nth(i),
           UNCHANGED <<last, streak>>,
           at' \in Looping => at \in Looping /\ Shown' = Shown
    PROVE  DetectorInv'
<1> DEFINE N(i) == IF i <= Len(made') THEN made'[i] ELSE batch'[done' + (i - Len(made'))]
<1>1. \A i \in 1..Shown' : N(i) = Nth(i)
  BY DEF Nth
<1> HIDE DEF N
<1>2. streak' \in Nat
  BY DEF DetectorInv
<1>3. ASSUME NEW i \in LoopThreshold..Shown'
      PROVE  \E j \in (i - LoopThreshold + 1)..i : N(j) # N(i)
  <2>1. LoopThreshold \in Nat /\ LoopThreshold > 0 /\ i \in LoopThreshold..Shown /\ i \in 1..Shown'
    BY LimitAssumption
  <2>2. PICK j \in (i - LoopThreshold + 1)..i : Nth(j) # Nth(i)
    BY <2>1 DEF DetectorInv
  <2>3. j \in 1..Shown'
    BY <2>1
  <2> QED  BY <1>1, <2>1, <2>2, <2>3
<1>4. ASSUME at' \in Looping, Shown' > 0
      PROVE  last' = N(Shown')
  BY <1>1, <1>4 DEF DetectorInv
<1>5. ASSUME at' \in Looping, NEW k \in 1..Shown',
             \A j \in (Shown' - k + 1)..Shown' : N(j) = N(Shown')
      PROVE  streak' >= k
  <2>1. at \in Looping /\ Shown' = Shown /\ k \in 1..Shown /\ Shown \in 1..Shown'
    BY <1>5
  <2>2. ASSUME NEW j \in (Shown - k + 1)..Shown PROVE Nth(j) = Nth(Shown)
    <3>1. j \in 1..Shown' /\ j \in (Shown' - k + 1)..Shown'
      BY <2>1
    <3> QED  BY <1>1, <1>5, <2>1, <3>1
  <2> QED  BY <2>1, <2>2 DEF DetectorInv
<1> USE DEF N
<1> QED  BY <1>2, <1>3, <1>4, <1>5 DEF DetectorInv, Nth

LEMMA DetectorKept ==
    ASSUME LimitInv, DetectorInv, Acts
    PROVE  DetectorInv'
<1>0. /\ Len(made) \in Nat /\ Len(batch) \in Nat /\ done \in Nat
      /\ at \in Calling => done < Len(batch)
      /\ Shown \in Nat /\ Len(made) <= Shown
  BY DEF LimitInv, Shown
<1>1. ASSUME UNCHANGED <<made, batch, done, last, streak>>,
             at' \in Looping => at \in Looping /\ (at \in Calling <=> at' \in Calling),
             at' \in Calling => at \in Calling
      PROVE  DetectorInv'
  <2>1. \A i \in 1..Shown' : Nth(i)' = Nth(i)
    BY <1>1 DEF Nth
  <2>2. Shown' \in 0..Shown /\ (at' \in Looping => Shown' = Shown)
    BY <1>0, <1>1 DEF Shown
  <2> QED  BY <1>0, <1>1, <2>1, <2>2, ShownKept
<1>2. CASE Hop \/ Halt
  <2>1. UNCHANGED <<made, batch, done, last, streak>>
    BY <1>2 DEF Hop, Goto, Halt, Stop, loopVars, ghosts
  <2>2. CASE Hop
    BY <1>1, <2>1, <2>2 DEF Hop, Hops, Goto, Looping, Thinking, Calling
  <2>3. CASE Halt
    BY <1>1, <2>1, <2>3 DEF Halt, Stop, Looping, Thinking, Calling
  <2> QED  BY <1>2, <2>2, <2>3
<1>3. CASE Start \/ Refuse
  BY <1>1, <1>3 DEF Start, Refuse, loopVars, ghosts, Looping, Thinking, Calling
<1>4. CASE Begin
  <2>1. at' = "clock" /\ made' = <<>> /\ streak' = 0
    BY <1>4 DEF Begin
  <2>2. Shown' = 0
    BY <2>1 DEF Shown, Calling
  <2>3. LoopThreshold..0 = {}
    BY LimitAssumption
  <2> QED  BY <2>1, <2>2, <2>3 DEF DetectorInv
<1>5. CASE NewStep \/ FinalResponse \/ CallBegin \/ ToolAsks \/ ToolWaits \/ ToolAnswered \/ Execute
  BY <1>1, <1>5 DEF NewStep, FinalResponse, CallBegin, ToolAsks, ToolWaits, ToolAnswered, Execute,
                    loopVars, ghosts, Looping, Thinking, Calling
<1>6. CASE Generate
  <2>1. UNCHANGED <<made, last, streak>> /\ at = "generate" /\ at' = "reclock"
    BY <1>6 DEF Generate, ghosts
  <2>2. Shown' = Shown /\ Shown = Len(made) /\ at \in Looping
    BY <2>1 DEF Shown, Looping, Thinking, Calling
  <2>3. \A i \in 1..Shown' : Nth(i)' = Nth(i)
    BY <1>0, <2>1, <2>2 DEF Nth
  <2> QED  BY <1>0, <2>1, <2>2, <2>3, ShownKept
<1>7. CASE CallDone
  <2>1. /\ at = "ran" /\ done' = done + 1 /\ made' = Append(made, batch[done + 1])
        /\ UNCHANGED <<batch, last, streak>>
    BY <1>7 DEF CallDone, Counted, Kind
  <2>2. /\ at' \in {"publish", "call_token", "clock"}
        /\ at' = "clock" => done + 1 = Len(batch)
    BY <1>7 DEF CallDone
  <2>3. made \in Seq(Kinds) /\ batch[done + 1] \in Kinds /\ done < Len(batch)
    BY <2>1 DEF LimitInv, Calling
  <2>4. /\ Len(made') = Len(made) + 1 /\ made'[Len(made) + 1] = batch[done + 1]
        /\ \A i \in 1..Len(made) : made'[i] = made[i]
    BY <2>1, <2>3
  <2>5. Shown = Len(made) + (Len(batch) - done) /\ at \in Looping
    BY <2>1 DEF Shown, Looping, Calling
  <2>6. Shown' \in 0..Shown /\ (at' \in Looping => Shown' = Shown)
    BY <1>0, <2>1, <2>2, <2>3, <2>4, <2>5 DEF Shown, Looping, Thinking, Calling
  <2>7. \A i \in 1..Shown' : Nth(i)' = Nth(i)
    <3> SUFFICES ASSUME NEW i \in 1..Shown' PROVE Nth(i)' = Nth(i)
      OBVIOUS
    <3>1. i \in Nat \ {0}
      BY <2>6
    <3>2. CASE i <= Len(made)
      BY <1>0, <2>4, <3>1, <3>2 DEF Nth
    <3>3. CASE i = Len(made) + 1
      BY <1>0, <2>4, <3>1, <3>3 DEF Nth
    <3>4. CASE i > Len(made) + 1
      <4>1. done' + (i - Len(made')) = done + (i - Len(made))
        BY <1>0, <2>1, <2>4, <3>1
      <4> QED  BY <1>0, <2>1, <2>4, <3>1, <3>4, <4>1 DEF Nth
    <3> QED  BY <1>0, <3>1, <3>2, <3>3, <3>4
  <2> QED  BY <1>0, <2>1, <2>5, <2>6, <2>7, ShownKept
<1>8. CASE PublishTerminal \/ LeaveSlot \/ Record
  BY <1>1, <1>8 DEF PublishTerminal, LeaveSlot, Record, loopVars, ghosts, Looping, Thinking, Calling
<1>9. CASE Elsewhere
  BY <1>1, <1>9 DEF Elsewhere, loopVars
<1>10. CASE Passes
  <2> DEFINE new == Len(made) + Len(batch)
  <2>1. /\ at = "guard" /\ at' = "call_token" /\ UNCHANGED <<made, batch, done>> /\ done = 0
        /\ last' = batch[Len(batch)] /\ streak' = Streak(Len(batch))
        /\ \A n \in 1..Len(batch) : ~(Streak(n) >= LoopThreshold)
    BY <1>10 DEF Passes, LimitInv, ghosts
  <2>2. Len(batch) \in Nat \ {0} /\ Len(batch) \in 1..Len(batch)
    BY <1>10 DEF Passes, LimitInv
  <2>3. Shown = Len(made) /\ Shown' = new
    BY <1>0, <2>1 DEF Shown, Calling
  <2>4. \A m \in 1..Len(batch) : Nth(Len(made) + m) = batch[m]
    BY <1>0, <2>1 DEF Nth
  <2>5. ASSUME NEW i \in LoopThreshold..new
        PROVE  \E j \in (i - LoopThreshold + 1)..i : Nth(j) # Nth(i)
    <3>1. LoopThreshold \in Nat \ {0} /\ i \in Nat
      BY LimitAssumption
    <3>2. CASE i <= Len(made)
      BY <1>0, <2>3, <3>1, <3>2 DEF DetectorInv
    <3>3. CASE ~(i <= Len(made))
      <4> DEFINE n == i - Len(made)
      <4>1. n \in 1..Len(batch) /\ i = Len(made) + n /\ LoopThreshold \in 1..(Len(made) + n)
        BY <1>0, <3>1, <3>3
      <4>2. Nth(i) = batch[n]
        BY <2>4, <4>1
      <4>3. \E j \in (Len(made) + n - LoopThreshold + 1)..(Len(made) + n) : Nth(j) # batch[n]
        BY <2>1, <4>1, CountsTheRow
      <4> QED  BY <4>1, <4>2, <4>3
    <3> QED  BY <3>2, <3>3
  <2>6. Nth(new) = batch[Len(batch)]
    BY <2>2, <2>4
  <2>7. ASSUME NEW k \in 1..new, \A j \in (new - k + 1)..new : Nth(j) = Nth(new)
        PROVE  Streak(Len(batch)) >= k
    <3>1. \A j \in (new - k + 1)..new : Nth(j) = batch[Len(batch)]
      BY <2>6, <2>7
    <3> QED  BY SMTT(30), <2>1, <2>2, <2>7, <3>1, CountsTheRow
  <2>8. Streak(Len(batch)) \in Nat
    BY <1>0, StreakType DEF DetectorInv
  <2> HIDE DEF new
  <2> QED  BY <2>1, <2>3, <2>5, <2>6, <2>7, <2>8 DEF DetectorInv, Nth
<1> QED  BY <1>2, <1>3, <1>4, <1>5, <1>6, <1>7, <1>8, <1>9, <1>10 DEF Acts

-----------------------------------------------------------------------------
(* The invariant                                                           *)
AgentInv ==
    /\ StateInv
    /\ HistoryInv
    /\ LimitInv
    /\ DetectorInv
    /\ TokenInv
    /\ AskInv

LEMMA AgentStarts == Init => AgentInv
<1> SUFFICES ASSUME Init PROVE AgentInv
  OBVIOUS
<1> USE LimitAssumption DEF Init
<1>1. StateInv
  BY DEF StateInv, Looping, Thinking, Calling, Done
<1>2. HistoryInv
  BY DEF HistoryInv, Runs, Silent, Done
<1>3. LimitInv
  BY DEF LimitInv, Looping, Thinking, Calling
<1>4. DetectorInv
  <2>1. Shown = 0 /\ LoopThreshold..0 = {}
    BY DEF Shown, Calling
  <2> QED  BY <2>1 DEF DetectorInv
<1>5. TokenInv
  <2>1. cancelled = FALSE /\ current = FALSE /\ startedLate = 0 /\ at = "idle"
    BY DEF Broker!Init
  <2>2. cancelled \in BOOLEAN /\ current \in BOOLEAN /\ at \notin Committed
    BY <2>1 DEF Committed
  <2> HIDE DEF Init
  <2> QED  BY <2>1, <2>2 DEF TokenInv
<1>6. AskInv
  BY DEF AskInv, Broker!Init, Broker!EmptyQueue, Broker!Idle, Broker!QueueShowsTheWait
<1> QED  BY <1>1, <1>2, <1>3, <1>4, <1>5, <1>6 DEF AgentInv

LEMMA NextActs ==
    ASSUME LimitInv, TokenInv, [Next]_vars
    PROVE  Acts
<1>1. CASE Start
  BY <1>1 DEF Acts
<1>2. CASE Worker
  BY <1>2, WorkerActs
<1>3. CASE \/ \E h \in Cancellers : Canceller(h)
           \/ \E d \in Deciders : Decider(d)
           \/ ClockRunsOut \/ Expire \/ UNCHANGED vars
  BY <1>3, OtherThreads DEF Acts
<1> QED  BY <1>1, <1>2, <1>3 DEF Next

LEMMA AgentKeeps == AgentInv /\ [Next]_vars => AgentInv'
<1> SUFFICES ASSUME AgentInv, [Next]_vars PROVE AgentInv'
  OBVIOUS
<1> USE DEF AgentInv
<1>1. Acts
  BY NextActs
<1>2. StateInv' /\ AskInv' /\ HistoryInv'
  BY <1>1, StateKept, AskKept, HistoryKept
<1>3. LimitInv' /\ DetectorInv' /\ TokenInv'
  BY <1>1, LimitKept, DetectorKept, TokenKept
<1> QED  BY <1>2, <1>3

THEOREM AgentInvariant == Spec => []AgentInv
<1> QED  BY AgentStarts, AgentKeeps, PTL DEF Spec

-----------------------------------------------------------------------------
(* The limits a run is given hold over all of its responses                *)
(* (agent/orchestrator.py, _guard_calls and the top of the loop).          *)
THEOREM LimitsHold == Spec => []WithinLimits
<1>1. AgentInv => WithinLimits
  BY LimitAssumption DEF AgentInv, LimitInv, WithinLimits
<1> QED  BY <1>1, AgentInvariant, PTL

(* No call is made LoopThreshold times in a row with the same arguments,   *)
(* however the provider spreads them over its responses                    *)
(* (agent/loopdetect.py).                                                  *)
THEOREM NothingRepeatsForEver == Spec => []NoToolLoops
<1>1. AgentInv => NoToolLoops
  <2> SUFFICES ASSUME AgentInv, NEW i \in LoopThreshold..Len(made)
               PROVE  \E j \in i - LoopThreshold + 1 .. i : made[j] # made[i]
    BY DEF NoToolLoops
  <2>1. /\ Len(made) \in Nat /\ Shown \in Nat /\ Len(made) <= Shown
        /\ LoopThreshold \in Nat \ {0}
    BY LimitAssumption DEF AgentInv, LimitInv, Shown
  <2>2. PICK j \in (i - LoopThreshold + 1)..i : Nth(j) # Nth(i)
    BY <2>1 DEF AgentInv, DetectorInv
  <2> QED  BY <2>1, <2>2 DEF Nth
<1> QED  BY <1>1, AgentInvariant, PTL

(* A run makes no more than it is allowed, and nothing over and over       *)
(* (RunsBounded), for every limit and whatever the provider answers.       *)
THEOREM RunsAreBounded == Spec => []RunsBounded
<1>1. WithinLimits /\ NoToolLoops => RunsBounded
  BY DEF RunsBounded
<1> QED  BY <1>1, LimitsHold, NothingRepeatsForEver, PTL

(* A run is told of once, in the state it ended in, and its history says   *)
(* the same (agent/orchestrator.py, _publish_terminal; control/state.py).  *)
THEOREM EndsAreToldOnce == Spec => []OneTerminalEvent
<1>1. AgentInv => OneTerminalEvent
  <2> SUFFICES ASSUME AgentInv, NEW r \in Runs
               PROVE  /\ Cardinality(Events(r)) <= 1
                      /\ \A t \in Terminal : terminals[r][t] <= 1
                      /\ recorded[r] # "none" => recorded[r] \in Events(r)
                      /\ r = run /\ at \in {"leave", "record", "exit", "idle"} =>
                            \/ Events(r) = {state}
                            \/ Events(r) = {} /\ state = "created"
    BY DEF OneTerminalEvent
  <2> USE DEF AgentInv, HistoryInv
  <2>1. terminals[r] = Silent => Events(r) = {} /\ \A t \in Terminal : terminals[r][t] <= 1
    BY DEF Events, Silent
  <2>2. \A s \in Terminal : terminals[r] = Only(s) =>
           Events(r) = {s} /\ \A t \in Terminal : terminals[r][t] <= 1
    BY DEF Events, Only
  <2>3. Cardinality({}) = 0 /\ \A s \in Terminal : Cardinality({s}) = 1
    BY FS_EmptySet, FS_Singleton
  <2>4. /\ Cardinality(Events(r)) <= 1
        /\ \A t \in Terminal : terminals[r][t] <= 1
        /\ recorded[r] # "none" => recorded[r] \in Events(r)
    BY <2>1, <2>2, <2>3
  <2>5. r = run /\ at \in Done => Events(r) = {state} \/ (Events(r) = {} /\ state = "created")
    <3> SUFFICES ASSUME r = run, at \in Done
                 PROVE  Events(r) = {state} \/ (Events(r) = {} /\ state = "created")
      OBVIOUS
    <3>1. \/ state \in Terminal /\ terminals[r] = Only(state)
          \/ state = "created" /\ terminals[r] = Silent
      OBVIOUS
    <3> QED  BY <2>1, <2>2, <3>1
  <2> QED  BY <2>4, <2>5 DEF Done
<1> QED  BY <1>1, AgentInvariant, PTL

(* Once the token is set at most one more tool starts, and only one whose  *)
(* call had passed the test of the token (agent/orchestrator.py, the loop  *)
(* over the calls; agent/cancellation.py).                                 *)
THEOREM CancelStopsTheTools == Spec => []OneToolAfterCancel
<1>1. AgentInv => OneToolAfterCancel
  BY DEF AgentInv, TokenInv, Committed, OneToolAfterCancel
<1> QED  BY <1>1, AgentInvariant, PTL

(* While a run waits for a person its status and its queue show that call, *)
(* and nothing stays pending once the wait is over                         *)
(* (agent/approval_broker.py, agent/orchestrator.py).                      *)
THEOREM WaitsAreShown == Spec => []PausedWhileAsking
<1>1. AgentInv => PausedWhileAsking
  BY DEF AgentInv, AskInv, StateInv, PausedWhileAsking
<1> QED  BY <1>1, AgentInvariant, PTL

(* The status makes only moves of its table, so that no transition raises  *)
(* in the middle of a run (agent/models.py, _TRANSITIONS).                 *)
THEOREM StatusFollowsItsTable == Spec => StateMoves
<1>1. AgentInv /\ [Next]_vars => [at \notin {"idle", "begin"} => CanTransition(state, state')]_vars
  <2> SUFFICES ASSUME AgentInv, [Next]_vars, at \notin {"idle", "begin"}
               PROVE  CanTransition(state, state')
    OBVIOUS
  <2> USE DEF AgentInv, StateInv, Looping, Thinking, Calling, CanTransition
  <2>1. Acts
    BY NextActs
  <2>2. ASSUME UNCHANGED state PROVE CanTransition(state, state')
    BY <2>2
  <2>3. CASE Start \/ Refuse \/ Begin
    BY <2>3 DEF Start, Refuse, Begin
  <2>4. CASE Hop \/ Generate \/ Passes \/ ToolWaits \/ ToolAnswered \/ Execute \/ Elsewhere
    <3>1. UNCHANGED state
      BY <2>4 DEF Hop, Goto, Generate, Passes, ToolWaits, ToolAnswered, Execute, Elsewhere, runVars
    <3> QED  BY <2>2, <3>1
  <2>5. CASE PublishTerminal \/ LeaveSlot \/ Record
    BY <2>2, <2>5 DEF PublishTerminal, LeaveSlot, Record
  <2>6. CASE Halt
    <3>1. state' \in Terminal \ {"completed"} /\ at \in Looping \ {"asking", "execute", "ran"}
      BY <2>6 DEF Halt, Stop
    <3> QED  BY <3>1 DEF AgentStates, Terminal
  <2>7. CASE NewStep \/ FinalResponse \/ CallBegin \/ ToolAsks
    BY <2>7 DEF NewStep, FinalResponse, CallBegin, ToolAsks, AgentStates, Terminal
  <2>8. CASE CallDone
    <3>1. /\ state' \in {"limit_reached", "cancelled", "processing_result", state}
          /\ at = "ran"
      BY <2>8 DEF CallDone
    <3> QED  BY <3>1 DEF AgentStates, Terminal
  <2> QED  BY <2>1, <2>3, <2>4, <2>5, <2>6, <2>7, <2>8 DEF Acts
<1> QED  BY <1>1, AgentInvariant, PTL DEF Spec, StateMoves
=============================================================================
