--------------------------- MODULE DelegationProofs ---------------------------
(***************************************************************************)
(* What a delegation promises, for any number of delegations, permissions, *)
(* cancellers and lost requests: it leaves nothing behind, it ends once    *)
(* and with one outcome, an interrupt is not taken for a failure, and a    *)
(* person is asked once about a permission.                                *)
(*                                                                         *)
(* The properties speak of one delegation, so the invariant is a relation  *)
(* between what its thread holds, its session and its token, at each place *)
(* of the thread; the delegations meet in the results only.                *)
(***************************************************************************)
EXTENDS Delegation, FiniteSetTheorems, TLAPS

JobFields == {"at", "state", "left", "trouble", "reconnects", "output", "requests",
              "permission", "answer", "outcome"}
ExecFields == {"session", "prompted", "interrupted", "over", "progress", "unread", "asked",
               "waiting", "lost"}

Looping == {"token", "clock", "trouble", "poll", "event", "asking", "reply"}
Told == {"leave", "dispose", "store", "over"}
Ended == {"abort", "publish"} \union Told
Starting == {"idle", "count", "create", "prompt", "register"}

(* j is a thread, x its session, r whether it is among the running ones.   *)
(* The session is open as long as the thread may use it; in the end it was *)
(* asked to stop, unless it ended by the executor's own word, and to go.   *)
(* One that the thread does not know was never prompted.                   *)
SessionInv(j, x, r) ==
    /\ j.at \in Places
    /\ j.outcome \in IF j.at \in Ended THEN Outcomes ELSE {"none"}
    /\ j.at \in {"idle", "count", "create"} => x.session = "none"
    /\ j.at \in Looping \union {"prompt", "register", "abort", "leave", "dispose"} =>
         x.session = "open"
    /\ j.at = "publish" => x.session \in {"none", "open", "unknown"}
    /\ j.at \in {"store", "over"} => x.session # "open" \/ "delete" \in x.lost
    /\ j.at \in {"publish"} \union Told /\ x.session \in {"open", "disposed"} =>
         x.interrupted \/ "interrupt" \in x.lost \/ j.outcome = "completed"
    /\ x.session \in {"none", "unknown"} => ~x.prompted
    /\ r => j.at \in Looping \union {"abort", "publish", "leave"} /\ x.session = "open"

(* p is what was published.                                                *)
PublishedInv(j, p) == p = IF j.at \in Told THEN <<j.outcome>> ELSE <<>>

(* A sweep lists messages, all of them unread yet, and then permissions.   *)
MessagesFirst(l, u) ==
    \A i \in 1..Len(l) : l[i] \in Messages =>
        i <= Len(u) /\ \A i2 \in 1..i : l[i2] \in Messages

SweepInv(j, x) ==
    /\ x.unread \in Seq(Messages)
    /\ j.left \in Seq(Messages \union Permissions)
    /\ j.at = "event" => j.left # <<>>
    /\ j.at \in Starting \union Ended => j.left = <<>>
    /\ MessagesFirst(j.left, x.unread)

(* t is the token.  Nobody but a canceller, who has set the token, has     *)
(* interrupted a session that is still watched; and a sweep that tells of  *)
(* it is not looked at before the token is.                                *)
InterruptInv(j, x, t) ==
    /\ x.interrupted /\ j.at \notin {"publish"} \union Told => t
    /\ \A i \in 1..Len(x.unread) : x.unread[i] = "interrupted" => x.interrupted
    /\ \A i \in 1..Len(j.left) : j.left[i] = "interrupted" => j.at = "token" /\ t

(* k are the permissions known, q those a person was asked about: known    *)
(* ones, while the sweep has new ones only, each once.                     *)
NewOnes(l, k) ==
    \A i \in 1..Len(l) : l[i] \in Permissions =>
        l[i] \notin k /\ \A i2 \in 1..Len(l) : l[i2] = l[i] => i2 = i

AskedInv(j, x, k, q) ==
    /\ IsFiniteSet(x.waiting) /\ x.waiting \subseteq Permissions
    /\ NewOnes(j.left, k)
    /\ q \in Seq(Permissions) /\ IsInjective(q)
    /\ j.at \notin {"store", "over"} => \A i \in 1..Len(q) : q[i] \in k

(* g counts the late grants: after one the token is looked at.             *)
GrantInv(j, t, g) == g \in {0, 1} /\ (g = 1 => t /\ j.at \in {"token"} \union Ended)

(* A canceller that interrupts has set the token.                          *)
CancelInv ==
    \A h \in Cancellers :
        canceller[h] = NoCancel \/ \E d \in Tasks :
            \/ canceller[h] = <<"set", d>>
            \/ canceller[h] = <<"abort", d>> /\ token[d]

ResultInv ==
    /\ results \in Seq(Tasks \X Outcomes)
    /\ \A i \in 1..Len(results) :
         job[results[i][1]].at = "over" /\ job[results[i][1]].outcome = results[i][2]

Shape ==
    /\ DOMAIN job = Tasks /\ DOMAIN exec = Tasks /\ DOMAIN known = Tasks
    /\ DOMAIN published = Tasks /\ DOMAIN posed = Tasks /\ DOMAIN lateGrants = Tasks
    /\ DOMAIN token = Tasks /\ DOMAIN canceller = Cancellers
    /\ \A d \in Tasks : DOMAIN job[d] = JobFields /\ DOMAIN exec[d] = ExecFields

TaskInv(d) ==
    /\ SessionInv(job[d], exec[d], d \in running)
    /\ PublishedInv(job[d], published[d])
    /\ SweepInv(job[d], exec[d])
    /\ InterruptInv(job[d], exec[d], token[d])
    /\ AskedInv(job[d], exec[d], known[d], posed[d])
    /\ GrantInv(job[d], token[d], lateGrants[d])

DelegationInv == Shape /\ CancelInv /\ ResultInv /\ \A d \in Tasks : TaskInv(d)

-----------------------------------------------------------------------------
(* What another delegation's step leaves alone.                            *)
Apart(e) ==
    /\ job'[e] = job[e] /\ exec'[e] = exec[e] /\ known'[e] = known[e] /\ token'[e] = token[e]
    /\ published'[e] = published[e] /\ posed'[e] = posed[e] /\ lateGrants'[e] = lateGrants[e]
    /\ e \in running' <=> e \in running

LEMMA ApartKept ==
    ASSUME NEW e \in Tasks, TaskInv(e), Apart(e)
    PROVE  TaskInv(e)'
<1>1. SessionInv(job[e], exec[e], e \in running)'
  BY DEF TaskInv, Apart, SessionInv
<1> QED  BY <1>1 DEF TaskInv, Apart, PublishedInv, SweepInv, InterruptInv, AskedInv, GrantInv

(* A step of a thread that is not over: the others and the results see     *)
(* nothing of it.                                                          *)
LEMMA ThreadFrame ==
    ASSUME DelegationInv, NEW d \in Tasks, job[d].at # "over",
           UNCHANGED <<token, results, canceller>>,
           Shape', TaskInv(d)', \A e \in Tasks \ {d} : Apart(e)
    PROVE  DelegationInv'
<1>1. CancelInv'
  BY DEF DelegationInv, CancelInv
<1>2. ResultInv'
  <2>1. \A i \in 1..Len(results) : results[i][1] \in Tasks /\ results[i][1] # d
    BY DEF DelegationInv, ResultInv
  <2>. QED  BY <2>1 DEF DelegationInv, ResultInv, Apart
<1>3. \A e \in Tasks : TaskInv(e)'
  BY ApartKept DEF DelegationInv
<1> QED  BY <1>1, <1>2, <1>3 DEF DelegationInv

LEMMA Shorter ==
    ASSUME NEW T, NEW s \in Seq(T), s # <<>>
    PROVE  /\ Tail(s) \in Seq(T) /\ Head(s) = s[1] /\ Head(s) \in T
           /\ 1 \in 1..Len(s) /\ Len(Tail(s)) = Len(s) - 1
           /\ \A i \in 1..Len(Tail(s)) : i + 1 \in 1..Len(s) /\ Tail(s)[i] = s[i + 1]
  OBVIOUS

(* What is left of a sweep is a sweep.                                     *)
LEMMA ShorterSweep ==
    ASSUME NEW l \in Seq(Messages \union Permissions), l # <<>>, NEW k, NewOnes(l, k)
    PROVE  NewOnes(Tail(l), k) /\ (Head(l) \in Permissions => NewOnes(Tail(l), k \union {Head(l)}))
<1>1. /\ Head(l) = l[1] /\ 1 \in 1..Len(l)
      /\ \A i \in 1..Len(Tail(l)) : /\ i + 1 \in 1..Len(l) /\ i + 1 # 1
                                    /\ Tail(l)[i] = l[i + 1]
  BY Shorter
<1>2. \A i \in 1..Len(Tail(l)), i2 \in 1..Len(Tail(l)) : i + 1 = i2 + 1 => i = i2
  OBVIOUS
<1>3. NewOnes(Tail(l), k)
  BY <1>1, <1>2 DEF NewOnes
<1>4. \A i \in 1..Len(Tail(l)) : Tail(l)[i] \in Permissions => Tail(l)[i] # Head(l)
  BY <1>1 DEF NewOnes
<1> QED  BY <1>3, <1>4 DEF NewOnes

LEMMA ShorterBoth ==
    ASSUME NEW l \in Seq(Messages \union Permissions), l # <<>>,
           NEW u \in Seq(Messages), u # <<>>, MessagesFirst(l, u)
    PROVE  MessagesFirst(Tail(l), Tail(u))
<1>1. /\ Len(Tail(u)) = Len(u) - 1 /\ Len(u) \in Nat
      /\ \A i \in 1..Len(Tail(l)) : i + 1 \in 1..Len(l) /\ Tail(l)[i] = l[i + 1]
  BY Shorter
<1>2. SUFFICES ASSUME NEW i \in 1..Len(Tail(l)), Tail(l)[i] \in Messages
               PROVE  i <= Len(Tail(u)) /\ \A i2 \in 1..i : Tail(l)[i2] \in Messages
  BY DEF MessagesFirst
<1>3. i + 1 <= Len(u) /\ \A i2 \in 1..(i + 1) : l[i2] \in Messages
  BY <1>1, <1>2 DEF MessagesFirst
<1>4. \A i2 \in 1..i : i2 \in 1..Len(Tail(l)) /\ i2 + 1 \in 1..(i + 1)
  BY Shorter
<1> QED  BY <1>1, <1>3, <1>4

(* The steps by what they do to the thread and to its session.             *)

(* The thread goes on to another place, with the rest l of its sweep.      *)
Goes(d, place, l) ==
    /\ DOMAIN job' = Tasks /\ DOMAIN job'[d] = JobFields
    /\ job'[d].at = place /\ job'[d].left = l
    /\ \A e \in Tasks \ {d} : job'[e] = job[e]

(* The session stays what it is, or is one that nobody knows; a message    *)
(* may have been read, a prompt sent to one that is known.                 *)
SameSession(d) ==
    /\ DOMAIN exec' = Tasks /\ DOMAIN exec'[d] = ExecFields
    /\ \/ exec'[d].session = exec[d].session
       \/ exec[d].session = "none" /\ exec'[d].session = "unknown"
    /\ exec[d].session = "open" \/ exec'[d].prompted = exec[d].prompted
    /\ exec'[d].interrupted = exec[d].interrupted /\ exec'[d].lost = exec[d].lost
    /\ exec'[d].waiting = exec[d].waiting
    /\ \A e \in Tasks \ {d} : exec'[e] = exec[e]

Unread(d) == exec'[d].unread = exec[d].unread
OneRead(d) == exec[d].unread # <<>> /\ exec'[d].unread = Tail(exec[d].unread)

(* What has been read is forgotten, what has not is not invented.          *)
LEMMA StillTrue ==
    ASSUME DelegationInv, NEW d \in Tasks, Unread(d) \/ OneRead(d)
    PROVE  /\ exec'[d].unread \in Seq(Messages)
           /\ \A i \in 1..Len(exec'[d].unread) :
                 exec'[d].unread[i] = "interrupted" => exec[d].interrupted
<1>1. /\ exec[d].unread \in Seq(Messages)
      /\ \A i \in 1..Len(exec[d].unread) :
            exec[d].unread[i] = "interrupted" => exec[d].interrupted
  BY DEF DelegationInv, TaskInv, SweepInv, InterruptInv
<1>2. CASE Unread(d)
  BY <1>1, <1>2 DEF Unread
<1>3. CASE OneRead(d)
  <2>1. /\ exec'[d].unread \in Seq(Messages)
        /\ \A i \in 1..Len(exec'[d].unread) : /\ i + 1 \in 1..Len(exec[d].unread)
                                              /\ exec'[d].unread[i] = exec[d].unread[i + 1]
    BY <1>1, <1>3, Shorter DEF OneRead
  <2> QED  BY <1>1, <2>1
<1> QED  BY <1>2, <1>3

LEMMA UntouchedSession ==
    ASSUME Shape, NEW d \in Tasks, UNCHANGED exec
    PROVE  SameSession(d) /\ Unread(d)
  BY DEF Shape, SameSession, Unread

(* A delegation that gives up.                                             *)
LEMMA Concluded ==
    ASSUME Shape, NEW d \in Tasks, NEW o, Conclude(d, o)
    PROVE  /\ Goes(d, IF exec[d].session = "open" THEN "abort" ELSE "publish", <<>>)
           /\ job'[d].outcome = o
  BY DEF Shape, Conclude, Become, Ending, JobFields, Goes

LEMMA EndStep ==
    ASSUME DelegationInv, NEW d \in Tasks, NEW o \in Outcomes, NEW place,
           Goes(d, place, <<>>), job'[d].outcome = o,
           place = IF exec[d].session # "open" \/ o = "completed" THEN "publish" ELSE "abort",
           SameSession(d), Unread(d) \/ OneRead(d),
           job[d].at \in Looping \union {"count", "create", "prompt"},
           UNCHANGED <<token, running, results, canceller, published>>,
           DOMAIN known' = Tasks, DOMAIN posed' = Tasks, DOMAIN lateGrants' = Tasks,
           known'[d] = known[d] \/ known[d] \subseteq known'[d],
           posed'[d] = posed[d], lateGrants'[d] = lateGrants[d],
           \A e \in Tasks \ {d} : /\ known'[e] = known[e] /\ posed'[e] = posed[e]
                                  /\ lateGrants'[e] = lateGrants[e]
    PROVE  DelegationInv'
<1>1. /\ DOMAIN job' = Tasks /\ DOMAIN job'[d] = JobFields
      /\ job'[d].at = place /\ job'[d].left = <<>> /\ place \in {"publish", "abort"}
      /\ \A e \in Tasks \ {d} : job'[e] = job[e]
  BY DEF Goes
<1>2. Shape'  BY <1>1 DEF DelegationInv, Shape, SameSession
<1>3. SessionInv(job[d], exec[d], d \in running)
  BY DEF DelegationInv, TaskInv
<1>4. exec[d].session \in {"none", "open"}
  BY <1>3 DEF SessionInv, Looping
<1>5. SessionInv(job[d], exec[d], d \in running)'
  BY <1>1, <1>3, <1>4 DEF SessionInv, SameSession, Looping, Told, Ended, Places, Outcomes
<1>6. PublishedInv(job[d], published[d])'
  BY <1>1 DEF DelegationInv, TaskInv, PublishedInv, Looping, Told
<1>7. exec'[d].unread \in Seq(Messages) /\ \A i \in 1..Len(exec'[d].unread) :
         exec'[d].unread[i] = "interrupted" => exec[d].interrupted
  BY StillTrue
<1>8. SweepInv(job[d], exec[d])'
  BY <1>1, <1>7 DEF SweepInv, MessagesFirst
<1>9. InterruptInv(job[d], exec[d], token[d])'
  BY <1>1, <1>7 DEF DelegationInv, TaskInv, InterruptInv, SameSession, Looping, Told
<1>10. AskedInv(job[d], exec[d], known[d], posed[d])'
  <2>1. AskedInv(job[d], exec[d], known[d], posed[d]) /\ NewOnes(<<>>, known'[d])
    BY DEF DelegationInv, TaskInv, NewOnes
  <2>2. known[d] \subseteq known'[d]
    OBVIOUS
  <2> QED  BY <1>1, <2>1, <2>2 DEF AskedInv, SameSession, Looping
<1>11. GrantInv(job[d], token[d], lateGrants[d])'
  BY <1>1 DEF DelegationInv, TaskInv, GrantInv, Looping, Ended
<1>12. \A e \in Tasks \ {d} : Apart(e)
  BY <1>1 DEF Apart, SameSession
<1> QED
  BY <1>2, <1>5, <1>6, <1>8, <1>9, <1>10, <1>11, <1>12, ThreadFrame DEF TaskInv, Looping

LEMMA ConcludeStep ==
    ASSUME DelegationInv, NEW d \in Tasks, NEW o \in Outcomes \ {"completed"}, Conclude(d, o),
           SameSession(d), Unread(d) \/ OneRead(d),
           job[d].at \in Looping \union {"count", "create", "prompt"},
           UNCHANGED <<token, running, results, canceller, known, history>>
    PROVE  DelegationInv'
  BY Concluded, EndStep DEF DelegationInv, Shape, history

(* A thread that goes on with its sweep, from a place where a cancel has   *)
(* been looked at, or to the place where it will be.                       *)
LEMMA GoStep ==
    ASSUME DelegationInv, NEW d \in Tasks, NEW place \in Looping, NEW l,
           Goes(d, place, l), job'[d].outcome = job[d].outcome,
           \/ l = job[d].left /\ Unread(d)
           \/ l = <<>> /\ Unread(d)
           \/ job[d].left # <<>> /\ l = Tail(job[d].left) /\ OneRead(d),
           place = "event" => l # <<>>,
           SameSession(d), job[d].at \in Looping, job[d].at = "token" => ~token[d],
           UNCHANGED <<token, running, results, canceller, known, history>>
    PROVE  DelegationInv'
<1>1. /\ DOMAIN job' = Tasks /\ DOMAIN job'[d] = JobFields
      /\ job'[d].at = place /\ job'[d].left = l
      /\ \A e \in Tasks \ {d} : job'[e] = job[e]
  BY DEF Goes
<1>2. Shape'  BY <1>1 DEF DelegationInv, Shape, SameSession, history
<1>3. SessionInv(job[d], exec[d], d \in running)
  BY DEF DelegationInv, TaskInv
<1>4. SessionInv(job[d], exec[d], d \in running)'
  BY <1>1, <1>3 DEF SessionInv, SameSession, Looping, Told, Ended, Places
<1>5. PublishedInv(job[d], published[d])'
  BY <1>1 DEF DelegationInv, TaskInv, PublishedInv, Looping, Told, history
<1>6. exec'[d].unread \in Seq(Messages) /\ \A i \in 1..Len(exec'[d].unread) :
         exec'[d].unread[i] = "interrupted" => exec[d].interrupted
  BY StillTrue
<1>7. SweepInv(job[d], exec[d])'
  <2>1. SweepInv(job[d], exec[d])
    BY DEF DelegationInv, TaskInv
  <2>2. l \in Seq(Messages \union Permissions)
    <3>1. CASE l = <<>>  BY <3>1
    <3> QED  BY ZenonT(60), <2>1, <3>1, Shorter DEF SweepInv
  <2>3. MessagesFirst(l, exec'[d].unread)
    <3>1. CASE l = <<>>  BY <3>1 DEF MessagesFirst
    <3> QED  BY <2>1, <3>1, ShorterBoth DEF SweepInv, Unread, OneRead
  <2> QED  BY <1>1, <1>6, <2>2, <2>3 DEF SweepInv, Looping, Starting, Ended, Told
<1>8. \A i \in 1..Len(l) : l[i] # "interrupted"
  <2>1. job[d].left \in Seq(Messages \union Permissions)
    BY DEF DelegationInv, TaskInv, SweepInv
  <2>2. \A i \in 1..Len(job[d].left) : job[d].left[i] # "interrupted"
    BY DEF DelegationInv, TaskInv, InterruptInv
  <2>3. CASE l = <<>>  BY <2>3
  <2>4. CASE l = job[d].left  BY <2>2, <2>4
  <2>5. CASE job[d].left # <<>> /\ l = Tail(job[d].left)
    <3>1. \A i \in 1..Len(l) : i + 1 \in 1..Len(job[d].left) /\ l[i] = job[d].left[i + 1]
      BY <2>1, <2>5, Shorter
    <3> QED  BY <2>2, <3>1
  <2> QED  BY <2>3, <2>4, <2>5
<1>9. InterruptInv(job[d], exec[d], token[d])'
  BY <1>1, <1>6, <1>8 DEF DelegationInv, TaskInv, InterruptInv, SameSession, Looping, Told
<1>10. AskedInv(job[d], exec[d], known[d], posed[d])'
  <2>1. AskedInv(job[d], exec[d], known[d], posed[d]) /\ SweepInv(job[d], exec[d])
    BY DEF DelegationInv, TaskInv
  <2>2. NewOnes(l, known[d])
    <3>1. CASE l = <<>>  BY <3>1 DEF NewOnes
    <3> QED  BY <2>1, <3>1, ShorterSweep DEF AskedInv, SweepInv
  <2> QED  BY <1>1, <2>1, <2>2 DEF AskedInv, SameSession, Looping, history
<1>11. GrantInv(job[d], token[d], lateGrants[d])'
  BY <1>1 DEF DelegationInv, TaskInv, GrantInv, Looping, Ended, Told, history
<1>12. \A e \in Tasks \ {d} : Apart(e)
  BY <1>1 DEF Apart, SameSession, history
<1> QED
  BY <1>2, <1>4, <1>5, <1>7, <1>9, <1>10, <1>11, <1>12, ThreadFrame DEF TaskInv, Looping

-----------------------------------------------------------------------------
(* The steps of a delegation's thread                                      *)

LEMMA CheckTokenStep ==
    ASSUME DelegationInv, NEW d \in Tasks, CheckToken(d)
    PROVE  DelegationInv'
<1>1. SameSession(d) /\ Unread(d)
  BY UntouchedSession DEF DelegationInv, CheckToken
<1>2. CASE Conclude(d, "cancelled")
  BY <1>1, <1>2, ConcludeStep DEF CheckToken, Looping, Outcomes
<1>3. CASE Goto(d, "clock") /\ ~token[d]
  <2>1. Goes(d, "clock", job[d].left) /\ job'[d].outcome = job[d].outcome
    BY <1>3 DEF DelegationInv, Shape, Goto, Become, Goes, JobFields
  <2> QED  BY <1>1, <1>3, <2>1, GoStep DEF CheckToken, Looping
<1> QED  BY <1>2, <1>3 DEF CheckToken

LEMMA CheckClockStep ==
    ASSUME DelegationInv, NEW d \in Tasks, CheckClock(d)
    PROVE  DelegationInv'
<1>1. SameSession(d) /\ Unread(d)
  BY UntouchedSession DEF DelegationInv, CheckClock
<1>2. CASE Conclude(d, "timed_out")
  BY <1>1, <1>2, ConcludeStep DEF CheckClock, Looping, Outcomes
<1>3. CASE Goto(d, WhatNext(d))
  <2>1. Goes(d, WhatNext(d), job[d].left) /\ job'[d].outcome = job[d].outcome
    BY <1>3 DEF DelegationInv, Shape, Goto, Become, Goes, JobFields
  <2>2. WhatNext(d) \in Looping /\ (WhatNext(d) = "event" => job[d].left # <<>>)
    BY DEF WhatNext, Looping
  <2> QED  BY <1>1, <2>1, <2>2, GoStep DEF CheckClock, Looping
<1> QED  BY <1>2, <1>3 DEF CheckClock

LEMMA ReconnectStep ==
    ASSUME DelegationInv, NEW d \in Tasks, Reconnect(d)
    PROVE  DelegationInv'
<1>1. SameSession(d) /\ Unread(d)
  BY UntouchedSession DEF DelegationInv, Reconnect
<1>2. CASE Conclude(d, "failed")
  BY <1>1, <1>2, ConcludeStep DEF Reconnect, Looping, Outcomes
<1>3. CASE Become(d, [job[d] EXCEPT !.reconnects = @ + 1, !.trouble = FALSE, !.at = "token"])
  <2>1. Goes(d, "token", job[d].left) /\ job'[d].outcome = job[d].outcome
    BY <1>3 DEF DelegationInv, Shape, Become, Goes, JobFields
  <2> QED  BY <1>1, <2>1, GoStep DEF Reconnect, Looping
<1> QED  BY <1>2, <1>3 DEF Reconnect

LEMMA Troubled ==
    ASSUME Shape, NEW d \in Tasks, Trouble(d)
    PROVE  Goes(d, "token", <<>>) /\ job'[d].outcome = job[d].outcome
  BY DEF Shape, Trouble, Become, Goes, JobFields

LEMMA AnsweredStep ==
    ASSUME DelegationInv, NEW d \in Tasks, Answered(d)
    PROVE  DelegationInv'
<1>1. SameSession(d) /\ Unread(d)
  BY UntouchedSession DEF DelegationInv, Answered
<1>2. Goes(d, "reply", job[d].left) /\ job'[d].outcome = job[d].outcome
  BY DEF DelegationInv, Shape, Answered, Become, Goes, JobFields
<1> QED  BY <1>1, <1>2, GoStep DEF Answered, Looping

LEMMA ExecutorFailedStep ==
    ASSUME DelegationInv, NEW d \in Tasks, ExecutorFailed(d)
    PROVE  DelegationInv'
<1>1. job[d].left # <<>> /\ exec[d].unread # <<>> /\ SweepInv(job[d], exec[d])
  BY Shorter DEF DelegationInv, TaskInv, SweepInv, MessagesFirst, ExecutorFailed, See, Messages
<1>2. SameSession(d) /\ OneRead(d)
  BY <1>1 DEF DelegationInv, Shape, ExecutorFailed, See, SameSession, OneRead, ExecFields
<1> QED  BY <1>2, ConcludeStep DEF ExecutorFailed, See, Looping, Outcomes

(* A message at the head of a sweep is the oldest unread one.              *)
LEMMA MessageRead ==
    ASSUME DelegationInv, NEW d \in Tasks, NEW m \in Messages, See(d, m)
    PROVE  SameSession(d) /\ OneRead(d) /\ job[d].left # <<>>
<1>1. job[d].left # <<>> /\ exec[d].unread # <<>>
  BY Shorter DEF DelegationInv, TaskInv, SweepInv, MessagesFirst, See
<1> QED  BY <1>1 DEF DelegationInv, Shape, See, SameSession, OneRead, ExecFields

LEMMA ProgressStep ==
    ASSUME DelegationInv, NEW d \in Tasks, Progress(d)
    PROVE  DelegationInv'
<1> DEFINE j == [job[d] EXCEPT !.left = Tail(@), !.output = @ + 1]
<1>1. SameSession(d) /\ OneRead(d) /\ job[d].left # <<>> /\ job[d].at = "event"
  BY MessageRead DEF Progress, See, Messages
<1>2. exec[d].session = "open"
  BY <1>1 DEF DelegationInv, TaskInv, SessionInv, Looping
<1>3. CASE Become(d, [j EXCEPT !.outcome = "failed", !.left = <<>>, !.at = "abort"])
  <2>1. Goes(d, "abort", <<>>) /\ job'[d].outcome = "failed"
    BY <1>3 DEF DelegationInv, Shape, Become, Goes, JobFields
  <2> QED
    BY <1>1, <1>2, <2>1, EndStep DEF Progress, Looping, Outcomes, history, DelegationInv, Shape
<1>4. CASE Become(d, [j EXCEPT !.at = "token"])
  <2>1. Goes(d, "token", Tail(job[d].left)) /\ job'[d].outcome = job[d].outcome
    BY <1>4 DEF DelegationInv, Shape, Become, Goes, JobFields
  <2> QED  BY <1>1, <2>1, GoStep DEF Progress, Looping
<1> QED  BY <1>3, <1>4 DEF Progress

LEMMA ExecutorDoneStep ==
    ASSUME DelegationInv, NEW d \in Tasks, ExecutorDone(d)
    PROVE  DelegationInv'
<1>1. SameSession(d) /\ OneRead(d) /\ job[d].at = "event"
  BY MessageRead DEF ExecutorDone, See, Messages
<1>2. Goes(d, "publish", <<>>) /\ job'[d].outcome = "completed"
  BY DEF DelegationInv, Shape, ExecutorDone, Become, Goes, JobFields
<1> QED
  BY <1>1, <1>2, EndStep DEF ExecutorDone, Looping, Outcomes, history, DelegationInv, Shape

(* Before the first sweep and after the last one.                          *)
LEMMA QuietStep ==
    ASSUME DelegationInv, NEW d \in Tasks, NEW place,
           Goes(d, place, <<>>),
           \/ job[d].at \in Starting /\ place \in Starting \union {"token"}
           \/ job[d].at \in Ended /\ place \in {"publish"} \union Told,
           job[d].at \in {"store", "over"} => place \in {"store", "over"},
           DOMAIN exec' = Tasks, DOMAIN exec'[d] = ExecFields,
           exec'[d].interrupted = exec[d].interrupted
              \/ (exec'[d].interrupted /\ place \in {"publish"} \union Told),
           exec'[d].unread = exec[d].unread \/ exec'[d].unread = <<>>,
           exec'[d].waiting = exec[d].waiting \/ exec'[d].waiting = {},
           \A e \in Tasks \ {d} : exec'[e] = exec[e],
           DOMAIN known' = Tasks, known'[d] = known[d] \/ place \in {"store", "over"},
           \A e \in Tasks \ {d} : known'[e] = known[e],
           UNCHANGED <<token, canceller, posed, lateGrants>>, DOMAIN published' = Tasks
    PROVE  /\ Shape'
           /\ SweepInv(job[d], exec[d])'
           /\ InterruptInv(job[d], exec[d], token[d])'
           /\ AskedInv(job[d], exec[d], known[d], posed[d])'
           /\ GrantInv(job[d], token[d], lateGrants[d])'
<1>1. /\ DOMAIN job' = Tasks /\ DOMAIN job'[d] = JobFields
      /\ job'[d].at = place /\ job'[d].left = <<>>
      /\ \A e \in Tasks \ {d} : job'[e] = job[e]
  BY DEF Goes
<1>2. Shape'  BY <1>1 DEF DelegationInv, Shape
<1>3. SweepInv(job[d], exec[d])'
  BY <1>1 DEF DelegationInv, TaskInv, SweepInv, MessagesFirst, Starting, Ended, Told
<1>4. InterruptInv(job[d], exec[d], token[d])'
  BY <1>1 DEF DelegationInv, TaskInv, InterruptInv, Starting, Ended, Told
<1>5. AskedInv(job[d], exec[d], known[d], posed[d])'
  <2>1. AskedInv(job[d], exec[d], known[d], posed[d]) /\ NewOnes(<<>>, known'[d])
    BY DEF DelegationInv, TaskInv, NewOnes
  <2>2. IsFiniteSet(exec'[d].waiting) /\ exec'[d].waiting \subseteq Permissions
    BY <2>1, FS_EmptySet DEF AskedInv
  <2>3. job[d].at \notin {"store", "over"} \/ place \in {"store", "over"}
    OBVIOUS
  <2> QED  BY <1>1, <2>1, <2>2, <2>3 DEF AskedInv
<1>6. GrantInv(job[d], token[d], lateGrants[d])'
  BY <1>1 DEF DelegationInv, TaskInv, GrantInv, Starting, Ended, Told
<1> QED  BY <1>2, <1>3, <1>4, <1>5, <1>6

LEMMA StartStep ==
    ASSUME DelegationInv, NEW d \in Tasks, NEW place \in Starting \union {"token"},
           job[d].at \in Starting, Goes(d, place, <<>>),
           DOMAIN exec' = Tasks, DOMAIN exec'[d] = ExecFields,
           exec'[d].interrupted = exec[d].interrupted, exec'[d].unread = exec[d].unread,
           exec'[d].waiting = exec[d].waiting,
           \A e \in Tasks \ {d} : exec'[e] = exec[e],
           SessionInv(job[d], exec[d], d \in running)',
           \A e \in Tasks \ {d} : e \in running' <=> e \in running,
           UNCHANGED <<token, results, canceller, known, history>>
    PROVE  DelegationInv'
<1>1. /\ Shape' /\ SweepInv(job[d], exec[d])'
      /\ InterruptInv(job[d], exec[d], token[d])'
      /\ AskedInv(job[d], exec[d], known[d], posed[d])'
      /\ GrantInv(job[d], token[d], lateGrants[d])'
  <2>1. UNCHANGED <<known, published, posed, lateGrants>>
    BY DEF history
  <2>2. DOMAIN known' = Tasks /\ DOMAIN published' = Tasks
    BY <2>1 DEF DelegationInv, Shape
  <2>3. /\ job[d].at \in {"store", "over"} => place \in {"store", "over"}
        /\ known'[d] = known[d] /\ \A e \in Tasks \ {d} : known'[e] = known[e]
        /\ UNCHANGED <<token, canceller, posed, lateGrants>>
    BY <2>1 DEF Starting
  <2>4. /\ \/ job[d].at \in Starting /\ place \in Starting \union {"token"}
           \/ job[d].at \in Ended /\ place \in {"publish"} \union Told
        /\ exec'[d].interrupted = exec[d].interrupted
              \/ (exec'[d].interrupted /\ place \in {"publish"} \union Told)
        /\ exec'[d].unread = exec[d].unread \/ exec'[d].unread = <<>>
        /\ exec'[d].waiting = exec[d].waiting \/ exec'[d].waiting = {}
        /\ known'[d] = known[d] \/ place \in {"store", "over"}
    BY <2>3
  <2> QED  BY <2>2, <2>3, <2>4, QuietStep
<1>2. PublishedInv(job[d], published[d])'
  BY DEF DelegationInv, TaskInv, PublishedInv, Starting, Told, history, Goes
<1>3. \A e \in Tasks \ {d} : Apart(e)
  BY DEF Goes, Apart, history
<1> QED  BY <1>1, <1>2, <1>3, ThreadFrame DEF TaskInv, Starting

LEMMA DelegateStep ==
    ASSUME DelegationInv, NEW d \in Tasks, Delegate(d)
    PROVE  DelegationInv'
<1>1. Goes(d, "count", <<>>) /\ job'[d].outcome = job[d].outcome
  BY DEF DelegationInv, Shape, TaskInv, SweepInv, Delegate, Become, Goes, JobFields, Starting
<1>2. SessionInv(job[d], exec[d], d \in running)'
  BY <1>1 DEF DelegationInv, TaskInv, SessionInv, Goes, Delegate, Looping, Ended, Told, Places
<1> QED  BY <1>1, <1>2, StartStep DEF Delegate, Starting, DelegationInv, Shape

LEMMA CheckCountStep ==
    ASSUME DelegationInv, NEW d \in Tasks, CheckCount(d)
    PROVE  DelegationInv'
<1>1. SameSession(d) /\ Unread(d)
  BY UntouchedSession DEF DelegationInv, CheckCount
<1>2. CASE Conclude(d, "failed")
  BY <1>1, <1>2, ConcludeStep DEF CheckCount, Outcomes
<1>3. CASE Goto(d, "create")
  <2>1. Goes(d, "create", <<>>) /\ job'[d].outcome = job[d].outcome
    BY <1>3 DEF DelegationInv, Shape, TaskInv, SweepInv, CheckCount, Goto, Become, Goes,
                JobFields, Starting
  <2>2. SessionInv(job[d], exec[d], d \in running)'
    BY <2>1 DEF DelegationInv, TaskInv, SessionInv, Goes, CheckCount, Looping, Ended, Told, Places
  <2> QED  BY <2>1, <2>2, StartStep DEF CheckCount, Starting, DelegationInv, Shape
<1> QED  BY <1>2, <1>3 DEF CheckCount

LEMMA CreateSessionStep ==
    ASSUME DelegationInv, NEW d \in Tasks, CreateSession(d)
    PROVE  DelegationInv'
<1>1. CASE /\ \E made \in {"none", "unknown"} : exec' = [exec EXCEPT ![d].session = made]
           /\ Conclude(d, "failed")
  <2>1. exec[d].session = "none"
    BY DEF DelegationInv, TaskInv, SessionInv, CreateSession
  <2>2. PICK made \in {"none", "unknown"} : exec' = [exec EXCEPT ![d].session = made]
    BY <1>1
  <2>3. SameSession(d) /\ Unread(d)
    BY <2>1, <2>2 DEF DelegationInv, Shape, SameSession, Unread, ExecFields
  <2> QED  BY <1>1, <2>3, ConcludeStep DEF CreateSession, Outcomes
<1>2. CASE /\ exec' = [exec EXCEPT ![d].session = "open"]
           /\ Become(d, [job[d] EXCEPT !.at = "prompt", !.state = "running"])
  <2>1. Goes(d, "prompt", <<>>) /\ job'[d].outcome = job[d].outcome
    BY <1>2 DEF DelegationInv, Shape, TaskInv, SweepInv, CreateSession, Become, Goes,
                JobFields, Starting
  <2>2. /\ DOMAIN exec' = Tasks /\ DOMAIN exec'[d] = ExecFields
        /\ exec'[d].session = "open" /\ exec'[d].interrupted = exec[d].interrupted
        /\ exec'[d].unread = exec[d].unread /\ exec'[d].waiting = exec[d].waiting
        /\ \A e \in Tasks \ {d} : exec'[e] = exec[e]
    BY <1>2 DEF DelegationInv, Shape, ExecFields
  <2>3. SessionInv(job[d], exec[d], d \in running)'
    BY <2>1, <2>2 DEF DelegationInv, TaskInv, SessionInv, Goes, CreateSession, Looping, Ended,
                      Told, Places
  <2> QED  BY <2>1, <2>2, <2>3, StartStep DEF CreateSession, Starting
<1> QED  BY <1>1, <1>2 DEF CreateSession

LEMMA SendPromptStep ==
    ASSUME DelegationInv, NEW d \in Tasks, SendPrompt(d)
    PROVE  DelegationInv'
<1>1. PICK b \in BOOLEAN : exec' = [exec EXCEPT ![d].prompted = b]
  BY DEF SendPrompt
<1>2. SameSession(d) /\ Unread(d)
  <2>1. exec[d].session = "open"
    BY DEF DelegationInv, TaskInv, SessionInv, SendPrompt
  <2> QED  BY <1>1, <2>1 DEF DelegationInv, Shape, SameSession, Unread, ExecFields
<1>3. CASE Conclude(d, "failed")
  BY <1>2, <1>3, ConcludeStep DEF SendPrompt, Outcomes
<1>4. CASE Goto(d, "register")
  <2>1. Goes(d, "register", <<>>) /\ job'[d].outcome = job[d].outcome
    BY <1>4 DEF DelegationInv, Shape, TaskInv, SweepInv, SendPrompt, Goto, Become, Goes,
                JobFields, Starting
  <2>2. SessionInv(job[d], exec[d], d \in running)'
    BY <1>2, <2>1 DEF DelegationInv, TaskInv, SessionInv, SameSession, Goes, SendPrompt, Looping,
                      Ended, Told, Places
  <2> QED  BY <1>2, <2>1, <2>2, StartStep DEF SendPrompt, Starting, SameSession, Unread
<1> QED  BY <1>3, <1>4 DEF SendPrompt

LEMMA RegisterStep ==
    ASSUME DelegationInv, NEW d \in Tasks, Register(d)
    PROVE  DelegationInv'
<1>1. Goes(d, "token", <<>>) /\ job'[d].outcome = job[d].outcome
  BY DEF DelegationInv, Shape, TaskInv, SweepInv, Register, Goto, Become, Goes, JobFields, Starting
<1>2. SessionInv(job[d], exec[d], d \in running)'
  BY <1>1 DEF DelegationInv, TaskInv, SessionInv, Goes, Register, Looping, Ended, Told, Places
<1>3. \A e \in Tasks \ {d} : e \in running' <=> e \in running
  BY DEF Register
<1> QED  BY <1>1, <1>2, <1>3, StartStep DEF Register, Starting, DelegationInv, Shape

(* The end: what is published, and what is left of the session.            *)
LEMMA FinishStep ==
    ASSUME DelegationInv, NEW d \in Tasks, NEW place \in {"publish"} \union Told,
           job[d].at \in Ended \ {"over"}, Goes(d, place, <<>>),
           job[d].at = "store" => place = "over",
           DOMAIN exec' = Tasks, DOMAIN exec'[d] = ExecFields,
           exec'[d].interrupted = exec[d].interrupted
              \/ (exec'[d].interrupted /\ place \in {"publish"} \union Told),
           exec'[d].unread = exec[d].unread \/ exec'[d].unread = <<>>,
           exec'[d].waiting = exec[d].waiting \/ exec'[d].waiting = {},
           \A e \in Tasks \ {d} : exec'[e] = exec[e],
           DOMAIN known' = Tasks, known'[d] = known[d] \/ place \in {"store", "over"},
           \A e \in Tasks \ {d} : known'[e] = known[e],
           UNCHANGED <<token, canceller, posed, lateGrants>>, DOMAIN published' = Tasks,
           \A e \in Tasks \ {d} : published'[e] = published[e],
           \A e \in Tasks \ {d} : e \in running' <=> e \in running,
           SessionInv(job[d], exec[d], d \in running)', PublishedInv(job[d], published[d])'
    PROVE  /\ Shape' /\ \A e \in Tasks : TaskInv(e)'
           /\ \A e \in Tasks \ {d} : Apart(e)
<1>1. job[d].at \in {"store", "over"} => place \in {"store", "over"}
  OBVIOUS
<1>2. /\ Shape' /\ SweepInv(job[d], exec[d])'
      /\ InterruptInv(job[d], exec[d], token[d])'
      /\ AskedInv(job[d], exec[d], known[d], posed[d])'
      /\ GrantInv(job[d], token[d], lateGrants[d])'
  BY <1>1, QuietStep
<1>3. \A e \in Tasks \ {d} : Apart(e)
  BY DEF Goes, Apart
<1>4. TaskInv(d)'
  BY <1>2 DEF TaskInv
<1> QED  BY <1>2, <1>3, <1>4, ApartKept DEF DelegationInv

LEMMA AbortStep ==
    ASSUME DelegationInv, NEW d \in Tasks, Abort(d)
    PROVE  DelegationInv'
<1>1. Goes(d, "publish", <<>>) /\ job'[d].outcome = job[d].outcome
  BY DEF DelegationInv, Shape, TaskInv, SweepInv, Abort, Goto, Become, Goes, JobFields, Ended
<1>2. /\ DOMAIN exec' = Tasks /\ DOMAIN exec'[d] = ExecFields
      /\ \/ exec'[d].interrupted = TRUE /\ exec'[d].lost = exec[d].lost
         \/ exec'[d].interrupted = exec[d].interrupted /\ "interrupt" \in exec'[d].lost
      /\ exec'[d].session = exec[d].session /\ exec'[d].prompted = exec[d].prompted
      /\ exec'[d].unread = exec[d].unread /\ exec'[d].waiting = exec[d].waiting
      /\ \A e \in Tasks \ {d} : exec'[e] = exec[e]
  BY DEF DelegationInv, Shape, Abort, ExecFields
<1>3. SessionInv(job[d], exec[d], d \in running)'
  BY <1>1, <1>2 DEF DelegationInv, TaskInv, SessionInv, Goes, Abort, Looping, Ended, Told, Places
<1>4. PublishedInv(job[d], published[d])'
  BY <1>1 DEF DelegationInv, TaskInv, PublishedInv, Abort, Goes, Told, history
<1>5. Shape' /\ TaskInv(d)' /\ \A e \in Tasks \ {d} : Apart(e)
  <2>1. UNCHANGED <<token, canceller, known, published, posed, lateGrants, running>>
    BY DEF Abort, history
  <2>2. DOMAIN known' = Tasks /\ DOMAIN published' = Tasks
    BY <2>1 DEF DelegationInv, Shape
  <2>3. job[d].at = "abort" /\ "publish" \in {"publish"} \union Told /\ job[d].at \in Ended \ {"over"}
    BY DEF Abort, Ended
  <2> QED  BY <1>1, <1>2, <1>3, <1>4, <2>1, <2>2, <2>3, FinishStep
<1> QED  BY <1>5, ThreadFrame DEF Abort

LEMMA PublishStep ==
    ASSUME DelegationInv, NEW d \in Tasks, Publish(d)
    PROVE  DelegationInv'
<1> DEFINE place == IF d \in running THEN "leave"
                    ELSE IF exec[d].session = "open" THEN "dispose" ELSE "store"
<1>1. Goes(d, place, <<>>) /\ job'[d].outcome = job[d].outcome
  BY DEF DelegationInv, Shape, TaskInv, SweepInv, Publish, Goto, Become, Goes, JobFields, Ended
<1>2. /\ place \in {"leave", "dispose", "store"}
      /\ place = "leave" <=> d \in running
      /\ place = "store" => exec[d].session # "open"
      /\ place = "dispose" => exec[d].session = "open"
  OBVIOUS
<1> HIDE DEF place
<1>3. SessionInv(job[d], exec[d], d \in running)'
  <2>1. SessionInv(job[d], exec[d], d \in running)
    BY DEF DelegationInv, TaskInv
  <2> QED
    BY <1>1, <1>2, <2>1 DEF SessionInv, Goes, Publish, Looping, Ended, Told, Places
<1>4. PublishedInv(job[d], published[d])' /\ DOMAIN published' = Tasks
  BY <1>1, <1>2 DEF DelegationInv, Shape, TaskInv, PublishedInv, Publish, Goes, Told
<1>5. \A e \in Tasks \ {d} : published'[e] = published[e]
  BY DEF DelegationInv, Shape, Publish
<1>6. Shape' /\ TaskInv(d)' /\ \A e \in Tasks \ {d} : Apart(e)
  <2>1. UNCHANGED <<token, canceller, exec, known, posed, lateGrants, running>>
    BY DEF Publish
  <2>2. DOMAIN known' = Tasks /\ DOMAIN exec' = Tasks /\ DOMAIN exec'[d] = ExecFields
    BY <2>1 DEF DelegationInv, Shape
  <2>3. job[d].at = "publish" /\ place \in {"publish"} \union Told /\ job[d].at \in Ended \ {"over"}
    BY <1>2 DEF Publish, Ended, Told
  <2> QED  BY <1>1, <1>3, <1>4, <1>5, <2>1, <2>2, <2>3, FinishStep
<1> QED  BY <1>6, ThreadFrame DEF Publish

LEMMA LeaveStep ==
    ASSUME DelegationInv, NEW d \in Tasks, Leave(d)
    PROVE  DelegationInv'
<1>1. Goes(d, "dispose", <<>>) /\ job'[d].outcome = job[d].outcome
  BY DEF DelegationInv, Shape, TaskInv, SweepInv, Leave, Goto, Become, Goes, JobFields, Ended, Told
<1>2. SessionInv(job[d], exec[d], d \in running)'
  BY <1>1 DEF DelegationInv, TaskInv, SessionInv, Goes, Leave, Looping, Ended, Told, Places
<1>3. PublishedInv(job[d], published[d])'
  BY <1>1 DEF DelegationInv, TaskInv, PublishedInv, Leave, Goes, Told, history
<1>4. Shape' /\ TaskInv(d)' /\ \A e \in Tasks \ {d} : Apart(e)
  <2>1. UNCHANGED <<token, canceller, exec, known, published, posed, lateGrants>>
    BY DEF Leave, history
  <2>2. /\ DOMAIN known' = Tasks /\ DOMAIN published' = Tasks
        /\ DOMAIN exec' = Tasks /\ DOMAIN exec'[d] = ExecFields
    BY <2>1 DEF DelegationInv, Shape
  <2>3. job[d].at = "leave" /\ "dispose" \in {"publish"} \union Told /\ job[d].at \in Ended \ {"over"}
    BY DEF Leave, Ended, Told
  <2>4. \A e \in Tasks \ {d} : e \in running' <=> e \in running
    BY DEF Leave
  <2> QED  BY <1>1, <1>2, <1>3, <2>1, <2>2, <2>3, <2>4, FinishStep
<1> QED  BY <1>4, ThreadFrame DEF Leave

LEMMA DisposeStep ==
    ASSUME DelegationInv, NEW d \in Tasks, Dispose(d)
    PROVE  DelegationInv'
<1>1. Goes(d, "store", <<>>) /\ job'[d].outcome = job[d].outcome
  BY DEF DelegationInv, Shape, TaskInv, SweepInv, Dispose, Goto, Become, Goes, JobFields, Ended, Told
<1>2. /\ DOMAIN exec' = Tasks /\ DOMAIN exec'[d] = ExecFields
      /\ exec'[d].interrupted = exec[d].interrupted
      /\ exec'[d].unread = exec[d].unread \/ exec'[d].unread = <<>>
      /\ exec'[d].waiting = exec[d].waiting \/ exec'[d].waiting = {}
      /\ \/ exec'[d].session = "disposed" /\ exec'[d].lost = exec[d].lost
         \/ /\ exec'[d].session = exec[d].session /\ exec'[d].prompted = exec[d].prompted
            /\ exec'[d].lost = exec[d].lost \union {"delete"}
      /\ \A e \in Tasks \ {d} : exec'[e] = exec[e]
  <2>1. CASE exec' = [exec EXCEPT ![d] = [NewSession EXCEPT !.session = "disposed",
                                                            !.interrupted = exec[d].interrupted,
                                                            !.lost = exec[d].lost]]
    BY <2>1 DEF DelegationInv, Shape, NewSession, ExecFields
  <2>2. CASE exec' = [exec EXCEPT ![d].lost = @ \union {"delete"}]
    BY <2>2 DEF DelegationInv, Shape, ExecFields
  <2> QED  BY <2>1, <2>2 DEF Dispose
<1>3. SessionInv(job[d], exec[d], d \in running)'
  BY <1>1, <1>2 DEF DelegationInv, TaskInv, SessionInv, Goes, Dispose, Looping, Ended, Told, Places
<1>4. PublishedInv(job[d], published[d])'
  BY <1>1 DEF DelegationInv, TaskInv, PublishedInv, Dispose, Goes, Told, history
<1>5. Shape' /\ TaskInv(d)' /\ \A e \in Tasks \ {d} : Apart(e)
  <2>1. UNCHANGED <<token, canceller, running, published, posed, lateGrants>>
    BY DEF Dispose, history
  <2>2. /\ DOMAIN known' = Tasks /\ DOMAIN published' = Tasks
        /\ \A e \in Tasks \ {d} : known'[e] = known[e]
    BY <2>1 DEF DelegationInv, Shape, Dispose
  <2>3. job[d].at = "dispose" /\ "store" \in {"publish"} \union Told /\ job[d].at \in Ended \ {"over"}
    BY DEF Dispose, Ended, Told
  <2> QED  BY <1>1, <1>2, <1>3, <1>4, <2>1, <2>2, <2>3, FinishStep
<1> QED  BY <1>5, ThreadFrame DEF Dispose

LEMMA StoreStep ==
    ASSUME DelegationInv, NEW d \in Tasks, Store(d)
    PROVE  DelegationInv'
<1>1. Goes(d, "over", <<>>) /\ job'[d].outcome = job[d].outcome
  BY DEF DelegationInv, Shape, TaskInv, SweepInv, Store, Goto, Become, Goes, JobFields, Ended, Told
<1>2. SessionInv(job[d], exec[d], d \in running)'
  BY <1>1 DEF DelegationInv, TaskInv, SessionInv, Goes, Store, Looping, Ended, Told, Places
<1>3. PublishedInv(job[d], published[d])'
  BY <1>1 DEF DelegationInv, TaskInv, PublishedInv, Store, Goes, Told, history
<1>4. Shape' /\ (\A e \in Tasks : TaskInv(e)') /\ \A e \in Tasks \ {d} : Apart(e)
  <2>1. UNCHANGED <<token, canceller, running, exec, known, published, posed, lateGrants>>
    BY DEF Store, history
  <2>2. /\ DOMAIN known' = Tasks /\ DOMAIN published' = Tasks
        /\ DOMAIN exec' = Tasks /\ DOMAIN exec'[d] = ExecFields
    BY <2>1 DEF DelegationInv, Shape
  <2>3. job[d].at = "store" /\ "over" \in {"publish"} \union Told /\ job[d].at \in Ended \ {"over"}
    BY DEF Store, Ended, Told
  <2> QED  BY <1>1, <1>2, <1>3, <2>1, <2>2, <2>3, FinishStep
<1>5. CancelInv'
  BY DEF DelegationInv, CancelInv, Store
<1>6. ResultInv'
  <2> DEFINE new == <<d, job[d].outcome>>
             all == Append(results, new)
  <2>1. /\ results \in Seq(Tasks \X Outcomes)
        /\ \A i \in 1..Len(results) : /\ job[results[i][1]].at = "over"
                                      /\ job[results[i][1]].outcome = results[i][2]
    BY DEF DelegationInv, ResultInv
  <2>2. job[d].outcome \in Outcomes /\ job[d].at = "store"
    BY DEF DelegationInv, TaskInv, SessionInv, Store, Ended, Told
  <2>3. /\ all \in Seq(Tasks \X Outcomes) /\ all # <<>>
        /\ \A i \in 1..Len(all) : all[i] = new \/ \E k \in 1..Len(results) : all[i] = results[k]
    <3>1. new \in Tasks \X Outcomes
      BY <2>2
    <3> HIDE DEF new
    <3>2. /\ all \in Seq(Tasks \X Outcomes) /\ Len(all) = Len(results) + 1
          /\ \A i \in 1..Len(all) : all[i] = IF i <= Len(results) THEN results[i] ELSE new
      BY <2>1, <3>1
    <3> HIDE DEF all
    <3>3. \A i \in 1..Len(all) : i <= Len(results) => i \in 1..Len(results)
      OBVIOUS
    <3> QED  BY <2>1, <3>2, <3>3
  <2>4. /\ results' \in Seq(Tasks \X Outcomes)
        /\ \A i \in 1..Len(results') : \/ results'[i] = new
                                       \/ \E k \in 1..Len(results) : results'[i] = results[k]
    <3> HIDE DEF all
    <3>1. CASE results' = all  BY <2>3, <3>1
    <3>2. CASE results' = Tail(all)
      <4>1. \A i \in 1..Len(Tail(all)) : i + 1 \in 1..Len(all) /\ Tail(all)[i] = all[i + 1]
        BY <2>3, Shorter
      <4> QED  BY <2>3, <3>2, <4>1, Shorter
    <3> QED  BY <3>1, <3>2 DEF Store, all
  <2>5. job'[d].at = "over" /\ job'[d].outcome = job[d].outcome
    BY <1>1 DEF Goes
  <2>6. \A k \in 1..Len(results) : /\ results[k][1] \in Tasks \ {d}
                                  /\ job'[results[k][1]].at = "over"
                                  /\ job'[results[k][1]].outcome = results[k][2]
    BY <1>1, <2>1, <2>2 DEF Goes
  <2>7. \A i \in 1..Len(results') : /\ job'[results'[i][1]].at = "over"
                                   /\ job'[results'[i][1]].outcome = results'[i][2]
    <3>1. SUFFICES ASSUME NEW i \in 1..Len(results')
                   PROVE  /\ job'[results'[i][1]].at = "over"
                          /\ job'[results'[i][1]].outcome = results'[i][2]
      OBVIOUS
    <3>2. CASE results'[i] = new  BY <2>5, <3>2
    <3>3. CASE \E k \in 1..Len(results) : results'[i] = results[k]  BY <2>6, <3>3
    <3> QED  BY <2>4, <3>2, <3>3
  <2> QED  BY <2>4, <2>7 DEF ResultInv
<1> QED  BY <1>4, <1>5, <1>6 DEF DelegationInv

LEMMA PollSweepStep ==
    ASSUME DelegationInv, NEW d \in Tasks, PollSweep(d)
    PROVE  DelegationInv'
<1>1. SameSession(d) /\ Unread(d)
  BY UntouchedSession DEF DelegationInv, PollSweep
<1>2. CASE Trouble(d)
  <2>1. Goes(d, "token", <<>>) /\ job'[d].outcome = job[d].outcome
    BY <1>2, Troubled DEF DelegationInv
  <2> QED  BY <1>1, <2>1, GoStep DEF PollSweep, Looping
<1>3. CASE \E listed \in SetToSeqs(Fresh(d)) :
             Become(d, [job[d] EXCEPT !.left = exec[d].unread \o listed, !.at = "token"])
  <2>1. PICK listed \in SetToSeqs(Fresh(d)) :
             Become(d, [job[d] EXCEPT !.left = exec[d].unread \o listed, !.at = "token"])
    BY <1>3
  <2> DEFINE u == exec[d].unread
             l == u \o listed
  <2>2. /\ SessionInv(job[d], exec[d], d \in running) /\ job[d].at = "poll"
        /\ PublishedInv(job[d], published[d])
        /\ SweepInv(job[d], exec[d]) /\ InterruptInv(job[d], exec[d], token[d])
        /\ AskedInv(job[d], exec[d], known[d], posed[d])
        /\ GrantInv(job[d], token[d], lateGrants[d])
    BY DEF DelegationInv, TaskInv, PollSweep
  <2>3. /\ DOMAIN job' = Tasks /\ DOMAIN job'[d] = JobFields
        /\ job'[d].at = "token" /\ job'[d].left = l /\ job'[d].outcome = job[d].outcome
        /\ \A e \in Tasks \ {d} : job'[e] = job[e]
    BY <2>1 DEF DelegationInv, Shape, Become, JobFields
  <2>4. Cardinality(Fresh(d)) \in Nat
    BY <2>2, FS_Subset, FS_CardinalityType DEF AskedInv, Fresh
  <2>5. /\ listed \in Seq(Fresh(d)) /\ Len(listed) = Cardinality(Fresh(d))
        /\ \A i, i2 \in 1..Len(listed) : listed[i] = listed[i2] => i = i2
    BY <2>4 DEF SetToSeqs
  <2>6. u \in Seq(Messages) /\ listed \in Seq(Permissions)
    BY <2>2, <2>5 DEF SweepInv, AskedInv, Fresh
  <2>7. /\ l \in Seq(Messages \union Permissions) /\ Len(l) = Len(u) + Len(listed)
        /\ Len(u) \in Nat /\ Len(listed) \in Nat
        /\ \A i \in 1..Len(l) : IF i <= Len(u)
               THEN i \in 1..Len(u) /\ l[i] = u[i] /\ l[i] \in Messages
               ELSE /\ i - Len(u) \in 1..Len(listed) /\ l[i] = listed[i - Len(u)]
                    /\ l[i] \in Permissions \ known[d]
    <3>1. \A i \in 1..Len(listed) : listed[i] \in Permissions \ known[d]
      BY <2>2, <2>5 DEF AskedInv, Fresh
    <3>2. u \in Seq(Messages \union Permissions) /\ listed \in Seq(Messages \union Permissions)
      BY <2>6
    <3> HIDE DEF u
    <3> QED  BY <2>6, <3>1, <3>2
  <2> HIDE DEF l
  <2>8. Permissions \intersect Messages = {}
    BY DelegationAssumption
  <2>9. MessagesFirst(l, u)
    <3>1. \A i \in 1..Len(l) : l[i] \in Messages <=> i <= Len(u)
      BY <2>7, <2>8
    <3> HIDE DEF u
    <3> QED  BY <2>7, <3>1 DEF MessagesFirst
  <2>10. NewOnes(l, known[d])
    <3>1. SUFFICES ASSUME NEW i \in 1..Len(l), l[i] \in Permissions
                   PROVE  l[i] \notin known[d] /\ \A i2 \in 1..Len(l) : l[i2] = l[i] => i2 = i
      BY DEF NewOnes
    <3> HIDE DEF u
    <3>2. ~(i <= Len(u))
      BY <2>7, <2>8, <3>1
    <3>3. ASSUME NEW i2 \in 1..Len(l), l[i2] = l[i]
          PROVE  i2 = i
      <4>1. ~(i2 <= Len(u))
        BY <2>7, <2>8, <3>1, <3>3
      <4>2. i - Len(u) = i2 - Len(u)
        BY <2>5, <2>7, <3>2, <3>3, <4>1
      <4> QED  BY <2>7, <4>2
    <3> QED  BY <2>7, <3>2, <3>3
  <2>11. Shape'  BY <1>1, <2>3 DEF DelegationInv, Shape, SameSession, PollSweep, history
  <2>12. SessionInv(job[d], exec[d], d \in running)'
    BY <1>1, <2>2, <2>3 DEF SessionInv, SameSession, Looping, Told, Ended, Places, PollSweep
  <2>13. PublishedInv(job[d], published[d])'
    BY <2>2, <2>3 DEF PublishedInv, Told, PollSweep, history
  <2>14. SweepInv(job[d], exec[d])'
    BY <1>1, <2>2, <2>3, <2>6, <2>7, <2>9 DEF SweepInv, Unread, Starting, Ended, Told
  <2>15. InterruptInv(job[d], exec[d], token[d])'
    <3>1. \A i \in 1..Len(l) : l[i] = "interrupted" => token[d]
      <4>1. \A i \in 1..Len(l) : l[i] = "interrupted" => i \in 1..Len(u) /\ l[i] = u[i]
        <5> HIDE DEF u
        <5>1. "interrupted" \in Messages
          BY DEF Messages
        <5> QED  BY <2>7, <2>8, <5>1
      <4>2. exec[d].interrupted => token[d]
        BY <2>2 DEF InterruptInv, Told
      <4> QED  BY <2>2, <4>1, <4>2 DEF InterruptInv
    <3> QED  BY <1>1, <2>2, <2>3, <3>1 DEF InterruptInv, Unread, SameSession, PollSweep, Told
  <2>16. AskedInv(job[d], exec[d], known[d], posed[d])'
    BY <1>1, <2>2, <2>3, <2>10 DEF AskedInv, SameSession, PollSweep, history
  <2>17. GrantInv(job[d], token[d], lateGrants[d])'
    BY <2>2, <2>3 DEF GrantInv, PollSweep, history
  <2>18. \A e \in Tasks \ {d} : Apart(e)
    BY <1>1, <2>3 DEF Apart, SameSession, PollSweep, history
  <2> QED
    BY <2>11, <2>12, <2>13, <2>14, <2>15, <2>16, <2>17, <2>18, ThreadFrame DEF TaskInv, PollSweep
<1> QED  BY <1>2, <1>3 DEF PollSweep

LEMMA ReplyStep ==
    ASSUME DelegationInv, NEW d \in Tasks, Reply(d)
    PROVE  DelegationInv'
<1> DEFINE p == job[d].permission
           arrived == [exec EXCEPT ![d].waiting = @ \ {p}]
<1>1. /\ SessionInv(job[d], exec[d], d \in running) /\ job[d].at = "reply"
      /\ PublishedInv(job[d], published[d])
      /\ SweepInv(job[d], exec[d]) /\ InterruptInv(job[d], exec[d], token[d])
      /\ AskedInv(job[d], exec[d], known[d], posed[d])
      /\ GrantInv(job[d], token[d], lateGrants[d])
  BY DEF DelegationInv, TaskInv, Reply
<1>2. /\ DOMAIN job' = Tasks /\ DOMAIN job'[d] = JobFields
      /\ job'[d].at = "token" /\ job'[d].left \in {job[d].left, <<>>}
      /\ job'[d].outcome = job[d].outcome
      /\ \A e \in Tasks \ {d} : job'[e] = job[e]
  <2>1. CASE Goto(d, "token")
    BY <2>1 DEF DelegationInv, Shape, Goto, Become, JobFields
  <2>2. CASE Trouble(d)
    BY <2>2 DEF DelegationInv, Shape, Trouble, Become, JobFields
  <2> QED  BY <2>1, <2>2 DEF Reply
<1>3. exec' \in {exec, arrived}
  BY DEF Reply
<1>4. /\ DOMAIN exec' = Tasks /\ DOMAIN exec'[d] = ExecFields
      /\ exec'[d].session = exec[d].session /\ exec'[d].interrupted = exec[d].interrupted
      /\ exec'[d].unread = exec[d].unread
      /\ exec'[d].waiting \in {exec[d].waiting, exec[d].waiting \ {p}}
      /\ \A e \in Tasks \ {d} : exec'[e] = exec[e]
  <2>1. CASE exec' = exec  BY <2>1 DEF DelegationInv, Shape
  <2>2. CASE exec' = arrived  BY <2>2 DEF DelegationInv, Shape, ExecFields
  <2> QED  BY <1>3, <2>1, <2>2
<1>5. UNCHANGED <<token, running, results, canceller, known, published, posed>>
  BY DEF Reply
<1>6. /\ DOMAIN lateGrants' = Tasks
      /\ lateGrants'[d] = IF token[d] /\ job[d].answer THEN lateGrants[d] + 1 ELSE lateGrants[d]
      /\ \A e \in Tasks \ {d} : lateGrants'[e] = lateGrants[e]
  BY DEF DelegationInv, Shape, Reply
<1>7. Shape'  BY <1>2, <1>4, <1>5, <1>6 DEF DelegationInv, Shape
<1>8. SessionInv(job[d], exec[d], d \in running)'
  BY <1>1, <1>2, <1>4, <1>5 DEF SessionInv, Looping, Told, Ended, Places
<1>9. PublishedInv(job[d], published[d])'
  BY <1>1, <1>2, <1>5 DEF PublishedInv, Told
<1>10. SweepInv(job[d], exec[d])'
  <2>1. MessagesFirst(<<>>, exec[d].unread) /\ <<>> \in Seq(Messages \union Permissions)
    BY DEF MessagesFirst
  <2> QED  BY <1>1, <1>2, <1>4, <2>1 DEF SweepInv, Starting, Ended, Told
<1>11. InterruptInv(job[d], exec[d], token[d])'
  <2>1. \A i \in 1..Len(job[d].left) : job[d].left[i] # "interrupted"
    BY <1>1 DEF InterruptInv
  <2>2. \A i \in 1..Len(job'[d].left) : job'[d].left[i] # "interrupted"
    BY <1>2, <2>1
  <2> QED  BY <1>1, <1>2, <1>4, <1>5, <2>2 DEF InterruptInv, Told
<1>12. AskedInv(job[d], exec[d], known[d], posed[d])'
  <2>1. NewOnes(job'[d].left, known[d])
    BY <1>1, <1>2 DEF AskedInv, NewOnes
  <2>2. IsFiniteSet(exec'[d].waiting) /\ exec'[d].waiting \subseteq Permissions
    BY <1>1, <1>4, FS_Subset DEF AskedInv
  <2> QED  BY <1>1, <1>2, <1>5, <2>1, <2>2 DEF AskedInv
<1>13. GrantInv(job[d], token[d], lateGrants[d])'
  <2>1. lateGrants[d] = 0
    BY <1>1 DEF GrantInv, Ended, Told
  <2>2. lateGrants'[d] \in {0, 1} /\ (lateGrants'[d] = 1 => token[d])
    BY <1>6, <2>1
  <2> QED  BY <1>2, <1>5, <2>2 DEF GrantInv
<1>14. \A e \in Tasks \ {d} : Apart(e)
  BY <1>2, <1>4, <1>5, <1>6 DEF Apart
<1> QED
  BY <1>1, <1>5, <1>7, <1>8, <1>9, <1>10, <1>11, <1>12, <1>13, <1>14, ThreadFrame DEF TaskInv

(* A permission that is one too many ends the delegation; a person may be  *)
(* asked about any other.                                                  *)
LEMMA PermissionStep ==
    ASSUME DelegationInv, NEW d \in Tasks, NEW p \in Permissions, Permission(d, p)
    PROVE  DelegationInv'
<1> DEFINE j == [job[d] EXCEPT !.left = Tail(@), !.requests = @ + 1, !.permission = p]
<1>1. /\ SessionInv(job[d], exec[d], d \in running) /\ job[d].at = "event"
      /\ PublishedInv(job[d], published[d])
      /\ SweepInv(job[d], exec[d]) /\ InterruptInv(job[d], exec[d], token[d])
      /\ AskedInv(job[d], exec[d], known[d], posed[d])
      /\ GrantInv(job[d], token[d], lateGrants[d])
  BY DEF DelegationInv, TaskInv, Permission
<1>2. SameSession(d) /\ Unread(d)
  BY UntouchedSession DEF DelegationInv, Permission
<1>3. /\ DOMAIN known' = Tasks /\ known'[d] = known[d] \union {p}
      /\ \A e \in Tasks \ {d} : known'[e] = known[e]
  BY DEF DelegationInv, Shape, Permission
<1>4. /\ DOMAIN posed' = Tasks
      /\ posed'[d] = IF j.requests > MaxPermissions \/ Policy[p] # "ask"
                     THEN posed[d] ELSE Append(posed[d], p)
      /\ \A e \in Tasks \ {d} : posed'[e] = posed[e]
  BY DEF DelegationInv, Shape, Permission
<1>5. UNCHANGED <<token, running, results, canceller, exec, published, lateGrants>>
  BY DEF Permission
<1>6. /\ job[d].left \in Seq(Messages \union Permissions) /\ job[d].left # <<>>
      /\ job[d].left[1] = p
  BY <1>1, Shorter DEF SweepInv, Permission
<1>7. CASE Become(d, [j EXCEPT !.outcome = "failed", !.left = <<>>, !.at = "abort"])
           /\ j.requests > MaxPermissions
  <2>1. Goes(d, "abort", <<>>) /\ job'[d].outcome = "failed"
    BY <1>7 DEF DelegationInv, Shape, Become, Goes, JobFields
  <2>2. exec[d].session = "open" /\ posed'[d] = posed[d] /\ job[d].at \in Looping
    BY <1>1, <1>4, <1>7 DEF SessionInv, Looping
  <2>3. DOMAIN lateGrants' = Tasks /\ "failed" \in Outcomes /\ known[d] \subseteq known'[d]
    BY <1>3, <1>5 DEF DelegationInv, Shape, Outcomes
  <2> QED
    BY <1>2, <1>3, <1>4, <1>5, <2>1, <2>2, <2>3, EndStep
<1>8. CASE \/ Become(d, [j EXCEPT !.state = "waiting_for_permission", !.at = "asking"])
           \/ Become(d, [j EXCEPT !.answer = (Policy[p] = "allow"), !.at = "reply"])
  <2>1. /\ DOMAIN job' = Tasks /\ DOMAIN job'[d] = JobFields
        /\ job'[d].at \in {"asking", "reply"} /\ job'[d].left = Tail(job[d].left)
        /\ job'[d].outcome = job[d].outcome
        /\ \A e \in Tasks \ {d} : job'[e] = job[e]
    <3>1. CASE Become(d, [j EXCEPT !.state = "waiting_for_permission", !.at = "asking"])
      BY <3>1 DEF DelegationInv, Shape, Become, JobFields
    <3>2. CASE Become(d, [j EXCEPT !.answer = (Policy[p] = "allow"), !.at = "reply"])
      BY <3>2 DEF DelegationInv, Shape, Become, JobFields
    <3> QED  BY <1>8, <3>1, <3>2
  <2> DEFINE l == Tail(job[d].left)
  <2>2. /\ l \in Seq(Messages \union Permissions)
        /\ \A i \in 1..Len(l) : i + 1 \in 1..Len(job[d].left) /\ l[i] = job[d].left[i + 1]
        /\ 1 \in 1..Len(job[d].left)
    BY <1>6, Shorter
  <2>3. NewOnes(l, known'[d])
    BY <1>1, <1>3, <1>6, Shorter, ShorterSweep DEF AskedInv
  <2>4. \A i \in 1..Len(l) : l[i] \notin Messages
    <3>1. p \notin Messages
      BY DelegationAssumption
    <3> QED  BY <1>1, <1>6, <2>2, <3>1 DEF SweepInv, MessagesFirst
  <2> HIDE DEF l
  <2>5. MessagesFirst(l, exec[d].unread)
    BY <2>4 DEF MessagesFirst
  <2>6. p \notin known[d]
    BY <1>1, <1>6, <2>2 DEF AskedInv, NewOnes
  <2>7. Shape'  BY <1>2, <1>3, <1>4, <1>5, <2>1 DEF DelegationInv, Shape, SameSession
  <2>8. SessionInv(job[d], exec[d], d \in running)'
    BY <1>1, <1>5, <2>1 DEF SessionInv, Looping, Told, Ended, Places
  <2>9. PublishedInv(job[d], published[d])'
    BY <1>1, <1>5, <2>1 DEF PublishedInv, Told
  <2>10. SweepInv(job[d], exec[d])'
    BY <1>1, <1>5, <2>1, <2>2, <2>5 DEF SweepInv, Starting, Ended, Told, l
  <2>11. InterruptInv(job[d], exec[d], token[d])'
    <3>1. \A i \in 1..Len(l) : l[i] # "interrupted"
      BY <2>4 DEF Messages
    <3> QED  BY <1>1, <1>5, <2>1, <3>1 DEF InterruptInv, Told, l
  <2>12. AskedInv(job[d], exec[d], known[d], posed[d])'
    <3>1. posed'[d] \in Seq(Permissions) /\ IsInjective(posed'[d])
             /\ \A i \in 1..Len(posed'[d]) : posed'[d][i] \in known'[d]
      <4>1. /\ posed[d] \in Seq(Permissions) /\ IsInjective(posed[d])
            /\ \A i \in 1..Len(posed[d]) : posed[d][i] \in known[d]
        BY <1>1 DEF AskedInv
      <4>2. CASE posed'[d] = posed[d]
        BY <1>3, <4>1, <4>2
      <4>3. CASE posed'[d] = Append(posed[d], p)
        <5>1. \A i \in 1..Len(posed[d]) : posed[d][i] # p
          BY <2>6, <4>1
        <5> QED  BY <1>3, <4>1, <4>3, <5>1 DEF IsInjective
      <4> QED  BY <1>4, <4>2, <4>3
    <3> QED  BY <1>1, <1>5, <2>1, <2>3, <3>1 DEF AskedInv, l
  <2>13. GrantInv(job[d], token[d], lateGrants[d])'
    BY <1>1, <1>5, <2>1 DEF GrantInv, Ended, Told
  <2>14. \A e \in Tasks \ {d} : Apart(e)
    BY <1>2, <1>3, <1>4, <1>5, <2>1 DEF Apart, SameSession
  <2> QED
    BY <1>1, <1>5, <2>7, <2>8, <2>9, <2>10, <2>11, <2>12, <2>13, <2>14, ThreadFrame DEF TaskInv
<1> QED
  <2>1. CASE j.requests > MaxPermissions
    BY <1>7, <2>1 DEF Permission
  <2>2. CASE ~(j.requests > MaxPermissions)
    BY <1>8, <2>2 DEF Permission
  <2> QED  BY <2>1, <2>2

-----------------------------------------------------------------------------
(* The steps of cancellers, the executor and the clock: the threads stay   *)
(* where they are.                                                         *)
LEMMA OutsideStep ==
    ASSUME DelegationInv, NEW d \in Tasks, Shape', CancelInv', UNCHANGED job,
           UNCHANGED <<running, results, known, history>>,
           exec'[d].session = exec[d].session, exec'[d].prompted = exec[d].prompted,
           exec'[d].lost = exec[d].lost,
           token[d] => token'[d],
           SweepInv(job[d], exec[d])', InterruptInv(job[d], exec[d], token[d])',
           exec'[d].interrupted = exec[d].interrupted \/ exec'[d].interrupted = TRUE,
           IsFiniteSet(exec'[d].waiting), exec'[d].waiting \subseteq Permissions,
           \A e \in Tasks \ {d} : exec'[e] = exec[e] /\ token'[e] = token[e]
    PROVE  DelegationInv'
<1>1. /\ SessionInv(job[d], exec[d], d \in running)
      /\ PublishedInv(job[d], published[d])
      /\ AskedInv(job[d], exec[d], known[d], posed[d])
      /\ GrantInv(job[d], token[d], lateGrants[d])
  BY DEF DelegationInv, TaskInv
<1>2. UNCHANGED <<job, running, known, published, posed, lateGrants>>
  BY DEF history
<1>3. SessionInv(job[d], exec[d], d \in running)'
  BY <1>1, <1>2 DEF SessionInv
<1>4. PublishedInv(job[d], published[d])' /\ GrantInv(job[d], token[d], lateGrants[d])'
  BY <1>1, <1>2 DEF PublishedInv, GrantInv
<1>5. AskedInv(job[d], exec[d], known[d], posed[d])'
  BY <1>1, <1>2 DEF AskedInv
<1>6. TaskInv(d)'
  BY <1>3, <1>4, <1>5 DEF TaskInv
<1>7. \A e \in Tasks \ {d} : TaskInv(e)'
  BY <1>2, ApartKept DEF DelegationInv, Apart
<1>8. ResultInv'
  BY DEF DelegationInv, ResultInv
<1> QED  BY <1>6, <1>7, <1>8 DEF DelegationInv

LEMMA CancelFindsStep ==
    ASSUME DelegationInv, NEW h \in Cancellers, NEW d \in Tasks, CancelFinds(h, d)
    PROVE  DelegationInv'
<1>1. Shape' /\ CancelInv'
  BY DEF DelegationInv, Shape, CancelInv, CancelFinds, history
<1>2. UNCHANGED <<job, token, running, results, exec, known, published, posed, lateGrants>>
  BY DEF CancelFinds, history
<1>3. \A e \in Tasks : Apart(e)
  BY <1>2 DEF Apart
<1>4. ResultInv'
  BY <1>2 DEF DelegationInv, ResultInv
<1> QED  BY <1>1, <1>3, <1>4, ApartKept DEF DelegationInv

LEMMA CancelSetsStep ==
    ASSUME DelegationInv, NEW h \in Cancellers, CancelSets(h)
    PROVE  DelegationInv'
<1>1. PICK d \in Tasks : canceller[h] = <<"set", d>>
  BY DEF DelegationInv, CancelInv, CancelSets, NoCancel
<1>2. /\ token' = [token EXCEPT ![d] = TRUE]
      /\ canceller' = [canceller EXCEPT ![h] = <<"abort", d>>]
      /\ UNCHANGED <<job, running, results, exec, known, published, posed, lateGrants>>
  BY <1>1 DEF CancelSets, history
<1>3. /\ DOMAIN token' = Tasks /\ token'[d] = TRUE
      /\ \A e \in Tasks : token[e] => token'[e]
      /\ \A e \in Tasks \ {d} : token'[e] = token[e]
  BY <1>2 DEF DelegationInv, Shape
<1>4. Shape'  BY <1>2, <1>3 DEF DelegationInv, Shape
<1>5. CancelInv'
  BY <1>1, <1>2, <1>3 DEF DelegationInv, Shape, CancelInv
<1>6. SweepInv(job[d], exec[d])' /\ InterruptInv(job[d], exec[d], token[d])'
  BY <1>2, <1>3 DEF DelegationInv, TaskInv, SweepInv, InterruptInv
<1>7. IsFiniteSet(exec'[d].waiting) /\ exec'[d].waiting \subseteq Permissions
  BY <1>2 DEF DelegationInv, TaskInv, AskedInv
<1>8. UNCHANGED <<running, results, known, history>> /\ UNCHANGED job /\ UNCHANGED exec
  BY <1>2 DEF history
<1> QED  BY <1>3, <1>4, <1>5, <1>6, <1>7, <1>8, OutsideStep

LEMMA CancelAbortsStep ==
    ASSUME DelegationInv, NEW h \in Cancellers, CancelAborts(h)
    PROVE  DelegationInv'
<1>1. PICK d \in Tasks : canceller[h] = <<"abort", d>> /\ token[d]
  BY DEF DelegationInv, CancelInv, CancelAborts, NoCancel
<1>2. /\ exec' = [exec EXCEPT ![d].interrupted = TRUE] \/ UNCHANGED exec
      /\ canceller' = [canceller EXCEPT ![h] = NoCancel]
      /\ UNCHANGED <<job, token, running, results, known, published, posed, lateGrants>>
  BY <1>1 DEF CancelAborts, history
<1>3. /\ DOMAIN exec' = Tasks /\ DOMAIN exec'[d] = ExecFields
      /\ exec'[d].interrupted = exec[d].interrupted \/ exec'[d].interrupted = TRUE
      /\ exec'[d].session = exec[d].session /\ exec'[d].prompted = exec[d].prompted
      /\ exec'[d].lost = exec[d].lost
      /\ exec'[d].unread = exec[d].unread /\ exec'[d].waiting = exec[d].waiting
      /\ \A e \in Tasks \ {d} : exec'[e] = exec[e]
  BY <1>2 DEF DelegationInv, Shape, ExecFields
<1>4. Shape'  BY <1>2, <1>3 DEF DelegationInv, Shape
<1>5. CancelInv'
  BY <1>2 DEF DelegationInv, Shape, CancelInv
<1>6. SweepInv(job[d], exec[d])' /\ InterruptInv(job[d], exec[d], token[d])'
  BY <1>1, <1>2, <1>3 DEF DelegationInv, TaskInv, SweepInv, InterruptInv
<1>7. IsFiniteSet(exec'[d].waiting) /\ exec'[d].waiting \subseteq Permissions
  BY <1>3 DEF DelegationInv, TaskInv, AskedInv
<1>8. UNCHANGED <<running, results, known, history>> /\ UNCHANGED job /\ UNCHANGED token
  BY <1>2 DEF history
<1> QED  BY <1>3, <1>4, <1>5, <1>6, <1>7, <1>8, OutsideStep

LEMMA SaysStep ==
    ASSUME DelegationInv, NEW d \in Tasks, NEW m \in Messages, Says(d, m)
    PROVE  DelegationInv'
<1>1. /\ DOMAIN exec' = Tasks /\ DOMAIN exec'[d] = ExecFields
      /\ exec'[d].interrupted = exec[d].interrupted /\ exec'[d].session = exec[d].session
      /\ exec'[d].prompted = exec[d].prompted /\ exec'[d].lost = exec[d].lost
      /\ exec'[d].unread = Append(exec[d].unread, m) /\ exec'[d].waiting = exec[d].waiting
      /\ \A e \in Tasks \ {d} : exec'[e] = exec[e]
  BY DEF DelegationInv, Shape, Says, ExecFields
<1>2. UNCHANGED <<job, token, running, results, canceller, known, published, posed, lateGrants>>
  BY DEF Says, history
<1>3. Shape' /\ CancelInv'
  BY <1>1, <1>2 DEF DelegationInv, Shape, CancelInv
<1>4. SweepInv(job[d], exec[d]) /\ InterruptInv(job[d], exec[d], token[d])
  BY DEF DelegationInv, TaskInv
<1>5. /\ exec'[d].unread \in Seq(Messages) /\ Len(exec'[d].unread) = Len(exec[d].unread) + 1
      /\ Len(exec[d].unread) \in Nat
      /\ \A i \in 1..Len(exec'[d].unread) :
            \/ i \in 1..Len(exec[d].unread) /\ exec'[d].unread[i] = exec[d].unread[i]
            \/ exec'[d].unread[i] = m
  BY <1>1, <1>4 DEF SweepInv
<1>6. SweepInv(job[d], exec[d])'
  <2>1. MessagesFirst(job[d].left, exec'[d].unread)
    BY <1>4, <1>5 DEF SweepInv, MessagesFirst
  <2> QED  BY <1>2, <1>4, <1>5, <2>1 DEF SweepInv
<1>7. InterruptInv(job[d], exec[d], token[d])'
  <2>1. m = "interrupted" => exec[d].interrupted
    BY DEF Says
  <2> QED  BY <1>1, <1>2, <1>4, <1>5, <2>1 DEF InterruptInv
<1>8. IsFiniteSet(exec'[d].waiting) /\ exec'[d].waiting \subseteq Permissions
  BY <1>1 DEF DelegationInv, TaskInv, AskedInv
<1>9. UNCHANGED <<running, results, known, history>> /\ UNCHANGED job /\ UNCHANGED token
  BY <1>2 DEF history
<1> QED  BY <1>1, <1>3, <1>6, <1>7, <1>8, <1>9, OutsideStep

LEMMA AsksStep ==
    ASSUME DelegationInv, NEW d \in Tasks, NEW p \in Permissions, Asks(d, p)
    PROVE  DelegationInv'
<1>1. /\ DOMAIN exec' = Tasks /\ DOMAIN exec'[d] = ExecFields
      /\ exec'[d].interrupted = exec[d].interrupted /\ exec'[d].session = exec[d].session
      /\ exec'[d].prompted = exec[d].prompted /\ exec'[d].lost = exec[d].lost
      /\ exec'[d].unread = exec[d].unread /\ exec'[d].waiting = exec[d].waiting \union {p}
      /\ \A e \in Tasks \ {d} : exec'[e] = exec[e]
  BY DEF DelegationInv, Shape, Asks, ExecFields
<1>2. UNCHANGED <<job, token, running, results, canceller, known, published, posed, lateGrants>>
  BY DEF Asks, history
<1>3. Shape' /\ CancelInv'
  BY <1>1, <1>2 DEF DelegationInv, Shape, CancelInv
<1>4. SweepInv(job[d], exec[d])' /\ InterruptInv(job[d], exec[d], token[d])'
  BY <1>1, <1>2 DEF DelegationInv, TaskInv, SweepInv, InterruptInv
<1>5. IsFiniteSet(exec'[d].waiting) /\ exec'[d].waiting \subseteq Permissions
  <2>1. IsFiniteSet(exec[d].waiting) /\ exec[d].waiting \subseteq Permissions
    BY DEF DelegationInv, TaskInv, AskedInv
  <2>2. IsFiniteSet(exec[d].waiting \union {p})
    BY <2>1, FS_AddElement
  <2> QED  BY <1>1, <2>1, <2>2
<1>6. UNCHANGED <<running, results, known, history>> /\ UNCHANGED job /\ UNCHANGED token
  BY <1>2 DEF history
<1> QED  BY <1>1, <1>3, <1>4, <1>5, <1>6, OutsideStep

(* A step that touches none of what the invariant speaks of.               *)
LEMMA NothingStep ==
    ASSUME DelegationInv,
           UNCHANGED <<job, token, running, results, canceller, exec, known, published, posed,
                       lateGrants>>
    PROVE  DelegationInv'
<1>1. \A e \in Tasks : Apart(e)
  BY DEF Apart
<1>2. Shape' /\ CancelInv' /\ ResultInv'
  BY DEF DelegationInv, Shape, CancelInv, ResultInv
<1> QED  BY <1>1, <1>2, ApartKept DEF DelegationInv

-----------------------------------------------------------------------------
LEMMA DelegationInitially == Init => DelegationInv
<1> SUFFICES ASSUME Init PROVE DelegationInv
  OBVIOUS
<1>1. Shape
  BY DEF Init, Shape, NewJob, NewSession, JobFields, ExecFields
<1>2. CancelInv /\ ResultInv
  BY DEF Init, CancelInv, ResultInv
<1>3. ASSUME NEW d \in Tasks
      PROVE  TaskInv(d)
  <2>1. /\ job[d] = NewJob /\ exec[d] = NewSession /\ token[d] = FALSE /\ d \notin running
        /\ known[d] = {} /\ published[d] = <<>> /\ posed[d] = <<>> /\ lateGrants[d] = 0
    BY <1>3 DEF Init
  <2>2. /\ SessionInv(job[d], exec[d], d \in running) /\ PublishedInv(job[d], published[d])
        /\ GrantInv(job[d], token[d], lateGrants[d])
    BY <2>1 DEF NewJob, NewSession, SessionInv, PublishedInv, GrantInv, Places, Looping, Told,
                Ended
  <2>3. SweepInv(job[d], exec[d]) /\ InterruptInv(job[d], exec[d], token[d])
    BY <2>1 DEF NewJob, NewSession, SweepInv, MessagesFirst, InterruptInv
  <2>4. AskedInv(job[d], exec[d], known[d], posed[d])
    BY <2>1, FS_EmptySet DEF NewJob, NewSession, AskedInv, NewOnes, IsInjective
  <2> QED  BY <2>2, <2>3, <2>4 DEF TaskInv
<1> QED  BY <1>1, <1>2, <1>3 DEF DelegationInv

LEMMA DelegationKeeps == DelegationInv /\ [Next]_vars => DelegationInv'
<1> SUFFICES ASSUME DelegationInv, [Next]_vars PROVE DelegationInv'
  OBVIOUS
<1>1. ASSUME NEW d \in Tasks, Worker(d)
      PROVE  DelegationInv'
  BY <1>1, CheckCountStep, CreateSessionStep, SendPromptStep, RegisterStep, CheckTokenStep,
     CheckClockStep, ReconnectStep, PollSweepStep, ProgressStep, ExecutorDoneStep,
     ExecutorFailedStep, PermissionStep, AnsweredStep, ReplyStep, AbortStep, PublishStep,
     LeaveStep, DisposeStep, StoreStep DEF Worker
<1>2. ASSUME NEW d \in Tasks, Delegate(d) \/ Executor(d)
      PROVE  DelegationInv'
  BY <1>2, DelegateStep, SaysStep, AsksStep DEF Executor
<1>3. ASSUME NEW d \in Tasks, TimeRunsOut(d)
      PROVE  DelegationInv'
  BY <1>3, NothingStep DEF TimeRunsOut, history
<1>4. ASSUME NEW h \in Cancellers, Canceller(h)
      PROVE  DelegationInv'
  BY <1>4, CancelFindsStep, CancelSetsStep, CancelAbortsStep DEF Canceller
<1>5. CASE UNCHANGED vars
  BY <1>5, NothingStep DEF vars
<1> QED  BY <1>1, <1>2, <1>3, <1>4, <1>5 DEF Next

LEMMA DelegationAlways == Spec => []DelegationInv
  BY DelegationInitially, DelegationKeeps, PTL DEF Spec

(* However a delegation ends (NothingLeftBehind): the deletion of its      *)
(* session was asked for, after an interrupt unless the executor said that *)
(* it was done, and a session nobody knows was given no work.              *)
THEOREM SessionsAreCleanedUp == Spec => []NothingLeftBehind
<1>1. DelegationInv => NothingLeftBehind
  BY DEF DelegationInv, TaskInv, SessionInv, NothingLeftBehind, Told
<1> QED  BY <1>1, DelegationAlways, PTL

(* One terminal event, and a result that agrees with it (OneOutcome).      *)
THEOREM OutcomesAgree == Spec => []OneOutcome
<1>1. ASSUME DelegationInv PROVE OneOutcome
  <2>1. \A d \in Tasks : /\ PublishedInv(job[d], published[d])
                        /\ SessionInv(job[d], exec[d], d \in running)
    BY <1>1 DEF DelegationInv, TaskInv
  <2>2. \A d \in Tasks : Len(published[d]) <= 1
    <3>1. ASSUME NEW d \in Tasks PROVE Len(published[d]) <= 1
      <4>1. CASE job[d].at \in Told
        <5>1. published[d] = <<job[d].outcome>>
          BY <2>1, <3>1, <4>1 DEF PublishedInv
        <5> QED  BY <5>1
      <4>2. CASE job[d].at \notin Told
        <5>1. published[d] = <<>>
          BY <2>1, <3>1, <4>2 DEF PublishedInv
        <5> QED  BY <5>1
      <4> QED  BY <4>1, <4>2
    <3> QED  BY <3>1
  <2>3. \A d \in Tasks : job[d].at = "over" =>
             published[d] = <<job[d].outcome>> /\ d \notin running
    BY <2>1 DEF PublishedInv, SessionInv, Told, Looping
  <2>4. \A i \in DOMAIN results : published[results[i][1]] = <<results[i][2]>>
    BY SMTT(30), <1>1, <2>3 DEF DelegationInv, ResultInv
  <2> QED  BY <2>2, <2>3, <2>4 DEF OneOutcome
<1> QED  BY <1>1, DelegationAlways, PTL

(* A cancel never passes for a failure of the executor                     *)
(* (CancelIsNotAFailure).                                                  *)
THEOREM CancelsAreCancels == Spec => []CancelIsNotAFailure
<1>1. ASSUME DelegationInv, NEW d \in Tasks, job[d].at = "event"
      PROVE  Head(job[d].left) # "interrupted"
  <2>1. SweepInv(job[d], exec[d]) /\ InterruptInv(job[d], exec[d], token[d])
    BY <1>1 DEF DelegationInv, TaskInv
  <2>2. Head(job[d].left) = job[d].left[1] /\ 1 \in 1..Len(job[d].left)
    BY <1>1, <2>1, Shorter DEF SweepInv
  <2> QED  BY <1>1, <2>1, <2>2 DEF InterruptInv
<1>2. DelegationInv => CancelIsNotAFailure
  BY <1>1 DEF CancelIsNotAFailure
<1> QED  BY <1>2, DelegationAlways, PTL

(* Nobody is asked twice about a permission (AskedOnce).                   *)
THEOREM NobodyAskedTwice == Spec => []AskedOnce
<1>1. DelegationInv => AskedOnce
  BY DEF DelegationInv, TaskInv, AskedInv, AskedOnce
<1> QED  BY <1>1, DelegationAlways, PTL

(* At most one permission is granted after a cancel (OneGrantAfterCancel). *)
THEOREM CancelStopsGrants == Spec => []OneGrantAfterCancel
<1>1. DelegationInv => OneGrantAfterCancel
  BY DEF DelegationInv, TaskInv, GrantInv, OneGrantAfterCancel
<1> QED  BY <1>1, DelegationAlways, PTL
=============================================================================
