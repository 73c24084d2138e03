-------------------------- MODULE ControlPlaneProofs --------------------------
(***************************************************************************)
(* greatsage serve, for any number of requests, runs and commands.         *)
(*                                                                         *)
(* What a page is shown is one run's.                                      *)
(* The slot is replaced under the lock, and only when the thread of its    *)
(* run has ended; a request looks at it once and at the approvals later.   *)
(* The invariant says that only the run in the slot is alive, how far it   *)
(* has told of itself, and that a request which has looked holds the facts *)
(* of one run, which is over for good if it was seen so.                   *)
(*                                                                         *)
(* A start that failed has left no server and a stop kills the server: the *)
(* invariant says of each start where its server may be, and, as long as   *)
(* no server was started beside another, that the one there is is that of  *)
(* the state file.                                                         *)
(*                                                                         *)
(* The configuration it is started with says what was written: the         *)
(* invariant keeps the tree at each stage of load_config to the merge of   *)
(* what was read by then, over which the outcome is a claim about data.    *)
(*                                                                         *)
(* A page that is fetched is told as it reads: the invariant keeps the     *)
(* extractor beside the document, what is held in order and visible, what  *)
(* is skipped at the depth of what is hidden, and its lists those open.    *)
(***************************************************************************)
EXTENDS ControlPlane, ServeProcess, Configuration, WebFetch, TLAPS

IsSlot(s) == s = [run |-> s.run, kind |-> s.kind, broker |-> s.broker, result |-> s.result,
                  error |-> s.error, finished |-> s.finished]
IsClient(k) == k = [at |-> k.at, ask |-> k.ask, started |-> k.started, seen |-> k.seen,
                    answer |-> k.answer]

(* Of the slot, and of what a request saw of it.                           *)
OfOneRun(s) ==
    /\ s.run \in RunIds \cup {NoRun}
    /\ s.result \in {NoRun, s.run} /\ s.error \in {NoRun, s.run}
    /\ s.broker \in {NoRun, s.run}
    /\ s.finished => s.run \in {s.result, s.error}

(* A thread that is alive is that of the run in the slot; what it has told *)
(* goes with its place.                                                    *)
WorkerInv(r) ==
    /\ worker[r] \in {"working", "stored", "finished"} => r = slot.run
    /\ r = slot.run => worker[r] # "none"
    /\ worker[r] = "stored" => r \in {slot.result, slot.error}
    /\ r = slot.run /\ worker[r] \in {"finished", "ended"} => slot.finished
    /\ r \in pending => worker[r] = "working"

SlotInv ==
    /\ IsSlot(slot) /\ OfOneRun(slot)
    /\ DOMAIN worker = RunIds /\ pending \subseteq RunIds
    /\ \A r \in RunIds : WorkerInv(r)

HasLooked(k) == k.at \in {"looked", "lookedStarted"}
SeenInv(k) ==
    /\ OfOneRun(k.seen)
    /\ k.seen.run # NoRun /\ ~k.seen.active =>
         k.seen.finished /\ worker[k.seen.run] = "ended"

ClientInv(k) ==
    /\ IsClient(k) /\ k.ask \in HttpRequests
    /\ HasLooked(k) => SeenInv(k)
    /\ k.at = "done" /\ "shown" \in DOMAIN k.answer => TellsOneRun(k.answer.shown)

ControlInv ==
    /\ SlotInv
    /\ DOMAIN handler = Handlers
    /\ \A c \in Handlers : ClientInv(handler[c])

EndedStays == \A r \in RunIds : worker[r] = "ended" => worker'[r] = "ended"

-----------------------------------------------------------------------------
(* How a step changes a request *)

(* Only requests that did not move are left to what threads do: they end   *)
(* and never come back.                                                    *)
LEMMA ClientStays ==
    ASSUME NEW k, ClientInv(k), EndedStays
    PROVE  ClientInv(k)'
BY DEF ClientInv, IsClient, HasLooked, SeenInv, OfOneRun, TellsOneRun, EndedStays, NoRun

(* One request becomes k, a value with the invariant.                      *)
Becomes(c, k) ==
    /\ DOMAIN handler' = Handlers /\ handler'[c] = k
    /\ \A d \in Handlers \ {c} : handler'[d] = handler[d]
LEMMA ClientBecomes ==
    ASSUME ControlInv, SlotInv', EndedStays, NEW c \in Handlers, NEW k, ClientInv(k)',
           Becomes(c, k)
    PROVE  ControlInv'
<1>1. DOMAIN handler' = Handlers /\ handler'[c] = k
  BY DEF Becomes
<1>2. \A d \in Handlers \ {c} : handler'[d] = handler[d]
  BY DEF Becomes
<1>3. \A d \in Handlers \ {c} : ClientInv(handler[d])'
  <2> SUFFICES ASSUME NEW d \in Handlers \ {c} PROVE ClientInv(handler[d])'
    OBVIOUS
  <2> DEFINE j == handler[d]
  <2>1. ClientInv(j)
    BY DEF ControlInv
  <2> HIDE DEF j
  <2>2. handler'[d] = j
    BY <1>2 DEF j
  <2> QED BY <2>1, <2>2, ClientStays DEF ClientInv, IsClient, HasLooked, SeenInv, OfOneRun
<1> QED BY <1>1, <1>3 DEF ControlInv

LEMMA ClientRecord ==
    ASSUME ControlInv, NEW c \in Handlers
    PROVE  /\ handler[c] = [at |-> handler[c].at, ask |-> handler[c].ask,
                           started |-> handler[c].started, seen |-> handler[c].seen,
                           answer |-> handler[c].answer]
           /\ handler[c].ask \in HttpRequests
BY DEF ControlInv, ClientInv, IsClient

LEMMA GoesKeeps ==
    ASSUME ControlInv, SlotInv', EndedStays, NEW c \in Handlers, NEW place, HandlerGoes(c, place),
           place \notin {"looked", "lookedStarted", "done"}
    PROVE  ControlInv'
<1>1. PICK k : k = [at |-> place, ask |-> handler[c].ask, started |-> handler[c].started,
                    seen |-> handler[c].seen, answer |-> handler[c].answer]
  OBVIOUS
<1>2. Becomes(c, k)
  <2>1. handler'[c] = [handler[c] EXCEPT !.at = place]
    BY DEF ControlInv, HandlerGoes
  <2>2. handler'[c] = k
    BY <1>1, <2>1, ClientRecord
  <2> QED BY <2>2 DEF ControlInv, Becomes, HandlerGoes
<1>3. ClientInv(k)'
  BY <1>1, ClientRecord DEF ClientInv, IsClient, HasLooked
<1> QED BY <1>2, <1>3, ClientBecomes

LEMMA AnswersKeeps ==
    ASSUME ControlInv, SlotInv', EndedStays, NEW c \in Handlers, NEW status, AnswersStatus(c, status)
    PROVE  ControlInv'
<1>1. PICK k : k = [at |-> "done", ask |-> handler[c].ask, started |-> handler[c].started,
                    seen |-> handler[c].seen, answer |-> [status |-> status]]
  OBVIOUS
<1>2. Becomes(c, k)
  <2>1. handler'[c] = [handler[c] EXCEPT !.at = "done", !.answer = [status |-> status]]
    BY DEF ControlInv, AnswersStatus
  <2>2. handler'[c] = k
    BY <1>1, <2>1, ClientRecord
  <2> QED BY <2>2 DEF ControlInv, Becomes, AnswersStatus
<1>3. ClientInv(k)'
  BY <1>1, ClientRecord DEF ClientInv, IsClient, HasLooked
<1> QED BY <1>2, <1>3, ClientBecomes

LEMMA ClientDomain ==
    ASSUME NEW k, IsClient(k)
    PROVE  DOMAIN k = {"at", "ask", "started", "seen", "answer"}
<1>1. PICK a, b, d, e, f : k = [at |-> a, ask |-> b, started |-> d, seen |-> e, answer |-> f]
  BY Zenon DEF IsClient
<1> QED BY <1>1

(* What a look at the slot gives is one run's.                             *)
LEMMA SlotSeenInv ==
    ASSUME SlotInv
    PROVE  /\ OfOneRun(SlotSeen)
           /\ SlotSeen.run # NoRun /\ ~SlotSeen.active =>
                SlotSeen.finished /\ worker[SlotSeen.run] = "ended"
<1>1. /\ SlotSeen.run = slot.run /\ SlotSeen.result = slot.result
      /\ SlotSeen.error = slot.error /\ SlotSeen.broker = slot.broker
  BY DEF SlotSeen
<1>2. (SlotSeen.finished <=> slot.finished) /\ (SlotSeen.active <=> RunActive(slot.run))
  BY DEF SlotSeen
<1>3. OfOneRun(SlotSeen)
  BY <1>1, <1>2 DEF SlotInv, OfOneRun
<1>4. ASSUME slot.run # NoRun, ~RunActive(slot.run)
      PROVE  slot.finished /\ worker[slot.run] = "ended"
  BY <1>4 DEF SlotInv, OfOneRun, WorkerInv, RunActive
<1> QED BY <1>1, <1>2, <1>3, <1>4

(* cancel, decide and the pages take what they saw with them.              *)
LEMMA SeesKeeps ==
    ASSUME ControlInv, SlotInv', EndedStays, NEW c \in Handlers, NEW place, Sees(c, place),
           place # "done", UNCHANGED <<slot, worker>>
    PROVE  ControlInv'
<1>1. PICK k : k = [at |-> place, ask |-> handler[c].ask, started |-> handler[c].started,
                    seen |-> SlotSeen, answer |-> handler[c].answer]
  OBVIOUS
<1>2. Becomes(c, k)
  <2>1. handler'[c] = [handler[c] EXCEPT !.at = place, !.seen = SlotSeen]
    BY DEF ControlInv, Sees
  <2>2. DOMAIN handler[c] = {"at", "ask", "started", "seen", "answer"}
    BY ClientDomain DEF ControlInv, ClientInv
  <2>3. PICK o, m, s : o = handler[c] /\ m = handler'[c] /\ s = SlotSeen
    OBVIOUS
  <2>4. m = [o EXCEPT !.at = place, !.seen = s] /\ DOMAIN o = {"at", "ask", "started", "seen", "answer"}
    BY <2>1, <2>2, <2>3
  <2>5. m = [at |-> place, ask |-> o.ask, started |-> o.started, seen |-> s,
             answer |-> o.answer]
    BY <2>4
  <2>6. handler'[c] = k
    BY <1>1, <2>3, <2>5
  <2> QED BY <2>6 DEF ControlInv, Becomes, Sees
<1>3. PICK s : s = SlotSeen
  OBVIOUS
<1>4. SeenInv(k)'
  <2>1. /\ OfOneRun(s)
        /\ s.run # NoRun /\ ~s.active => s.finished /\ worker[s.run] = "ended"
    BY <1>3, SlotSeenInv DEF ControlInv
  <2>2. k.seen = s
    BY <1>1, <1>3
  <2> QED BY <2>1, <2>2 DEF SeenInv, OfOneRun
<1>5. k.at = place /\ k.ask = handler[c].ask /\ IsClient(k)
  BY <1>1 DEF IsClient
<1>6. ClientInv(k)'
  BY <1>4, <1>5, ClientRecord DEF ClientInv, IsClient
<1> QED BY <1>2, <1>6, ClientBecomes

-----------------------------------------------------------------------------
(* How a step changes the slot and its thread *)

LEMMA SlotFields ==
    ASSUME NEW s, NEW r, NEW kind, NEW b, NEW v, NEW e, NEW f,
           s = [run |-> r, kind |-> kind, broker |-> b, result |-> v, error |-> e,
                finished |-> f]
    PROVE  /\ IsSlot(s)
           /\ s.run = r /\ s.kind = kind /\ s.broker = b
           /\ s.result = v /\ s.error = e /\ s.finished = f
BY DEF IsSlot

LEMMA SlotStays ==
    ASSUME SlotInv, slot' = slot, worker' = worker, pending' \subseteq pending
    PROVE  SlotInv' /\ EndedStays
BY DEF SlotInv, IsSlot, OfOneRun, WorkerInv, EndedStays

LEMMA SlotStarts ==
    ASSUME SlotInv, ~Busy, NEW r \in RunIds, worker[r] = "none", NEW kind,
           slot' = NewSlot(r, kind),
           worker' = [worker EXCEPT ![r] = "working"], pending' = pending
    PROVE  SlotInv' /\ EndedStays
<1>1. PICK b \in {NoRun, r} :
        slot' = [run |-> r, kind |-> kind, broker |-> b, result |-> NoRun, error |-> NoRun,
                 finished |-> FALSE]
  <2>1. PICK b \in {NoRun, r} : b = IF kind = "agent" THEN r ELSE NoRun
    OBVIOUS
  <2> QED BY <2>1 DEF NewSlot, Empty
<1>2. \A q \in RunIds : worker[q] \notin {"working", "stored", "finished"}
  BY DEF SlotInv, WorkerInv, Busy, RunActive
<1>3. /\ slot'.run = r /\ slot'.broker = b
      /\ slot'.result = NoRun /\ slot'.error = NoRun /\ slot'.finished = FALSE
  <2>1. PICK n : n = slot'
    OBVIOUS
  <2>2. n = [run |-> r, kind |-> kind, broker |-> b, result |-> NoRun, error |-> NoRun,
             finished |-> FALSE]
    BY <1>1, <2>1
  <2>3. n.run = r /\ n.broker = b /\ n.result = NoRun /\ n.error = NoRun
    BY <2>2
  <2>4. n.finished = FALSE
    BY <2>2
  <2> QED BY <2>1, <2>3, <2>4
<1>31. IsSlot(slot)'
  BY <1>1 DEF IsSlot
<1>33. OfOneRun(slot)'
  BY <1>3 DEF OfOneRun
<1>4. DOMAIN worker' = RunIds /\ worker'[r] = "working"
      /\ \A q \in RunIds \ {r} : worker'[q] = worker[q]
  BY DEF SlotInv
<1>5. \A q \in RunIds : WorkerInv(q)'
  BY <1>2, <1>3, <1>4 DEF SlotInv, WorkerInv
<1>6. EndedStays
  BY <1>4 DEF EndedStays
<1> QED BY <1>31, <1>33, <1>4, <1>5, <1>6 DEF SlotInv

LEMMA ShownKeeps ==
    ASSUME ControlInv, SlotInv', EndedStays, NEW c \in Handlers, NEW status, NEW told,
           TellsOneRun(told), AnswersWith(c, status, told)
    PROVE  ControlInv'
<1>1. PICK k : k = [at |-> "done", ask |-> handler[c].ask, started |-> handler[c].started,
                    seen |-> handler[c].seen, answer |-> [status |-> status, shown |-> told]]
  OBVIOUS
<1>2. Becomes(c, k)
  <2>1. handler'[c] = [handler[c] EXCEPT !.at = "done",
                                       !.answer = [status |-> status, shown |-> told]]
    BY DEF ControlInv, AnswersWith
  <2>2. handler'[c] = k
    BY <1>1, <2>1, ClientRecord
  <2> QED BY <2>2 DEF ControlInv, Becomes, AnswersWith
<1>3. ClientInv(k)'
  <2>1. k.at = "done" /\ k.ask = handler[c].ask /\ k.answer.shown = told /\ IsClient(k)
    BY <1>1 DEF IsClient
  <2> QED BY <2>1, ClientRecord DEF ClientInv, HasLooked, TellsOneRun, IsClient
<1> QED BY <1>2, <1>3, ClientBecomes

(* A page is answered with what was seen and with the approvals that wait  *)
(* now: of the run it saw, if that is still alive, or of none.             *)
LEMMA ShowsKeeps ==
    ASSUME ControlInv, NEW c \in Handlers, ShowsSlot(c)
    PROVE  ControlInv'
<1>1. UNCHANGED <<slot, worker, pending>> /\ HasLooked(handler[c])
  BY DEF ShowsSlot, HasLooked
<1>2. SlotInv' /\ EndedStays
  BY <1>1, SlotStays DEF ControlInv
<1>3. PICK s : s = handler[c].seen
  OBVIOUS
<1>4. PICK told : told = [run |-> s.run, result |-> s.result, error |-> s.error,
                          finished |-> s.finished, active |-> s.active,
                          approvals |-> PendingOf(s.broker)]
  OBVIOUS
<1>5. PICK status \in {200, 202} : AnswersWith(c, status, told)
  BY <1>3, <1>4 DEF ShowsSlot
<1>6. TellsOneRun(told)
  <2>1. SeenInv(handler[c])
    BY <1>1 DEF ControlInv, ClientInv
  <2>2. /\ OfOneRun(s)
        /\ s.run # NoRun /\ ~s.active => s.finished /\ worker[s.run] = "ended"
    BY <1>3, <2>1 DEF SeenInv
  <2>3. told.approvals = pending \cap {s.broker}
    BY <1>4 DEF PendingOf
  <2>4. NoRun \notin pending /\ \A r \in pending : worker[r] = "working"
    BY DEF ControlInv, SlotInv, WorkerInv, RunIds, NoRun
  <2>5. told.approvals \subseteq {s.run}
    BY <2>2, <2>3, <2>4 DEF OfOneRun
  <2>6. s.run # NoRun /\ ~s.active => told.approvals = {}
    BY <2>2, <2>3, <2>4, <2>5
  <2>7. /\ told.run = s.run /\ told.result = s.result /\ told.error = s.error
        /\ told.finished = s.finished /\ told.active = s.active
    BY <1>4
  <2> QED BY <2>2, <2>5, <2>6, <2>7 DEF TellsOneRun, OfOneRun
<1> QED BY <1>2, <1>5, <1>6, ShownKeeps

-----------------------------------------------------------------------------
(* The thread of the run in the slot: it stores, says that it finished and *)
(* ends, in this order.                                                    *)
LEMMA SlotStores ==
    ASSUME SlotInv, NEW r \in RunIds, NEW what \in Outcomes, StoresOutcome(r, what)
    PROVE  SlotInv' /\ EndedStays
<1>1. r = slot.run /\ worker[r] = "working" /\ r \notin pending /\ pending' = pending
  BY DEF StoresOutcome, SlotInv, WorkerInv
<1>2. \/ what = {"result"} \/ what = {"error"} \/ what = {"result", "error"}
  BY DEF Outcomes
<1>3. PICK v, e : /\ v = IF "result" \in what THEN r ELSE slot.result
                  /\ e = IF "error" \in what THEN r ELSE slot.error
  OBVIOUS
<1>4. r \in {v, e} /\ v \in {NoRun, r} /\ e \in {NoRun, r}
  BY <1>1, <1>2, <1>3 DEF SlotInv, OfOneRun
<1>5. slot' = [run |-> slot.run, kind |-> slot.kind, broker |-> slot.broker, result |-> v,
               error |-> e, finished |-> slot.finished]
  BY <1>3 DEF StoresOutcome, SlotInv, IsSlot
<1>6. /\ IsSlot(slot)' /\ slot'.run = slot.run /\ slot'.broker = slot.broker
      /\ slot'.result = v /\ slot'.error = e
  BY <1>5 DEF IsSlot
<1>7. OfOneRun(slot)'
  BY <1>1, <1>4, <1>6 DEF OfOneRun, SlotInv
<1>8. DOMAIN worker' = RunIds /\ worker'[r] = "stored"
      /\ \A q \in RunIds \ {r} : worker'[q] = worker[q]
  BY DEF SlotInv, StoresOutcome
<1>9. \A q \in RunIds : WorkerInv(q)'
  BY <1>1, <1>4, <1>6, <1>8 DEF SlotInv, WorkerInv
<1>10. EndedStays
  BY <1>1, <1>8 DEF EndedStays
<1> QED BY <1>1, <1>6, <1>7, <1>8, <1>9, <1>10 DEF SlotInv

LEMMA SlotFinishes ==
    ASSUME SlotInv, NEW r \in RunIds, Finishes(r)
    PROVE  SlotInv' /\ EndedStays
<1>1. r = slot.run /\ worker[r] = "stored" /\ pending' = pending
  BY DEF Finishes, SlotInv, WorkerInv
<1>2. r \in {slot.result, slot.error}
  BY <1>1 DEF SlotInv, WorkerInv
<1>3. slot' = [run |-> slot.run, kind |-> slot.kind, broker |-> slot.broker,
               result |-> slot.result, error |-> slot.error, finished |-> TRUE]
  BY DEF Finishes, SlotInv, IsSlot
<1>4. /\ IsSlot(slot)' /\ slot'.run = slot.run /\ slot'.broker = slot.broker
      /\ slot'.result = slot.result /\ slot'.error = slot.error
  BY <1>3 DEF IsSlot
<1>5. slot'.finished
  BY <1>3, Zenon
<1>6. OfOneRun(slot)'
  BY <1>1, <1>2, <1>4 DEF OfOneRun, SlotInv
<1>7. DOMAIN worker' = RunIds /\ worker'[r] = "finished"
      /\ \A q \in RunIds \ {r} : worker'[q] = worker[q]
  BY DEF SlotInv, Finishes
<1>8. \A q \in RunIds : WorkerInv(q)'
  BY <1>1, <1>4, <1>5, <1>7 DEF SlotInv, WorkerInv
<1>9. EndedStays
  BY <1>1, <1>7 DEF EndedStays
<1> QED BY <1>1, <1>4, <1>6, <1>7, <1>8, <1>9 DEF SlotInv

LEMMA SlotDies ==
    ASSUME SlotInv, NEW r \in RunIds, WorkerDies(r)
    PROVE  SlotInv' /\ EndedStays
<1>1. r = slot.run /\ worker[r] = "finished" /\ slot.finished /\ pending' = pending
      /\ slot' = slot
  BY DEF WorkerDies, SlotInv, WorkerInv
<1>2. DOMAIN worker' = RunIds /\ worker'[r] = "ended"
      /\ \A q \in RunIds \ {r} : worker'[q] = worker[q]
  BY DEF SlotInv, WorkerDies
<1>3. \A q \in RunIds : WorkerInv(q)'
  BY <1>1, <1>2 DEF SlotInv, WorkerInv
<1>4. IsSlot(slot)' /\ OfOneRun(slot)'
  BY <1>1 DEF SlotInv, IsSlot, OfOneRun
<1>5. EndedStays
  BY <1>1, <1>2 DEF EndedStays
<1> QED BY <1>1, <1>2, <1>3, <1>4, <1>5 DEF SlotInv

(* A working run may come to wait for an approval.                         *)
LEMMA SlotAsks ==
    ASSUME SlotInv, NEW r \in RunIds, RunAsks(r)
    PROVE  SlotInv' /\ EndedStays
BY DEF RunAsks, SlotInv, IsSlot, OfOneRun, WorkerInv, EndedStays

(* Steps that leave every request alone.                                   *)
LEMMA ThreadKeeps ==
    ASSUME ControlInv, SlotInv', EndedStays, handler' = handler
    PROVE  ControlInv'
<1>1. DOMAIN handler' = Handlers
  BY DEF ControlInv
<1>2. ASSUME NEW c \in Handlers PROVE ClientInv(handler[c])'
  <2>1. PICK k : k = handler[c]
    OBVIOUS
  <2>2. ClientInv(k)
    BY <2>1 DEF ControlInv
  <2>3. ClientInv(k)'
    BY <2>2, ClientStays
  <2>4. handler'[c] = k
    BY <2>1
  <2> QED BY <2>3, <2>4 DEF ClientInv, IsClient, HasLooked, SeenInv, OfOneRun
<1> QED BY <1>1, <1>2 DEF ControlInv

-----------------------------------------------------------------------------
(* The request that starts a run.                                          *)
LEMMA StartsKeeps ==
    ASSUME ControlInv, NEW c \in Handlers, NEW kind, StartRun(c, kind), pending' = pending
    PROVE  ControlInv'
<1>1. CASE Busy /\ AnswersStatus(c, 409) /\ UNCHANGED <<slot, worker>>
  <2>1. SlotInv' /\ EndedStays
    BY <1>1, SlotStays DEF ControlInv
  <2> QED BY <1>1, <2>1, AnswersKeeps
<1>2. ASSUME ~Busy, NEW r \in RunIds, worker[r] = "none", slot' = NewSlot(r, kind),
             worker' = [worker EXCEPT ![r] = "working"],
             handler' = [handler EXCEPT ![c].at = "started", ![c].started = r]
      PROVE  ControlInv'
  <2>1. SlotInv' /\ EndedStays
    BY <1>2, SlotStarts DEF ControlInv
  <2>2. PICK o, m : o = handler[c] /\ m = handler'[c]
    OBVIOUS
  <2>3. PICK k : k = [at |-> "started", ask |-> o.ask, started |-> r, seen |-> o.seen,
                      answer |-> o.answer]
    OBVIOUS
  <2>4. m = [o EXCEPT !.at = "started", !.started = r]
    BY <1>2, <2>2 DEF ControlInv
  <2>5. DOMAIN o = {"at", "ask", "started", "seen", "answer"}
    BY <2>2, ClientDomain DEF ControlInv, ClientInv
  <2>6. m = [at |-> "started", ask |-> o.ask, started |-> r, seen |-> o.seen,
             answer |-> o.answer]
    BY <2>4, <2>5
  <2>7. handler'[c] = k
    BY <2>2, <2>3, <2>6
  <2>8. Becomes(c, k)
    BY <1>2, <2>7 DEF ControlInv, Becomes
  <2>9. k.at = "started" /\ k.ask = o.ask /\ IsClient(k)
    BY <2>3 DEF IsClient
  <2>10. ClientInv(k)'
    BY <2>2, <2>9, ClientRecord DEF ClientInv, IsClient, HasLooked
  <2> QED BY <2>1, <2>8, <2>10, ClientBecomes
<1> QED BY <1>1, <1>2 DEF StartRun

(* A request that comes in is answered, or sent where it asked to go.      *)
LEMMA EntersKeeps ==
    ASSUME ControlInv, NEW c \in Handlers, Enters(c)
    PROVE  ControlInv'
<1>1. SlotInv' /\ EndedStays
  BY SlotStays DEF ControlInv, Enters
<1>2. PICK path : path = handler[c].ask.path
  OBVIOUS
<1>3. path \in Paths
  BY <1>2, ClientRecord DEF HttpRequests
<1>4. path \notin {"looked", "lookedStarted", "done"}
  BY <1>3 DEF Paths
<1>5. HandlerGoes(c, path) \/ \E status : AnswersStatus(c, status)
  BY <1>2 DEF Enters
<1> QED BY <1>1, <1>4, <1>5, GoesKeeps, AnswersKeeps

-----------------------------------------------------------------------------
LEMMA ControlInitially == ASSUME ControlAssumption, ControlInit PROVE ControlInv
<1>1. Empty = [run |-> NoRun, kind |-> "none", broker |-> NoRun, result |-> NoRun,
               error |-> NoRun, finished |-> FALSE]
  BY DEF Empty
<1>2. IsSlot(slot) /\ slot.run = NoRun /\ slot.broker = NoRun /\ slot.result = NoRun
      /\ slot.error = NoRun
  BY <1>1 DEF ControlInit, IsSlot
<1>3. slot.finished = FALSE
  BY <1>1, Zenon DEF ControlInit
<1>4. SlotInv
  BY <1>2, <1>3 DEF ControlInit, SlotInv, OfOneRun, WorkerInv, RunIds, NoRun
<1>5. ASSUME NEW c \in Handlers PROVE ClientInv(handler[c])
  <2>1. PICK a \in ControlCalls :
          handler[c] = [at |-> "asking", ask |-> a, started |-> NoRun, seen |-> Empty,
                       answer |-> NoAnswer]
    BY DEF ControlInit
  <2>2. handler[c].at = "asking" /\ handler[c].ask = a /\ IsClient(handler[c])
    BY <2>1 DEF IsClient
  <2> QED BY <2>2 DEF ClientInv, HasLooked, ControlAssumption
<1> QED BY <1>4, <1>5 DEF ControlInit, ControlInv

LEMMA ControlStep ==
    ASSUME ControlInv, [ControlNext]_controlVars
    PROVE  ControlInv'
<1> USE DEF ControlInv
<1>1. ASSUME NEW c \in Handlers, LooksAtSlot(c) PROVE ControlInv'
  <2>1. SlotInv' /\ EndedStays
    BY <1>1, SlotStays DEF LooksAtSlot
  <2>2. PICK place \in {"looked", "lookedStarted"} : Sees(c, place)
    BY <1>1 DEF LooksAtSlot
  <2> QED BY <1>1, <2>1, <2>2, SeesKeeps DEF LooksAtSlot
<1>2. ASSUME NEW c \in Handlers, CancelReads(c) \/ DecideReads(c) PROVE ControlInv'
  <2>1. UNCHANGED <<slot, worker, pending>>
    BY <1>2 DEF CancelReads, DecideReads
  <2>2. SlotInv' /\ EndedStays
    BY <2>1, SlotStays
  <2>3. PICK place \in {"cancels", "decides"} : Sees(c, place)
    BY <1>2 DEF CancelReads, DecideReads
  <2> QED BY <2>1, <2>2, <2>3, SeesKeeps
<1>3. ASSUME NEW c \in Handlers,
             ReadsPlan(c) \/ ReadsTask(c) \/ ApprovePlan(c) \/ CancelTask(c) \/ CancelActs(c)
               \/ DecideActs(c)
      PROVE  ControlInv'
  <2>1. slot' = slot /\ worker' = worker /\ pending' \subseteq pending
    BY <1>3 DEF ReadsPlan, ReadsTask, ApprovePlan, CancelTask, CancelActs, DecideActs
  <2>2. SlotInv' /\ EndedStays
    BY <2>1, SlotStays
  <2>3. \/ \E status : AnswersStatus(c, status)
        \/ \E place \in {"startsTask", "approves", "cancelsTask", "shows"} : HandlerGoes(c, place)
    BY <1>3 DEF ReadsPlan, ReadsTask, ApprovePlan, CancelTask, CancelActs, DecideActs
  <2> QED BY <2>2, <2>3, GoesKeeps, AnswersKeeps
<1>4. ASSUME NEW c \in Handlers, StartAgent(c) PROVE ControlInv'
  <2>1. CASE AnswersStatus(c, 400) /\ UNCHANGED <<slot, worker>>
    <3>1. SlotInv' /\ EndedStays
      BY <1>4, <2>1, SlotStays DEF StartAgent
    <3> QED BY <2>1, <3>1, AnswersKeeps
  <2>2. CASE StartRun(c, "agent")
    BY <1>4, <2>2, StartsKeeps DEF StartAgent
  <2> QED BY <1>4, <2>1, <2>2 DEF StartAgent
<1>5. ASSUME NEW c \in Handlers, StartTask(c) PROVE ControlInv'
  BY <1>5, StartsKeeps DEF StartTask
<1>6. ASSUME NEW r \in RunIds, RunStopsWaiting(r) \/ TaskRuns(r) PROVE ControlInv'
  <2>1. slot' = slot /\ worker' = worker /\ pending' \subseteq pending /\ handler' = handler
    BY <1>6 DEF RunStopsWaiting, TaskRuns
  <2>2. SlotInv' /\ EndedStays
    BY <2>1, SlotStays
  <2> QED BY <2>1, <2>2, ThreadKeeps
<1>7. ASSUME NEW r \in RunIds, RunAsks(r) PROVE ControlInv'
  <2>1. SlotInv' /\ EndedStays
    BY <1>7, SlotAsks
  <2> QED BY <1>7, <2>1, ThreadKeeps DEF RunAsks
<1>8. ASSUME NEW r \in RunIds, NEW what \in Outcomes, StoresOutcome(r, what) PROVE ControlInv'
  <2>1. SlotInv' /\ EndedStays
    BY <1>8, SlotStores
  <2> QED BY <1>8, <2>1, ThreadKeeps DEF StoresOutcome
<1>9. ASSUME NEW r \in RunIds, Finishes(r) PROVE ControlInv'
  <2>1. SlotInv' /\ EndedStays
    BY <1>9, SlotFinishes
  <2> QED BY <1>9, <2>1, ThreadKeeps DEF Finishes
<1>10. ASSUME NEW r \in RunIds, WorkerDies(r) PROVE ControlInv'
  <2>1. SlotInv' /\ EndedStays
    BY <1>10, SlotDies
  <2> QED BY <1>10, <2>1, ThreadKeeps DEF WorkerDies
<1>11. CASE UNCHANGED controlVars
  <2>1. slot' = slot /\ worker' = worker /\ pending' = pending /\ handler' = handler
    BY <1>11 DEF controlVars
  <2>2. SlotInv' /\ EndedStays
    BY <2>1, SlotStays
  <2> QED BY <2>1, <2>2, ThreadKeeps
<1> QED
  BY <1>1, <1>2, <1>3, <1>4, <1>5, <1>6, <1>7, <1>8, <1>9, <1>10, <1>11, EntersKeeps,
     ShowsKeeps DEF ControlNext

(* control/state.py run_snapshot, _start and the workers, control/server.py*)
(* the handlers: whatever the number of requests and runs, what a page is  *)
(* shown is one run's, and of a run that is over it is shown how it ended. *)
THEOREM OneRunShown == ASSUME ControlAssumption PROVE ControlSpec => []OneRunTold
<1>1. ControlInit => ControlInv
  BY ControlInitially
<1>2. ControlInv /\ [ControlNext]_controlVars => ControlInv'
  BY ControlStep
<1>3. ControlInv => OneRunTold
  BY DEF ControlInv, ClientInv, OneRunTold, HasShown, ShownTo
<1> QED BY <1>1, <1>2, <1>3, PTL DEF ControlSpec

-----------------------------------------------------------------------------
(* The background process: ServeProcess.                                   *)

ServeTyped ==
    /\ DOMAIN process = Pids /\ DOMAIN cmd = Cmds
    /\ \A p \in Pids : DOMAIN process[p] = {"is", "by"}
    /\ \A c \in Cmds : cmd[c].at \in {"waiting", "killing"} => cmd[c].pid \in Pids

(* The server of a start is there while the start waits for it, or after   *)
(* it reported it or was interrupted.                                      *)
ChildOf(c, p) ==
    process[p].is \in Server /\ process[p].by = c =>
        /\ cmd[c].at \in {"waiting", "started", "interrupted"}
        /\ cmd[c].at = "waiting" => cmd[c].pid = p

(* As long as no server was started beside another: the one there is is    *)
(* that of the state file and of the start that waits, and what a stop has *)
(* verified has not become another program.                                *)
AloneInv ==
    ~mixed =>
        /\ \A p \in Pids : process[p].is \in Server =>
             /\ stateFile # NoPid => p = stateFile
             /\ \A c \in Cmds : cmd[c].at = "waiting" => p = cmd[c].pid
        /\ \A c \in Cmds : cmd[c].at = "killing" => process[cmd[c].pid].is # "other"
        /\ "other" \notin killed

ServeInv ==
    /\ ServeTyped /\ AloneInv
    /\ \A c \in Cmds, p \in Pids : ChildOf(c, p)

(* A command reports, and starts nothing.                                  *)
LEMMA Reports ==
    ASSUME ServeInv, NEW c \in Cmds, NEW place, NEW q, Step(c, place, q)
    PROVE  /\ DOMAIN cmd' = Cmds /\ cmd'[c].at = place /\ cmd'[c].pid = q
           /\ \A d \in Cmds \ {c} : cmd'[d] = cmd[d]
BY DEF ServeInv, ServeTyped, Step

LEMMA ResultReports ==
    ASSUME ServeInv, NEW c \in Cmds, NEW place, Result(c, place)
    PROVE  /\ DOMAIN cmd' = Cmds /\ cmd'[c].at = place
           /\ \A d \in Cmds \ {c} : cmd'[d] = cmd[d]
BY Reports DEF Result

LEMMA Exit ==
    ASSUME ServeInv, NEW p \in Pids, Exits(p)
    PROVE  /\ DOMAIN process' = Pids /\ process'[p].is = "dead"
           /\ \A q \in Pids \ {p} : process'[q] = process[q]
           /\ \A q \in Pids : DOMAIN process'[q] = {"is", "by"}
BY DEF ServeInv, ServeTyped, Exits

(* A command that is through, the file set to nothing at most, and no new  *)
(* process.                                                                *)
LEMMA Through ==
    ASSUME ServeInv, NEW c \in Cmds, NEW place,
           place \notin {"waiting", "killing"}, Result(c, place),
           UNCHANGED mixed, killed' = killed \/ (mixed \/ "other" \notin killed'),
           stateFile' \in {stateFile, NoPid},
           DOMAIN process' = Pids, \A p \in Pids : DOMAIN process'[p] = {"is", "by"},
           \A p \in Pids : process'[p] = process[p] \/ process'[p].is = "dead",
           \A p \in Pids : process'[p].is \in Server /\ process'[p].by = c =>
               place \in {"started", "interrupted"}
    PROVE  ServeInv'
<1>1. /\ DOMAIN cmd' = Cmds /\ cmd'[c].at = place
      /\ \A d \in Cmds \ {c} : cmd'[d] = cmd[d]
  BY ResultReports
<1>2. ServeTyped'
  BY <1>1 DEF ServeInv, ServeTyped
<1>3. AloneInv'
  <2>1. ASSUME NEW p \in Pids, process'[p].is \in Server
        PROVE  process[p].is \in Server /\ process'[p] = process[p]
    BY <2>1 DEF Server
  <2>2. \A d \in Cmds : cmd'[d].at \in {"waiting", "killing"} => cmd'[d] = cmd[d]
    BY <1>1
  <2>3. \A p \in Pids : process'[p].is = "other" => process[p].is = "other"
    OBVIOUS
  <2>4. \A d \in Cmds : cmd[d].at = "killing" => cmd[d].pid \in Pids
    BY DEF ServeInv, ServeTyped
  <2>5. ~mixed => \A p \in Pids : process'[p].is \in Server =>
             /\ stateFile' # NoPid => p = stateFile'
             /\ \A d \in Cmds : cmd'[d].at = "waiting" => p = cmd'[d].pid
    BY <2>1, <2>2 DEF ServeInv, AloneInv
  <2>6. ~mixed => \A d \in Cmds : cmd'[d].at = "killing" => process'[cmd'[d].pid].is # "other"
    BY <2>2, <2>3, <2>4 DEF ServeInv, AloneInv
  <2>7. ~mixed => "other" \notin killed'
    BY DEF ServeInv, AloneInv
  <2> QED BY <2>5, <2>6, <2>7 DEF AloneInv
<1>4. ASSUME NEW d \in Cmds, NEW p \in Pids PROVE ChildOf(d, p)'
  <2>1. CASE d = c
    BY <1>1, <2>1 DEF ChildOf
  <2>2. CASE d # c
    BY <1>1, <2>2 DEF ChildOf, ServeInv, Server
  <2> QED BY <2>1, <2>2
<1> QED BY <1>2, <1>3, <1>4 DEF ServeInv

(* A command that has no server of its own.                                *)
LEMMA NoServer ==
    ASSUME ServeInv, NEW c \in Cmds, cmd[c].at \notin {"waiting", "started", "interrupted"},
           NEW p \in Pids
    PROVE  ~(process[p].is \in Server /\ process[p].by = c)
BY DEF ServeInv, ChildOf

LEMMA StartChecksKeeps ==
    ASSUME ServeInv, NEW c \in Cmds, StartChecks(c) \/ Status(c) PROVE ServeInv'
<1>1. PICK place \in {"failed", "spawning", "running"} : Result(c, place)
  BY DEF StartChecks, Status
<1>2. UNCHANGED <<process, mixed, killed>> /\ stateFile' \in {stateFile, NoPid} /\ cmd[c].at = "idle"
  BY DEF StartChecks, Status, ClearState
<1>3. DOMAIN process' = Pids /\ \A p \in Pids : DOMAIN process'[p] = {"is", "by"}
  BY <1>2 DEF ServeInv, ServeTyped
<1>4. \A p \in Pids : ~(process'[p].is \in Server /\ process'[p].by = c)
  BY <1>2, NoServer
<1> QED BY <1>1, <1>2, <1>3, <1>4, Through

LEMMA StopFailsKeeps ==
    ASSUME ServeInv, NEW c \in Cmds, cmd[c].at \in {"idle", "clearing"},
           NEW place \in {"failed", "stopped"}, Result(c, place),
           UNCHANGED <<process, mixed, killed>>, stateFile' \in {stateFile, NoPid}
    PROVE  ServeInv'
<1>1. DOMAIN process' = Pids /\ \A p \in Pids : DOMAIN process'[p] = {"is", "by"}
  BY DEF ServeInv, ServeTyped
<1>2. \A p \in Pids : ~(process'[p].is \in Server /\ process'[p].by = c)
  BY NoServer
<1> QED BY <1>1, <1>2, Through

LEMMA StartSeesExitKeeps ==
    ASSUME ServeInv, NEW c \in Cmds, StartSeesExit(c) PROVE ServeInv'
<1>1. /\ cmd[c].at = "waiting" /\ ~Alive(cmd[c].pid) /\ Result(c, "failed")
      /\ UNCHANGED <<process, stateFile, mixed, killed>>
  BY DEF StartSeesExit
<1>2. DOMAIN process' = Pids /\ \A p \in Pids : DOMAIN process'[p] = {"is", "by"}
  BY <1>1 DEF ServeInv, ServeTyped
<1>3. ASSUME NEW p \in Pids PROVE ~(process'[p].is \in Server /\ process'[p].by = c)
  <2>1. ChildOf(c, p) /\ process'[p] = process[p] /\ cmd[c].pid \in Pids
    BY <1>1 DEF ServeInv, ServeTyped
  <2>2. process[cmd[c].pid].is \in Gone
    BY <1>1, <2>1 DEF Alive
  <2> QED BY <1>1, <2>1, <2>2 DEF ChildOf, Gone, Server
<1> QED BY <1>1, <1>2, <1>3, Through

LEMMA StartTimesOutKeeps ==
    ASSUME ServeInv, NEW c \in Cmds, StartTimesOut(c) PROVE ServeInv'
<1>1. /\ cmd[c].at = "waiting" /\ Exits(cmd[c].pid) /\ Result(c, "failed")
      /\ UNCHANGED <<stateFile, mixed, killed>> /\ cmd[c].pid \in Pids
  BY DEF StartTimesOut, ServeInv, ServeTyped
<1>2. /\ DOMAIN process' = Pids /\ process'[cmd[c].pid].is = "dead"
      /\ \A q \in Pids \ {cmd[c].pid} : process'[q] = process[q]
      /\ \A q \in Pids : DOMAIN process'[q] = {"is", "by"}
  BY <1>1, Exit
<1>3. ASSUME NEW p \in Pids PROVE ~(process'[p].is \in Server /\ process'[p].by = c)
  BY <1>1, <1>2 DEF ServeInv, ChildOf, Server
<1>4. \A p \in Pids : process'[p] = process[p] \/ process'[p].is = "dead"
  BY <1>2
<1> QED BY <1>1, <1>2, <1>3, <1>4, Through

LEMMA StartInterruptedKeeps ==
    ASSUME ServeInv, NEW c \in Cmds, StartInterrupted(c) PROVE ServeInv'
<1>1. Result(c, "interrupted") /\ UNCHANGED <<process, stateFile, mixed, killed>>
  BY DEF StartInterrupted
<1>2. DOMAIN process' = Pids /\ \A p \in Pids : DOMAIN process'[p] = {"is", "by"}
  BY <1>1 DEF ServeInv, ServeTyped
<1> QED BY <1>1, <1>2, Through

LEMMA StopKillsKeeps ==
    ASSUME ServeInv, NEW c \in Cmds, StopKills(c) PROVE ServeInv'
<1>1. /\ cmd[c].at = "killing" /\ Result(c, "clearing") /\ UNCHANGED <<stateFile, mixed>>
      /\ killed' = killed \cup {process[cmd[c].pid].is} /\ cmd[c].pid \in Pids
  BY DEF StopKills, ServeInv, ServeTyped
<1>2. /\ DOMAIN process' = Pids /\ \A q \in Pids : DOMAIN process'[q] = {"is", "by"}
      /\ \A p \in Pids : process'[p] = process[p] \/ process'[p].is = "dead"
  <2>1. CASE Exits(cmd[c].pid)
    BY <1>1, <2>1, Exit
  <2>2. CASE UNCHANGED process
    BY <2>2 DEF ServeInv, ServeTyped
  <2> QED BY <2>1, <2>2 DEF StopKills
<1>3. mixed \/ "other" \notin killed'
  BY <1>1 DEF ServeInv, AloneInv
<1>4. \A p \in Pids : ~(process'[p].is \in Server /\ process'[p].by = c)
  BY <1>1, <1>2, NoServer DEF Server
<1> QED BY <1>1, <1>2, <1>3, <1>4, Through

LEMMA StartSeesPageKeeps ==
    ASSUME ServeInv, NEW c \in Cmds, StartSeesPage(c) PROVE ServeInv'
<1>1. /\ cmd[c].at = "waiting" /\ Result(c, "started") /\ stateFile' = cmd[c].pid
      /\ UNCHANGED <<process, mixed, killed>>
  BY DEF StartSeesPage, SaveState
<1>2. /\ DOMAIN cmd' = Cmds /\ cmd'[c].at = "started"
      /\ \A d \in Cmds \ {c} : cmd'[d] = cmd[d]
  BY <1>1, ResultReports
<1>3. ServeTyped'
  BY <1>1, <1>2 DEF ServeInv, ServeTyped
<1>4. AloneInv'
  BY <1>1, <1>2 DEF ServeInv, AloneInv
<1>5. ASSUME NEW d \in Cmds, NEW p \in Pids PROVE ChildOf(d, p)'
  BY <1>1, <1>2 DEF ServeInv, ChildOf
<1> QED BY <1>3, <1>4, <1>5 DEF ServeInv

LEMMA StopChecksKeeps ==
    ASSUME ServeInv, NEW c \in Cmds, StopChecks(c) PROVE ServeInv'
<1>1. cmd[c].at = "idle" /\ UNCHANGED <<process, mixed, killed>>
  BY DEF StopChecks
<1>2. CASE Result(c, "failed") /\ stateFile' \in {stateFile, NoPid}
  BY <1>1, <1>2, StopFailsKeeps
<1>3. CASE /\ stateFile # NoPid /\ Verified(stateFile)
           /\ Step(c, "killing", stateFile) /\ UNCHANGED stateFile
  <2>1. /\ DOMAIN cmd' = Cmds /\ cmd'[c].at = "killing" /\ cmd'[c].pid = stateFile
        /\ \A d \in Cmds \ {c} : cmd'[d] = cmd[d]
    BY <1>3, Reports
  <2>2. stateFile \in Pids /\ \E q \in Pids : process[q].is = "serving"
    BY <1>3 DEF Verified, Alive, Answering
  <2>3. ServeTyped'
    BY <1>1, <2>1, <2>2 DEF ServeInv, ServeTyped
  <2>4. ~mixed => process[stateFile].is # "other"
    BY <1>3, <2>2 DEF ServeInv, AloneInv, Server
  <2>5. AloneInv'
    BY <1>1, <1>3, <2>1, <2>4 DEF ServeInv, AloneInv
  <2>6. ASSUME NEW d \in Cmds, NEW p \in Pids PROVE ChildOf(d, p)'
    BY <1>1, <2>1 DEF ServeInv, ChildOf
  <2> QED BY <2>3, <2>5, <2>6 DEF ServeInv
<1> QED BY <1>2, <1>3 DEF StopChecks, ClearState

(* A new server: where another is, or its file or its start, that is on    *)
(* record.                                                                 *)
LEMMA SpawnKeeps ==
    ASSUME ServeAssumption, ServeInv, NEW c \in Cmds, NEW p \in Pids, NEW by, Spawn(c, p, by),
           UNCHANGED <<stateFile, killed>>,
           \/ by = c /\ cmd[c].at = "spawning" /\ Step(c, "waiting", p)
           \/ by = "terminal" /\ cmd[c].at = "idle" /\ Result(c, "foreground")
    PROVE  ServeInv'
<1>1. /\ process[p].is \in Gone /\ ~Held(p)
      /\ process' = [process EXCEPT ![p] = [is |-> "starting", by |-> by]]
      /\ mixed' = (mixed \/ Crowded(c))
  BY DEF Spawn
<1>2. /\ DOMAIN process' = Pids /\ \A q \in Pids : DOMAIN process'[q] = {"is", "by"}
      /\ process'[p].is = "starting" /\ process'[p].by = by
      /\ \A q \in Pids \ {p} : process'[q] = process[q]
  BY <1>1 DEF ServeInv, ServeTyped
<1>3. /\ DOMAIN cmd' = Cmds /\ \A d \in Cmds \ {c} : cmd'[d] = cmd[d]
      /\ \/ by = c /\ cmd[c].at = "spawning" /\ cmd'[c].at = "waiting" /\ cmd'[c].pid = p
         \/ by = "terminal" /\ cmd[c].at = "idle" /\ cmd'[c].at = "foreground"
  BY Reports, ResultReports
<1>4. ServeTyped'
  BY <1>2, <1>3 DEF ServeInv, ServeTyped
<1>5. ASSUME NEW d \in Cmds, NEW q \in Pids PROVE ChildOf(d, q)'
  <2>1. CASE d = c
    <3>1. q # p => ~(process[q].is \in Server /\ process[q].by = c)
      BY <1>3, NoServer
    <3> QED BY <1>2, <1>3, <2>1, <3>1 DEF ChildOf, ServeAssumption
  <2>2. CASE d # c
    <3>1. by # d
      BY <1>3, <2>2 DEF ServeAssumption
    <3> QED BY <1>2, <1>3, <2>2, <3>1 DEF ServeInv, ChildOf
  <2> QED BY <2>1, <2>2
<1>6. ~mixed' => /\ ~mixed /\ stateFile = NoPid
                 /\ \A q \in Pids : process[q].is \notin Server
                 /\ \A d \in Cmds \ {c} : cmd[d].at # "waiting"
  BY <1>1 DEF Crowded
<1>7. ASSUME ~mixed', NEW d \in Cmds, cmd'[d].at = "killing" PROVE process'[cmd'[d].pid].is # "other"
  <2>1. cmd'[d] = cmd[d] /\ cmd[d].pid \in Pids
    BY <1>3, <1>7 DEF ServeInv, ServeTyped
  <2> QED BY <1>2, <1>6, <1>7, <2>1 DEF ServeInv, AloneInv
<1>8. ASSUME ~mixed', NEW q \in Pids, process'[q].is \in Server
      PROVE  /\ stateFile' # NoPid => q = stateFile'
             /\ \A d \in Cmds : cmd'[d].at = "waiting" => q = cmd'[d].pid
  <2>1. q = p
    BY <1>2, <1>6, <1>8
  <2> QED BY <1>3, <1>6, <1>8, <2>1
<1>9. ~mixed' => "other" \notin killed'
  BY <1>6 DEF ServeInv, AloneInv
<1> QED BY <1>4, <1>5, <1>7, <1>8, <1>9 DEF ServeInv, AloneInv

LEMMA ProcessMoves ==
    ASSUME ServeInv, NEW p \in Pids, UNCHANGED <<stateFile, cmd, mixed, killed>>,
           DOMAIN process' = Pids, DOMAIN process'[p] = {"is", "by"},
           \A q \in Pids \ {p} : process'[q] = process[q],
           process'[p].is \in Server => process[p].is \in Server /\ process'[p].by = process[p].by,
           process'[p].is = "other" => ~Held(p)
    PROVE  ServeInv'
<1>1. ServeTyped'
  BY DEF ServeInv, ServeTyped
<1>2. ASSUME NEW c \in Cmds, NEW q \in Pids PROVE ChildOf(c, q)'
  BY DEF ServeInv, ChildOf
<1>3. ASSUME ~mixed PROVE \A c \in Cmds : cmd[c].at = "killing" => process'[cmd[c].pid].is # "other"
  BY <1>3 DEF ServeInv, ServeTyped, AloneInv, Held
<1>4. AloneInv'
  BY <1>3 DEF ServeInv, AloneInv
<1> QED BY <1>1, <1>2, <1>4 DEF ServeInv

LEMMA ProcessKeeps ==
    ASSUME ServeInv, NEW p \in Pids, Binds(p) \/ ServerExits(p) \/ Reuse(p) PROVE ServeInv'
<1>1. UNCHANGED <<stateFile, cmd, mixed, killed>> /\ DOMAIN process = Pids
      /\ DOMAIN process[p] = {"is", "by"}
  BY DEF Binds, ServerExits, Reuse, ServeInv, ServeTyped
<1>2. CASE Binds(p)
  <2>1. process' = [process EXCEPT ![p].is = "serving"] /\ process[p].is = "starting"
    BY <1>2 DEF Binds
  <2> QED BY <1>1, <2>1, ProcessMoves DEF Server
<1>3. CASE Exits(p)
  BY <1>1, <1>3, Exit, ProcessMoves DEF Server
<1>4. CASE ~Held(p) /\ process' = [process EXCEPT ![p] = [is |-> "other", by |-> "nobody"]]
  BY <1>1, <1>4, ProcessMoves DEF Server
<1> QED BY <1>2, <1>3, <1>4 DEF ServerExits, Reuse

LEMMA ServeKeeps ==
    ASSUME ServeAssumption, ServeInv, [ServeNext]_serveVars PROVE ServeInv'
<1>1. CASE UNCHANGED serveVars
  <2>1. UNCHANGED <<process, stateFile, cmd, mixed, killed>>
    BY <1>1 DEF serveVars
  <2> QED BY <2>1 DEF ServeInv, ServeTyped, AloneInv, ChildOf
<1>2. ASSUME NEW c \in Cmds, StartChecks(c) \/ Status(c) PROVE ServeInv'
  BY <1>2, StartChecksKeeps
<1>3. ASSUME NEW c \in Cmds, StartSpawns(c) PROVE ServeInv'
  BY <1>3, SpawnKeeps DEF StartSpawns
<1>4. ASSUME NEW c \in Cmds, StartSeesExit(c) PROVE ServeInv'
  BY <1>4, StartSeesExitKeeps
<1>5. ASSUME NEW c \in Cmds, StartSeesPage(c) PROVE ServeInv'
  BY <1>5, StartSeesPageKeeps
<1>6. ASSUME NEW c \in Cmds, StartTimesOut(c) PROVE ServeInv'
  BY <1>6, StartTimesOutKeeps
<1>7. ASSUME NEW c \in Cmds, StartInterrupted(c) PROVE ServeInv'
  BY <1>7, StartInterruptedKeeps
<1>8. ASSUME NEW c \in Cmds, StopChecks(c) PROVE ServeInv'
  BY <1>8, StopChecksKeeps
<1>9. ASSUME NEW c \in Cmds, StopKills(c) PROVE ServeInv'
  BY <1>9, StopKillsKeeps
<1>10. ASSUME NEW c \in Cmds, StopClears(c) PROVE ServeInv'
  BY <1>10, StopFailsKeeps DEF StopClears, ClearState
<1>11. ASSUME NEW c \in Cmds, Foreground(c) PROVE ServeInv'
  BY <1>11, SpawnKeeps DEF Foreground
<1>12. ASSUME NEW p \in Pids, Binds(p) \/ ServerExits(p) \/ Reuse(p) PROVE ServeInv'
  BY <1>12, ProcessKeeps
<1> QED BY <1>1, <1>2, <1>3, <1>4, <1>5, <1>6, <1>7, <1>8, <1>9, <1>10, <1>11, <1>12 DEF ServeNext

LEMMA ServeStarts == ServeInit => ServeInv
BY DEF ServeInit, ServeInv, ServeTyped, AloneInv, ChildOf, Free, Server

(* control/process.py: a start that reported a failure has left no server; *)
(* and where no server was started beside another or beside its file, a    *)
(* stop kills the server and never a program that got its process id.      *)
THEOREM ServeKeepsItsPromise == ASSUME ServeAssumption PROVE ServeSpec => []ServeKeepsItsWord
<1>1. ServeInv => ServeKeepsItsWord
  BY DEF ServeInv, AloneInv, ChildOf, ServeKeepsItsWord
<1>2. ServeInv /\ [ServeNext]_serveVars => ServeInv'
  BY ServeKeeps
<1> QED BY <1>1, <1>2, ServeStarts, PTL DEF ServeSpec

-----------------------------------------------------------------------------
(* The configuration it is started with: Configuration.                    *)

(* What the proof needs of the schema: sections below mapping are mappings,*)
(* and the one with fields that may be absent has one that may not.        *)
LEMMA SchemaShape ==
    /\ DOMAIN Nested = NestedMappings
    /\ Mappings = DOMAIN Schema \cup NestedMappings
    /\ "ai.providers.opencode" \in Mappings
    /\ Names("ai.providers.opencode") = Nested["ai.providers.opencode"]
<1>1. DOMAIN Nested = NestedMappings
  BY DEF Nested
<1>2. DOMAIN Schema = {"core", "logging", "events", "ai", "memory", "tasks", "tools", "agent",
                       "delegation", "workspace", "planning", "task", "scheduler", "telegram",
                       "mcp", "security", "voice"}
  BY DEF Schema
<1> QED BY <1>1, <1>2 DEF Mappings, Names, NestedMappings, ProviderSections

LEMMA BelowIsMappings == ASSUME NEW m \in Mappings PROVE m \in Below(m) /\ Below(m) \subseteq Mappings
  BY SchemaShape DEF Below, NestedMappings, ProviderSections

LEMMA AlwaysRead == <<"ai.providers.opencode", "type">> \in FieldsOf("ai.providers.opencode") \ Optional
<1>1. "type" \in DOMAIN Endpoint
  BY DEF Endpoint, Of, ++
<1>2. "type" \in DOMAIN Nested["ai.providers.opencode"]
  BY <1>1, SchemaShape DEF Nested, NestedMappings, ProviderSections, ++
<1> QED BY <1>2, SchemaShape DEF FieldsOf, Optional

LEMMA FieldHere == ASSUME NEW f \in Fields PROVE f[1] \in Mappings /\ f \in FieldsOf(f[1])
  BY DEF Fields, FieldsOf

LEMMA FieldsBelowAre ==
    ASSUME NEW m \in Mappings
    PROVE  /\ FieldsBelow(m) \subseteq Fields
           /\ \A f \in Fields : f[1] \in Below(m) => f \in FieldsBelow(m)
           /\ \A f \in FieldsBelow(m) : f[1] \in Below(m)
<1>1. Below(m) \subseteq Mappings
  BY BelowIsMappings
<1>2. \A o : \A f \in FieldsOf(o) : f[1] = o
  BY DEF FieldsOf
<1>3. FieldsBelow(m) \subseteq Fields
  BY <1>1 DEF FieldsBelow, Fields
<1> QED BY <1>2, <1>3, FieldHere DEF FieldsBelow

LEMMA CoerceIs ==
    ASSUME NEW kind, NEW string \in {"good", "over", "wrong", "unreadable"}
    PROVE  /\ Coerce(kind, string) \in {"good", "over", "wrong", "error"}
           /\ string = "good" => Coerce(kind, string) = "good"
           /\ Coerce(kind, string) = "over" => string = "over"
<1>1. CASE string = "good"
  BY <1>1 DEF Coerce
<1>2. CASE string = "over"
  BY <1>2 DEF Coerce
<1>3. CASE string = "wrong"
  BY <1>3 DEF Coerce
<1>4. CASE string = "unreadable"
  BY <1>4 DEF Coerce
<1> QED BY <1>1, <1>2, <1>3, <1>4

-----------------------------------------------------------------------------
(* A document of one edit of what the schema knows, or of unknown keys.   *)
IsPut(e) == \E f \in Fields : \E v \in FileValues(f) : e = Puts(f, v)
IsScalar(e) == \E m \in Mappings : e = NoMapping(m)
IsExtra(e) == \E m \in Mappings \cup {Root}, key \in {"unknown", "number"} : e = Extra(m, key)
DocInv ==
    /\ \A e \in doc : IsPut(e) \/ IsScalar(e) \/ IsExtra(e)
    /\ \A d, e \in doc : d = e \/ (IsExtra(d) /\ IsExtra(e))
EnvInv == DOMAIN env \subseteq Fields /\ \A f \in DOMAIN env : env[f] \in Strings(f)

(* What the loader has made of the document and the variables so far.      *)
Merged == IF Read THEN MergeDict(Default, doc) ELSE Default
ConfigInv ==
    /\ DocInv /\ EnvInv
    /\ stage \in {"resolve", "environment", "validate", "build", "loaded", "refused", "crashed"}
    /\ stage = "environment" => raw = Merged
    /\ stage \in {"validate", "build"} => raw = ApplyEnv(Merged) /\ ~Unreadable
    /\ stage = "build" => Problems(raw) = {}
    /\ LoadsAsWritten

LEMMA EditFields ==
    ASSUME NEW e
    PROVE  /\ IsPut(e) => /\ e.edit = "put" /\ e.field \in Fields /\ e.value \in FileValues(e.field)
                          /\ e = Puts(e.field, e.value)
           /\ IsScalar(e) => e.edit = "scalar" /\ e.of \in Mappings /\ e = NoMapping(e.of)
           /\ IsExtra(e) => e.edit = "extra" /\ e.key \in {"unknown", "number"}
  BY DEF IsPut, IsScalar, IsExtra, Puts, NoMapping, Extra

LEMMA ScalarsAre ==
    ASSUME DocInv PROVE Scalars(doc) = {e.of : e \in {d \in doc : d.edit = "scalar"}}
  BY EditFields DEF DocInv, Scalars, NoMapping

(* Where the value of a field comes from.                                  *)
LEMMA MergedValue ==
    ASSUME DocInv, NEW f \in Fields
    PROVE  \/ /\ Merged.value[f] = <<"good", "default">>
              /\ Read => \A v : Puts(f, v) \notin doc
           \/ /\ Read
              /\ \E v \in FileValues(f) : Puts(f, v) \in doc /\ Merged.value[f] = <<v, "file">>
           \/ /\ Read
              /\ \E m \in Mappings : NoMapping(m) \in doc /\ f \in FieldsBelow(m) /\ Merged.value[f] = Absent
<1>1. CASE ~Read
  BY <1>1 DEF Merged, Default
<1>2. CASE Read
  <2> DEFINE lost == UNION {FieldsBelow(m) : m \in Scalars(doc)}
  <2>1. Merged.value[f] =
          IF f \in lost THEN Absent
          ELSE IF \E e \in Written(doc) : e.field = f
               THEN <<(CHOOSE e \in Written(doc) : e.field = f).value, "file">>
               ELSE <<"good", "default">>
    BY <1>2 DEF Merged, MergeDict, Default
  <2>2. CASE f \in lost
    BY <1>2, <2>1, <2>2 DEF Scalars
  <2>3. CASE f \notin lost /\ \E e \in Written(doc) : e.field = f
    <3>1. PICK e \in Written(doc) : e.field = f /\ e = CHOOSE d \in Written(doc) : d.field = f
      BY <2>3
    <3>2. e \in doc /\ IsPut(e)
      BY <3>1, EditFields DEF Written, DocInv
    <3> QED BY <1>2, <2>1, <2>3, <3>1, <3>2, EditFields
  <2>4. CASE f \notin lost /\ ~\E e \in Written(doc) : e.field = f
    <3>1. \A v : Puts(f, v) \notin doc
      BY <2>4 DEF Written, Puts
    <3> QED BY <2>1, <2>4, <3>1
  <2> QED BY <2>2, <2>3, <2>4
<1> QED BY <1>1, <1>2

LEMMA MergedRest ==
    ASSUME DocInv
    PROVE  /\ \A m \in Mappings : Merged.node[m] = "scalar" <=> Read /\ NoMapping(m) \in doc
           /\ Merged.extras = IF Read THEN {<<e.of, e.key>> : e \in {d \in doc : d.edit = "extra"}} ELSE {}
  BY DEF Merged, MergeDict, Default, Scalars

LEMMA TreeIs ==
    ASSUME raw = ApplyEnv(Merged)
    PROVE  /\ \A f \in Fields : raw.value[f] = IF f \in DOMAIN env THEN <<Coerce(Kind(f), env[f]), "env">>
                                               ELSE Merged.value[f]
           /\ \A m \in Mappings : raw.node[m] = IF \E f \in DOMAIN env : m \in Around(f[1])
                                                THEN "mapping" ELSE Merged.node[m]
           /\ raw.extras = Merged.extras
  BY DEF ApplyEnv, SetDotted

(* A value that comes out as wrong, as a list or beyond its ceiling, or    *)
(* that is not there, comes from an edit of the document or a variable.    *)
LEMMA ValueFrom ==
    ASSUME DocInv, EnvInv, raw = ApplyEnv(Merged), ~Unreadable, NEW f \in Fields
    PROVE  /\ f \in DOMAIN env => /\ raw.value[f] = <<raw.value[f][1], "env">>
                                  /\ raw.value[f][1] \in {"good", "over", "wrong"}
                                  /\ raw.value[f][1] = "over" => f \in Bounded
                                  /\ env[f] = "good" => raw.value[f][1] = "good"
           /\ f \notin DOMAIN env => raw.value[f] = Merged.value[f]
<1>1. CASE f \in DOMAIN env
  <2>1. /\ env[f] \in {"good", "over", "wrong", "unreadable"}
        /\ env[f] = "over" => f \in Bounded
    BY <1>1 DEF EnvInv, Strings
  <2>2. raw.value[f] = <<Coerce(Kind(f), env[f]), "env">> /\ Coerce(Kind(f), env[f]) # "error"
    BY <1>1, TreeIs DEF Unreadable
  <2> QED BY <1>1, <2>1, <2>2, CoerceIs
<1> QED BY <1>1, TreeIs

(* A field that is not there when the build begins was below what the file *)
(* has for no mapping, where a variable is set; and the build misses it.   *)
LEMMA AbsentFrom ==
    ASSUME DocInv, EnvInv, raw = ApplyEnv(Merged), ~Unreadable, NEW f \in Fields,
           raw.value[f][1] = "absent"
    PROVE  /\ Read /\ f \notin DOMAIN env
           /\ \E m \in Mappings : NoMapping(m) \in doc /\ f \in FieldsBelow(m)
           /\ raw.value[f] = Absent
           /\ Problems(raw) = {} => Incomplete(raw)
<1>1. f \notin DOMAIN env /\ raw.value[f] = Merged.value[f]
  BY ValueFrom
<1>2. PICK m \in Mappings : Read /\ NoMapping(m) \in doc /\ f \in FieldsBelow(m) /\ Merged.value[f] = Absent
  <2>1. \A v \in FileValues(f) : v # "absent"
    BY DEF FileValues
  <2> QED BY <1>1, <2>1, MergedValue
<1>3. ASSUME Problems(raw) = {}, f \in Optional PROVE Incomplete(raw)
  <2> DEFINE o == "ai.providers.opencode"
             g == <<"ai.providers.opencode", "type">>
  <2>1. f[1] = o /\ o \in ProviderSections /\ o \in Mappings
    BY <1>3, SchemaShape DEF Optional, ProviderSections
  <2>2. raw.node[o] # "mapping"
    BY <1>1, <1>2, <1>3, <2>1 DEF Problems
  <2>3. o \in Around(o)
    BY <2>1, BelowIsMappings DEF Around
  <2>4. \A h \in DOMAIN env : h[1] # o
    BY <2>1, <2>2, <2>3, TreeIs
  <2>5. g \in Fields \ Optional /\ g \in FieldsBelow(m)
    <3>1. g \in Fields
      BY <2>1, AlwaysRead DEF Fields
    <3>2. o \in Below(m)
      BY <1>2, <2>1, FieldsBelowAre
    <3> QED BY <3>1, <3>2, AlwaysRead, FieldsBelowAre
  <2>6. g \notin DOMAIN env
    BY <2>4
  <2>7. Merged.value[g] = Absent
    <3>1. \A v : Puts(g, v) \notin doc
      BY <1>2, EditFields DEF DocInv, IsExtra, Puts, NoMapping, Extra
    <3>2. g \in Fields /\ m \in Scalars(doc)
      BY <1>2, <2>5 DEF Scalars
    <3> QED BY <1>2, <2>5, <3>2 DEF Merged, MergeDict
  <2>8. raw.value[g] = Absent
    BY <2>5, <2>6, <2>7, TreeIs
  <2> QED BY <2>5, <2>8 DEF Incomplete
<1>4. raw.value[f] = Absent
  BY <1>1, <1>2
<1>5. f \notin Optional => Incomplete(raw)
  BY <1>4 DEF Incomplete
<1> QED BY <1>1, <1>2, <1>3, <1>4, <1>5

(* What the build makes of a tree without problems is what was written,    *)
(* and of the document nothing was left aside that no variable replaced.   *)
LEMMA BuiltAsWritten ==
    ASSUME DocInv, EnvInv, raw = ApplyEnv(Merged), ~Unreadable, Problems(raw) = {}, ~Incomplete(raw)
    PROVE  /\ \A f \in Fields :
                raw.value[f] = IF f \in DOMAIN env THEN <<"good", "env">>
                               ELSE IF Read /\ Puts(f, "good") \in doc THEN <<"good", "file">>
                               ELSE <<"good", "default">>
           /\ Read => \A e \in doc : Flawed(e) =>
                /\ e.edit /= "extra"
                /\ e.edit = "put" => e.field \in DOMAIN env
                /\ e.edit = "scalar" => FieldsBelow(e.of) \subseteq DOMAIN env
<1>1. ASSUME NEW f \in Fields
      PROVE  /\ raw.value[f][1] \notin {"wrong", "list", "absent"}
             /\ raw.value[f][1] = "over" => f \notin Bounded
  BY AbsentFrom DEF Problems
<1>2. ASSUME NEW f \in Fields
      PROVE  raw.value[f] = IF f \in DOMAIN env THEN <<"good", "env">>
                            ELSE IF Read /\ Puts(f, "good") \in doc THEN <<"good", "file">>
                            ELSE <<"good", "default">>
  <2>1. CASE f \in DOMAIN env
    BY <1>1, <2>1, ValueFrom
  <2>2. CASE f \notin DOMAIN env
    <3>1. raw.value[f] = Merged.value[f]
      BY <2>2, ValueFrom
    <3>2. raw.value[f] # Absent
      BY <1>1 DEF Absent
    <3>3. ASSUME NEW v \in FileValues(f), Read, Puts(f, v) \in doc, raw.value[f] = <<v, "file">>
          PROVE  v = "good"
      BY <1>1, <3>3 DEF FileValues
    <3> QED BY <2>2, <3>1, <3>2, <3>3, MergedValue
  <2> QED BY <2>1, <2>2
<1>3. ASSUME Read, NEW e \in doc, Flawed(e)
      PROVE  /\ e.edit /= "extra"
             /\ e.edit = "put" => e.field \in DOMAIN env
             /\ e.edit = "scalar" => FieldsBelow(e.of) \subseteq DOMAIN env
  <2>1. e.edit # "extra"
    <3>1. raw.extras = {}
      BY DEF Problems
    <3>2. {<<d.of, d.key>> : d \in {c \in doc : c.edit = "extra"}} = {}
      BY <1>3, <3>1, TreeIs, MergedRest
    <3> QED BY <1>3, <3>2
  <2>2. ASSUME e.edit = "put", e.field \notin DOMAIN env PROVE FALSE
    <3>1. e.field \in Fields /\ e = Puts(e.field, e.value)
      BY <2>2, EditFields DEF DocInv
    <3>2. raw.value[e.field] \in {<<"good", "file">>, <<"good", "default">>}
      BY <1>2, <2>2, <3>1
    <3>3. e.value # "good"
      BY <1>3, <2>2 DEF Flawed
    <3>4. \A d \in doc : d = e
      BY <2>2, EditFields DEF DocInv
    <3>5. PICK v : Puts(e.field, v) \in doc /\ raw.value[e.field] = <<v, "file">>
      BY <1>3, <2>2, <3>1, <3>2, <3>4, MergedValue, ValueFrom DEF Absent
    <3>6. Puts(e.field, v) = e
      BY <3>4, <3>5
    <3>7. v = e.value
      BY <3>6 DEF Puts
    <3> QED BY <3>2, <3>3, <3>5, <3>7
  <2>3. ASSUME e.edit = "scalar", NEW f \in FieldsBelow(e.of), f \notin DOMAIN env PROVE FALSE
    <3>1. e.of \in Mappings /\ e = NoMapping(e.of)
      BY <2>3, EditFields DEF DocInv
    <3>2. f \in Fields
      BY <2>3, <3>1, FieldsBelowAre
    <3>3. Merged.value[f] = Absent
      <4>1. e.of \in Scalars(doc)
        BY <1>3, <3>1 DEF Scalars
      <4> QED BY <1>3, <2>3, <3>2, <4>1 DEF Merged, MergeDict
    <3>4. raw.value[f][1] = "absent"
      BY <2>3, <3>2, <3>3, ValueFrom DEF Absent
    <3> QED BY <1>1, <3>2, <3>4
  <2> QED BY <2>1, <2>2, <2>3
<1> QED BY <1>2, <1>3

(* Without a mistake, the tree has nothing the checks or the build could   *)
(* stumble over.                                                           *)
LEMMA NothingToRefuse ==
    ASSUME DocInv, EnvInv, Mistakes = {}, Read => \A e \in doc : ~Flawed(e), raw = ApplyEnv(Merged)
    PROVE  /\ ~Unreadable /\ Problems(raw) = {}
           /\ ~Unsortable(raw) /\ ~Unhashable(raw) /\ ~Incomplete(raw)
<1>1. ~Unreadable
  BY CoerceIs DEF Mistakes, Unreadable
<1>2. Read => \A e \in doc : e.edit = "put" /\ e.value = "good" /\ IsPut(e)
  BY EditFields DEF Flawed, DocInv
<1>3. ASSUME NEW f \in Fields PROVE raw.value[f][1] = "good"
  <2>1. CASE f \in DOMAIN env
    BY <1>1, <2>1, ValueFrom DEF Mistakes
  <2>2. CASE f \notin DOMAIN env
    <3>1. Read => \A m \in Mappings : NoMapping(m) \notin doc
      BY <1>2 DEF NoMapping
    <3>2. Read => \A v : Puts(f, v) \in doc => v = "good"
      BY <1>2 DEF Puts
    <3>3. Merged.value[f] \in {<<"good", "default">>, <<"good", "file">>}
      BY <3>1, <3>2, MergedValue
    <3> QED BY <1>1, <2>2, <3>3, ValueFrom
  <2> QED BY <2>1, <2>2
<1>4. raw.extras = {}
  BY <1>2, TreeIs, MergedRest
<1>5. \A m \in Mappings : raw.node[m] # "scalar"
  BY <1>2, TreeIs, MergedRest DEF NoMapping
<1>6. Problems(raw) = {}
  BY <1>3, <1>4, <1>5 DEF Problems, Absent
<1> QED BY <1>1, <1>3, <1>4, <1>6 DEF Unsortable, Unhashable, Incomplete, Absent

LEMMA UnexplainedIs ==
    ASSUME NEW e
    PROVE  /\ e.edit = "put" /\ e.value = "list" /\ Kind(e.field) = "enum" => Unexplained(e)
           /\ e.edit = "scalar" /\ DOMAIN env \cap FieldsBelow(e.of) # {} => Unexplained(e)
           /\ e.edit = "extra" /\ e.key = "number" => Unexplained(e)
<1>1. CASE e.edit = "put"
  BY <1>1 DEF Unexplained
<1>2. CASE e.edit = "scalar"
  BY <1>2 DEF Unexplained
<1>3. CASE e.edit = "extra"
  BY <1>3 DEF Unexplained
<1> QED BY <1>1, <1>2, <1>3

(* The three ways to an error that is no ConfigurationError.               *)
LEMMA CrashesFrom ==
    ASSUME DocInv, EnvInv, raw = ApplyEnv(Merged), ~Unreadable,
           Unsortable(raw) \/ Unhashable(raw) \/ (Problems(raw) = {} /\ Incomplete(raw))
    PROVE  Read /\ \E e \in doc : Unexplained(e)
<1>1. CASE Unsortable(raw)
  <2>1. PICK m : <<m, "number">> \in raw.extras
    BY <1>1 DEF Unsortable
  <2>2. Read /\ \E e \in doc : e.edit = "extra" /\ <<e.of, e.key>> = <<m, "number">>
    BY <2>1, TreeIs, MergedRest
  <2> QED BY <2>2, UnexplainedIs
<1>2. CASE Unhashable(raw)
  <2>1. PICK f \in Fields : Kind(f) = "enum" /\ raw.value[f][1] = "list"
    BY <1>2 DEF Unhashable
  <2>2. f \notin DOMAIN env /\ Merged.value[f][1] = "list"
    BY <2>1, ValueFrom
  <2>3. Read /\ Puts(f, "list") \in doc
    BY <2>1, <2>2, MergedValue DEF Absent
  <2>4. Unexplained(Puts(f, "list"))
    BY <2>1, UnexplainedIs DEF Puts
  <2> QED BY <2>3, <2>4
<1>3. CASE Problems(raw) = {} /\ Incomplete(raw)
  <2>1. PICK f \in Fields : raw.value[f] = Absent
    BY <1>3 DEF Incomplete
  <2>2. PICK m \in Mappings : Read /\ NoMapping(m) \in doc
    BY <2>1, AbsentFrom DEF Absent
  <2>3. raw.node[m] # "scalar"
    BY <1>3 DEF Problems
  <2>4. PICK g \in DOMAIN env : m \in Around(g[1])
    BY <2>2, <2>3, TreeIs, MergedRest
  <2>5. g \in FieldsBelow(m)
    <3>1. g \in Fields /\ g[1] \in Below(m)
      BY <2>4 DEF EnvInv, Around
    <3> QED BY <3>1, FieldsBelowAre
  <2>6. Unexplained(NoMapping(m))
    <3>1. NoMapping(m).edit = "scalar" /\ NoMapping(m).of = m
      BY DEF NoMapping
    <3> QED BY <2>4, <2>5, <3>1, UnexplainedIs
  <2> QED BY <2>2, <2>6
<1> QED BY <1>1, <1>2, <1>3

LEMMA ConfigStarts == ASSUME ConfigurationAssumption, ConfigurationInit PROVE ConfigInv
<1>1. stage = "resolve"
  BY DEF ConfigurationInit
<1>2. CASE doc = {} /\ env = <<>>
  BY <1>1, <1>2 DEF ConfigInv, DocInv, EnvInv, LoadsAsWritten
<1>3. ASSUME doc \in SUBSET TopEdits, env = <<>> PROVE ConfigInv
  <2>1. \A e \in doc : IsExtra(e)
    BY <1>3 DEF TopEdits, IsExtra
  <2> QED BY <1>1, <1>3, <2>1 DEF ConfigInv, DocInv, EnvInv, LoadsAsWritten
<1>4. ASSUME NEW s \in Sections, doc \in Documents(s), env \in Environments(s) PROVE ConfigInv
  <2>1. s \in Mappings /\ Below(s) \subseteq Mappings
    BY SchemaShape, BelowIsMappings DEF ConfigurationAssumption
  <2>2. ASSUME NEW m \in Mappings, NEW e \in Edits(m) PROVE IsPut(e) \/ IsScalar(e) \/ IsExtra(e)
    <3>1. FieldsOf(m) \subseteq Fields
      BY DEF Fields
    <3>2. CASE e \in {NoMapping(m), Extra(m, "unknown"), Extra(m, "number")}
      BY <3>2 DEF IsScalar, IsExtra
    <3>3. CASE \E f \in FieldsOf(m) : \E v \in FileValues(f) : e = Puts(f, v)
      BY <3>1, <3>3 DEF IsPut
    <3> QED BY <2>2, <3>2, <3>3 DEF Edits
  <2>3. DocInv
    BY <1>4, <2>1, <2>2 DEF Documents, DocInv
  <2>4. EnvInv
    <3> DEFINE own == EnvFields \cap FieldsBelow(s)
    <3>1. own \subseteq Fields
      BY DEF EnvFields
    <3>2. CASE env = <<>>
      BY <3>2 DEF EnvInv
    <3>3. CASE env = [f \in own |-> "good"]
      BY <3>1, <3>3 DEF EnvInv, Strings
    <3>4. ASSUME NEW f \in own, env \in [{f} -> Strings(f)] PROVE EnvInv
      BY <3>1, <3>4 DEF EnvInv
    <3> QED BY <1>4, <3>2, <3>3, <3>4 DEF Environments
  <2> QED BY <1>1, <2>3, <2>4 DEF ConfigInv, LoadsAsWritten
<1> QED BY <1>2, <1>3, <1>4 DEF ConfigurationInit

(* A load that ends may not say what it did not do.                        *)
LEMMA EndsAsWritten ==
    ASSUME ConfigInv, NEW how \in {"refused", "crashed"}, LoadEnds(how),
           Asked \notin {"none", "file"} \/ Mistakes # {} \/ (Read /\ \E e \in doc : Flawed(e)),
           how = "crashed" =>
             Asked \in {"garbled", "homeless"} \/ (Read /\ \E e \in doc : Unexplained(e))
    PROVE  ConfigInv'
<1>1. /\ Read' = Read /\ Mistakes' = Mistakes /\ Asked' = Asked
      /\ \A e : Unexplained(e)' = Unexplained(e)
  BY DEF LoadEnds, Read, Asked, Mistakes, Unexplained
<1>2. DocInv' /\ EnvInv'
  BY DEF LoadEnds, ConfigInv, DocInv, EnvInv
<1>3. LoadsAsWritten'
  BY <1>1 DEF LoadEnds, LoadsAsWritten
<1> QED BY <1>2, <1>3 DEF LoadEnds, ConfigInv

LEMMA ResolveKeeps == ASSUME ConfigInv, Resolve PROVE ConfigInv'
<1>1. CASE Asked \in {"missing", "malformed"} /\ LoadEnds("refused")
  BY <1>1, EndsAsWritten
<1>2. CASE Asked \in {"garbled", "homeless"} /\ LoadEnds("crashed")
  BY <1>2, EndsAsWritten
<1>3. CASE /\ Asked \in {"none", "file"}
           /\ raw' = IF Read THEN MergeDict(Default, doc) ELSE Default
           /\ stage' = "environment"
           /\ UNCHANGED <<argument, named, standard, doc, env, config>>
  <2>1. raw' = Merged /\ Merged' = Merged
    BY <1>3 DEF Merged, Read, Asked, MergeDict, Scalars, Written
  <2>2. DocInv' /\ EnvInv'
    BY <1>3 DEF ConfigInv, DocInv, EnvInv
  <2> QED BY <1>3, <2>1, <2>2 DEF ConfigInv, LoadsAsWritten
<1> QED BY <1>1, <1>2, <1>3 DEF Resolve

LEMMA OverridesKeeps == ASSUME ConfigInv, Overrides PROVE ConfigInv'
<1>1. CASE Unreadable /\ LoadEnds("refused")
  <2>1. Mistakes # {}
    <3>1. PICK f \in DOMAIN env : Coerce(Kind(f), env[f]) = "error"
      BY <1>1 DEF Unreadable
    <3>2. env[f] # "good"
      BY <3>1, CoerceIs
    <3> QED BY <3>1, <3>2 DEF Mistakes
  <2> QED BY <1>1, <2>1, EndsAsWritten
<1>2. CASE /\ ~Unreadable
           /\ raw' = ApplyEnv(raw) /\ stage' = "validate"
           /\ UNCHANGED <<argument, named, standard, doc, env, config>>
  <2>1. raw = Merged
    BY DEF ConfigInv, Overrides
  <2>2. Merged' = Merged
    BY <1>2 DEF Merged, Read, Asked, MergeDict, Scalars, Written
  <2>3. ApplyEnv(Merged)' = ApplyEnv(Merged) /\ Unreadable' = Unreadable
    BY <1>2, <2>2 DEF ApplyEnv, SetDotted, Unreadable
  <2>4. DocInv' /\ EnvInv'
    BY <1>2 DEF ConfigInv, DocInv, EnvInv
  <2> QED BY <1>2, <2>1, <2>3, <2>4 DEF ConfigInv, LoadsAsWritten
<1> QED BY <1>1, <1>2 DEF Overrides

LEMMA ValidatesKeeps == ASSUME ConfigInv, Validates PROVE ConfigInv'
<1>1. DocInv /\ EnvInv /\ raw = ApplyEnv(Merged) /\ ~Unreadable
  BY DEF ConfigInv, Validates
<1>2. CASE (Unsortable(raw) \/ Unhashable(raw)) /\ LoadEnds("crashed")
  BY <1>1, <1>2, NothingToRefuse, CrashesFrom, EndsAsWritten
<1>3. CASE Problems(raw) /= {} /\ LoadEnds("refused")
  BY <1>1, <1>3, NothingToRefuse, EndsAsWritten
<1>4. CASE Problems(raw) = {} /\ LoadEnds("build")
  <2>1. Merged' = Merged
    BY <1>4 DEF LoadEnds, Merged, Read, Asked, MergeDict, Scalars, Written
  <2>2. ApplyEnv(Merged)' = ApplyEnv(Merged) /\ Unreadable' = Unreadable /\ Problems(raw)' = Problems(raw)
    BY <1>4, <2>1 DEF LoadEnds, ApplyEnv, SetDotted, Unreadable, Problems
  <2>3. DocInv' /\ EnvInv'
    BY <1>4 DEF LoadEnds, ConfigInv, DocInv, EnvInv
  <2> QED BY <1>1, <1>4, <2>2, <2>3 DEF LoadEnds, ConfigInv, LoadsAsWritten
<1> QED BY <1>2, <1>3, <1>4 DEF Validates

LEMMA BuildsKeeps == ASSUME ConfigInv, Builds PROVE ConfigInv'
<1>1. DocInv /\ EnvInv /\ raw = ApplyEnv(Merged) /\ ~Unreadable /\ Problems(raw) = {}
  BY DEF ConfigInv, Builds
<1>2. CASE Incomplete(raw) /\ LoadEnds("crashed")
  BY <1>1, <1>2, NothingToRefuse, CrashesFrom, EndsAsWritten
<1>3. CASE /\ ~Incomplete(raw)
           /\ config' = raw.value /\ stage' = "loaded"
           /\ UNCHANGED <<argument, named, standard, doc, env, raw>>
  <2>1. Read' = Read
    BY <1>3 DEF Read, Asked
  <2>2. LoadsAsWritten'
    BY <1>1, <1>3, <2>1, BuiltAsWritten DEF LoadsAsWritten
  <2>3. DocInv' /\ EnvInv'
    BY <1>1, <1>3 DEF DocInv, EnvInv
  <2> QED BY <1>3, <2>2, <2>3 DEF ConfigInv
<1> QED BY <1>2, <1>3 DEF Builds

(* A configuration that is built says what was written, a variable over    *)
(* the file over the defaults, and nothing is ignored; without a mistake   *)
(* it is built; one that is not built is refused with an explanation, but  *)
(* for the files and the mistakes that raise another error (load_config).  *)
THEOREM ConfigurationsAreLoaded ==
    ASSUME ConfigurationAssumption PROVE ConfigurationSpec => []LoadsAsWritten
<1>1. ConfigInv /\ [ConfigurationNext]_vars => ConfigInv'
  <2>1. ASSUME ConfigInv, UNCHANGED vars PROVE ConfigInv'
    <3>1. /\ DocInv' = DocInv /\ EnvInv' = EnvInv /\ Read' = Read
          /\ Unreadable' = Unreadable /\ LoadsAsWritten' = LoadsAsWritten
      BY <2>1 DEF vars, DocInv, EnvInv, Read, Asked, Unreadable, LoadsAsWritten, Mistakes, Unexplained
    <3>2. Merged' = Merged /\ Problems(raw)' = Problems(raw)
      BY <2>1, <3>1 DEF vars, Merged, MergeDict, Scalars, Written, Problems
    <3>3. ApplyEnv(Merged)' = ApplyEnv(Merged)
      BY <2>1, <3>2 DEF vars, ApplyEnv, SetDotted
    <3> QED BY <2>1, <3>1, <3>2, <3>3 DEF vars, ConfigInv
  <2> QED BY <2>1, ResolveKeeps, OverridesKeeps, ValidatesKeeps, BuildsKeeps DEF ConfigurationNext
<1>2. ConfigInv => LoadsAsWritten
  BY DEF ConfigInv
<1> QED BY <1>1, <1>2, ConfigStarts, PTL DEF ConfigurationSpec
-----------------------------------------------------------------------------
(* What a page keeps: WebFetch.                                            *)

Items == {<<"[">>, <<"]">>} \cup {<<"text", n>> : n \in Nat}
Marks == {Plain, Heading, Bullet} \cup {Number(k) : k \in Nat}
Extractors ==
    [skip : Nat, pre : Nat, title : BOOLEAN, prefix : Marks, link : BOOLEAN,
     lists : Seq(Lists), counters : Seq(Nat), current : Seq(Items),
     blocks : Seq([prefix : Marks, items : Seq(Items)])]
Elements == [tag : Tags, items : Nat, fresh : BOOLEAN]

WebTyped ==
    /\ webRequest \in Requests
    /\ fetch = [at |-> fetch.at, hops |-> fetch.hops, cut |-> fetch.cut, page |-> fetch.page]
    /\ fetch.page => fetch.at \in {"page", "told"}
    /\ extractor \in Extractors
    /\ Len(extractor.lists) = Len(extractor.counters)
    /\ open \in Seq(Elements)
    /\ texts \in Seq([visible : BOOLEAN, item : Nat])
    /\ unended \in BOOLEAN
    /\ result = [success |-> result.success, truncated |-> result.truncated,
                 content |-> result.content]

(* What has been kept is visible and in order, and what is not yet in a    *)
(* block comes last.                                                       *)
HeldBy(e) == TextsOf(e.blocks) \cup TextsIn(e.current)
OrderedIn(e) ==
    /\ InOrder(e.blocks) /\ ItemsInOrder(e.current)
    /\ \A m \in TextsOf(e.blocks), n \in TextsIn(e.current) : m < n
KeptInv == OrderedIn(extractor) /\ HeldBy(extractor) \subseteq Visible

(* What the page hides is skipped at least.                                *)
SkipInv ==
    /\ \A i \in DOMAIN open : open[i].tag \in SkipTags => extractor.skip > Len(open) - i
    /\ \A i \in DOMAIN open : open[i].tag = "title" => Len(open) = 1
    /\ extractor.title <=> InTitle /\ extractor.skip = 0
    /\ \A i \in DOMAIN open : open[i].fresh => i = Len(open) /\ open[i].tag = "li"

(* As long as every tag has had its end, no more is skipped and no text is *)
(* lost.                                                                   *)
Height == Len(open) - extractor.skip
WholeInv ==
    /\ extractor.skip <= Len(open)
    /\ \A i \in 1..Height : open[i].tag \notin SkipTags
    /\ extractor.skip > 0 => open[Height + 1].tag \in SkipTags
    /\ Visible \subseteq HeldBy(extractor)

(* Then the lists of the extractor are those that are open, and the item   *)
(* that begins has its number.                                             *)
ListsAt(e, place) ==
    /\ place \in [DOMAIN e.lists -> 1..Height]
    /\ \A j, k \in DOMAIN place : j < k => place[j] < place[k]
    /\ \A k \in DOMAIN place :
         /\ open[place[k]].tag = e.lists[k]
         /\ e.lists[k] = "ol" => e.counters[k] = open[place[k]].items
    /\ \A i \in 1..Height : open[i].tag \in Lists => \E k \in DOMAIN place : place[k] = i
BlocksBear(blocks) == \A b \in DOMAIN blocks : Bears(blocks[b].prefix, blocks[b].items)
ItemBegins ==
    Parent = "li" /\ Last(open).fresh /\ extractor.skip = 0 =>
      /\ extractor.current = <<>>
      /\ Len(open) > 1 /\ open[Len(open) - 1].tag = "ol" =>
           extractor.prefix = Number(open[Len(open) - 1].items)
NumberInv ==
    /\ \E place : ListsAt(extractor, place)
    /\ BlocksBear(extractor.blocks) /\ Bears(extractor.prefix, extractor.current)
    /\ ItemBegins

(* What is told is all the blocks, or a first part of them.                *)
FirstPart(content, blocks) ==
    \E b \in DOMAIN blocks : \E i \in 0..Len(blocks[b].items) : content = CutAt(blocks, b, i)
ToldInv ==
    HtmlTold =>
      /\ extractor.current = <<>>
      /\ \/ result.content = extractor.blocks
         \/ result.truncated /\ FirstPart(result.content, extractor.blocks)

PageInv ==
    /\ WebTyped /\ KeptInv /\ SkipInv /\ ToldInv
    /\ ~unended => WholeInv
    /\ ~unended /\ Markdown => NumberInv

-----------------------------------------------------------------------------
(* Items and blocks one after the other.                                   *)
IsWord(i) == i[1] = "text"

LEMMA Words ==
    /\ ~IsWord(<<"[">>) /\ ~IsWord(<<"]">>)
    /\ \A n : IsWord(<<"text", n>>) /\ <<"text", n>>[2] = n
    /\ \A n : <<"[">> /= <<"text", n>> /\ <<"]">> /= <<"text", n>>
    /\ \A m, n : <<"text", m>> = <<"text", n>> => m = n
<1>1. ~IsWord(<<"[">>) /\ ~IsWord(<<"]">>)
  BY DEF IsWord
<1>2. \A n : IsWord(<<"text", n>>) /\ <<"text", n>>[2] = n
  BY DEF IsWord
<1>3. \A n : <<"[">> /= <<"text", n>> /\ <<"]">> /= <<"text", n>>
  BY <1>1, <1>2
<1> QED BY <1>1, <1>2, <1>3

LEMMA OneMoreItem ==
    ASSUME NEW items \in Seq(Items), NEW i \in Items, ItemsInOrder(items),
           IsWord(i) => \A m \in TextsIn(items) : m < i[2]
    PROVE  /\ Append(items, i) \in Seq(Items) /\ Append(items, i) /= <<>>
           /\ ItemsInOrder(Append(items, i))
           /\ TextsIn(Append(items, i)) = TextsIn(items) \cup (IF IsWord(i) THEN {i[2]} ELSE {})
           /\ Append(items, i)[1] = IF items = <<>> THEN i ELSE items[1]
<1> DEFINE more == Append(items, i)
<1>1. /\ more \in Seq(Items) /\ more /= <<>> /\ Len(more) = Len(items) + 1
      /\ \A j \in DOMAIN items : more[j] = items[j]
      /\ more[Len(items) + 1] = i
      /\ DOMAIN items = 1..Len(items) /\ DOMAIN more = 1..(Len(items) + 1) /\ Len(items) \in Nat
  OBVIOUS
<1>2. more[1] = IF items = <<>> THEN i ELSE items[1]
  BY <1>1
<1>3. TextsIn(more) = TextsIn(items) \cup (IF IsWord(i) THEN {i[2]} ELSE {})
  BY <1>1 DEF TextsIn, IsWord
<1>4. ItemsInOrder(more)
  <2> SUFFICES ASSUME NEW j \in DOMAIN more, NEW k \in DOMAIN more, j < k, IsWord(more[j]),
                      IsWord(more[k])
               PROVE  more[j][2] < more[k][2]
    BY DEF ItemsInOrder, IsWord
  <2>1. j \in DOMAIN items /\ j \in Nat /\ k \in Nat
    BY <1>1
  <2>2. CASE k \in DOMAIN items
    BY <1>1, <2>1, <2>2 DEF ItemsInOrder, IsWord
  <2>3. CASE k = Len(items) + 1
    BY <1>1, <2>1, <2>3 DEF TextsIn, IsWord
  <2> QED BY <1>1, <2>2, <2>3
<1> QED BY <1>1, <1>2, <1>3, <1>4

LEMMA OneMoreBlock ==
    ASSUME NEW S, NEW blocks \in Seq(S), NEW b \in S, InOrder(blocks), ItemsInOrder(b.items),
           \A m \in TextsOf(blocks), n \in TextsIn(b.items) : m < n
    PROVE  /\ Append(blocks, b) \in Seq(S)
           /\ InOrder(Append(blocks, b))
           /\ TextsOf(Append(blocks, b)) = TextsOf(blocks) \cup TextsIn(b.items)
<1> DEFINE more == Append(blocks, b)
<1>1. /\ more \in Seq(S) /\ Len(more) = Len(blocks) + 1
      /\ \A j \in DOMAIN blocks : more[j] = blocks[j]
      /\ more[Len(blocks) + 1] = b
      /\ DOMAIN blocks = 1..Len(blocks) /\ DOMAIN more = 1..(Len(blocks) + 1) /\ Len(blocks) \in Nat
  OBVIOUS
<1> HIDE DEF more
<1>2. TextsOf(more) = TextsOf(blocks) \cup TextsIn(b.items)
  BY <1>1 DEF TextsOf
<1>3. \A c \in DOMAIN more : ItemsInOrder(more[c].items)
  BY <1>1 DEF InOrder
<1>4. ASSUME NEW c \in DOMAIN more, NEW d \in DOMAIN more, c < d,
             NEW m \in TextsIn(more[c].items), NEW n \in TextsIn(more[d].items)
      PROVE  m < n
  <2>1. c \in DOMAIN blocks /\ c \in Nat /\ d \in Nat
    BY <1>1, <1>4
  <2>2. CASE d \in DOMAIN blocks
    BY <1>1, <1>4, <2>1, <2>2 DEF InOrder
  <2>3. CASE d = Len(blocks) + 1
    BY <1>1, <1>4, <2>1, <2>3 DEF TextsOf
  <2> QED BY <1>1, <2>2, <2>3
<1> QED BY <1>1, <1>2, <1>3, <1>4 DEF InOrder, more

-----------------------------------------------------------------------------
(* What the callbacks keep.                                                *)
Bearing(e) == BlocksBear(e.blocks) /\ Bears(e.prefix, e.current)
Sound(e) == e \in Extractors /\ Len(e.lists) = Len(e.counters) /\ OrderedIn(e)
Keeps(e, d) == Sound(d) /\ HeldBy(d) = HeldBy(e) /\ (Bearing(e) => Bearing(d))

LEMMA EmptyIsFine ==
    /\ TextsIn(<<>>) = {} /\ ItemsInOrder(<<>>) /\ \A p : Bears(p, <<>>)
    /\ TextsOf(<<>>) = {} /\ InOrder(<<>>) /\ BlocksBear(<<>>)
  BY DEF TextsIn, ItemsInOrder, Bears, TextsOf, InOrder, BlocksBear

LEMMA FlushKeeps ==
    ASSUME NEW e, Sound(e)
    PROVE  /\ Keeps(e, Flush(e)) /\ Flush(e).current = <<>>
           /\ Flush(e).skip = e.skip /\ Flush(e).title = e.title /\ Flush(e).prefix = e.prefix
           /\ Flush(e).lists = e.lists /\ Flush(e).counters = e.counters
<1>1. CASE e.current = <<>>
  BY <1>1 DEF Flush, Keeps
<1>2. CASE e.current /= <<>>
  <2> DEFINE b == [prefix |-> e.prefix, items |-> e.current]
             d == Flush(e)
  <2>1. d = [e EXCEPT !.blocks = Append(e.blocks, b), !.current = <<>>]
    BY <1>2 DEF Flush
  <2>2. /\ b \in [prefix : Marks, items : Seq(Items)]
        /\ e.blocks \in Seq([prefix : Marks, items : Seq(Items)])
    BY DEF Sound, Extractors
  <2>3. /\ d.blocks = Append(e.blocks, b) /\ d.current = <<>>
        /\ d.skip = e.skip /\ d.title = e.title /\ d.prefix = e.prefix
        /\ d.lists = e.lists /\ d.counters = e.counters
    BY <2>1 DEF Sound, Extractors
  <2>4. /\ d.blocks \in Seq([prefix : Marks, items : Seq(Items)]) /\ InOrder(d.blocks)
        /\ TextsOf(d.blocks) = TextsOf(e.blocks) \cup TextsIn(e.current)
    <3> DEFINE S == [prefix : Marks, items : Seq(Items)]
    <3>1. e.blocks \in Seq(S) /\ b \in S /\ b.items = e.current
      BY <2>2
    <3>2. /\ InOrder(e.blocks)
          /\ ItemsInOrder(b.items)
          /\ \A m \in TextsOf(e.blocks), n \in TextsIn(b.items) : m < n
      BY <3>1 DEF Sound, OrderedIn
    <3> HIDE DEF b, S
    <3>3. /\ Append(e.blocks, b) \in Seq(S) /\ InOrder(Append(e.blocks, b))
          /\ TextsOf(Append(e.blocks, b)) = TextsOf(e.blocks) \cup TextsIn(b.items)
      BY <3>1, <3>2, OneMoreBlock
    <3> QED BY <2>3, <3>1, <3>3 DEF S
  <2>5. d \in Extractors
    <3>1. <<>> \in Seq(Items)
      OBVIOUS
    <3> HIDE DEF b
    <3>2. Append(e.blocks, b) \in Seq([prefix : Marks, items : Seq(Items)])
      BY <2>3, <2>4
    <3> QED BY <2>1, <3>1, <3>2 DEF Sound, Extractors
  <2>6. OrderedIn(d) /\ HeldBy(d) = HeldBy(e)
    BY <2>3, <2>4, EmptyIsFine DEF OrderedIn, HeldBy
  <2>7. ASSUME Bearing(e) PROVE Bearing(d)
    <3>1. ASSUME NEW c \in DOMAIN d.blocks PROVE Bears(d.blocks[c].prefix, d.blocks[c].items)
      <4>1. CASE c \in DOMAIN e.blocks
        BY <2>2, <2>3, <2>7, <4>1 DEF Bearing, BlocksBear
      <4>2. CASE c = Len(e.blocks) + 1
        BY <2>2, <2>3, <2>7, <4>2 DEF Bearing
      <4> QED BY <2>2, <2>3, <4>1, <4>2
    <3> QED BY <2>3, <3>1, EmptyIsFine DEF Bearing, BlocksBear
  <2> QED BY <2>3, <2>5, <2>6, <2>7 DEF Keeps, Sound
<1> QED BY <1>1, <1>2

LEMMA MarksOfNumbers == \A k \in Nat : Number(k) \in Marks
  BY DEF Marks

LEMMA ListTop ==
    ASSUME NEW e, Sound(e), e.lists /= <<>>
    PROVE  /\ Len(e.lists) \in Nat /\ Len(e.lists) > 0
           /\ Last(e.lists) = e.lists[Len(e.lists)] /\ Last(e.counters) = e.counters[Len(e.lists)]
           /\ Last(e.counters) \in Nat
           /\ Front(e.lists) \in Seq(Lists) /\ Front(e.counters) \in Seq(Nat)
           /\ Len(Front(e.lists)) = Len(e.lists) - 1 /\ Len(Front(e.counters)) = Len(e.lists) - 1
           /\ \A k \in 1..(Len(e.lists) - 1) : Front(e.lists)[k] = e.lists[k] /\ Front(e.counters)[k] = e.counters[k]
<1>1. e.lists \in Seq(Lists) /\ e.counters \in Seq(Nat) /\ Len(e.lists) = Len(e.counters)
  BY DEF Sound, Extractors
<1> QED BY <1>1 DEF Last, Front

(* A change of nothing the order or the numbers depend on.                 *)
LEMMA OtherFields ==
    ASSUME NEW e, Sound(e), NEW d, d \in Extractors, Len(d.lists) = Len(d.counters),
           d.blocks = e.blocks, d.current = e.current,
           d.prefix = e.prefix \/ e.current = <<>>
    PROVE  Keeps(e, d)
<1>1. Sound(d) /\ HeldBy(d) = HeldBy(e)
  BY DEF Sound, OrderedIn, HeldBy
<1>2. Bearing(e) => Bearing(d)
  BY EmptyIsFine DEF Bearing
<1> QED BY <1>1, <1>2 DEF Keeps

LEMMA KeepsItself == ASSUME NEW e, Sound(e) PROVE Keeps(e, e)
  BY DEF Keeps

LEMMA KeepsTransitive ==
    ASSUME NEW e, NEW f, NEW d, Keeps(e, f), Keeps(f, d) PROVE Keeps(e, d)
  BY DEF Keeps

(* A bracket of a link.                                                    *)
LEMMA BracketKeeps ==
    ASSUME NEW e, Sound(e), NEW i \in {<<"[">>, <<"]">>}, NEW link \in BOOLEAN
    PROVE  Keeps(e, [e EXCEPT !.link = link, !.current = Append(@, i)])
<1> DEFINE d == [e EXCEPT !.link = link, !.current = Append(@, i)]
<1>1. e.current \in Seq(Items) /\ i \in Items /\ ~IsWord(i) /\ ItemsInOrder(e.current)
  BY Words DEF Sound, Extractors, Items, OrderedIn
<1>2. /\ Append(e.current, i) \in Seq(Items) /\ ItemsInOrder(Append(e.current, i))
      /\ TextsIn(Append(e.current, i)) = TextsIn(e.current)
      /\ Append(e.current, i)[1] = IF e.current = <<>> THEN i ELSE e.current[1]
  BY <1>1, OneMoreItem
<1>3. /\ d \in Extractors /\ d.current = Append(e.current, i) /\ d.blocks = e.blocks
      /\ d.prefix = e.prefix /\ d.lists = e.lists /\ d.counters = e.counters
  BY <1>2 DEF Sound, Extractors
<1>4. Sound(d) /\ HeldBy(d) = HeldBy(e)
  BY <1>2, <1>3 DEF Sound, OrderedIn, HeldBy
<1>5. Bearing(e) => Bearing(d)
  BY <1>2, <1>3, Words DEF Bearing, Bears
<1> QED BY <1>4, <1>5 DEF Keeps

(* One tag is one case of the callbacks.                                   *)
LEMMA KindsApart ==
    ASSUME NEW tag
    PROVE  /\ tag \in SkipTags => tag \notin {"title", "li", "a"} \cup Headings \cup Lists \cup BlockTags
           /\ tag = "title" => tag \notin {"li", "a"} \cup Headings \cup Lists \cup BlockTags
           /\ tag \in Headings => tag \notin {"li", "a"} \cup Lists \cup BlockTags
           /\ tag \in Lists => tag \notin {"li", "a"} \cup BlockTags
           /\ tag = "li" => tag # "a" /\ tag \notin BlockTags
           /\ tag = "a" => tag \notin BlockTags
  BY DEF SkipTags, Headings, Lists, BlockTags

Pre(e, tag) == [e EXCEPT !.pre = IF tag = "pre" THEN @ + 1 ELSE @]
Unpre(e, tag) == [e EXCEPT !.pre = IF tag = "pre" /\ @ > 0 THEN @ - 1 ELSE @]

LEMMA StartTagIs ==
    ASSUME NEW e, NEW tag, e.skip = 0
    PROVE  /\ tag \in SkipTags => StartTag(e, tag) = [e EXCEPT !.skip = 1]
           /\ tag = "title" => StartTag(e, tag) = [e EXCEPT !.title = TRUE]
           /\ tag \in Headings =>
                StartTag(e, tag) = [Flush(e) EXCEPT !.prefix = IF Markdown THEN Heading ELSE Plain]
           /\ tag \in Lists => StartTag(e, tag) = StartsList(Flush(e), tag)
           /\ tag = "li" => StartTag(e, tag) = StartsItem(Flush(e))
           /\ tag = "a" =>
                StartTag(e, tag) = IF Markdown THEN [e EXCEPT !.link = TRUE, !.current = Append(@, <<"[">>)] ELSE e
           /\ tag \in BlockTags => StartTag(e, tag) = Flush(Pre(e, tag))
           /\ tag \notin SkipTags \cup {"title", "li", "a"} \cup Headings \cup Lists \cup BlockTags =>
                StartTag(e, tag) = e
<1>1. ~(e.skip > 0)
  OBVIOUS
<1>2. CASE tag \in SkipTags
  BY <1>1, <1>2, KindsApart, Zenon DEF StartTag
<1>3. CASE tag = "title"
  BY <1>1, <1>3, KindsApart, Zenon DEF StartTag
<1>4. CASE tag \in Headings
  BY <1>1, <1>4, KindsApart, Zenon DEF StartTag
<1>5. CASE tag \in Lists
  BY <1>1, <1>5, KindsApart, Zenon DEF StartTag
<1>6. CASE tag = "li"
  BY <1>1, <1>6, KindsApart, Zenon DEF StartTag
<1>7. CASE tag = "a"
  BY <1>1, <1>7, KindsApart, Zenon DEF StartTag
<1>8. CASE tag \in BlockTags
  BY <1>1, <1>8, KindsApart, Zenon DEF StartTag, Pre
<1>9. CASE tag \notin SkipTags \cup {"title", "li", "a"} \cup Headings \cup Lists \cup BlockTags
  BY <1>1, <1>9, Zenon DEF StartTag
<1> QED BY <1>2, <1>3, <1>4, <1>5, <1>6, <1>7, <1>8, <1>9

LEMMA OneChanged ==
    ASSUME NEW S, NEW c \in Seq(S), NEW i \in 1..Len(c), NEW v \in S
    PROVE  /\ [c EXCEPT ![i] = v] \in Seq(S) /\ Len([c EXCEPT ![i] = v]) = Len(c)
           /\ [c EXCEPT ![i] = v][i] = v
           /\ \A j \in 1..Len(c) : j # i => [c EXCEPT ![i] = v][j] = c[j]
  OBVIOUS

SameLists(e, d) == d.lists = e.lists /\ d.counters = e.counters
Numbered(e) == e.lists /= <<>> /\ Last(e.lists) = "ol"
Counted(e) == [e.counters EXCEPT ![Len(e.counters)] = Last(e.counters) + 1]

(* handle_starttag: what it does to the depth, the title and the lists.    *)
Started(e, d, tag) ==
    /\ e.skip > 0 => d.skip = e.skip + 1 /\ d.title = e.title /\ SameLists(e, d)
    /\ e.skip = 0 /\ tag \in SkipTags => d.skip = 1 /\ d.title = e.title /\ SameLists(e, d)
    /\ e.skip = 0 /\ tag \notin SkipTags =>
         /\ d.skip = 0 /\ (d.title <=> tag = "title" \/ e.title)
         /\ tag \in Lists => d.lists = Append(e.lists, tag) /\ d.counters = Append(e.counters, 0)
         /\ tag \notin Lists => d.lists = e.lists
         /\ tag \notin Lists \cup {"li"} => d.counters = e.counters
         /\ tag = "li" /\ Markdown =>
              /\ d.current = <<>>
              /\ Numbered(e) => d.prefix = Number(Last(e.counters) + 1) /\ d.counters = Counted(e)
              /\ ~Numbered(e) => d.counters = e.counters

LEMMA IsExtractor ==
    ASSUME NEW e, Sound(e)
    PROVE  /\ e \in Extractors /\ e.skip \in Nat /\ e.title \in BOOLEAN /\ e.prefix \in Marks
           /\ e.lists \in Seq(Lists) /\ e.counters \in Seq(Nat) /\ Len(e.lists) = Len(e.counters)
  BY DEF Sound, Extractors

LEMMA SkipStarts ==
    ASSUME NEW e, Sound(e), NEW tag, e.skip > 0 \/ tag \in SkipTags \cup {"title"}
    PROVE  Keeps(e, StartTag(e, tag)) /\ Started(e, StartTag(e, tag), tag)
<1> DEFINE d == StartTag(e, tag)
<1>0. e \in Extractors /\ e.skip \in Nat /\ Len(e.lists) = Len(e.counters)
  BY IsExtractor
<1>1. CASE e.skip > 0
  <2> DEFINE n == e.skip + 1
  <2>1. d = [e EXCEPT !.skip = n] /\ n \in Nat
    BY <1>0, <1>1 DEF StartTag, Deeper
  <2> HIDE DEF d, n
  <2>2. /\ d \in Extractors /\ Len(d.lists) = Len(d.counters) /\ d.blocks = e.blocks
        /\ d.current = e.current /\ d.prefix = e.prefix
        /\ d.skip = n /\ d.title = e.title /\ SameLists(e, d)
    BY <1>0, <2>1 DEF Extractors, SameLists
  <2>3. Keeps(e, d)
    BY <2>2, OtherFields
  <2>4. Started(e, d, tag)
    BY <1>1, <2>2 DEF Started, n
  <2> QED BY <2>3, <2>4 DEF d
<1>2. CASE e.skip = 0 /\ tag \in SkipTags
  <2>1. d = [e EXCEPT !.skip = 1]
    BY <1>2, StartTagIs
  <2> HIDE DEF d
  <2>2. /\ d \in Extractors /\ Len(d.lists) = Len(d.counters) /\ d.blocks = e.blocks
        /\ d.current = e.current /\ d.prefix = e.prefix
        /\ d.skip = 1 /\ d.title = e.title /\ SameLists(e, d)
    BY <1>0, <2>1 DEF Extractors, SameLists
  <2>3. Keeps(e, d)
    BY <2>2, OtherFields
  <2>4. Started(e, d, tag)
    BY <1>2, <2>2 DEF Started
  <2> QED BY <2>3, <2>4 DEF d
<1>3. CASE e.skip = 0 /\ tag = "title"
  <2>1. d = [e EXCEPT !.title = TRUE]
    BY <1>3, StartTagIs
  <2> HIDE DEF d
  <2>2. /\ d \in Extractors /\ Len(d.lists) = Len(d.counters) /\ d.blocks = e.blocks
        /\ d.current = e.current /\ d.prefix = e.prefix
        /\ d.skip = 0 /\ d.title /\ SameLists(e, d)
    BY <1>0, <1>3, <2>1 DEF Extractors, SameLists
  <2>3. Keeps(e, d)
    BY <2>2, OtherFields
  <2>4. Started(e, d, tag)
    BY <1>3, <2>2, KindsApart DEF Started, SameLists
  <2> QED BY <2>3, <2>4 DEF d
<1> QED BY <1>0, <1>1, <1>2, <1>3

LEMMA HeadingStarts ==
    ASSUME NEW e, Sound(e), NEW tag \in Headings, e.skip = 0
    PROVE  Keeps(e, StartTag(e, tag)) /\ Started(e, StartTag(e, tag), tag)
<1> DEFINE d == StartTag(e, tag)
           f == Flush(e)
<1>1. /\ Keeps(e, f) /\ Sound(f) /\ f.current = <<>> /\ f.skip = e.skip /\ f.title = e.title
      /\ f.lists = e.lists /\ f.counters = e.counters
  BY FlushKeeps DEF Keeps
<1>2. d = [f EXCEPT !.prefix = IF Markdown THEN Heading ELSE Plain]
  BY StartTagIs
<1> HIDE DEF d, f
<1>3. f \in Extractors /\ Len(f.lists) = Len(f.counters)
  BY <1>1, IsExtractor
<1>4. /\ d \in Extractors /\ Len(d.lists) = Len(d.counters) /\ d.blocks = f.blocks
      /\ d.current = f.current /\ d.skip = f.skip /\ d.title = f.title /\ SameLists(f, d)
  BY <1>2, <1>3 DEF Extractors, SameLists, Marks
<1>5. Keeps(e, d)
  BY <1>1, <1>4, OtherFields, KeepsTransitive
<1>6. Started(e, d, tag)
  BY <1>1, <1>4, KindsApart DEF Started, SameLists
<1> QED BY <1>5, <1>6 DEF d

LEMMA ListStarts ==
    ASSUME NEW e, Sound(e), NEW tag \in Lists, e.skip = 0
    PROVE  Keeps(e, StartTag(e, tag)) /\ Started(e, StartTag(e, tag), tag)
<1> DEFINE d == StartTag(e, tag)
           f == Flush(e)
<1>1. /\ Keeps(e, f) /\ Sound(f) /\ f.current = <<>> /\ f.skip = e.skip /\ f.title = e.title
      /\ f.lists = e.lists /\ f.counters = e.counters
  BY FlushKeeps DEF Keeps
<1>2. d = [f EXCEPT !.lists = Append(f.lists, tag), !.counters = Append(f.counters, 0)]
  BY StartTagIs DEF StartsList
<1> HIDE DEF d, f
<1>3. /\ f \in Extractors /\ f.lists \in Seq(Lists) /\ f.counters \in Seq(Nat)
      /\ Len(f.lists) = Len(f.counters)
  BY <1>1, IsExtractor
<1>4. /\ Append(f.lists, tag) \in Seq(Lists) /\ Append(f.counters, 0) \in Seq(Nat)
      /\ Len(Append(f.lists, tag)) = Len(Append(f.counters, 0))
  BY <1>3
<1>5. /\ d \in Extractors /\ Len(d.lists) = Len(d.counters) /\ d.blocks = f.blocks
      /\ d.current = f.current /\ d.skip = f.skip /\ d.title = f.title
      /\ d.lists = Append(f.lists, tag) /\ d.counters = Append(f.counters, 0)
  BY <1>2, <1>3, <1>4 DEF Extractors
<1>6. Keeps(e, d)
  BY <1>1, <1>5, OtherFields, KeepsTransitive
<1>7. Started(e, d, tag)
  BY <1>1, <1>5, KindsApart DEF Started
<1> QED BY <1>6, <1>7 DEF d

LEMMA ItemStarts ==
    ASSUME NEW e, Sound(e), e.skip = 0
    PROVE  Keeps(e, StartTag(e, "li")) /\ Started(e, StartTag(e, "li"), "li")
<1> DEFINE d == StartTag(e, "li")
           f == Flush(e)
<1>1. /\ Keeps(e, f) /\ Sound(f) /\ f.current = <<>> /\ f.skip = e.skip /\ f.title = e.title
      /\ f.lists = e.lists /\ f.counters = e.counters
  BY FlushKeeps DEF Keeps
<1>2. d = StartsItem(f)
  BY StartTagIs
<1> HIDE DEF d, f
<1>3. /\ f \in Extractors /\ f.lists \in Seq(Lists) /\ f.counters \in Seq(Nat)
      /\ Len(f.lists) = Len(f.counters)
  BY <1>1, IsExtractor
<1>4. CASE ~Markdown
  <2>1. d = f
    BY <1>2, <1>4 DEF StartsItem
  <2>2. Started(e, d, "li")
    BY <1>1, <1>4, <2>1, KindsApart DEF Started
  <2> QED BY <1>1, <2>1, <2>2 DEF d
<1>5. CASE Markdown /\ Numbered(f)
  <2>1. Last(f.counters) \in Nat /\ Len(f.counters) \in Nat
    BY <1>1, <1>3, <1>5, ListTop DEF Numbered
  <2>2. /\ Counted(f) \in Seq(Nat)
        /\ Len(Counted(f)) = Len(f.counters)
        /\ Number(Last(f.counters) + 1) \in Marks
    <3>1. Len(f.counters) \in 1..Len(f.counters)
      BY <1>1, <1>3, <1>5, ListTop DEF Numbered
    <3> QED BY <1>3, <2>1, <3>1, OneChanged, MarksOfNumbers DEF Counted
  <2>3. d = [f EXCEPT !.prefix = Number(Last(f.counters) + 1), !.counters = Counted(f)]
    <3>1. Last(f.counters) = f.counters[Len(f.counters)]
      BY DEF Last
    <3>2. Counted(f) = [f.counters EXCEPT ![Len(f.counters)] = @ + 1]
      BY <3>1 DEF Counted
    <3> QED BY <1>2, <1>5, <3>2 DEF StartsItem, ItemPrefix, Numbered
  <2>4. /\ d \in Extractors /\ Len(d.lists) = Len(d.counters) /\ d.blocks = f.blocks
        /\ d.current = f.current /\ d.skip = f.skip /\ d.title = f.title /\ d.lists = f.lists
        /\ d.prefix = Number(Last(f.counters) + 1) /\ d.counters = Counted(f)
    BY <1>3, <2>2, <2>3 DEF Extractors
  <2>5. Keeps(e, d)
    BY <1>1, <2>4, OtherFields, KeepsTransitive
  <2>6. Started(e, d, "li")
    BY <1>1, <1>5, <2>4, KindsApart DEF Started, Numbered, Counted
  <2> QED BY <2>5, <2>6 DEF d
<1>6. CASE Markdown /\ ~Numbered(f)
  <2>1. d = [f EXCEPT !.prefix = Bullet, !.counters = f.counters]
    BY <1>2, <1>6 DEF StartsItem, ItemPrefix, Numbered
  <2>2. /\ d \in Extractors /\ Len(d.lists) = Len(d.counters) /\ d.blocks = f.blocks
        /\ d.current = f.current /\ d.skip = f.skip /\ d.title = f.title /\ SameLists(f, d)
    BY <1>3, <2>1 DEF Extractors, SameLists, Marks
  <2>3. Keeps(e, d)
    BY <1>1, <2>2, OtherFields, KeepsTransitive
  <2>4. Started(e, d, "li")
    BY <1>1, <1>6, <2>2, KindsApart DEF Started, Numbered, SameLists
  <2> QED BY <2>3, <2>4 DEF d
<1> QED BY <1>4, <1>5, <1>6

LEMMA LinkStarts ==
    ASSUME NEW e, Sound(e), e.skip = 0
    PROVE  Keeps(e, StartTag(e, "a")) /\ Started(e, StartTag(e, "a"), "a")
<1> DEFINE d == StartTag(e, "a")
<1>1. d = IF Markdown THEN [e EXCEPT !.link = TRUE, !.current = Append(@, <<"[">>)] ELSE e
  BY StartTagIs
<1> HIDE DEF d
<1>2. e \in Extractors
  BY IsExtractor
<1>3. Keeps(e, d)
  BY <1>1, BracketKeeps, KeepsItself
<1>4. d.skip = e.skip /\ d.title = e.title /\ SameLists(e, d)
  <2>1. CASE Markdown
    BY <1>1, <1>2, <2>1 DEF Extractors, SameLists
  <2> QED BY <1>1, <2>1 DEF SameLists
<1>5. Started(e, d, "a")
  BY <1>4, KindsApart DEF Started, SameLists
<1> QED BY <1>3, <1>5 DEF d

LEMMA PreKeeps ==
    ASSUME NEW e, Sound(e), NEW d, NEW n \in Nat, d = [e EXCEPT !.pre = n]
    PROVE  /\ Keeps(e, Flush(d)) /\ Flush(d).skip = e.skip /\ Flush(d).title = e.title
           /\ SameLists(e, Flush(d))
<1>1. e \in Extractors /\ Len(e.lists) = Len(e.counters)
  BY IsExtractor
<1>2. /\ d \in Extractors /\ Len(d.lists) = Len(d.counters) /\ d.blocks = e.blocks
      /\ d.current = e.current /\ d.prefix = e.prefix /\ d.skip = e.skip /\ d.title = e.title
      /\ d.lists = e.lists /\ d.counters = e.counters
  BY <1>1 DEF Extractors
<1>3. Keeps(e, d) /\ Sound(d)
  BY <1>2, OtherFields DEF Keeps
<1> QED BY <1>2, <1>3, FlushKeeps, KeepsTransitive DEF SameLists

LEMMA PreIs ==
    ASSUME NEW e, Sound(e), NEW tag
    PROVE  /\ \E n \in Nat : Pre(e, tag) = [e EXCEPT !.pre = n]
           /\ \E n \in Nat : Unpre(e, tag) = [e EXCEPT !.pre = n]
<1>1. e.pre \in Nat
  BY DEF Sound, Extractors
<1>2. (IF tag = "pre" THEN e.pre + 1 ELSE e.pre) \in Nat /\ (IF tag = "pre" /\ e.pre > 0 THEN e.pre - 1 ELSE e.pre) \in Nat
  BY <1>1
<1> QED BY <1>2, Zenon DEF Pre, Unpre

LEMMA BlockStarts ==
    ASSUME NEW e, Sound(e), NEW tag \in BlockTags, e.skip = 0
    PROVE  Keeps(e, StartTag(e, tag)) /\ Started(e, StartTag(e, tag), tag)
<1> DEFINE d == StartTag(e, tag)
<1>1. PICK n \in Nat : Pre(e, tag) = [e EXCEPT !.pre = n]
  BY PreIs
<1>2. d = Flush(Pre(e, tag))
  BY StartTagIs
<1> HIDE DEF d
<1>3. Keeps(e, d) /\ d.skip = e.skip /\ d.title = e.title /\ SameLists(e, d)
  BY <1>1, <1>2, PreKeeps
<1>4. Started(e, d, tag)
  BY <1>3, KindsApart DEF Started, SameLists
<1> QED BY <1>3, <1>4 DEF d

LEMMA OtherStarts ==
    ASSUME NEW e, Sound(e), NEW tag, e.skip = 0,
           tag \notin SkipTags \cup {"title", "li", "a"} \cup Headings \cup Lists \cup BlockTags
    PROVE  Keeps(e, StartTag(e, tag)) /\ Started(e, StartTag(e, tag), tag)
<1>1. StartTag(e, tag) = e
  BY StartTagIs
<1>2. Started(e, e, tag)
  BY IsExtractor DEF Started
<1> QED BY <1>1, <1>2, KeepsItself

LEMMA TagStarts ==
    ASSUME NEW e, Sound(e), NEW tag
    PROVE  Keeps(e, StartTag(e, tag)) /\ Started(e, StartTag(e, tag), tag)
<1>1. e.skip > 0 \/ e.skip = 0
  BY IsExtractor
<1> QED BY <1>1, SkipStarts, HeadingStarts, ListStarts, ItemStarts, LinkStarts, BlockStarts, OtherStarts

(* handle_endtag.                                                          *)
Ended(e, d, tag) ==
    /\ e.skip > 0 => d.skip = e.skip - 1 /\ d.title = e.title /\ SameLists(e, d)
    /\ e.skip = 0 =>
         /\ d.skip = 0 /\ (d.title <=> tag # "title" /\ e.title)
         /\ tag \notin Lists => SameLists(e, d)
         /\ tag \in Lists /\ e.lists /= <<>> =>
              d.lists = Front(e.lists) /\ d.counters = Front(e.counters)

LEMMA EndTagIs ==
    ASSUME NEW e, NEW tag, e.skip = 0
    PROVE  /\ tag = "title" => EndTag(e, tag) = [e EXCEPT !.title = FALSE]
           /\ tag \in Headings \cup {"li"} => EndTag(e, tag) = [Flush(e) EXCEPT !.prefix = Plain]
           /\ tag \in Lists => EndTag(e, tag) = EndsList(Flush(e))
           /\ tag = "a" =>
                EndTag(e, tag) = IF e.link THEN [e EXCEPT !.link = FALSE, !.current = Append(@, <<"]">>)] ELSE e
           /\ tag \in BlockTags => EndTag(e, tag) = Flush(Unpre(e, tag))
           /\ tag \notin {"title", "li", "a"} \cup Headings \cup Lists \cup BlockTags => EndTag(e, tag) = e
<1>1. ~(e.skip > 0)
  OBVIOUS
<1>2. CASE tag = "title"
  BY <1>1, <1>2, KindsApart, Zenon DEF EndTag
<1>3. CASE tag \in Headings \cup {"li"}
  BY <1>1, <1>3, KindsApart, Zenon DEF EndTag
<1>4. CASE tag \in Lists
  BY <1>1, <1>4, KindsApart, Zenon DEF EndTag
<1>5. CASE tag = "a"
  BY <1>1, <1>5, KindsApart, Zenon DEF EndTag
<1>6. CASE tag \in BlockTags
  BY <1>1, <1>6, KindsApart, Zenon DEF EndTag, Unpre
<1>7. CASE tag \notin {"title", "li", "a"} \cup Headings \cup Lists \cup BlockTags
  BY <1>1, <1>7, Zenon DEF EndTag
<1> QED BY <1>2, <1>3, <1>4, <1>5, <1>6, <1>7

LEMMA SkipEnds ==
    ASSUME NEW e, Sound(e), NEW tag, e.skip > 0 \/ tag = "title"
    PROVE  Keeps(e, EndTag(e, tag)) /\ Ended(e, EndTag(e, tag), tag)
<1> DEFINE d == EndTag(e, tag)
<1>0. e \in Extractors /\ e.skip \in Nat /\ Len(e.lists) = Len(e.counters)
  BY IsExtractor
<1>1. CASE e.skip > 0
  <2> DEFINE n == e.skip - 1
  <2>1. d = [e EXCEPT !.skip = n] /\ n \in Nat
    BY <1>0, <1>1 DEF EndTag
  <2> HIDE DEF d, n
  <2>2. /\ d \in Extractors /\ Len(d.lists) = Len(d.counters) /\ d.blocks = e.blocks
        /\ d.current = e.current /\ d.prefix = e.prefix
        /\ d.skip = n /\ d.title = e.title /\ SameLists(e, d)
    BY <1>0, <2>1 DEF Extractors, SameLists
  <2>3. Keeps(e, d)
    BY <2>2, OtherFields
  <2>4. Ended(e, d, tag)
    BY <1>1, <2>2 DEF Ended, n
  <2> QED BY <2>3, <2>4 DEF d
<1>2. CASE e.skip = 0 /\ tag = "title"
  <2>1. d = [e EXCEPT !.title = FALSE]
    BY <1>2, EndTagIs
  <2> HIDE DEF d
  <2>2. /\ d \in Extractors /\ Len(d.lists) = Len(d.counters) /\ d.blocks = e.blocks
        /\ d.current = e.current /\ d.prefix = e.prefix
        /\ d.skip = 0 /\ ~d.title /\ SameLists(e, d)
    BY <1>0, <1>2, <2>1 DEF Extractors, SameLists
  <2>3. Keeps(e, d)
    BY <2>2, OtherFields
  <2>4. Ended(e, d, tag)
    BY <1>2, <2>2, KindsApart DEF Ended
  <2> QED BY <2>3, <2>4 DEF d
<1> QED BY <1>0, <1>1, <1>2

LEMMA PlainEnds ==
    ASSUME NEW e, Sound(e), NEW tag \in Headings \cup {"li"}, e.skip = 0
    PROVE  Keeps(e, EndTag(e, tag)) /\ Ended(e, EndTag(e, tag), tag)
<1> DEFINE d == EndTag(e, tag)
           f == Flush(e)
<1>1. /\ Keeps(e, f) /\ Sound(f) /\ f.current = <<>> /\ f.skip = e.skip /\ f.title = e.title
      /\ f.lists = e.lists /\ f.counters = e.counters
  BY FlushKeeps DEF Keeps
<1>2. d = [f EXCEPT !.prefix = Plain]
  BY EndTagIs
<1> HIDE DEF d, f
<1>3. f \in Extractors /\ Len(f.lists) = Len(f.counters)
  BY <1>1, IsExtractor
<1>4. /\ d \in Extractors /\ Len(d.lists) = Len(d.counters) /\ d.blocks = f.blocks
      /\ d.current = f.current /\ d.skip = f.skip /\ d.title = f.title /\ SameLists(f, d)
  BY <1>2, <1>3 DEF Extractors, SameLists, Marks
<1>5. Keeps(e, d)
  BY <1>1, <1>4, OtherFields, KeepsTransitive
<1>6. Ended(e, d, tag)
  BY <1>1, <1>4, KindsApart DEF Ended, SameLists
<1> QED BY <1>5, <1>6 DEF d

LEMMA ListEnds ==
    ASSUME NEW e, Sound(e), NEW tag \in Lists, e.skip = 0
    PROVE  Keeps(e, EndTag(e, tag)) /\ Ended(e, EndTag(e, tag), tag)
<1> DEFINE d == EndTag(e, tag)
           f == Flush(e)
<1>1. /\ Keeps(e, f) /\ Sound(f) /\ f.current = <<>> /\ f.skip = e.skip /\ f.title = e.title
      /\ f.lists = e.lists /\ f.counters = e.counters
  BY FlushKeeps DEF Keeps
<1>2. d = EndsList(f)
  BY EndTagIs
<1> HIDE DEF d, f
<1>3. /\ f \in Extractors /\ f.lists \in Seq(Lists) /\ f.counters \in Seq(Nat)
      /\ Len(f.lists) = Len(f.counters)
  BY <1>1, IsExtractor
<1>4. CASE f.lists = <<>>
  <2>1. d = f
    BY <1>2, <1>4 DEF EndsList
  <2>2. Ended(e, d, tag)
    BY <1>1, <1>4, <2>1, KindsApart DEF Ended
  <2> QED BY <1>1, <2>1, <2>2 DEF d
<1>5. CASE f.lists /= <<>>
  <2>1. d = [f EXCEPT !.lists = Front(f.lists), !.counters = Front(f.counters)]
    BY <1>2, <1>5 DEF EndsList
  <2>2. /\ Front(f.lists) \in Seq(Lists) /\ Front(f.counters) \in Seq(Nat)
        /\ Len(Front(f.lists)) = Len(Front(f.counters))
    BY <1>1, <1>5, ListTop
  <2>3. /\ d \in Extractors /\ Len(d.lists) = Len(d.counters) /\ d.blocks = f.blocks
        /\ d.current = f.current /\ d.skip = f.skip /\ d.title = f.title
        /\ d.lists = Front(f.lists) /\ d.counters = Front(f.counters)
    BY <1>3, <2>1, <2>2 DEF Extractors
  <2>4. Keeps(e, d)
    BY <1>1, <2>3, OtherFields, KeepsTransitive
  <2>5. Ended(e, d, tag)
    BY <1>1, <2>3, KindsApart DEF Ended
  <2> QED BY <2>4, <2>5 DEF d
<1> QED BY <1>4, <1>5

LEMMA LinkEnds ==
    ASSUME NEW e, Sound(e), e.skip = 0
    PROVE  Keeps(e, EndTag(e, "a")) /\ Ended(e, EndTag(e, "a"), "a")
<1> DEFINE d == EndTag(e, "a")
<1>1. d = IF e.link THEN [e EXCEPT !.link = FALSE, !.current = Append(@, <<"]">>)] ELSE e
  BY EndTagIs
<1> HIDE DEF d
<1>2. e \in Extractors
  BY IsExtractor
<1>3. Keeps(e, d)
  BY <1>1, BracketKeeps, KeepsItself
<1>4. d.skip = e.skip /\ d.title = e.title /\ SameLists(e, d)
  <2>1. CASE e.link
    BY <1>1, <1>2, <2>1 DEF Extractors, SameLists
  <2> QED BY <1>1, <2>1 DEF SameLists
<1>5. Ended(e, d, "a")
  BY <1>4, KindsApart DEF Ended, SameLists
<1> QED BY <1>3, <1>5 DEF d

LEMMA BlockEnds ==
    ASSUME NEW e, Sound(e), NEW tag \in BlockTags, e.skip = 0
    PROVE  Keeps(e, EndTag(e, tag)) /\ Ended(e, EndTag(e, tag), tag)
<1> DEFINE d == EndTag(e, tag)
<1>1. PICK n \in Nat : Unpre(e, tag) = [e EXCEPT !.pre = n]
  BY PreIs
<1>2. d = Flush(Unpre(e, tag))
  BY EndTagIs
<1> HIDE DEF d
<1>3. Keeps(e, d) /\ d.skip = e.skip /\ d.title = e.title /\ SameLists(e, d)
  BY <1>1, <1>2, PreKeeps
<1>4. Ended(e, d, tag)
  BY <1>3, KindsApart DEF Ended, SameLists
<1> QED BY <1>3, <1>4 DEF d

LEMMA TagEnds ==
    ASSUME NEW e, Sound(e), NEW tag
    PROVE  Keeps(e, EndTag(e, tag)) /\ Ended(e, EndTag(e, tag), tag)
<1>1. e.skip > 0 \/ e.skip = 0
  BY IsExtractor
<1>2. CASE e.skip = 0 /\ tag \notin {"title", "li", "a"} \cup Headings \cup Lists \cup BlockTags
  <2>1. EndTag(e, tag) = e
    BY <1>2, EndTagIs
  <2>2. Ended(e, e, tag)
    BY <1>2 DEF Ended, SameLists
  <2> QED BY <2>1, <2>2, KeepsItself
<1> QED BY <1>1, <1>2, SkipEnds, PlainEnds, ListEnds, LinkEnds, BlockEnds

(* handle_data, of a text later than those held.                           *)
LEMMA DataIsHeld ==
    ASSUME NEW e, Sound(e), NEW n \in Nat, \A m \in HeldBy(e) : m < n, e.skip = 0 /\ ~e.title
    PROVE  LET d == HandleData(e, n) IN
           /\ Sound(d) /\ HeldBy(d) = HeldBy(e) \cup {n}
           /\ d.blocks = e.blocks /\ d.prefix = e.prefix /\ SameLists(e, d)
           /\ d.skip = e.skip /\ d.title = e.title
           /\ d.current /= <<>> /\ d.current[1] = IF e.current = <<>> THEN <<"text", n>> ELSE e.current[1]
<1> DEFINE d == HandleData(e, n)
           i == <<"text", n>>
<1>1. d = [e EXCEPT !.current = Append(e.current, i)]
  BY DEF HandleData
<1>2. e \in Extractors /\ e.current \in Seq(Items) /\ ItemsInOrder(e.current)
  BY DEF Sound, Extractors, OrderedIn
<1>3. i \in Items /\ IsWord(i) /\ i[2] = n
  BY Words DEF Items
<1> HIDE DEF d, i
<1>4. /\ Append(e.current, i) \in Seq(Items) /\ Append(e.current, i) /= <<>>
      /\ ItemsInOrder(Append(e.current, i))
      /\ TextsIn(Append(e.current, i)) = TextsIn(e.current) \cup {n}
      /\ Append(e.current, i)[1] = IF e.current = <<>> THEN i ELSE e.current[1]
  BY <1>2, <1>3, OneMoreItem DEF HeldBy
<1>5. /\ d \in Extractors /\ d.current = Append(e.current, i) /\ d.blocks = e.blocks
      /\ d.prefix = e.prefix /\ d.lists = e.lists /\ d.counters = e.counters
      /\ d.skip = e.skip /\ d.title = e.title
  BY <1>1, <1>2, <1>4 DEF Extractors
<1>6. OrderedIn(d)
  BY <1>4, <1>5 DEF Sound, OrderedIn, HeldBy
<1>7. Sound(d) /\ HeldBy(d) = HeldBy(e) \cup {n}
  BY <1>4, <1>5, <1>6 DEF Sound, HeldBy
<1> QED BY <1>4, <1>5, <1>7 DEF d, i, SameLists

-----------------------------------------------------------------------------
(* The elements of the page.                                               *)
LEMMA OpenIs ==
    ASSUME open \in Seq(Elements)
    PROVE  /\ Len(open) \in Nat /\ DOMAIN open = 1..Len(open)
           /\ \A i \in 1..Len(open) :
                open[i] \in Elements /\ open[i].tag \in Tags /\ open[i].items \in Nat /\ open[i].fresh \in BOOLEAN
           /\ Parent = IF open = <<>> THEN "page" ELSE open[Len(open)].tag
           /\ open /= <<>> <=> Len(open) > 0
           /\ open /= <<>> => Last(open) = open[Len(open)]
<1>1. /\ Len(open) \in Nat /\ DOMAIN open = 1..Len(open)
      /\ \A i \in 1..Len(open) : open[i] \in Elements
      /\ open /= <<>> <=> Len(open) > 0
  OBVIOUS
<1>2. \A i \in 1..Len(open) : open[i].tag \in Tags /\ open[i].items \in Nat /\ open[i].fresh \in BOOLEAN
  BY <1>1 DEF Elements
<1> QED BY <1>1, <1>2 DEF Parent, Last

LEMMA UsedIs ==
    ASSUME open \in Seq(Elements),
           \A i \in DOMAIN open : open[i].fresh => i = Len(open) /\ open[i].tag = "li"
    PROVE  /\ Used \in Seq(Elements) /\ Len(Used) = Len(open)
           /\ \A i \in 1..Len(open) :
                Used[i].tag = open[i].tag /\ Used[i].items = open[i].items /\ ~Used[i].fresh
<1>1. CASE open = <<>>
  BY <1>1 DEF Used
<1>2. CASE open /= <<>>
  <2> DEFINE n == Len(open)
             v == [open[n] EXCEPT !.fresh = FALSE]
  <2>1. n \in 1..Len(open) /\ open[n] \in Elements
    BY <1>2
  <2>2. v \in Elements /\ v.tag = open[n].tag /\ v.items = open[n].items /\ v.fresh = FALSE
    BY <2>1 DEF Elements
  <2>3. Used = [open EXCEPT ![n] = v]
    BY <1>2 DEF Used
  <2> HIDE DEF n, v
  <2>4. /\ Used \in Seq(Elements) /\ Len(Used) = Len(open) /\ Used[n] = v
        /\ \A j \in 1..Len(open) : j # n => Used[j] = open[j]
    BY <2>1, <2>2, <2>3, OneChanged
  <2> QED BY <2>1, <2>2, <2>4, OpenIs DEF n
<1> QED BY <1>1, <1>2

Deepened(tag) ==
    /\ open' \in Seq(Elements) /\ Len(open') = Len(open) + 1
    /\ open'[Len(open) + 1] = Element(tag)
    /\ \A i \in 1..Len(open) :
         /\ open'[i].tag = open[i].tag /\ ~open'[i].fresh
         /\ open'[i].items = IF tag = "li" /\ i = Len(open) THEN open[i].items + 1 ELSE open[i].items
    /\ tag = "li" => Len(open) > 0 /\ open[Len(open)].tag \in Lists

LEMMA ElementsStart ==
    ASSUME WebTyped, SkipInv, NEW tag \in Tags, StartElement(tag)
    PROVE  Deepened(tag)
<1>1. open \in Seq(Elements) /\ \A i \in DOMAIN open : open[i].fresh => i = Len(open) /\ open[i].tag = "li"
  BY DEF WebTyped, SkipInv
<1>2. Element(tag) \in Elements
  BY DEF Element, Elements
<1>3. CASE tag # "li"
  <2>1. open' = Append(Used, Element(tag))
    BY <1>3 DEF StartElement
  <2> QED BY <1>1, <1>2, <1>3, <2>1, UsedIs DEF Deepened
<1>4. CASE tag = "li"
  <2> DEFINE n == Len(open)
             v == [open[n] EXCEPT !.items = open[n].items + 1]
             more == [open EXCEPT ![n] = v]
  <2>1. n \in 1..Len(open) /\ open[n].tag \in Lists
    BY <1>1, <1>4, OpenIs DEF StartElement, Fits, Lists
  <2>2. /\ v \in Elements
        /\ v.tag = open[n].tag
        /\ v.items = open[n].items + 1
        /\ v.fresh = open[n].fresh
    <3>1. open[n] \in Elements /\ open[n].items + 1 \in Nat
      BY <1>1, <2>1, OpenIs
    <3> QED BY <3>1 DEF Elements
  <2>3. ~open[n].fresh
    BY <1>1, <2>1, OpenIs DEF Lists
  <2>4. open' = Append(more, Element(tag))
    BY <1>4 DEF StartElement
  <2> HIDE DEF n, v
  <2>5. more \in Seq(Elements) /\ Len(more) = Len(open) /\ more[n] = v
        /\ \A j \in 1..Len(open) : j # n => more[j] = open[j]
    BY <1>1, <2>1, <2>2, OneChanged
  <2> HIDE DEF more
  <2>6. /\ open' \in Seq(Elements) /\ Len(open') = Len(open) + 1
        /\ open'[Len(open) + 1] = Element(tag) /\ \A j \in 1..Len(open) : open'[j] = more[j]
    BY <1>2, <2>4, <2>5
  <2>7. ASSUME NEW i \in 1..Len(open)
        PROVE  /\ open'[i].tag = open[i].tag /\ ~open'[i].fresh
               /\ open'[i].items = IF i = n THEN open[i].items + 1 ELSE open[i].items
    <3>1. CASE i = n
      BY <2>2, <2>3, <2>5, <2>6, <3>1
    <3>2. CASE i # n
      BY <1>1, <2>5, <2>6, <3>2, OpenIs DEF n
    <3> QED BY <3>1, <3>2
  <2>8. Len(open) \in Nat /\ Len(open) > 0 /\ open[Len(open)].tag \in Lists
    BY <1>1, <2>1, OpenIs DEF n
  <2> QED BY <1>4, <2>6, <2>7, <2>8 DEF n, Deepened
<1> QED BY <1>3, <1>4

LEMMA FrontIs ==
    ASSUME NEW S, NEW s \in Seq(S), s /= <<>>
    PROVE  /\ Front(s) \in Seq(S) /\ Len(Front(s)) = Len(s) - 1
           /\ \A i \in 1..(Len(s) - 1) : Front(s)[i] = s[i]
<1>1. Len(s) \in Nat /\ Len(s) > 0
  OBVIOUS
<1>2. Len(s) - 1 \in 0..Len(s)
  BY <1>1
<1>3. \A i \in 1..(Len(s) - 1) : s[i] \in S
  BY <1>1
<1>4. Front(s) = [i \in 1..(Len(s) - 1) |-> s[i]]
  BY <1>1 DEF Front
<1> QED BY <1>1, <1>2, <1>3, <1>4

LEMMA ElementsEnd ==
    ASSUME open \in Seq(Elements), open /= <<>>, open' = Front(open)
    PROVE  /\ open' \in Seq(Elements) /\ Len(open') = Len(open) - 1
           /\ \A i \in 1..(Len(open) - 1) : open'[i] = open[i]
  BY FrontIs

-----------------------------------------------------------------------------
(* The lists: what has none of their ends leaves them where they are.      *)
LEMMA ListsStay ==
    ASSUME WebTyped, WebTyped', \E place : ListsAt(extractor, place),
           SameLists(extractor, extractor'), Height \in Int, Height' \in Int,
           \A i \in 1..Height : open[i].tag \in Lists => i <= Height',
           \A i \in 1..Height' : i > Height => open'[i].tag \notin Lists,
           \A i \in 1..Height : i <= Height' =>
             open'[i].tag = open[i].tag /\ (open[i].tag \in Lists => open'[i].items = open[i].items)
    PROVE  \E place : ListsAt(extractor, place)'
<1>1. PICK place : ListsAt(extractor, place)
  OBVIOUS
<1>2. DOMAIN place = DOMAIN extractor.lists /\ \A k \in DOMAIN place : place[k] \in 1..Height
  BY <1>1 DEF ListsAt
<1>3. extractor'.lists = extractor.lists /\ extractor'.counters = extractor.counters
  BY DEF SameLists
<1>4. \A k \in DOMAIN place : extractor.lists[k] \in Lists
  <2>1. extractor.lists \in Seq(Lists)
    BY DEF WebTyped, Extractors
  <2>2. \A k \in DOMAIN extractor.lists : extractor.lists[k] \in Lists
    BY <2>1
  <2> QED BY <1>2, <2>2
<1>5. \A k \in DOMAIN place : place[k] \in 1..Height' /\ open[place[k]].tag \in Lists
  BY <1>1, <1>2, <1>4 DEF ListsAt
<1>6. place \in [DOMAIN extractor'.lists -> 1..Height']
  BY <1>1, <1>2, <1>3, <1>5 DEF ListsAt
<1>7. \A k \in DOMAIN place :
        /\ open'[place[k]].tag = extractor'.lists[k]
        /\ extractor'.lists[k] = "ol" => extractor'.counters[k] = open'[place[k]].items
  BY <1>1, <1>2, <1>3, <1>5 DEF ListsAt
<1>8. \A i \in 1..Height' : open'[i].tag \in Lists => \E k \in DOMAIN place : place[k] = i
  BY <1>1 DEF ListsAt
<1> QED BY <1>1, <1>6, <1>7, <1>8 DEF ListsAt

-----------------------------------------------------------------------------
(* The parts of the invariant, kept by a callback.                         *)
LEMMA InvParts ==
    ASSUME PageInv
    PROVE  /\ WebTyped /\ Sound(extractor) /\ open \in Seq(Elements) /\ KeptInv /\ SkipInv /\ ToldInv
           /\ extractor.skip \in Nat /\ extractor.title \in BOOLEAN
           /\ Height \in Int
           /\ unended \in BOOLEAN
           /\ ~unended => WholeInv
           /\ ~unended /\ Markdown => NumberInv
<1>1. /\ WebTyped
      /\ KeptInv
      /\ SkipInv
      /\ ToldInv
      /\ ~unended => WholeInv
      /\ ~unended /\ Markdown => NumberInv
  BY DEF PageInv
<1>2. Sound(extractor)
  BY <1>1 DEF WebTyped, KeptInv, Sound
<1>3. open \in Seq(Elements) /\ unended \in BOOLEAN
  BY <1>1 DEF WebTyped
<1>4. extractor.skip \in Nat /\ extractor.title \in BOOLEAN
  BY <1>2, IsExtractor
<1>5. Height \in Int
  BY <1>3, <1>4, OpenIs DEF Height
<1> QED BY <1>1, <1>2, <1>3, <1>4, <1>5

(* With the same texts, a callback that keeps what is held, keeps it in    *)
(* order and visible, and numbered.                                        *)
LEMMA CallbackKeeps ==
    ASSUME PageInv, Keeps(extractor, extractor'), texts' = texts
    PROVE  /\ extractor' \in Extractors /\ Len(extractor'.lists) = Len(extractor'.counters)
           /\ KeptInv'
           /\ Visible \subseteq HeldBy(extractor) => (Visible \subseteq HeldBy(extractor))'
           /\ Bearing(extractor) => Bearing(extractor)'
<1>1. /\ Sound(extractor') /\ HeldBy(extractor') = HeldBy(extractor)
      /\ Bearing(extractor) => Bearing(extractor')
  BY DEF Keeps
<1>2. OrderedIn(extractor)' /\ HeldBy(extractor)' = HeldBy(extractor)
  BY <1>1 DEF Sound, OrderedIn, HeldBy, InOrder, ItemsInOrder, TextsOf, TextsIn
<1>3. Visible' = Visible
  BY DEF Visible
<1>4. KeptInv'
  BY <1>2, <1>3, InvParts DEF KeptInv
<1>5. Bearing(extractor) => Bearing(extractor)'
  BY <1>1 DEF Bearing, BlocksBear, Bears
<1> QED BY <1>1, <1>2, <1>3, <1>4, <1>5 DEF Sound

(* While the page is read, only it changes.                                *)
LEMMA WritingKeeps ==
    ASSUME PageInv, Writing, UNCHANGED <<webRequest, fetch, result>>,
           extractor' \in Extractors, Len(extractor'.lists) = Len(extractor'.counters),
           open' \in Seq(Elements), texts' \in Seq([visible : BOOLEAN, item : Nat]), unended' \in BOOLEAN
    PROVE  WebTyped' /\ ToldInv' /\ Markdown' = Markdown
<1>1. WebTyped'
  BY InvParts DEF WebTyped
<1>2. ToldInv'
  BY DEF ToldInv, HtmlTold, Writing
<1> QED BY <1>1, <1>2 DEF Markdown

LEMMA TextsTyped == ASSUME PageInv PROVE texts \in Seq([visible : BOOLEAN, item : Nat])
  BY DEF PageInv, WebTyped

LEMMA NotSkipped ==
    ASSUME PageInv, extractor.skip = 0
    PROVE  \A i \in 1..Len(open) : open[i].tag \notin SkipTags
  BY InvParts, OpenIs DEF SkipInv

(* <tag>                                                                   *)
LEMMA StartSkips ==
    ASSUME PageInv, NEW tag \in Tags, StartElement(tag) PROVE SkipInv'
<1>1. WebTyped /\ SkipInv /\ open \in Seq(Elements) /\ extractor.skip \in Nat
  BY InvParts
<1> DEFINE n == Len(open)
<1>2. /\ n \in Nat /\ DOMAIN open = 1..n /\ open' \in Seq(Elements) /\ Len(open') = n + 1
      /\ DOMAIN open' = 1..(n + 1)
      /\ open'[n + 1].tag = tag /\ (open'[n + 1].fresh <=> tag = "li")
      /\ \A i \in 1..n : open'[i].tag = open[i].tag /\ ~open'[i].fresh
  <2>1. Deepened(tag)
    BY <1>1, ElementsStart
  <2>2. Element(tag).tag = tag /\ (Element(tag).fresh <=> tag = "li")
    BY DEF Element
  <2>3. n \in Nat /\ DOMAIN open = 1..n
    BY <1>1, OpenIs
  <2>4. open' \in Seq(Elements) /\ Len(open') = n + 1
    BY <2>1 DEF Deepened
  <2>5. DOMAIN open' = 1..(n + 1)
    BY <2>4
  <2> QED BY <2>1, <2>2, <2>3, <2>4, <2>5 DEF Deepened
<1>3. Started(extractor, extractor', tag)
  BY InvParts, TagStarts DEF StartElement, Writes
<1>4. Parent # "title" /\ (tag = "title" => open = <<>>)
  BY DEF StartElement, Fits
<1>5. \A i \in 1..n : open[i].tag # "title"
  BY <1>1, <1>2, <1>4, OpenIs DEF SkipInv
<1>6. ~InTitle /\ ~extractor.title
  BY <1>1, <1>2, <1>5 DEF InTitle, SkipInv
<1>7. InTitle' <=> tag = "title"
  BY <1>2, <1>5 DEF InTitle
<1> HIDE DEF n
<1>8. \A i \in 1..(n + 1) : open'[i].tag \in SkipTags => extractor'.skip > n + 1 - i
  <2> SUFFICES ASSUME NEW i \in 1..(n + 1), open'[i].tag \in SkipTags
               PROVE  extractor'.skip > n + 1 - i
    OBVIOUS
  <2>1. CASE i = n + 1
    BY <1>1, <1>2, <1>3, <2>1 DEF Started
  <2>2. CASE i \in 1..n
    <3>1. extractor.skip > n - i
      BY <1>1, <1>2, <2>2 DEF SkipInv, n
    <3>2. extractor.skip > 0
      BY <1>1, <1>2, <2>2, <3>1
    <3> QED BY <1>1, <1>2, <1>3, <2>2, <3>1, <3>2 DEF Started
  <2> QED BY <1>2, <2>1, <2>2
<1>9. \A i \in 1..(n + 1) : open'[i].tag = "title" => n + 1 = 1
  BY <1>2, <1>4, <1>5 DEF n
<1>10. extractor'.title <=> tag = "title" /\ extractor'.skip = 0
  <2>1. extractor.skip > 0 \/ (extractor.skip = 0 /\ tag \in SkipTags) \/ (extractor.skip = 0 /\ tag \notin SkipTags)
    BY <1>1
  <2>2. CASE extractor.skip > 0
    BY <1>1, <1>3, <1>6, <2>2 DEF Started
  <2>3. CASE extractor.skip = 0
    BY <1>3, <1>6, <2>3, KindsApart DEF Started
  <2> QED BY <2>1, <2>2, <2>3
<1>11. \A i \in 1..(n + 1) : open'[i].fresh => i = n + 1 /\ open'[i].tag = "li"
  BY <1>2
<1> QED BY <1>2, <1>7, <1>8, <1>9, <1>10, <1>11 DEF SkipInv

LEMMA StartWhole ==
    ASSUME PageInv, NEW tag \in Tags, StartElement(tag), WholeInv,
           (Visible \subseteq HeldBy(extractor))'
    PROVE  /\ WholeInv'
           /\ extractor.skip > 0 \/ tag \in SkipTags => Height' = Height
           /\ extractor.skip = 0 /\ tag \notin SkipTags => Height' = Height + 1 /\ Height = Len(open)
<1>1. WebTyped /\ SkipInv /\ open \in Seq(Elements) /\ extractor.skip \in Nat /\ Height \in Int
  BY InvParts
<1> DEFINE n == Len(open)
<1>2. /\ n \in Nat /\ Len(open') = n + 1 /\ open'[n + 1].tag = tag
      /\ \A i \in 1..n : open'[i].tag = open[i].tag
  <2>1. Deepened(tag)
    BY <1>1, ElementsStart
  <2>2. Element(tag).tag = tag
    BY DEF Element
  <2>3. n \in Nat
    BY <1>1, OpenIs
  <2> QED BY <2>1, <2>2, <2>3 DEF Deepened
<1>3. Started(extractor, extractor', tag) /\ extractor'.skip \in Nat
  BY InvParts, TagStarts, IsExtractor DEF StartElement, Writes, Keeps
<1>4. /\ extractor.skip <= n /\ \A i \in 1..Height : open[i].tag \notin SkipTags
      /\ extractor.skip > 0 => open[Height + 1].tag \in SkipTags
      /\ Height = n - extractor.skip
  BY DEF WholeInv, Height
<1>5. Height' = n + 1 - extractor'.skip
  BY <1>2, <1>3 DEF Height
<1> HIDE DEF n
<1>6. CASE extractor.skip > 0
  <2>1. extractor'.skip = extractor.skip + 1
    BY <1>3, <1>6 DEF Started
  <2>2. Height' = Height /\ Height + 1 \in 1..n
    BY <1>1, <1>2, <1>4, <1>5, <1>6, <2>1
  <2>3. \A i \in 1..Height : i \in 1..n
    BY <1>1, <1>2, <2>2
  <2>4. extractor'.skip <= n + 1
    BY <1>1, <1>2, <1>4, <2>1
  <2>5. \A i \in 1..Height' : open'[i].tag \notin SkipTags
    BY <1>2, <1>4, <2>2, <2>3
  <2>6. open'[Height' + 1].tag \in SkipTags
    BY <1>2, <1>4, <1>6, <2>2
  <2>7. WholeInv'
    BY <1>2, <2>4, <2>5, <2>6 DEF WholeInv
  <2> QED BY <1>6, <2>2, <2>7
<1>7. CASE extractor.skip = 0 /\ tag \in SkipTags
  <2>1. extractor'.skip = 1
    BY <1>3, <1>7 DEF Started
  <2>2. Height' = n /\ Height = n
    BY <1>1, <1>2, <1>4, <1>5, <1>7, <2>1
  <2> QED BY <1>1, <1>2, <1>4, <1>7, <2>1, <2>2 DEF WholeInv
<1>8. CASE extractor.skip = 0 /\ tag \notin SkipTags
  <2>1. extractor'.skip = 0
    BY <1>3, <1>8 DEF Started
  <2>2. Height' = n + 1 /\ Height = n
    BY <1>1, <1>2, <1>4, <1>5, <1>8, <2>1
  <2> QED BY <1>1, <1>2, <1>4, <1>8, <2>1, <2>2 DEF WholeInv, n
<1> QED BY <1>1, <1>6, <1>7, <1>8

(* The last of the lists that are open is that of the extractor.           *)
LEMMA ListOnTop ==
    ASSUME PageInv, NEW place, ListsAt(extractor, place), extractor.skip = 0,
           Len(open) > 0, open[Len(open)].tag \in Lists
    PROVE  LET n == Len(extractor.lists) IN
           /\ extractor.lists /= <<>> /\ n \in DOMAIN place /\ place[n] = Len(open)
           /\ \A k \in DOMAIN place : k # n => place[k] < Len(open)
           /\ Last(extractor.lists) = open[Len(open)].tag
           /\ open[Len(open)].tag = "ol" => Last(extractor.counters) = open[Len(open)].items
<1> DEFINE n == Len(extractor.lists)
<1>1. /\ WebTyped /\ Sound(extractor) /\ open \in Seq(Elements) /\ Len(open) \in Nat
      /\ extractor.lists \in Seq(Lists) /\ n \in Nat /\ DOMAIN extractor.lists = 1..n
  BY InvParts, IsExtractor, OpenIs
<1>2. Height = Len(open)
  BY <1>1 DEF Height
<1>3. DOMAIN place = 1..n /\ \A k \in 1..n : place[k] \in 1..Len(open)
  BY <1>1, <1>2 DEF ListsAt
<1>4. PICK k \in 1..n : place[k] = Len(open)
  BY <1>1, <1>2, <1>3 DEF ListsAt
<1>5. \A i, j \in 1..n : i < j => place[i] < place[j]
  BY <1>3 DEF ListsAt
<1> HIDE DEF n
<1>6. k = n /\ n > 0
  <2>1. n \in 1..n /\ k \in Int
    BY <1>1, <1>4
  <2>2. ~(k < n)
    BY <1>1, <1>3, <1>4, <1>5, <2>1
  <2> QED BY <1>1, <1>4, <2>1, <2>2
<1>7. \A j \in 1..n : j # n => place[j] < Len(open)
  BY <1>1, <1>4, <1>5, <1>6
<1>8. extractor.lists /= <<>>
  BY <1>1, <1>6 DEF n
<1>9. /\ Last(extractor.lists) = extractor.lists[n] /\ Last(extractor.counters) = extractor.counters[n]
  BY <1>1, <1>8, ListTop DEF n
<1>10. /\ open[Len(open)].tag = extractor.lists[n]
       /\ extractor.lists[n] = "ol" => extractor.counters[n] = open[Len(open)].items
  BY <1>3, <1>4, <1>6 DEF ListsAt
<1> QED BY <1>3, <1>4, <1>6, <1>7, <1>8, <1>9, <1>10 DEF n

LEMMA ListsThen ==
    ASSUME NEW place, place \in [DOMAIN extractor'.lists -> 1..Height'],
           \A j, k \in DOMAIN place : j < k => place[j] < place[k],
           \A k \in DOMAIN place :
             /\ open'[place[k]].tag = extractor'.lists[k]
             /\ extractor'.lists[k] = "ol" => extractor'.counters[k] = open'[place[k]].items,
           \A i \in 1..Height' : open'[i].tag \in Lists => \E k \in DOMAIN place : place[k] = i
    PROVE  \E p : ListsAt(extractor, p)'
<1>1. ListsAt(extractor, place)'
  BY DEF ListsAt
<1> QED BY <1>1

LEMMA StartLists ==
    ASSUME PageInv, WebTyped', NEW tag \in Tags, StartElement(tag), WholeInv, Markdown,
           \E place : ListsAt(extractor, place), Height' \in Int,
           extractor.skip > 0 \/ tag \in SkipTags => Height' = Height,
           extractor.skip = 0 /\ tag \notin SkipTags => Height' = Height + 1 /\ Height = Len(open)
    PROVE  \E place : ListsAt(extractor, place)'
<1>1. /\ WebTyped /\ SkipInv /\ Sound(extractor) /\ open \in Seq(Elements) /\ extractor.skip \in Nat
      /\ Height \in Int
  BY InvParts
<1> DEFINE h == Len(open)
           n == Len(extractor.lists)
<1>2. /\ h \in Nat /\ Len(open') = h + 1 /\ open'[h + 1].tag = tag
      /\ \A i \in 1..h : /\ open'[i].tag = open[i].tag
                         /\ open'[i].items = IF tag = "li" /\ i = h THEN open[i].items + 1 ELSE open[i].items
      /\ tag = "li" => h > 0 /\ open[h].tag \in Lists
  <2>1. Deepened(tag)
    BY <1>1, ElementsStart
  <2>2. Element(tag).tag = tag
    BY DEF Element
  <2>3. h \in Nat
    BY <1>1, OpenIs
  <2> QED BY <2>1, <2>2, <2>3 DEF Deepened
<1>3. Started(extractor, extractor', tag)
  BY <1>1, TagStarts DEF StartElement, Writes
<1>4. /\ extractor.lists \in Seq(Lists) /\ extractor.counters \in Seq(Nat)
      /\ n \in Nat /\ Len(extractor.counters) = n /\ DOMAIN extractor.lists = 1..n
  BY <1>1, IsExtractor
<1>5. extractor.skip <= h /\ Height = h - extractor.skip
  BY DEF WholeInv, Height
<1> HIDE DEF h
<1>6. CASE extractor.skip > 0 \/ tag \in SkipTags
  <2>1. Height' = Height /\ SameLists(extractor, extractor')
    BY <1>1, <1>3, <1>6 DEF Started
  <2>2. \A i \in 1..Height : i \in 1..h /\ (tag = "li" => i # h)
    BY <1>1, <1>2, <1>5, <1>6, KindsApart
  <2>3. \A i \in 1..Height : open'[i].tag = open[i].tag /\ open'[i].items = open[i].items
    BY <1>2, <2>2
  <2> QED BY <1>1, <2>1, <2>3, ListsStay
<1>7. CASE extractor.skip = 0 /\ tag \notin SkipTags /\ tag \notin Lists \cup {"li"}
  <2>1. Height' = h + 1 /\ Height = h /\ SameLists(extractor, extractor')
    BY <1>3, <1>7 DEF Started, SameLists, h
  <2>2. \A i \in 1..Height : open'[i].tag = open[i].tag /\ open'[i].items = open[i].items
    BY <1>2, <1>7, <2>1
  <2>3. \A i \in 1..Height' : i > Height => open'[i].tag \notin Lists
    BY <1>2, <1>7, <2>1
  <2>4. \A i \in 1..Height : i <= Height'
    BY <1>2, <2>1
  <2> QED BY <1>1, <2>1, <2>2, <2>3, <2>4, ListsStay
<1>8. CASE extractor.skip = 0 /\ tag \notin SkipTags /\ tag \in Lists
  <2>1. /\ Height' = h + 1 /\ Height = h
        /\ extractor'.lists = Append(extractor.lists, tag) /\ extractor'.counters = Append(extractor.counters, 0)
    BY <1>3, <1>8 DEF Started, h
  <2>2. PICK place : ListsAt(extractor, place)
    OBVIOUS
  <2>3. DOMAIN place = 1..n /\ \A k \in 1..n : place[k] \in 1..h
    BY <1>4, <2>1, <2>2 DEF ListsAt
  <2> DEFINE more == [k \in 1..(n + 1) |-> IF k = n + 1 THEN h + 1 ELSE place[k]]
  <2>4. /\ DOMAIN extractor'.lists = 1..(n + 1) /\ extractor'.lists[n + 1] = tag
        /\ extractor'.counters[n + 1] = 0
        /\ \A k \in 1..n : extractor'.lists[k] = extractor.lists[k] /\ extractor'.counters[k] = extractor.counters[k]
    BY <1>4, <1>8, <2>1
  <2>5. /\ more[n + 1] = h + 1 /\ \A k \in 1..n : more[k] = place[k]
        /\ DOMAIN more = 1..(n + 1)
    BY <1>4
  <2>6. more \in [DOMAIN extractor'.lists -> 1..Height']
    BY <1>2, <1>4, <2>1, <2>3, <2>4
  <2> HIDE DEF more
  <2>7. \A j, k \in 1..(n + 1) : j < k => more[j] < more[k]
    <3> SUFFICES ASSUME NEW j \in 1..(n + 1), NEW k \in 1..(n + 1), j < k PROVE more[j] < more[k]
      OBVIOUS
    <3>1. j \in 1..n
      BY <1>4
    <3>2. CASE k = n + 1
      BY <1>2, <2>3, <2>5, <3>1, <3>2
    <3>3. CASE k \in 1..n
      BY <2>2, <2>3, <2>5, <3>1, <3>3 DEF ListsAt
    <3> QED BY <1>4, <3>2, <3>3
  <2>8. \A k \in 1..(n + 1) :
          /\ open'[more[k]].tag = extractor'.lists[k]
          /\ extractor'.lists[k] = "ol" => extractor'.counters[k] = open'[more[k]].items
    <3>1. open'[h + 1].items = 0
      <4>1. Deepened(tag)
        BY <1>1, ElementsStart
      <4> QED BY <4>1 DEF Deepened, Element, h
    <3>2. ASSUME NEW k \in 1..n
          PROVE  /\ open'[more[k]].tag = extractor'.lists[k]
                 /\ extractor'.lists[k] = "ol" => extractor'.counters[k] = open'[more[k]].items
      <4>1. place[k] \in 1..h /\ more[k] = place[k] /\ tag # "li"
        BY <1>8, <2>3, <2>5, KindsApart DEF Lists
      <4>2. open'[place[k]].tag = open[place[k]].tag /\ open'[place[k]].items = open[place[k]].items
        BY <1>2, <4>1
      <4>3. /\ open[place[k]].tag = extractor.lists[k]
            /\ extractor.lists[k] = "ol" => extractor.counters[k] = open[place[k]].items
        BY <2>2, <2>3 DEF ListsAt
      <4> QED BY <2>4, <4>1, <4>2, <4>3
    <3>3. ASSUME NEW k \in 1..(n + 1), k = n + 1
          PROVE  /\ open'[more[k]].tag = extractor'.lists[k]
                 /\ extractor'.lists[k] = "ol" => extractor'.counters[k] = open'[more[k]].items
      BY <1>2, <2>4, <2>5, <3>1, <3>3
    <3>4. \A k \in 1..(n + 1) : k \in 1..n \/ k = n + 1
      BY <1>4
    <3> QED BY <3>2, <3>3, <3>4
  <2>9. \A i \in 1..Height' : open'[i].tag \in Lists => \E k \in 1..(n + 1) : more[k] = i
    <3> SUFFICES ASSUME NEW i \in 1..(h + 1), open'[i].tag \in Lists PROVE \E k \in 1..(n + 1) : more[k] = i
      BY <2>1
    <3>1. CASE i = h + 1
      BY <1>4, <2>5, <3>1
    <3>2. CASE i \in 1..h
      <4>1. PICK k \in 1..n : place[k] = i
        BY <1>2, <2>1, <2>2, <2>3, <3>2 DEF ListsAt
      <4> QED BY <1>4, <2>5, <4>1
    <3> QED BY <1>2, <3>1, <3>2
  <2>10. DOMAIN more = 1..(n + 1)
    BY <2>5
  <2>11. \A j, k \in DOMAIN more : j < k => more[j] < more[k]
    BY <2>7, <2>10
  <2>12. \A k \in DOMAIN more :
           /\ open'[more[k]].tag = extractor'.lists[k]
           /\ extractor'.lists[k] = "ol" => extractor'.counters[k] = open'[more[k]].items
    BY <2>8, <2>10
  <2>13. \A i \in 1..Height' : open'[i].tag \in Lists => \E k \in DOMAIN more : more[k] = i
    BY <2>9, <2>10
  <2> QED BY <2>6, <2>11, <2>12, <2>13, ListsThen
<1>9. CASE extractor.skip = 0 /\ tag = "li"
  <2>1. /\ Height' = h + 1 /\ Height = h /\ extractor'.lists = extractor.lists
        /\ Numbered(extractor) => extractor'.counters = Counted(extractor)
        /\ ~Numbered(extractor) => extractor'.counters = extractor.counters
    BY <1>3, <1>9, KindsApart DEF Started, Lists, SkipTags, h
  <2>2. PICK place : ListsAt(extractor, place)
    OBVIOUS
  <2>3. /\ n \in DOMAIN place /\ place[n] = h /\ \A k \in DOMAIN place : k # n => place[k] < h
        /\ extractor.lists /= <<>> /\ Last(extractor.lists) = open[h].tag
        /\ open[h].tag = "ol" => Last(extractor.counters) = open[h].items
    BY <1>2, <1>9, <2>2, ListOnTop DEF h
  <2>4. DOMAIN place = 1..n /\ \A k \in 1..n : place[k] \in 1..h
    BY <1>4, <2>1, <2>2 DEF ListsAt
  <2>5. /\ Last(extractor.lists) = extractor.lists[n]
        /\ Last(extractor.counters) = extractor.counters[n]
    BY <1>1, <2>3, ListTop
  <2>6. ASSUME NEW k \in 1..n
        PROVE  /\ open'[place[k]].tag = extractor'.lists[k]
               /\ extractor'.lists[k] = "ol" => extractor'.counters[k] = open'[place[k]].items
    <3>1. /\ open[place[k]].tag = extractor.lists[k]
          /\ extractor.lists[k] = "ol" => extractor.counters[k] = open[place[k]].items
      BY <2>2, <2>4 DEF ListsAt
    <3>2. open'[place[k]].tag = extractor'.lists[k]
      BY <1>2, <2>1, <2>4, <3>1
    <3>3. CASE k # n
      <4>1. place[k] \in 1..h /\ place[k] < h
        BY <2>3, <2>4, <3>3
      <4>2. open'[place[k]].items = open[place[k]].items
        <5>1. place[k] # h
          BY <1>2, <4>1
        <5> QED BY <1>2, <4>1, <5>1
      <4>3. extractor'.counters[k] = extractor.counters[k]
        <5>1. CASE Numbered(extractor)
          <6>1. Counted(extractor)[k] = extractor.counters[k]
            BY <1>4, <3>3 DEF Counted
          <6> QED BY <2>1, <5>1, <6>1
        <5> QED BY <2>1, <5>1
      <4> QED BY <2>1, <3>1, <3>2, <4>2, <4>3
    <3>4. CASE k = n /\ extractor.lists[n] = "ol"
      <4>1. Numbered(extractor) /\ extractor'.counters = Counted(extractor)
        BY <2>1, <2>3, <2>5, <3>4 DEF Numbered
      <4>2. Counted(extractor)[n] = open[h].items + 1
        BY <1>4, <2>3, <2>4, <2>5, <3>4 DEF Counted
      <4>3. open'[h].items = open[h].items + 1
        BY <1>2, <1>9
      <4> QED BY <2>3, <3>2, <3>4, <4>1, <4>2, <4>3
    <3>5. CASE k = n /\ extractor.lists[n] # "ol"
      BY <2>1, <3>2, <3>5
    <3> QED BY <3>3, <3>4, <3>5
  <2>7. place \in [DOMAIN extractor'.lists -> 1..Height']
    <3>1. \A k \in 1..n : place[k] \in 1..(h + 1)
      BY <1>2, <2>4
    <3>2. place = [k \in DOMAIN place |-> place[k]]
      BY <2>2 DEF ListsAt
    <3> QED BY <1>4, <2>1, <2>4, <3>1, <3>2
  <2>8. \A i \in 1..Height' : open'[i].tag \in Lists => \E k \in DOMAIN place : place[k] = i
    <3> SUFFICES ASSUME NEW i \in 1..(h + 1), open'[i].tag \in Lists PROVE \E k \in DOMAIN place : place[k] = i
      BY <2>1
    <3>1. i \in 1..h
      BY <1>2, <1>9, KindsApart
    <3> QED BY <1>2, <2>1, <2>2, <3>1 DEF ListsAt
  <2>9. \A j, k \in DOMAIN place : j < k => place[j] < place[k]
    BY <2>2 DEF ListsAt
  <2> QED BY <2>4, <2>6, <2>7, <2>8, <2>9, ListsThen
<1>10. extractor.skip > 0 \/ extractor.skip = 0
  BY <1>1
<1> QED BY <1>6, <1>7, <1>8, <1>9, <1>10

(* A callback on a tag keeps the invariant, once the page and the depths   *)
(* and lists of the extractor go together again.                           *)
LEMMA TagKeeps ==
    ASSUME PageInv, Writing, UNCHANGED <<webRequest, fetch, result, texts>>,
           Keeps(extractor, extractor'), open' \in Seq(Elements), unended' \in BOOLEAN,
           SkipInv', ~unended' => ~unended /\ WholeInv',
           ~unended' /\ Markdown => (\E place : ListsAt(extractor, place)') /\ ItemBegins'
    PROVE  PageInv'
<1>1. /\ extractor' \in Extractors /\ Len(extractor'.lists) = Len(extractor'.counters)
      /\ KeptInv' /\ (Bearing(extractor) => Bearing(extractor)')
  BY CallbackKeeps
<1>2. WebTyped' /\ ToldInv' /\ Markdown' = Markdown
  BY <1>1, WritingKeeps, TextsTyped
<1>3. ASSUME ~unended', Markdown PROVE NumberInv'
  <2>1. Bearing(extractor)'
    BY <1>1, <1>3, InvParts DEF NumberInv, Bearing
  <2> QED BY <1>3, <2>1 DEF NumberInv, Bearing
<1> QED BY <1>1, <1>2, <1>3 DEF PageInv

(* <tag>: the item of a numbered list that begins has its number.          *)
LEMMA StartBegins ==
    ASSUME PageInv, NEW tag \in Tags, StartElement(tag), ~unended, Markdown
    PROVE  ItemBegins'
<1>1. /\ WebTyped /\ SkipInv /\ Sound(extractor) /\ open \in Seq(Elements) /\ extractor.skip \in Nat
      /\ NumberInv
  BY InvParts
<1> DEFINE h == Len(open)
<1>2. Deepened(tag)
  BY <1>1, ElementsStart
<1>3. /\ h \in Nat /\ open' \in Seq(Elements) /\ Len(open') = h + 1
      /\ open'[h + 1].tag = tag /\ open' /= <<>>
      /\ \A i \in 1..h : open'[i].tag = open[i].tag
      /\ tag = "li" => h > 0 /\ open'[h].items = open[h].items + 1 /\ open[h].tag \in Lists
  <2>1. Element(tag).tag = tag
    BY DEF Element
  <2>2. h \in Nat
    BY <1>1, OpenIs
  <2>3. /\ open' \in Seq(Elements) /\ Len(open') = h + 1 /\ open'[h + 1] = Element(tag)
        /\ \A i \in 1..h : open'[i].tag = open[i].tag
        /\ tag = "li" => h > 0 /\ open[h].tag \in Lists
    BY <1>2 DEF Deepened
  <2>4. tag = "li" => open'[h].items = open[h].items + 1
    BY <1>2, <2>2, <2>3 DEF Deepened
  <2>5. open' /= <<>>
    BY <2>2, <2>3
  <2> QED BY <2>1, <2>2, <2>3, <2>4, <2>5
<1>4. Started(extractor, extractor', tag)
  BY <1>1, TagStarts DEF StartElement, Writes
<1>5. Parent' = tag
  BY <1>3 DEF Parent, Last
<1>6. CASE tag # "li"
  BY <1>5, <1>6 DEF ItemBegins
<1>7. CASE tag = "li" /\ extractor.skip > 0
  BY <1>1, <1>4, <1>7 DEF ItemBegins, Started
<1>8. CASE tag = "li" /\ extractor.skip = 0
  <2>1. tag \notin SkipTags
    BY <1>8, KindsApart
  <2>2. /\ extractor'.current = <<>>
        /\ Numbered(extractor) => extractor'.prefix = Number(Last(extractor.counters) + 1)
    BY <1>4, <1>8, <2>1 DEF Started
  <2>3. ASSUME open[h].tag = "ol" PROVE extractor'.prefix = Number(open'[h].items)
    <3>1. PICK place : ListsAt(extractor, place)
      BY <1>1 DEF NumberInv
    <3>2. /\ extractor.lists /= <<>> /\ Last(extractor.lists) = "ol"
          /\ Last(extractor.counters) = open[h].items
      BY <1>3, <1>8, <2>3, <3>1, ListOnTop
    <3> QED BY <1>3, <1>8, <2>2, <3>2 DEF Numbered
  <2>4. Len(open') - 1 = h /\ (Len(open') > 1 => h \in 1..h)
    BY <1>3
  <2>5. Len(open') > 1 /\ open'[Len(open') - 1].tag = "ol" =>
          extractor'.prefix = Number(open'[Len(open') - 1].items)
    BY <1>3, <2>3, <2>4
  <2> QED BY <2>2, <2>5 DEF ItemBegins
<1> QED BY <1>1, <1>6, <1>7, <1>8

LEMMA StartKeeps ==
    ASSUME PageInv, NEW tag \in Tags, StartElement(tag) PROVE PageInv'
<1>1. /\ WebTyped /\ SkipInv /\ Sound(extractor) /\ open \in Seq(Elements) /\ unended \in BOOLEAN
      /\ Height \in Int
  BY InvParts
<1>2. /\ Keeps(extractor, extractor') /\ open' \in Seq(Elements) /\ Writing
      /\ UNCHANGED <<webRequest, fetch, result, texts, unended>>
  BY <1>1, TagStarts, ElementsStart DEF StartElement, Writes, Deepened
<1>3. SkipInv'
  BY StartSkips
<1>4. WebTyped' /\ Markdown' = Markdown
  BY <1>1, <1>2, CallbackKeeps, WritingKeeps, TextsTyped
<1>5. ASSUME ~unended PROVE WholeInv' /\ (Markdown => (\E place : ListsAt(extractor, place)') /\ ItemBegins')
  <2>1. WholeInv /\ Visible \subseteq HeldBy(extractor)
    BY <1>5, InvParts DEF WholeInv
  <2>2. /\ WholeInv' 
        /\ extractor.skip > 0 \/ tag \in SkipTags => Height' = Height
        /\ extractor.skip = 0 /\ tag \notin SkipTags => Height' = Height + 1 /\ Height = Len(open)
    <3>1. (Visible \subseteq HeldBy(extractor))'
      BY <1>2, <2>1, CallbackKeeps
    <3> QED BY <2>1, <3>1, StartWhole
  <2>3. ASSUME Markdown PROVE (\E place : ListsAt(extractor, place)') /\ ItemBegins'
    <3>1. \E place : ListsAt(extractor, place)
      BY <1>5, <2>3, InvParts DEF NumberInv
    <3>2. Height' \in Int
      <4>1. extractor.skip \in Nat
        BY InvParts
      <4>2. extractor.skip > 0 \/ extractor.skip = 0
        BY <4>1
      <4> QED BY <1>1, <2>2, <4>2
    <3> QED BY <1>4, <1>5, <2>1, <2>2, <2>3, <3>1, <3>2, StartLists, StartBegins
  <2> QED BY <2>2, <2>3
<1> QED BY <1>1, <1>2, <1>3, <1>5, TagKeeps

(* Nothing begins where no element is fresh.                               *)
LEMMA NothingBegins ==
    ASSUME open' \in Seq(Elements), \A i \in 1..Len(open') : ~open'[i].fresh
    PROVE  ItemBegins'
<1>1. CASE open' = <<>>
  BY <1>1 DEF ItemBegins, Parent
<1>2. CASE open' /= <<>>
  <2>1. Len(open') \in 1..Len(open') /\ Last(open') = open'[Len(open')]
    BY <1>2 DEF Last
  <2> QED BY <2>1 DEF ItemBegins
<1> QED BY <1>1, <1>2

(* </tag>                                                                  *)
LEMMA EndSkips ==
    ASSUME PageInv, EndElement
    PROVE  /\ SkipInv' /\ Keeps(extractor, extractor') /\ Ended(extractor, extractor', Parent)
           /\ open' \in Seq(Elements) /\ Len(open') = Len(open) - 1 /\ Len(open) > 0
           /\ \A i \in 1..(Len(open) - 1) : open'[i] = open[i]
           /\ Parent = open[Len(open)].tag
           /\ \A i \in 1..Len(open') : ~open'[i].fresh
<1>1. WebTyped /\ SkipInv /\ Sound(extractor) /\ open \in Seq(Elements) /\ extractor.skip \in Nat
  BY InvParts
<1> DEFINE n == Len(open)
<1>2. /\ n \in Nat /\ n > 0 /\ DOMAIN open = 1..n /\ Parent = open[n].tag
      /\ open' \in Seq(Elements) /\ Len(open') = n - 1 /\ DOMAIN open' = 1..(n - 1)
      /\ \A i \in 1..(n - 1) : open'[i] = open[i]
  <2>1. open /= <<>> /\ open' = Front(open)
    BY DEF EndElement
  <2>2. n \in Nat /\ n > 0 /\ DOMAIN open = 1..n /\ Parent = open[n].tag
    BY <1>1, <2>1, OpenIs
  <2>3. open' \in Seq(Elements) /\ Len(open') = n - 1 /\ \A i \in 1..(n - 1) : open'[i] = open[i]
    BY <1>1, <2>1, ElementsEnd
  <2> QED BY <2>2, <2>3
<1>3. Keeps(extractor, extractor') /\ Ended(extractor, extractor', Parent)
  BY <1>1, TagEnds DEF EndElement, Writes
<1>4. extractor.skip = 0 \/ extractor.skip > 0
  BY <1>1
<1>5. /\ \A i \in 1..n : open[i].tag \in SkipTags => extractor.skip > n - i
      /\ \A i \in 1..n : open[i].tag = "title" => n = 1
      /\ extractor.title <=> InTitle /\ extractor.skip = 0
      /\ \A i \in 1..n : open[i].fresh => i = n
  BY <1>1, <1>2 DEF SkipInv
<1> HIDE DEF n
<1>6. \A i \in 1..(n - 1) : i \in 1..n /\ i # n
  BY <1>2
<1>7. ~InTitle'
  BY <1>2, <1>5, <1>6 DEF InTitle
<1>8. ~extractor'.title
  <2>1. CASE extractor.skip > 0
    BY <1>1, <1>3, <1>5, <2>1 DEF Ended
  <2>2. CASE extractor.skip = 0 /\ extractor.title
    <3>1. PICK i \in 1..n : open[i].tag = "title"
      BY <1>2, <1>5, <2>2 DEF InTitle
    <3>2. i = n
      BY <1>5, <3>1
    <3> QED BY <1>2, <1>3, <2>2, <3>1, <3>2 DEF Ended
  <2>3. CASE extractor.skip = 0 /\ ~extractor.title
    BY <1>3, <2>3 DEF Ended
  <2> QED BY <1>4, <2>1, <2>2, <2>3
<1>9. ASSUME NEW i \in 1..(n - 1), open'[i].tag \in SkipTags PROVE extractor'.skip > n - 1 - i
  <2>1. extractor.skip > n - i
    BY <1>2, <1>5, <1>6, <1>9
  <2>2. extractor.skip > 0
    BY <1>1, <1>2, <2>1
  <2>3. extractor'.skip = extractor.skip - 1
    BY <1>3, <2>2 DEF Ended
  <2> QED BY <1>1, <1>2, <2>1, <2>3
<1>10. \A i \in 1..(n - 1) : ~open'[i].fresh
  BY <1>2, <1>5, <1>6
<1>11. SkipInv'
  <2>1. \A i \in DOMAIN open' : open'[i].tag # "title"
    BY <1>7 DEF InTitle
  <2> QED BY <1>2, <1>7, <1>8, <1>9, <1>10, <2>1 DEF SkipInv
<1> QED BY <1>2, <1>3, <1>10, <1>11 DEF n

LEMMA EndWhole ==
    ASSUME PageInv, EndElement, WholeInv, (Visible \subseteq HeldBy(extractor))'
    PROVE  /\ WholeInv' /\ Height' \in Int
           /\ extractor.skip > 0 => Height' = Height /\ Height < Len(open)
           /\ extractor.skip = 0 => Height = Len(open) /\ Height' = Len(open) - 1
<1> DEFINE n == Len(open)
<1>1. /\ open \in Seq(Elements) /\ extractor.skip \in Nat /\ extractor'.skip \in Nat /\ Height \in Int
      /\ n \in Nat /\ n > 0 /\ Len(open') = n - 1 /\ Ended(extractor, extractor', Parent)
      /\ \A i \in 1..(n - 1) : open'[i] = open[i]
  <2>1. /\ open \in Seq(Elements) /\ extractor.skip \in Nat /\ Height \in Int
    BY InvParts
  <2>2. extractor'.skip \in Nat
    BY EndSkips, IsExtractor DEF Keeps
  <2> QED BY <2>1, <2>2, OpenIs, EndSkips
<1>2. /\ extractor.skip <= n /\ \A i \in 1..Height : open[i].tag \notin SkipTags
      /\ extractor.skip > 0 => open[Height + 1].tag \in SkipTags
      /\ Height = n - extractor.skip
  BY DEF WholeInv, Height
<1>3. Height' = n - 1 - extractor'.skip
  BY <1>1 DEF Height
<1> HIDE DEF n
<1>4. CASE extractor.skip > 0
  <2>1. extractor'.skip = extractor.skip - 1
    BY <1>1, <1>4 DEF Ended
  <2>2. Height' = Height /\ Height < n
    BY <1>1, <1>2, <1>3, <1>4, <2>1
  <2>3. \A i \in 1..Height : i \in 1..(n - 1)
    BY <1>1, <2>2
  <2>4. extractor'.skip <= n - 1
    BY <1>1, <1>2, <2>1
  <2>5. \A i \in 1..Height' : open'[i].tag \notin SkipTags
    BY <1>1, <1>2, <2>2, <2>3
  <2>6. extractor'.skip > 0 => open'[Height' + 1].tag \in SkipTags
    <3> SUFFICES ASSUME extractor'.skip > 0 PROVE open'[Height' + 1].tag \in SkipTags
      OBVIOUS
    <3>1. Height + 1 \in 1..(n - 1)
      BY <1>1, <1>2, <2>1
    <3> QED BY <1>1, <1>2, <1>4, <2>2, <3>1
  <2>7. WholeInv'
    BY <1>1, <2>4, <2>5, <2>6 DEF WholeInv
  <2> QED BY <1>1, <1>4, <2>2, <2>7 DEF n
<1>5. CASE extractor.skip = 0
  <2>1. extractor'.skip = 0
    BY <1>1, <1>5 DEF Ended
  <2>2. Height = n /\ Height' = n - 1
    BY <1>1, <1>2, <1>3, <1>5, <2>1
  <2>3. \A i \in 1..Height' : open'[i].tag \notin SkipTags
    BY <1>1, <1>2, <2>2
  <2>4. WholeInv'
    BY <1>1, <2>1, <2>3 DEF WholeInv
  <2> QED BY <1>1, <1>5, <2>2, <2>4 DEF n
<1> QED BY <1>1, <1>4, <1>5

LEMMA EndLists ==
    ASSUME PageInv, EndElement, WebTyped', Markdown, \E place : ListsAt(extractor, place), Height' \in Int,
           extractor.skip > 0 => Height' = Height /\ Height < Len(open),
           extractor.skip = 0 => Height = Len(open) /\ Height' = Len(open) - 1
    PROVE  \E place : ListsAt(extractor, place)'
<1> DEFINE h == Len(open)
           n == Len(extractor.lists)
<1>1. /\ WebTyped /\ Sound(extractor) /\ open \in Seq(Elements) /\ extractor.skip \in Nat /\ Height \in Int
  BY InvParts
<1>2. /\ h \in Nat /\ h > 0 /\ Len(open') = h - 1 /\ Ended(extractor, extractor', Parent)
      /\ \A i \in 1..(h - 1) : open'[i] = open[i]
      /\ Parent = open[h].tag
  BY <1>1, OpenIs, EndSkips
<1>3. /\ extractor.lists \in Seq(Lists) /\ extractor.counters \in Seq(Nat)
      /\ n \in Nat /\ Len(extractor.counters) = n /\ DOMAIN extractor.lists = 1..n
  BY <1>1, IsExtractor
<1>4. CASE extractor.skip > 0
  <2>1. Height' = Height /\ SameLists(extractor, extractor')
    BY <1>2, <1>4 DEF Ended
  <2>2. \A i \in 1..Height : i \in 1..(h - 1)
    BY <1>1, <1>2, <1>4
  <2> QED BY <1>1, <1>2, <2>1, <2>2, ListsStay
<1>5. CASE extractor.skip = 0 /\ Parent \notin Lists
  <2>1. SameLists(extractor, extractor')
    BY <1>2, <1>5 DEF Ended
  <2>2. \A i \in 1..Height : open[i].tag \in Lists => i <= Height'
    BY <1>2, <1>5
  <2>3. \A i \in 1..Height : i <= Height' => open'[i] = open[i]
    BY <1>2, <1>5
  <2>4. \A i \in 1..Height' : ~(i > Height)
    BY <1>2, <1>5
  <2> QED BY <1>1, <2>1, <2>2, <2>3, <2>4, ListsStay
<1>6. CASE extractor.skip = 0 /\ Parent \in Lists
  <2>1. PICK place : ListsAt(extractor, place)
    OBVIOUS
  <2>2. /\ extractor.lists /= <<>> /\ n \in DOMAIN place /\ place[n] = h
        /\ \A k \in DOMAIN place : k # n => place[k] < h
    BY <1>2, <1>6, <2>1, ListOnTop
  <2>3. extractor'.lists = Front(extractor.lists) /\ extractor'.counters = Front(extractor.counters)
    BY <1>2, <1>6, <2>2 DEF Ended
  <2>4. /\ n > 0 /\ extractor'.lists \in Seq(Lists) /\ Len(extractor'.lists) = n - 1
        /\ \A k \in 1..(n - 1) : extractor'.lists[k] = extractor.lists[k] /\ extractor'.counters[k] = extractor.counters[k]
    BY <1>1, <2>2, <2>3, ListTop
  <2>5. DOMAIN place = 1..n /\ \A k \in 1..n : place[k] \in 1..h
    BY <1>3, <1>6, <2>1 DEF ListsAt
  <2> DEFINE less == [k \in 1..(n - 1) |-> place[k]]
  <2>6. DOMAIN extractor'.lists = 1..(n - 1) /\ Height' = h - 1
    BY <1>3, <1>6, <2>4
  <2>7. \A k \in 1..(n - 1) : k \in 1..n /\ place[k] \in 1..(h - 1)
    <3> SUFFICES ASSUME NEW k \in 1..(n - 1) PROVE k \in 1..n /\ place[k] \in 1..(h - 1)
      OBVIOUS
    <3>1. k \in 1..n /\ k # n
      BY <1>3
    <3>2. place[k] \in 1..h /\ place[k] < h
      BY <2>2, <2>5, <3>1
    <3> QED BY <1>2, <3>1, <3>2
  <2>8. less \in [DOMAIN extractor'.lists -> 1..Height']
    BY <2>6, <2>7
  <2>9. DOMAIN less = 1..(n - 1) /\ \A k \in 1..(n - 1) : less[k] = place[k]
    OBVIOUS
  <2> HIDE DEF less
  <2>10. \A j, k \in DOMAIN less : j < k => less[j] < less[k]
    BY <2>1, <2>5, <2>7, <2>9 DEF ListsAt
  <2>11. \A k \in DOMAIN less :
           /\ open'[less[k]].tag = extractor'.lists[k]
           /\ extractor'.lists[k] = "ol" => extractor'.counters[k] = open'[less[k]].items
    <3> SUFFICES ASSUME NEW k \in 1..(n - 1)
                 PROVE  /\ open'[place[k]].tag = extractor'.lists[k]
                        /\ extractor'.lists[k] = "ol" => extractor'.counters[k] = open'[place[k]].items
      BY <2>9
    <3>1. /\ open[place[k]].tag = extractor.lists[k]
          /\ extractor.lists[k] = "ol" => extractor.counters[k] = open[place[k]].items
      BY <2>1, <2>5, <2>7 DEF ListsAt
    <3> QED BY <1>2, <2>4, <2>7, <3>1
  <2>12. \A i \in 1..Height' : open'[i].tag \in Lists => \E k \in DOMAIN less : less[k] = i
    <3> SUFFICES ASSUME NEW i \in 1..(h - 1), open'[i].tag \in Lists PROVE \E k \in 1..(n - 1) : place[k] = i
      BY <2>6, <2>9
    <3>1. i \in 1..Height /\ open[i].tag \in Lists /\ i # h
      BY <1>2, <1>6
    <3>2. PICK k \in DOMAIN place : place[k] = i
      BY <2>1, <3>1 DEF ListsAt
    <3> QED BY <1>3, <2>2, <2>5, <3>1, <3>2
  <2> QED BY <2>8, <2>10, <2>11, <2>12, ListsThen
<1>7. extractor.skip > 0 \/ extractor.skip = 0
  BY <1>1
<1> QED BY <1>4, <1>5, <1>6, <1>7

LEMMA EndKeeps == ASSUME PageInv, EndElement PROVE PageInv'
<1>1. unended \in BOOLEAN
  BY InvParts
<1>2. /\ SkipInv' /\ Keeps(extractor, extractor') /\ open' \in Seq(Elements) /\ Writing
      /\ UNCHANGED <<webRequest, fetch, result, texts, unended>>
      /\ \A i \in 1..Len(open') : ~open'[i].fresh
  BY EndSkips DEF EndElement
<1>3. WebTyped'
  BY <1>1, <1>2, CallbackKeeps, WritingKeeps, TextsTyped
<1>4. ASSUME ~unended PROVE WholeInv' /\ (Markdown => (\E place : ListsAt(extractor, place)') /\ ItemBegins')
  <2>1. WholeInv /\ Visible \subseteq HeldBy(extractor)
    BY <1>4, InvParts DEF WholeInv
  <2>2. (Visible \subseteq HeldBy(extractor))'
    BY <1>2, <2>1, CallbackKeeps
  <2>3. /\ WholeInv' /\ Height' \in Int
        /\ extractor.skip > 0 => Height' = Height /\ Height < Len(open)
        /\ extractor.skip = 0 => Height = Len(open) /\ Height' = Len(open) - 1
    BY <2>1, <2>2, EndWhole
  <2>4. ASSUME Markdown PROVE (\E place : ListsAt(extractor, place)') /\ ItemBegins'
    <3>1. \E place : ListsAt(extractor, place)
      BY <1>4, <2>4, InvParts DEF NumberInv
    <3> QED BY <1>2, <1>3, <2>3, <2>4, <3>1, EndLists, NothingBegins
  <2> QED BY <2>3, <2>4
<1> QED BY <1>1, <1>2, <1>4, TagKeeps

(* What is skipped is hidden, as long as every tag has had its end.        *)
LEMMA SkippedIsHidden == ASSUME PageInv, WholeInv, extractor.skip > 0 PROVE Hidden
<1>1. /\ open \in Seq(Elements)
      /\ extractor.skip \in Nat
      /\ Len(open) \in Nat
      /\ DOMAIN open = 1..Len(open)
  BY InvParts, OpenIs
<1>2. /\ open[Height + 1].tag \in SkipTags
      /\ extractor.skip <= Len(open)
      /\ Height = Len(open) - extractor.skip
  BY DEF WholeInv, Height
<1>3. Height + 1 \in 1..Len(open)
  BY <1>1, <1>2
<1> QED BY <1>1, <1>2, <1>3 DEF Hidden

(* The end tag of an item left out.                                        *)
LEMMA OmitKeeps == ASSUME PageInv, OmitItemEnd PROVE PageInv'
<1>1. /\ WebTyped /\ SkipInv /\ Sound(extractor) /\ open \in Seq(Elements) /\ extractor.skip \in Nat
      /\ unended \in BOOLEAN /\ Height \in Int /\ extractor.title \in BOOLEAN
  BY InvParts
<1> DEFINE n == Len(open)
<1>2. /\ n \in Nat /\ n > 0 /\ DOMAIN open = 1..n /\ open[n].tag = "li"
      /\ open' \in Seq(Elements) /\ Len(open') = n - 1 /\ DOMAIN open' = 1..(n - 1)
      /\ \A i \in 1..(n - 1) : open'[i] = open[i]
  <2>1. open /= <<>> /\ open' = Front(open) /\ Parent = "li"
    BY DEF OmitItemEnd, Parent
  <2>2. n \in Nat /\ n > 0 /\ DOMAIN open = 1..n /\ open[n].tag = "li"
    BY <1>1, <2>1, OpenIs
  <2>3. open' \in Seq(Elements) /\ Len(open') = n - 1 /\ \A i \in 1..(n - 1) : open'[i] = open[i]
    BY <1>1, <2>1, ElementsEnd
  <2> QED BY <2>2, <2>3
<1>3. /\ Keeps(extractor, extractor') /\ extractor' = extractor /\ Writing
      /\ UNCHANGED <<webRequest, fetch, result, texts>> /\ unended' = (unended \/ Hidden)
  BY <1>1, KeepsItself DEF OmitItemEnd
<1>4. /\ \A i \in 1..n : open[i].tag \in SkipTags => extractor.skip > n - i
      /\ \A i \in 1..n : open[i].tag = "title" => n = 1
      /\ extractor.title <=> InTitle /\ extractor.skip = 0
      /\ \A i \in 1..n : open[i].fresh => i = n
  BY <1>1, <1>2 DEF SkipInv
<1> HIDE DEF n
<1>5. \A i \in 1..(n - 1) : i \in 1..n /\ i # n
  BY <1>2
<1>6. \A i \in 1..n : open[i].tag # "title"
  <2> SUFFICES ASSUME NEW i \in 1..n, open[i].tag = "title" PROVE FALSE
    OBVIOUS
  <2>1. i = n
    BY <1>4
  <2> QED BY <1>2, <2>1
<1>7. ~extractor.title /\ \A i \in 1..(n - 1) : open'[i].tag # "title"
  BY <1>2, <1>4, <1>5, <1>6 DEF InTitle
<1>8. \A i \in 1..(n - 1) : ~open'[i].fresh
  BY <1>2, <1>4, <1>5
<1>9. SkipInv'
  <2>1. \A i \in 1..(n - 1) : open'[i].tag \in SkipTags => extractor'.skip > n - 1 - i
    <3> SUFFICES ASSUME NEW i \in 1..(n - 1), open'[i].tag \in SkipTags PROVE extractor.skip > n - 1 - i
      BY <1>3
    <3>1. extractor.skip > n - i
      BY <1>2, <1>4, <1>5
    <3> QED BY <1>1, <1>2, <3>1
  <2> QED BY <1>2, <1>3, <1>7, <1>8, <2>1 DEF SkipInv, InTitle
<1>10. WebTyped'
  BY <1>1, <1>2, <1>3, CallbackKeeps, WritingKeeps, TextsTyped
<1>11. ASSUME ~unended' PROVE ~unended /\ WholeInv' /\ (Markdown => (\E place : ListsAt(extractor, place)') /\ ItemBegins')
  <2>1. ~unended /\ ~Hidden /\ WholeInv
    BY <1>1, <1>3, <1>11, InvParts
  <2>2. extractor.skip = 0
    BY <1>1, <2>1, SkippedIsHidden
  <2>3. Height = n /\ Height' = n - 1
    BY <1>2, <1>3, <2>2 DEF Height, n
  <2>4. (Visible \subseteq HeldBy(extractor))'
    BY <1>3, <2>1, CallbackKeeps DEF WholeInv
  <2>5. WholeInv'
    <3>1. \A i \in 1..n : open[i].tag \notin SkipTags
      BY <2>2, NotSkipped DEF n
    <3> QED BY <1>2, <1>3, <1>5, <2>2, <2>3, <2>4, <3>1 DEF WholeInv
  <2>6. ASSUME Markdown PROVE (\E place : ListsAt(extractor, place)') /\ ItemBegins'
    <3>1. \E place : ListsAt(extractor, place)
      BY <2>1, <2>6, InvParts DEF NumberInv
    <3>2. \A i \in 1..Height : open[i].tag \in Lists => i <= Height'
      BY <1>2, <2>3 DEF Lists
    <3>3. \A i \in 1..Height : i <= Height' => open'[i] = open[i]
      BY <1>2, <2>3
    <3>4. \A i \in 1..Height' : ~(i > Height)
      BY <1>2, <2>3
    <3>5. SameLists(extractor, extractor') /\ Height' \in Int
      BY <1>2, <1>3, <2>3 DEF SameLists
    <3>6. \E place : ListsAt(extractor, place)'
      BY <1>1, <1>10, <3>1, <3>2, <3>3, <3>4, <3>5, ListsStay
    <3> QED BY <1>2, <1>8, <3>6, NothingBegins
  <2> QED BY <2>1, <2>5, <2>6
<1>12. unended' \in BOOLEAN
  BY <1>1, <1>3 DEF Hidden
<1> QED BY <1>2, <1>3, <1>9, <1>11, <1>12, TagKeeps

(* What uses the element that is open changes none of the others.          *)
LEMMA UsedKeeps ==
    ASSUME PageInv, open' = Used, extractor'.skip \in Nat, extractor'.skip >= extractor.skip,
           extractor'.skip = 0 <=> extractor.skip = 0, extractor'.title = extractor.title
    PROVE  /\ SkipInv' /\ open' \in Seq(Elements) /\ (InTitle' <=> InTitle)
           /\ Len(open') = Len(open) /\ Len(open) \in Nat
           /\ \A i \in 1..Len(open) : open'[i].tag = open[i].tag /\ open'[i].items = open[i].items
           /\ \A i \in 1..Len(open') : ~open'[i].fresh
<1>1. SkipInv /\ open \in Seq(Elements) /\ extractor.skip \in Nat
  BY InvParts
<1> DEFINE n == Len(open)
<1>2. /\ n \in Nat /\ DOMAIN open = 1..n /\ open' \in Seq(Elements) /\ Len(open') = n /\ DOMAIN open' = 1..n
      /\ \A i \in 1..n : open'[i].tag = open[i].tag /\ open'[i].items = open[i].items /\ ~open'[i].fresh
  <2>1. n \in Nat /\ DOMAIN open = 1..n
    BY <1>1, OpenIs
  <2>2. \A i \in DOMAIN open : open[i].fresh => i = Len(open) /\ open[i].tag = "li"
    BY <1>1 DEF SkipInv
  <2>3. /\ open' \in Seq(Elements) /\ Len(open') = n
        /\ \A i \in 1..n : open'[i].tag = open[i].tag /\ open'[i].items = open[i].items /\ ~open'[i].fresh
    BY <1>1, <2>2, UsedIs
  <2> QED BY <2>1, <2>3
<1>3. /\ \A i \in 1..n : open[i].tag \in SkipTags => extractor.skip > n - i
      /\ \A i \in 1..n : open[i].tag = "title" => n = 1
      /\ extractor.title <=> InTitle /\ extractor.skip = 0
  BY <1>1, <1>2 DEF SkipInv
<1>4. InTitle' <=> InTitle
  BY <1>2 DEF InTitle
<1> HIDE DEF n
<1>5. \A i \in 1..n : open'[i].tag \in SkipTags => extractor'.skip > n - i
  BY <1>1, <1>2, <1>3
<1>6. SkipInv'
  BY <1>2, <1>3, <1>4, <1>5 DEF SkipInv
<1> QED BY <1>2, <1>4, <1>6 DEF n

(* Where nothing is opened or closed, the extractor keeps its place.       *)
LEMMA PlaceKeeps ==
    ASSUME PageInv, WholeInv, open' = Used, open' \in Seq(Elements), Len(open') = Len(open),
           \A i \in 1..Len(open) : open'[i].tag = open[i].tag /\ open'[i].items = open[i].items,
           extractor'.skip = extractor.skip, SameLists(extractor, extractor'), WebTyped',
           (Visible \subseteq HeldBy(extractor))'
    PROVE  /\ WholeInv'
           /\ (\E place : ListsAt(extractor, place)) => \E place : ListsAt(extractor, place)'
<1>1. /\ WebTyped
      /\ open \in Seq(Elements)
      /\ extractor.skip \in Nat
      /\ Height \in Int
      /\ Len(open) \in Nat
  BY InvParts, OpenIs
<1>2. Height' = Height /\ Height = Len(open) - extractor.skip /\ extractor.skip <= Len(open)
  BY DEF Height, WholeInv
<1>3. \A i \in 1..Height : i \in 1..Len(open)
  BY <1>1, <1>2
<1>4. extractor.skip > 0 => Height + 1 \in 1..Len(open)
  BY <1>1, <1>2
<1>5. WholeInv'
  BY <1>2, <1>3, <1>4 DEF WholeInv
<1>6. ASSUME \E place : ListsAt(extractor, place) PROVE \E place : ListsAt(extractor, place)'
  BY <1>1, <1>2, <1>3, <1>6, ListsStay
<1> QED BY <1>5, <1>6

(* A void element: its end tag, where it has one, undoes its start tag.    *)
LEMMA VoidIs ==
    ASSUME PageInv, NEW tag \in Tags, NEW closed \in BOOLEAN, VoidElement(tag, closed)
    PROVE  /\ Keeps(extractor, extractor') /\ SameLists(extractor, extractor')
           /\ extractor'.title = extractor.title /\ extractor'.skip \in Nat
           /\ extractor'.skip >= extractor.skip /\ (extractor'.skip = 0 <=> extractor.skip = 0)
           /\ closed => extractor'.skip = extractor.skip
<1>1. Sound(extractor) /\ extractor.skip \in Nat /\ extractor.title \in BOOLEAN
  BY InvParts
<1> DEFINE s == StartTag(extractor, tag)
           f == EndTag(s, tag)
<1>2. tag \notin SkipTags \cup Lists \cup {"title", "li"}
  BY DEF VoidElement, Voids, SkipTags, Lists
<1>3. extractor' = IF closed THEN f ELSE s
  BY DEF VoidElement, Writes
<1> HIDE DEF f
<1>4. Keeps(extractor, s) /\ Started(extractor, s, tag)
  BY <1>1, TagStarts
<1> HIDE DEF s
<1>5. Sound(s) /\ s.skip \in Nat /\ s.title \in BOOLEAN
  BY <1>4, IsExtractor DEF Keeps
<1>6. Keeps(s, f) /\ Ended(s, f, tag)
  BY <1>5, TagEnds DEF f
<1>7. Sound(f) /\ f.skip \in Nat /\ f.title \in BOOLEAN
  BY <1>6, IsExtractor DEF Keeps
<1>8. Keeps(extractor, f)
  BY <1>4, <1>6, KeepsTransitive
<1>9. CASE extractor.skip > 0
  <2>1. s.skip = extractor.skip + 1 /\ s.title = extractor.title /\ SameLists(extractor, s)
    BY <1>4, <1>9 DEF Started
  <2>2. f.skip = extractor.skip /\ f.title = extractor.title /\ SameLists(extractor, f)
    BY <1>1, <1>6, <1>9, <2>1 DEF Ended, SameLists
  <2> QED BY <1>1, <1>3, <1>4, <1>8, <1>9, <2>1, <2>2
<1>10. CASE extractor.skip = 0
  <2>1. s.skip = 0 /\ s.title = extractor.title /\ SameLists(extractor, s)
    BY <1>1, <1>2, <1>4, <1>5, <1>10 DEF Started, SameLists
  <2>2. f.skip = 0 /\ f.title = extractor.title /\ SameLists(extractor, f)
    BY <1>1, <1>2, <1>6, <1>7, <2>1 DEF Ended, SameLists
  <2> QED BY <1>3, <1>4, <1>8, <1>10, <2>1, <2>2
<1> QED BY <1>1, <1>9, <1>10

LEMMA VoidKeeps ==
    ASSUME PageInv, NEW tag \in Tags, NEW closed \in BOOLEAN, VoidElement(tag, closed) PROVE PageInv'
<1>1. /\ Keeps(extractor, extractor') /\ SameLists(extractor, extractor')
      /\ extractor'.title = extractor.title /\ extractor'.skip \in Nat
      /\ extractor'.skip >= extractor.skip /\ (extractor'.skip = 0 <=> extractor.skip = 0)
      /\ closed => extractor'.skip = extractor.skip
  BY VoidIs
<1>2. /\ open' = Used /\ Writing /\ UNCHANGED <<webRequest, fetch, result, texts>>
      /\ unended' = (unended \/ (Hidden /\ ~closed))
  BY DEF VoidElement
<1>3. /\ SkipInv' /\ open' \in Seq(Elements) /\ Len(open') = Len(open)
      /\ \A i \in 1..Len(open) : open'[i].tag = open[i].tag /\ open'[i].items = open[i].items
      /\ \A i \in 1..Len(open') : ~open'[i].fresh
  BY <1>1, <1>2, UsedKeeps
<1>4. unended \in BOOLEAN /\ unended' \in BOOLEAN /\ extractor.skip \in Nat
  BY <1>2, InvParts DEF Hidden
<1>5. WebTyped'
  BY <1>1, <1>2, <1>3, <1>4, CallbackKeeps, WritingKeeps, TextsTyped
<1>6. ASSUME ~unended' PROVE ~unended /\ WholeInv' /\ (Markdown => (\E place : ListsAt(extractor, place)') /\ ItemBegins')
  <2>1. ~unended /\ (~Hidden \/ closed) /\ WholeInv
    BY <1>2, <1>4, <1>6, InvParts
  <2>2. extractor'.skip = extractor.skip
    BY <1>1, <1>4, <2>1, SkippedIsHidden
  <2>3. (Visible \subseteq HeldBy(extractor))'
    BY <1>1, <1>2, <2>1, CallbackKeeps DEF WholeInv
  <2>4. WholeInv' /\ ((\E place : ListsAt(extractor, place)) => \E place : ListsAt(extractor, place)')
    BY <1>1, <1>2, <1>3, <1>5, <2>1, <2>2, <2>3, PlaceKeeps
  <2> QED BY <1>3, <2>1, <2>4, InvParts, NothingBegins DEF NumberInv
<1> QED BY <1>1, <1>2, <1>3, <1>4, <1>6, TagKeeps

-----------------------------------------------------------------------------
LEMMA BlocksAre ==
    ASSUME Sound(extractor), NEW b \in DOMAIN extractor.blocks
    PROVE  extractor.blocks[b].items \in Seq(Items)
<1> DEFINE S == [prefix : Marks, items : Seq(Items)]
<1>1. extractor.blocks \in Seq(S)
  BY DEF Sound, Extractors
<1> HIDE DEF S
<1>2. extractor.blocks[b] \in S
  BY <1>1
<1> QED BY <1>2 DEF S

(* A text: those that are held already bear what they bore.                *)
LEMMA OneMoreText ==
    ASSUME PageInv, Text
    PROVE  LET n == Len(texts) + 1 IN
           /\ n \in Nat /\ texts' \in Seq([visible : BOOLEAN, item : Nat])
           /\ DOMAIN texts' = 1..n /\ DOMAIN texts = 1..(n - 1)
           /\ texts'[n] = [visible |-> ~Hidden /\ ~InTitle, item |-> ItemNumber]
           /\ \A m \in 1..(n - 1) : texts'[m] = texts[m]
           /\ Visible' = Visible \cup (IF ~Hidden /\ ~InTitle THEN {n} ELSE {})
           /\ \A m \in HeldBy(extractor) : m \in DOMAIN texts /\ m < n
<1> DEFINE t == [visible |-> ~Hidden /\ ~InTitle, item |-> ItemNumber]
           n == Len(texts) + 1
<1>1. texts \in Seq([visible : BOOLEAN, item : Nat]) /\ open \in Seq(Elements)
  BY InvParts, TextsTyped
<1>2. t \in [visible : BOOLEAN, item : Nat]
  <2>1. ItemNumber \in Nat
    <3>1. Len(open) > 1 => open[Len(open) - 1].items \in Nat
      <4>1. Len(open) > 1 => Len(open) - 1 \in 1..Len(open)
        BY <1>1, OpenIs
      <4> QED BY <1>1, <4>1, OpenIs
    <3> QED BY <3>1 DEF ItemNumber
  <2>2. Hidden \in BOOLEAN /\ InTitle \in BOOLEAN
    BY DEF Hidden, InTitle
  <2> QED BY <2>1, <2>2
<1>3. texts' = Append(texts, t)
  BY DEF Text
<1> HIDE DEF t
<1>4. /\ n \in Nat /\ texts' \in Seq([visible : BOOLEAN, item : Nat])
      /\ DOMAIN texts' = 1..n /\ DOMAIN texts = 1..(n - 1)
      /\ texts'[n] = t /\ \A m \in 1..(n - 1) : texts'[m] = texts[m]
  BY <1>1, <1>2, <1>3
<1>5. Visible' = Visible \cup (IF t.visible THEN {n} ELSE {})
  BY <1>4 DEF Visible
<1>6. \A m \in HeldBy(extractor) : m \in DOMAIN texts
  BY InvParts DEF KeptInv, Visible
<1>7. \A m \in HeldBy(extractor) : m < n
  BY <1>4, <1>6
<1> QED BY <1>4, <1>5, <1>6, <1>7 DEF t

LEMMA BearsOn ==
    ASSUME PageInv, Text, NEW items \in Seq(Items), NEW p, Bears(p, items),
           TextsIn(items) \subseteq DOMAIN texts
    PROVE  \A m \in DOMAIN texts' :
             items /= <<>> /\ items[1] = <<"text", m>> /\ texts'[m].item > 0 => p = Number(texts'[m].item)
<1> SUFFICES ASSUME NEW m \in DOMAIN texts', items /= <<>>, items[1] = <<"text", m>>, texts'[m].item > 0
             PROVE  p = Number(texts'[m].item)
  OBVIOUS
<1>1. 1 \in DOMAIN items
  OBVIOUS
<1>2. IsWord(items[1]) /\ items[1][2] = m
  BY Words
<1>3. m \in DOMAIN texts
  BY <1>1, <1>2 DEF TextsIn, IsWord
<1>4. texts'[m] = texts[m]
  BY <1>3, OneMoreText
<1> QED BY <1>3, <1>4 DEF Bears

(* A text that is kept.                                                    *)
LEMMA TextIsKept ==
    ASSUME PageInv, Text, extractor.skip = 0, ~extractor.title
    PROVE  /\ Sound(extractor') /\ KeptInv' /\ SameLists(extractor, extractor')
           /\ extractor'.skip = extractor.skip /\ extractor'.title = extractor.title
           /\ Visible \subseteq HeldBy(extractor) => (Visible \subseteq HeldBy(extractor))'
           /\ NumberInv => Bearing(extractor)'
<1> DEFINE n == Len(texts) + 1
<1>1. /\ n \in Nat /\ DOMAIN texts' = 1..n /\ DOMAIN texts = 1..(n - 1)
      /\ texts'[n] = [visible |-> ~Hidden /\ ~InTitle, item |-> ItemNumber]
      /\ Visible' = Visible \cup (IF ~Hidden /\ ~InTitle THEN {n} ELSE {})
      /\ \A m \in HeldBy(extractor) : m \in DOMAIN texts /\ m < n
  BY OneMoreText
<1>2. Sound(extractor) /\ open \in Seq(Elements) /\ SkipInv /\ KeptInv
  BY InvParts
<1>3. extractor' = HandleData(extractor, n)
  BY DEF Text, Writes
<1>4. ~Hidden /\ ~InTitle
  <2>1. ~Hidden
    BY <1>2, NotSkipped, OpenIs DEF Hidden
  <2> QED BY <1>2, <2>1 DEF SkipInv
<1> HIDE DEF n
<1>5. /\ Sound(extractor') /\ HeldBy(extractor') = HeldBy(extractor) \cup {n}
      /\ extractor'.blocks = extractor.blocks /\ extractor'.prefix = extractor.prefix
      /\ SameLists(extractor, extractor')
      /\ extractor'.skip = extractor.skip /\ extractor'.title = extractor.title
      /\ extractor'.current /= <<>>
      /\ extractor'.current[1] = IF extractor.current = <<>> THEN <<"text", n>> ELSE extractor.current[1]
  BY <1>1, <1>2, <1>3, DataIsHeld
<1>6. OrderedIn(extractor)' /\ HeldBy(extractor)' = HeldBy(extractor')
  BY <1>5 DEF Sound, OrderedIn, HeldBy, InOrder, ItemsInOrder, TextsOf, TextsIn
<1>7. Visible' = Visible \cup {n}
  BY <1>1, <1>4
<1>8. KeptInv'
  BY <1>2, <1>5, <1>6, <1>7 DEF KeptInv
<1>9. Visible \subseteq HeldBy(extractor) => (Visible \subseteq HeldBy(extractor))'
  BY <1>5, <1>6, <1>7
<1>10. ASSUME NumberInv PROVE Bearing(extractor)'
  <2>1. /\ extractor.blocks \in Seq([prefix : Marks, items : Seq(Items)])
        /\ extractor.current \in Seq(Items)
    BY <1>2 DEF Sound, Extractors
  <2>2. ASSUME NEW b \in DOMAIN extractor.blocks
        PROVE  Bears(extractor.blocks[b].prefix, extractor.blocks[b].items)'
    <3>1. /\ extractor.blocks[b].items \in Seq(Items)
          /\ Bears(extractor.blocks[b].prefix, extractor.blocks[b].items)
      <4>1. extractor.blocks[b].items \in Seq(Items)
        BY <1>2, BlocksAre
      <4>2. BlocksBear(extractor.blocks)
        BY <1>10 DEF NumberInv
      <4> QED BY <4>1, <4>2 DEF BlocksBear
    <3>2. TextsIn(extractor.blocks[b].items) \subseteq DOMAIN texts
      BY <1>1 DEF HeldBy, TextsOf
    <3> DEFINE items == extractor.blocks[b].items
               p == extractor.blocks[b].prefix
    <3>3. extractor'.blocks[b].items = items /\ extractor'.blocks[b].prefix = p
      BY <1>5
    <3> HIDE DEF items, p
    <3>4. \A m \in DOMAIN texts' :
            items /= <<>> /\ items[1] = <<"text", m>> /\ texts'[m].item > 0 => p = Number(texts'[m].item)
      BY <3>1, <3>2, BearsOn DEF items, p
    <3> QED BY <3>3, <3>4 DEF Bears
  <2>3. BlocksBear(extractor.blocks)'
    BY <1>5, <2>2 DEF BlocksBear
  <2>4. Bears(extractor.prefix, extractor.current)'
    <3>1. CASE extractor.current /= <<>>
      <4>1. /\ TextsIn(extractor.current) \subseteq DOMAIN texts
            /\ Bears(extractor.prefix, extractor.current)
        BY <1>1, <1>10 DEF HeldBy, NumberInv
      <4>2. \A m \in DOMAIN texts' :
              extractor.current /= <<>> /\ extractor.current[1] = <<"text", m>> /\ texts'[m].item > 0
                => extractor.prefix = Number(texts'[m].item)
        BY <2>1, <4>1, BearsOn
      <4> QED BY <1>5, <3>1, <4>2 DEF Bears
    <3>2. CASE extractor.current = <<>>
      <4> SUFFICES ASSUME NEW m \in DOMAIN texts', <<"text", n>> = <<"text", m>>, texts'[m].item > 0
                   PROVE  extractor'.prefix = Number(texts'[m].item)
        BY <1>5, <3>2 DEF Bears
      <4>1. m = n
        BY Words
      <4>2. texts'[m].item = ItemNumber
        BY <1>1, <4>1
      <4>3. /\ Len(open) > 1 /\ Parent = "li" /\ Last(open).fresh /\ open[Len(open) - 1].tag = "ol"
            /\ ItemNumber = open[Len(open) - 1].items
        BY <4>2 DEF ItemNumber
      <4> QED BY <1>5, <1>10, <4>2, <4>3 DEF NumberInv, ItemBegins
    <3> QED BY <3>1, <3>2
  <2> QED BY <2>3, <2>4 DEF Bearing
<1> QED BY <1>5, <1>8, <1>9, <1>10

(* A text that is not: it is hidden, as long as every tag has had its end. *)
LEMMA TextIsSkipped ==
    ASSUME PageInv, Text, extractor.skip > 0 \/ extractor.title
    PROVE  /\ extractor' = extractor /\ KeptInv'
           /\ WholeInv => (Visible \subseteq HeldBy(extractor))'
           /\ NumberInv => Bearing(extractor)'
<1> DEFINE n == Len(texts) + 1
<1>1. /\ Visible' = Visible \cup (IF ~Hidden /\ ~InTitle THEN {n} ELSE {})
      /\ \A m \in HeldBy(extractor) : m \in DOMAIN texts /\ m < n
  BY OneMoreText
<1>2. Sound(extractor) /\ open \in Seq(Elements) /\ SkipInv /\ KeptInv
  BY InvParts
<1>3. extractor' = extractor
  BY DEF Text, Writes, HandleData
<1> HIDE DEF n
<1>4. KeptInv'
  <2>1. OrderedIn(extractor)' /\ HeldBy(extractor)' = HeldBy(extractor)
    BY <1>2, <1>3 DEF KeptInv, OrderedIn, HeldBy, InOrder, ItemsInOrder, TextsOf, TextsIn
  <2> QED BY <1>1, <1>2, <2>1 DEF KeptInv
<1>5. ASSUME WholeInv PROVE (Visible \subseteq HeldBy(extractor))'
  <2>1. Hidden \/ InTitle
    BY <1>2, <1>5, SkippedIsHidden DEF SkipInv
  <2>2. Visible' = Visible
    BY <1>1, <2>1
  <2>3. HeldBy(extractor)' = HeldBy(extractor)
    BY <1>3 DEF HeldBy, TextsOf, TextsIn
  <2> QED BY <1>5, <2>2, <2>3 DEF WholeInv
<1>6. ASSUME NumberInv PROVE Bearing(extractor)'
  <2>1. /\ extractor.blocks \in Seq([prefix : Marks, items : Seq(Items)])
        /\ extractor.current \in Seq(Items)
    BY <1>2 DEF Sound, Extractors
  <2>2. ASSUME NEW b \in DOMAIN extractor.blocks
        PROVE  Bears(extractor.blocks[b].prefix, extractor.blocks[b].items)'
    <3> DEFINE items == extractor.blocks[b].items
               p == extractor.blocks[b].prefix
    <3>1. items \in Seq(Items) /\ Bears(p, items)
      <4>1. extractor.blocks[b].items \in Seq(Items)
        BY <1>2, BlocksAre
      <4>2. BlocksBear(extractor.blocks)
        BY <1>6 DEF NumberInv
      <4> QED BY <4>1, <4>2 DEF BlocksBear
    <3>2. TextsIn(items) \subseteq DOMAIN texts
      BY <1>1 DEF HeldBy, TextsOf
    <3>3. extractor'.blocks[b].items = items /\ extractor'.blocks[b].prefix = p
      BY <1>3
    <3> HIDE DEF items, p
    <3>4. \A m \in DOMAIN texts' :
            items /= <<>> /\ items[1] = <<"text", m>> /\ texts'[m].item > 0 => p = Number(texts'[m].item)
      BY <3>1, <3>2, BearsOn
    <3> QED BY <3>3, <3>4 DEF Bears
  <2>3. BlocksBear(extractor.blocks)'
    BY <1>3, <2>2 DEF BlocksBear
  <2>4. Bears(extractor.prefix, extractor.current)'
    <3>1. /\ TextsIn(extractor.current) \subseteq DOMAIN texts
          /\ Bears(extractor.prefix, extractor.current)
      BY <1>1, <1>6 DEF HeldBy, NumberInv
    <3>2. \A m \in DOMAIN texts' :
            extractor.current /= <<>> /\ extractor.current[1] = <<"text", m>> /\ texts'[m].item > 0
              => extractor.prefix = Number(texts'[m].item)
      BY <2>1, <3>1, BearsOn
    <3> QED BY <1>3, <3>2 DEF Bears
  <2> QED BY <2>3, <2>4 DEF Bearing
<1> QED BY <1>3, <1>4, <1>5, <1>6

LEMMA TextKeeps == ASSUME PageInv, Text PROVE PageInv'
<1>1. /\ Sound(extractor) /\ unended \in BOOLEAN /\ extractor.skip \in Nat /\ extractor.title \in BOOLEAN
      /\ open \in Seq(Elements)
  BY InvParts
<1>2. /\ open' = Used /\ Writing /\ UNCHANGED <<webRequest, fetch, result, unended>>
  BY DEF Text
<1>3. /\ extractor' \in Extractors /\ Len(extractor'.lists) = Len(extractor'.counters)
      /\ KeptInv' /\ SameLists(extractor, extractor')
      /\ extractor'.skip = extractor.skip /\ extractor'.title = extractor.title
      /\ WholeInv => (Visible \subseteq HeldBy(extractor))'
      /\ NumberInv => Bearing(extractor)'
  <2>1. CASE extractor.skip = 0 /\ ~extractor.title
    BY <2>1, TextIsKept DEF WholeInv, Sound
  <2>2. CASE extractor.skip > 0 \/ extractor.title
    BY <1>1, <2>2, TextIsSkipped DEF SameLists, Sound
  <2> QED BY <1>1, <2>1, <2>2
<1>4. /\ SkipInv' /\ open' \in Seq(Elements) /\ Len(open') = Len(open)
      /\ \A i \in 1..Len(open) : open'[i].tag = open[i].tag /\ open'[i].items = open[i].items
      /\ \A i \in 1..Len(open') : ~open'[i].fresh
  BY <1>1, <1>2, <1>3, UsedKeeps
<1>5. WebTyped' /\ ToldInv' /\ Markdown' = Markdown
  <2>1. texts' \in Seq([visible : BOOLEAN, item : Nat]) /\ unended' \in BOOLEAN
    BY <1>1, <1>2, OneMoreText
  <2> QED BY <1>2, <1>3, <1>4, <2>1, WritingKeeps
<1>6. ASSUME ~unended PROVE WholeInv' /\ (Markdown => NumberInv')
  <2>1. WholeInv
    BY <1>6, InvParts
  <2>2. WholeInv' /\ ((\E place : ListsAt(extractor, place)) => \E place : ListsAt(extractor, place)')
    BY <1>2, <1>3, <1>4, <1>5, <2>1, PlaceKeeps
  <2>3. ASSUME Markdown PROVE NumberInv'
    <3>1. NumberInv
      BY <1>6, <2>3, InvParts
    <3>2. \E place : ListsAt(extractor, place)'
      BY <2>2, <3>1 DEF NumberInv
    <3> QED BY <1>3, <1>4, <3>1, <3>2, NothingBegins DEF NumberInv, Bearing
  <2> QED BY <2>2, <2>3
<1> QED BY <1>2, <1>3, <1>4, <1>5, <1>6 DEF PageInv

-----------------------------------------------------------------------------
(* The page ends: what was not yet in a block is, and is told.             *)
LEMMA PageEndKeeps ==
    ASSUME PageInv, PageEnds PROVE PageInv'
<1>1. /\ WebTyped /\ SkipInv /\ Sound(extractor) /\ open \in Seq(Elements) /\ unended \in BOOLEAN
      /\ extractor.lists \in Seq(Lists)
  BY InvParts, IsExtractor
<1>2. /\ extractor' = Flush(extractor) /\ UNCHANGED <<webRequest, open, tokens, texts, unended>>
      /\ result' = [success |-> TRUE, truncated |-> result'.truncated, content |-> result'.content]
      /\ \/ result'.content = extractor'.blocks
         \/ result'.truncated /\ FirstPart(result'.content, extractor'.blocks)
      /\ fetch' = [fetch EXCEPT !.at = "told"]
  <2> DEFINE blocks == Flush(extractor).blocks
  <2>1. /\ extractor' = Flush(extractor) /\ UNCHANGED <<webRequest, open, tokens, texts, unended>>
        /\ fetch' = [fetch EXCEPT !.at = "told"]
    BY DEF PageEnds, FetchAt
  <2>2. CASE PageTells(blocks, FALSE)
    <3>1. result' = [success |-> TRUE, truncated |-> fetch.cut \/ FALSE, content |-> blocks]
      BY <2>2 DEF PageTells
    <3> HIDE DEF blocks
    <3>2. result' = [success |-> TRUE, truncated |-> result'.truncated, content |-> result'.content]
          /\ result'.content = blocks
      BY <3>1
    <3> QED BY <2>1, <3>2 DEF blocks
  <2>3. CASE \E b \in DOMAIN blocks : \E i \in 0..Len(blocks[b].items) :
               PageTells(CutAt(blocks, b, i), TRUE)
    <3> HIDE DEF blocks
    <3>1. PICK b \in DOMAIN blocks :
            \E i \in 0..Len(blocks[b].items) : PageTells(CutAt(blocks, b, i), TRUE)
      BY <2>3
    <3>2. PICK i \in 0..Len(blocks[b].items) : PageTells(CutAt(blocks, b, i), TRUE)
      BY <3>1
    <3>3. result' = [success |-> TRUE, truncated |-> fetch.cut \/ TRUE, content |-> CutAt(blocks, b, i)]
      BY <3>2 DEF PageTells
    <3>4. /\ result' = [success |-> TRUE, truncated |-> result'.truncated, content |-> result'.content]
          /\ result'.truncated /\ FirstPart(result'.content, blocks)
      BY <3>3 DEF FirstPart
    <3> QED BY <2>1, <3>4 DEF blocks
  <2> QED BY <2>1, <2>2, <2>3 DEF PageEnds
<1>3. /\ Keeps(extractor, extractor') /\ extractor'.current = <<>>
      /\ extractor'.skip = extractor.skip /\ extractor'.title = extractor.title
      /\ extractor'.prefix = extractor.prefix
      /\ extractor'.lists = extractor.lists /\ extractor'.counters = extractor.counters
  BY <1>1, <1>2, FlushKeeps
<1>4. /\ extractor' \in Extractors /\ Len(extractor'.lists) = Len(extractor'.counters)
      /\ KeptInv' /\ (Bearing(extractor) => Bearing(extractor)')
      /\ Visible \subseteq HeldBy(extractor) => (Visible \subseteq HeldBy(extractor))'
  BY <1>2, <1>3, CallbackKeeps
<1>5. WebTyped'
  <2>1. fetch = [at |-> fetch.at, hops |-> fetch.hops, cut |-> fetch.cut, page |-> fetch.page]
    BY <1>1 DEF WebTyped
  <2>2. fetch' = [at |-> "told", hops |-> fetch.hops, cut |-> fetch.cut, page |-> fetch.page]
    BY <1>2, <2>1
  <2>3. /\ fetch' = [at |-> fetch'.at, hops |-> fetch'.hops, cut |-> fetch'.cut, page |-> fetch'.page]
        /\ fetch'.at = "told"
    BY <2>2
  <2>4. result' = [success |-> result'.success, truncated |-> result'.truncated, content |-> result'.content]
    BY <1>2
  <2> QED BY <1>1, <1>2, <1>4, <2>3, <2>4 DEF WebTyped
<1>6. ToldInv'
  BY <1>2, <1>3 DEF ToldInv, FirstPart, CutAt
<1>7. SkipInv'
  BY <1>1, <1>2, <1>3 DEF SkipInv, InTitle
<1>8. Height' = Height /\ Markdown' = Markdown
  BY <1>2, <1>3 DEF Height, Markdown
<1>9. ASSUME ~unended PROVE WholeInv'
  <2>1. WholeInv
    BY <1>9, InvParts
  <2> QED BY <1>2, <1>3, <1>4, <1>8, <2>1 DEF WholeInv
<1>10. ASSUME ~unended, Markdown PROVE NumberInv'
  <2>1. NumberInv
    BY <1>10, InvParts
  <2>2. \E place : ListsAt(extractor, place)'
    BY <1>2, <1>3, <1>8, <2>1 DEF NumberInv, ListsAt
  <2>3. ItemBegins'
    BY <1>2, <1>3, <2>1 DEF NumberInv, ItemBegins, Parent
  <2>4. Bearing(extractor)'
    BY <1>4, <2>1 DEF NumberInv, Bearing
  <2> QED BY <2>2, <2>3, <2>4 DEF NumberInv, Bearing
<1> QED BY <1>2, <1>4, <1>5, <1>6, <1>7, <1>8, <1>9, <1>10 DEF PageInv

(* Before the page is read, it is empty; a text is told as it is.          *)
LEMMA PageUntouched ==
    ASSUME PageInv, UNCHANGED <<webRequest, extractor, open, tokens, texts, unended>>,
           WebTyped', ToldInv'
    PROVE  PageInv'
<1>1. /\ KeptInv' = KeptInv /\ SkipInv' = SkipInv /\ WholeInv' = WholeInv
      /\ NumberInv' = NumberInv /\ Markdown' = Markdown
  <2>2. /\ Visible' = Visible
        /\ HeldBy(extractor)' = HeldBy(extractor)
        /\ OrderedIn(extractor)' = OrderedIn(extractor)
    BY DEF Visible, HeldBy, OrderedIn, InOrder, ItemsInOrder, TextsOf, TextsIn
  <2>3. InTitle' = InTitle /\ Height' = Height /\ Parent' = Parent /\ Markdown' = Markdown
    BY DEF InTitle, Height, Parent, Markdown
  <2>4. KeptInv' = KeptInv
    BY <2>2 DEF KeptInv
  <2>5. SkipInv' = SkipInv
    BY <2>3 DEF SkipInv
  <2>6. WholeInv' = WholeInv
    BY <2>2, <2>3 DEF WholeInv
  <2>7. (\E place : ListsAt(extractor, place)') = \E place : ListsAt(extractor, place)
    BY <2>3 DEF ListsAt
  <2>8. BlocksBear(extractor.blocks)' = BlocksBear(extractor.blocks)
    BY DEF BlocksBear, Bears
  <2>9. Bears(extractor.prefix, extractor.current)' = Bears(extractor.prefix, extractor.current)
    BY DEF Bears
  <2>10. ItemBegins' = ItemBegins
    BY <2>3 DEF ItemBegins
  <2> QED BY <2>3, <2>4, <2>5, <2>6, <2>7, <2>8, <2>9, <2>10 DEF NumberInv
<1> QED BY <1>1 DEF PageInv

IsFetch(f) == f = [at |-> f.at, hops |-> f.hops, cut |-> f.cut, page |-> f.page]

LEMMA BeforePageKeeps ==
    ASSUME PageInv,
           \/ Checks
           \/ \E target \in {"public", "private"} : Redirected(target)
           \/ OpenFails
           \/ \E cut \in BOOLEAN, type \in Types : FetchReads(cut, type) \/ WebfetchReads(cut, type)
    PROVE  PageInv'
<1>1. WebTyped /\ ToldInv
  BY InvParts
<1>2. /\ UNCHANGED <<webRequest, extractor, open, tokens, texts, unended>>
      /\ fetch.at \notin {"page", "told"}
  BY DEF Checks, Redirected, OpenFails, FetchReads, WebfetchReads, Page
<1>3. IsFetch(fetch) /\ ~fetch.page
  BY <1>1, <1>2 DEF WebTyped, IsFetch
<1>4. /\ IsFetch(fetch')
      /\ fetch'.page => fetch'.at = "page"
  <2>1. ASSUME NEW where, FetchAt(where)
        PROVE  IsFetch(fetch') /\ ~fetch'.page
    BY <1>3, <2>1 DEF FetchAt, IsFetch
  <2>2. CASE Checks
    BY <2>1, <2>2 DEF Checks
  <2>3. ASSUME NEW target \in {"public", "private"}, Redirected(target)
        PROVE  IsFetch(fetch') /\ ~fetch'.page
    BY <1>3, <2>3 DEF Redirected, IsFetch
  <2>4. CASE OpenFails
    BY <2>1, <2>4 DEF OpenFails
  <2>5. ASSUME NEW cut \in BOOLEAN, NEW type \in Types, FetchReads(cut, type)
        PROVE  IsFetch(fetch') /\ ~fetch'.page
    BY <2>1, <2>5 DEF FetchReads
  <2>6. ASSUME NEW cut \in BOOLEAN, NEW type \in Types, WebfetchReads(cut, type)
        PROVE  /\ IsFetch(fetch')
               /\ fetch'.page => fetch'.at = "page"
    <3>1. CASE type = "html"
      BY <1>3, <2>6, <3>1 DEF WebfetchReads, IsFetch
    <3>2. CASE type # "html"
      BY <2>1, <2>6, <3>2 DEF WebfetchReads
    <3> QED BY <3>1, <3>2
  <2> QED BY <2>2, <2>3, <2>4, <2>5, <2>6
<1>5. result' = [success |-> result'.success, truncated |-> result'.truncated, content |-> result'.content]
  <2>1. ASSUME NEW cut, Tells(cut)
        PROVE  result' = [success |-> result'.success, truncated |-> result'.truncated, content |-> result'.content]
    <3>1. result = [success |-> result.success, truncated |-> result.truncated, content |-> result.content]
      BY <1>1 DEF WebTyped
    <3>2. result' = [success |-> TRUE, truncated |-> cut, content |-> result.content]
      BY <2>1, <3>1 DEF Tells
    <3> QED BY <3>2
  <2>2. CASE UNCHANGED result
    BY <1>1, <2>2 DEF WebTyped
  <2> QED BY <2>1, <2>2 DEF Checks, Redirected, OpenFails, FetchReads, WebfetchReads
<1>6. WebTyped'
  BY <1>1, <1>2, <1>4, <1>5 DEF WebTyped, IsFetch
<1>7. ToldInv'
  BY <1>4 DEF ToldInv, HtmlTold
<1> QED BY <1>2, <1>6, <1>7, PageUntouched

LEMMA PageInvInit == WebFetchInit => PageInv
<1> SUFFICES ASSUME WebFetchInit PROVE PageInv
  OBVIOUS
<1>1. /\ webRequest \in Requests /\ extractor = NewExtractor /\ open = <<>> /\ texts = <<>> /\ unended = FALSE
      /\ fetch = [at |-> "asked", hops |-> 0, cut |-> FALSE, page |-> FALSE]
      /\ result = [success |-> FALSE, truncated |-> FALSE, content |-> <<>>]
  BY DEF WebFetchInit
<1>2. /\ extractor \in Extractors /\ extractor.lists = <<>> /\ extractor.counters = <<>>
      /\ extractor.current = <<>> /\ extractor.blocks = <<>> /\ extractor.skip = 0 /\ ~extractor.title
  <2>1. Plain \in Marks
    BY DEF Marks
  <2> DEFINE S == [prefix : Marks, items : Seq(Items)]
  <2>2. /\ <<>> \in Seq(Lists) /\ <<>> \in Seq(Nat) /\ <<>> \in Seq(Items)
        /\ \A T : <<>> \in Seq(T)
    OBVIOUS
  <2>3. <<>> \in Seq(S)
    BY <2>2
  <2> QED BY <1>1, <2>1, <2>2, <2>3 DEF NewExtractor, Extractors
<1>3. WebTyped
  <2>1. \A S : <<>> \in Seq(S)
    OBVIOUS
  <2>2. open \in Seq(Elements) /\ texts \in Seq([visible : BOOLEAN, item : Nat])
    BY <1>1, <2>1
  <2>3. Len(extractor.lists) = Len(extractor.counters)
    BY <1>2
  <2>4. /\ fetch = [at |-> fetch.at, hops |-> fetch.hops, cut |-> fetch.cut, page |-> fetch.page]
        /\ ~fetch.page
        /\ result = [success |-> result.success, truncated |-> result.truncated, content |-> result.content]
    BY <1>1
  <2> QED BY <1>1, <1>2, <2>2, <2>3, <2>4 DEF WebTyped
<1>4. TextsOf(extractor.blocks) = {} /\ TextsIn(extractor.current) = {}
  BY <1>2, EmptyIsFine
<1>5. KeptInv
  BY <1>2, <1>4, EmptyIsFine DEF KeptInv, OrderedIn, HeldBy
<1>6. SkipInv
  BY <1>1, <1>2 DEF SkipInv, InTitle
<1>7. ToldInv
  BY <1>1 DEF ToldInv, HtmlTold
<1>8. WholeInv /\ Height = 0
  BY <1>1, <1>2 DEF WholeInv, Height, Visible
<1>9. NumberInv
  <2>1. ListsAt(extractor, <<>>)
    BY <1>2, <1>8 DEF ListsAt
  <2>2. ItemBegins
    BY <1>1 DEF ItemBegins, Parent
  <2> QED BY <1>2, <2>1, <2>2, EmptyIsFine DEF NumberInv
<1> QED BY <1>3, <1>5, <1>6, <1>7, <1>8, <1>9 DEF PageInv

LEMMA PageInvStep == PageInv /\ [WebFetchNext]_webVars => PageInv'
<1> SUFFICES ASSUME PageInv, [WebFetchNext]_webVars PROVE PageInv'
  OBVIOUS
<1>1. CASE UNCHANGED webVars
  <2>1. UNCHANGED <<webRequest, fetch, extractor, open, tokens, texts, unended, result>>
    BY <1>1 DEF webVars
  <2>2. WebTyped' /\ ToldInv'
    BY <2>1, InvParts DEF WebTyped, ToldInv, HtmlTold
  <2> QED BY <2>1, <2>2, PageUntouched
<1>2. CASE WebFetchNext
  <2>1. CASE \/ Checks
             \/ \E target \in {"public", "private"} : Redirected(target)
             \/ OpenFails
             \/ \E cut \in BOOLEAN, type \in Types : FetchReads(cut, type) \/ WebfetchReads(cut, type)
    BY <2>1, BeforePageKeeps
  <2>2. CASE \E tag \in Tags : StartElement(tag)
    BY <2>2, StartKeeps
  <2>3. CASE EndElement
    BY <2>3, EndKeeps
  <2>4. CASE OmitItemEnd
    BY <2>4, OmitKeeps
  <2>5. CASE \E tag \in Tags, closed \in BOOLEAN : VoidElement(tag, closed)
    BY <2>5, VoidKeeps
  <2>6. CASE Text
    BY <2>6, TextKeeps
  <2>7. CASE PageEnds
    BY <2>7, PageEndKeeps
  <2> QED BY <1>2, <2>1, <2>2, <2>3, <2>4, <2>5, <2>6, <2>7 DEF WebFetchNext
<1> QED BY <1>1, <1>2

(* A first part of some items keeps what is before what it keeps, the      *)
(* order, and the number they begin with.                                  *)
LEMMA TextsAreNat == ASSUME NEW items \in Seq(Items) PROVE TextsIn(items) \subseteq Nat
<1>1. ASSUME NEW j \in DOMAIN items, items[j][1] = "text" PROVE items[j][2] \in Nat
  <2>1. items[j] \in Items
    OBVIOUS
  <2>2. items[j] # <<"[">> /\ items[j] # <<"]">>
    BY <1>1, Words DEF IsWord
  <2>3. PICK n \in Nat : items[j] = <<"text", n>>
    BY <2>1, <2>2 DEF Items
  <2> QED BY <2>3
<1> QED BY <1>1 DEF TextsIn

LEMMA PartKeeps ==
    ASSUME NEW items \in Seq(Items), NEW i \in 0..Len(items), ItemsInOrder(items)
    PROVE  /\ TextsIn(SubSeq(items, 1, i)) \subseteq TextsIn(items)
           /\ ItemsInOrder(SubSeq(items, 1, i))
           /\ \A n \in TextsIn(SubSeq(items, 1, i)), m \in TextsIn(items) :
                m < n => m \in TextsIn(SubSeq(items, 1, i))
           /\ \A p : Bears(p, items) => Bears(p, SubSeq(items, 1, i))
<1> DEFINE part == SubSeq(items, 1, i)
<1>1. /\ Len(items) \in Nat /\ i \in Nat /\ i <= Len(items) /\ DOMAIN items = 1..Len(items)
      /\ part = [j \in 1..i |-> items[j]]
  OBVIOUS
<1> HIDE DEF part
<1>2. /\ DOMAIN part = 1..i /\ \A j \in 1..i : part[j] = items[j] /\ j \in DOMAIN items
      /\ i = 0 => part = <<>>
  BY <1>1
<1>3. TextsIn(part) \subseteq TextsIn(items)
  BY <1>2 DEF TextsIn
<1>4. ItemsInOrder(part)
  BY <1>2 DEF ItemsInOrder
<1>5. ASSUME NEW n \in TextsIn(part), NEW m \in TextsIn(items), m < n PROVE m \in TextsIn(part)
  <2>1. PICK j \in 1..i : part[j][1] = "text" /\ n = part[j][2]
    BY <1>2 DEF TextsIn
  <2>2. PICK k \in 1..Len(items) : items[k][1] = "text" /\ m = items[k][2]
    BY <1>1 DEF TextsIn
  <2>3. items[j][1] = "text" /\ n = items[j][2] /\ j \in 1..Len(items)
    BY <1>1, <1>2, <2>1
  <2>4. m \in Nat /\ n \in Nat
    BY <1>3, TextsAreNat
  <2>5. j < k => n < m
    BY <1>1, <2>2, <2>3 DEF ItemsInOrder
  <2>6. k \in 1..i
    BY <1>1, <1>5, <2>1, <2>2, <2>4, <2>5
  <2> QED BY <1>2, <2>2, <2>6 DEF TextsIn
<1>6. ASSUME NEW p, Bears(p, items) PROVE Bears(p, part)
  <2>1. part # <<>> => items # <<>> /\ part[1] = items[1]
    BY <1>1, <1>2
  <2> QED BY <1>6, <2>1 DEF Bears
<1> QED BY <1>3, <1>4, <1>5, <1>6 DEF part

(* And so do the blocks up to one of which a first part is kept.           *)
LEMMA CutIs ==
    ASSUME NEW blocks \in Seq([prefix : Marks, items : Seq(Items)]), NEW b \in DOMAIN blocks,
           NEW i \in 0..Len(blocks[b].items)
    PROVE  /\ DOMAIN CutAt(blocks, b, i) = 1..b /\ b \in 1..b
           /\ \A c \in 1..b : c # b => CutAt(blocks, b, i)[c] = blocks[c]
           /\ CutAt(blocks, b, i)[b].prefix = blocks[b].prefix
           /\ CutAt(blocks, b, i)[b].items = SubSeq(blocks[b].items, 1, i)
<1> DEFINE part == SubSeq(blocks[b].items, 1, i)
<1>1. CutAt(blocks, b, i) = [c \in 1..b |-> IF c < b THEN blocks[c]
                                            ELSE [prefix |-> blocks[b].prefix, items |-> part]]
  BY DEF CutAt
<1> DEFINE last == [prefix |-> blocks[b].prefix, items |-> part]
<1>2. last.prefix = blocks[b].prefix /\ last.items = part
  OBVIOUS
<1> HIDE DEF last
<1>3. CutAt(blocks, b, i) = [c \in 1..b |-> IF c < b THEN blocks[c] ELSE last]
  BY <1>1 DEF last
<1>5. b \in Nat \ {0}
  OBVIOUS
<1>4. /\ DOMAIN CutAt(blocks, b, i) = 1..b /\ b \in 1..b
      /\ \A c \in 1..b : c # b => CutAt(blocks, b, i)[c] = blocks[c]
      /\ CutAt(blocks, b, i)[b] = last
  BY <1>3, <1>5
<1> QED BY <1>2, <1>4

LEMMA BlocksKeep ==
    ASSUME NEW blocks, NEW cut, NEW b \in Nat, InOrder(blocks), 1..b \subseteq DOMAIN blocks,
           b \in 1..b, DOMAIN blocks \subseteq Nat \ {0}, DOMAIN cut = 1..b,
           \A c \in 1..b : c # b => cut[c] = blocks[c],
           \A c \in DOMAIN blocks : TextsIn(blocks[c].items) \subseteq Nat,
           TextsIn(cut[b].items) \subseteq TextsIn(blocks[b].items), ItemsInOrder(cut[b].items),
           \A n \in TextsIn(cut[b].items), m \in TextsIn(blocks[b].items) :
             m < n => m \in TextsIn(cut[b].items)
    PROVE  /\ TextsOf(cut) \subseteq TextsOf(blocks)
           /\ InOrder(cut)
           /\ \A n \in TextsOf(cut), m \in TextsOf(blocks) : m < n => m \in TextsOf(cut)
<1>1. \A c \in 1..b : TextsIn(cut[c].items) \subseteq TextsIn(blocks[c].items)
  OBVIOUS
<1>2. TextsOf(cut) \subseteq TextsOf(blocks)
  BY <1>1 DEF TextsOf
<1>3. InOrder(cut)
  <2>1. \A c \in DOMAIN cut : ItemsInOrder(cut[c].items)
    BY DEF InOrder
  <2>2. \A c, d \in DOMAIN cut : c < d =>
          \A m \in TextsIn(cut[c].items), n \in TextsIn(cut[d].items) : m < n
    BY <1>1 DEF InOrder
  <2> QED BY <2>1, <2>2 DEF InOrder
<1>4. ASSUME NEW n \in TextsOf(cut), NEW m \in TextsOf(blocks), m < n PROVE m \in TextsOf(cut)
  <2>1. PICK c \in 1..b : n \in TextsIn(cut[c].items)
    BY DEF TextsOf
  <2>2. PICK d \in DOMAIN blocks : m \in TextsIn(blocks[d].items)
    BY DEF TextsOf
  <2>3. n \in TextsIn(blocks[c].items) /\ c \in DOMAIN blocks /\ n \in Nat /\ m \in Nat
    BY <1>1, <2>1, <2>2
  <2>4. c < d => n < m
    BY <2>2, <2>3 DEF InOrder
  <2>5. d <= c /\ d \in Nat /\ c \in Nat
    BY <1>4, <2>3, <2>4
  <2>6. d \in 1..b
    BY <2>1, <2>5
  <2>7. m \in TextsIn(cut[d].items)
    <3>1. CASE d # b
      BY <2>2, <2>6, <3>1
    <3>2. CASE d = b
      <4>1. c = b
        BY <2>1, <2>5, <3>2
      <4> QED BY <1>4, <2>1, <2>2, <3>2, <4>1
    <3> QED BY <3>1, <3>2
  <2> QED BY <2>6, <2>7 DEF TextsOf
<1> QED BY <1>2, <1>3, <1>4

LEMMA CutKeeps ==
    ASSUME NEW blocks \in Seq([prefix : Marks, items : Seq(Items)]), NEW b \in DOMAIN blocks,
           NEW i \in 0..Len(blocks[b].items), InOrder(blocks)
    PROVE  /\ TextsOf(CutAt(blocks, b, i)) \subseteq TextsOf(blocks)
           /\ InOrder(CutAt(blocks, b, i))
           /\ \A n \in TextsOf(CutAt(blocks, b, i)), m \in TextsOf(blocks) :
                m < n => m \in TextsOf(CutAt(blocks, b, i))
           /\ BlocksBear(blocks) => BlocksBear(CutAt(blocks, b, i))
<1> DEFINE cut == CutAt(blocks, b, i)
<1>1. /\ DOMAIN cut = 1..b
      /\ \A c \in 1..b : c # b => cut[c] = blocks[c]
      /\ cut[b].prefix = blocks[b].prefix
      /\ cut[b].items = SubSeq(blocks[b].items, 1, i)
  BY CutIs, Zenon
<1>2. /\ DOMAIN blocks \subseteq Nat \ {0} /\ b \in Nat /\ 1..b \subseteq DOMAIN blocks /\ b \in 1..b
      /\ \A c \in DOMAIN blocks : blocks[c].items \in Seq(Items)
  <2> DEFINE R == [prefix : Marks, items : Seq(Items)]
  <2>1. \A r \in R : r.items \in Seq(Items)
    OBVIOUS
  <2>2. blocks \in Seq(R)
    OBVIOUS
  <2> HIDE DEF R
  <2>3. /\ DOMAIN blocks = 1..Len(blocks) /\ Len(blocks) \in Nat
        /\ \A c \in DOMAIN blocks : blocks[c] \in R
    BY <2>2
  <2> QED BY <2>1, <2>3
<1>3. \A c \in DOMAIN blocks : TextsIn(blocks[c].items) \subseteq Nat
  BY <1>2, TextsAreNat
<1>4. blocks[b].items \in Seq(Items) /\ ItemsInOrder(blocks[b].items)
  BY <1>2 DEF InOrder
<1> HIDE DEF cut
<1>5. /\ TextsIn(cut[b].items) \subseteq TextsIn(blocks[b].items)
      /\ ItemsInOrder(cut[b].items)
      /\ \A n \in TextsIn(cut[b].items), m \in TextsIn(blocks[b].items) :
           m < n => m \in TextsIn(cut[b].items)
      /\ \A p : Bears(p, blocks[b].items) => Bears(p, cut[b].items)
  BY <1>1, <1>4, PartKeeps
<1>6. /\ TextsOf(cut) \subseteq TextsOf(blocks)
      /\ InOrder(cut)
      /\ \A n \in TextsOf(cut), m \in TextsOf(blocks) : m < n => m \in TextsOf(cut)
  BY <1>1, <1>2, <1>3, <1>5, BlocksKeep
<1>7. BlocksBear(blocks) => BlocksBear(cut)
  BY <1>1, <1>2, <1>5 DEF BlocksBear
<1> QED BY <1>6, <1>7 DEF cut

LEMMA PageInvTells == PageInv => PageTold
<1> SUFFICES ASSUME PageInv, HtmlTold
             PROVE  /\ TextsOf(result.content) \subseteq Visible
                    /\ InOrder(result.content)
                    /\ ~unended => Gapless /\ (result.truncated \/ Visible \subseteq TextsOf(result.content))
                    /\ ~unended /\ Markdown =>
                         \A b \in DOMAIN result.content : Bears(result.content[b].prefix, result.content[b].items)
  BY DEF PageTold
<1> DEFINE blocks == extractor.blocks
<1>1. /\ extractor.current = <<>>
      /\ result.content = blocks \/ (result.truncated /\ FirstPart(result.content, blocks))
  BY InvParts DEF ToldInv
<1>2. HeldBy(extractor) = TextsOf(blocks)
  BY <1>1, EmptyIsFine DEF HeldBy
<1>3. TextsOf(blocks) \subseteq Visible /\ InOrder(blocks)
  BY <1>1, <1>2, InvParts DEF KeptInv, OrderedIn
<1>4. ~unended => Visible \subseteq TextsOf(blocks)
  BY <1>2, InvParts DEF WholeInv
<1>5. ~unended /\ Markdown => BlocksBear(blocks)
  BY <1>1, InvParts DEF NumberInv
<1>6. blocks \in Seq([prefix : Marks, items : Seq(Items)])
  BY InvParts DEF WebTyped, Extractors
<1> HIDE DEF blocks
<1>7. CASE result.content = blocks
  BY <1>3, <1>4, <1>5, <1>7 DEF BlocksBear, Gapless
<1>8. CASE result.truncated /\ FirstPart(result.content, blocks)
  <2>3. PICK b \in DOMAIN blocks :
          \E i \in 0..Len(blocks[b].items) : result.content = CutAt(blocks, b, i)
    BY <1>8 DEF FirstPart
  <2>1. PICK i \in 0..Len(blocks[b].items) : result.content = CutAt(blocks, b, i)
    BY <2>3
  <2>2. /\ TextsOf(result.content) \subseteq TextsOf(blocks)
        /\ InOrder(result.content)
        /\ \A n \in TextsOf(result.content), m \in TextsOf(blocks) :
             m < n => m \in TextsOf(result.content)
        /\ BlocksBear(blocks) => BlocksBear(result.content)
    BY <1>3, <1>6, <2>1, CutKeeps
  <2> QED BY <1>3, <1>4, <1>5, <1>8, <2>2 DEF BlocksBear, Gapless
<1> QED BY <1>1, <1>7, <1>8

(* tools/network_tools.py, of a page of any length: what it hides is not   *)
(* shown; what it shows is told in order, without a gap, and to its end    *)
(* unless the result says it was cut, as long as no tag among what is      *)
(* hidden goes without its end; and the first words of the k-th item of a  *)
(* numbered list bear the number k.                                        *)
THEOREM PagesAreTold == WebFetchSpec => []PageTold
<1>1. WebFetchSpec => []PageInv
  BY PageInvInit, PageInvStep, PTL DEF WebFetchSpec
<1> QED BY <1>1, PageInvTells, PTL
=============================================================================
