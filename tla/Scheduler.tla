------------------------------- MODULE Scheduler -------------------------------
(***************************************************************************)
(* Recurring jobs: scheduler/service.py over its SQLite table, as the      *)
(* greatsage schedule commands of cli.py use it.                           *)
(*                                                                         *)
(* Nothing in the program ticks by itself: every command is a process of   *)
(* its own that opens the database, does one thing and leaves, and cron    *)
(* may start one while another is still at work.  A tick reads the whole   *)
(* table once, then runs and writes back one schedule after the other.     *)
(* A process may be killed, and a statement may fail (the file is locked   *)
(* for longer than busy_timeout, the disk is full).                        *)
(***************************************************************************)
EXTENDS Integers, FiniteSets

CONSTANTS Schedules,    \* schedule ids, uuids: none is used twice
          Commands,     \* command processes
          MaxSchedules, \* config.scheduler.max_schedules
          Interval,     \* interval_seconds, of every schedule
          MaxTime       \* bound: the clock

SchedulerAssumption ==
    /\ {MaxSchedules, MaxTime} \subseteq Nat
    /\ Interval \in Nat \ {0}

VARIABLES
    rows,       \* the table: the schedules stored and their columns
    used,       \* ids given out so far
    clock,
    command,    \* what each command process is doing
    exit,       \* how it ended
    settled     \* history: <<schedule, due time>> a tick that was alone has run

schedulerVars == <<rows, used, clock, command, exit, settled>>

Idle == [op |-> "idle"]
Ticking(c) == command[c].op \in {"ticking", "saving"}

Row(next, enabled) == [next |-> next, enabled |-> enabled,
                       last |-> -1, status |-> "never"]

SchedulerInit ==
    /\ rows = <<>> /\ used = {} /\ clock = 0
    /\ command = [c \in Commands |-> Idle]
    /\ exit = [c \in Commands |-> "none"]
    /\ settled = {}

Starts(c) == command[c] = Idle /\ exit[c] = "none"
Ends(c, code) == /\ command' = [command EXCEPT ![c] = Idle]
                 /\ exit' = [exit EXCEPT ![c] = code]

(* start: no database, no scheduler; every command says so and fails.      *)
Unavailable(c) ==
    /\ Starts(c)
    /\ Ends(c, "failure")
    /\ UNCHANGED <<rows, used, clock, settled>>

(* add: the number of schedules is tested before the row is written.       *)
AddCounts(c) ==
    /\ Starts(c)
    /\ \/ /\ Cardinality(DOMAIN rows) >= MaxSchedules
          /\ Ends(c, "invalid")
          /\ UNCHANGED used
       \/ /\ Cardinality(DOMAIN rows) < MaxSchedules
          /\ \E s \in Schedules \ used, enabled \in BOOLEAN :
               /\ used' = used \cup {s}
               /\ command' = [command EXCEPT ![c] =
                    [op |-> "adding", schedule |-> s, row |-> Row(clock, enabled)]]
          /\ UNCHANGED exit
    /\ UNCHANGED <<rows, clock, settled>>

Save(s, row) == rows' = [t \in DOMAIN rows \cup {s} |-> IF t = s THEN row ELSE rows[t]]

AddSaves(c) ==
    /\ command[c].op = "adding"
    /\ \/ Save(command[c].schedule, command[c].row) /\ Ends(c, "ok")
       \/ Ends(c, "raised") /\ UNCHANGED rows
    /\ UNCHANGED <<used, clock, settled>>

RemoveSchedule(c) ==
    /\ Starts(c)
    /\ \E s \in used :
         /\ rows' = [t \in DOMAIN rows \ {s} |-> rows[t]]
         /\ Ends(c, IF s \in DOMAIN rows THEN "ok" ELSE "failure")
    /\ UNCHANGED <<used, clock, settled>>

-----------------------------------------------------------------------------
(* tick: the list is read once, in the order of next_run_at.               *)
TickLists(c) ==
    /\ Starts(c)
    /\ command' = [d \in Commands |->
         IF d = c THEN [op |-> "ticking", at |-> clock, listed |-> rows,
                        todo |-> DOMAIN rows, ran |-> {},
                        alone |-> ~ \E e \in Commands : Ticking(e)]
         ELSE IF Ticking(d) THEN [command[d] EXCEPT !.alone = FALSE] ELSE command[d]]
    /\ UNCHANGED <<rows, used, clock, exit, settled>>

NextOf(c) == {s \in command[c].todo :
                \A t \in command[c].todo :
                    command[c].listed[s].next <= command[c].listed[t].next}
IsDue(c, s) == /\ command[c].listed[s].enabled
               /\ command[c].listed[s].next <= command[c].at

Skip(c) ==
    /\ command[c].op = "ticking"
    /\ \E s \in NextOf(c) :
         /\ ~IsDue(c, s)
         /\ command' = [command EXCEPT ![c].todo = @ \ {s}]
    /\ UNCHANGED <<rows, used, clock, exit, settled>>

Ran(c, s, status) ==
    command' = [command EXCEPT ![c] =
      [op |-> "saving", at |-> @.at, listed |-> @.listed, alone |-> @.alone,
       todo |-> @.todo \ {s}, ran |-> @.ran \cup {s}, schedule |-> s, status |-> status]]

(* A kind without a handler, a handler that says no and one that raises    *)
(* are all a failed run.                                                   *)
RunHandler(c) ==
    /\ command[c].op = "ticking"
    /\ \E s \in NextOf(c), status \in {"ok", "failed"} :
         IsDue(c, s) /\ Ran(c, s, status)
    /\ UNCHANGED <<rows, used, clock, exit, settled>>

NextRunAtSame(at, row) == row.next      \* a mutant of the next definition
NextRunAt(at, row) == at + Interval

(* The row is written back whole, as it was listed.                        *)
TickSaves(c) ==
    /\ command[c].op = "saving"
    /\ LET s == command[c].schedule
           at == command[c].at
           row == command[c].listed[s] IN
       \/ /\ Save(s, [row EXCEPT !.last = at, !.status = command[c].status,
                                 !.next = NextRunAt(at, row)])
          /\ command' = [command EXCEPT ![c] =
               [op |-> "ticking", at |-> at, listed |-> @.listed, alone |-> @.alone,
                todo |-> @.todo, ran |-> @.ran]]
          /\ settled' = IF command[c].alone THEN settled \cup {<<s, row.next>>} ELSE settled
          /\ UNCHANGED exit
       \/ Ends(c, "raised") /\ UNCHANGED <<rows, settled>>
    /\ UNCHANGED <<used, clock>>

TickEnds(c) ==
    /\ command[c].op = "ticking" /\ command[c].todo = {}
    /\ command' = [command EXCEPT ![c] = [op |-> "ticked", ran |-> @.ran,
                                          due |-> {s \in DOMAIN @.listed : IsDue(c, s)}]]
    /\ exit' = [exit EXCEPT ![c] = "ok"]
    /\ UNCHANGED <<rows, used, clock, settled>>

-----------------------------------------------------------------------------
Kill(c) ==
    /\ command[c].op \in {"adding", "ticking", "saving"}
    /\ Ends(c, "killed")
    /\ UNCHANGED <<rows, used, clock, settled>>

TimePasses ==
    /\ clock < MaxTime
    /\ clock' = clock + 1
    /\ UNCHANGED <<rows, used, command, exit, settled>>

SchedulerNext ==
    \/ \E c \in Commands :
         \/ Unavailable(c) \/ AddCounts(c) \/ AddSaves(c) \/ RemoveSchedule(c)
         \/ TickLists(c) \/ Skip(c) \/ RunHandler(c) \/ TickSaves(c) \/ TickEnds(c)
         \/ Kill(c)
    \/ TimePasses

SchedulerSpec == SchedulerInit /\ [][SchedulerNext]_schedulerVars

-----------------------------------------------------------------------------
(* "Run every due, enabled schedule once": a tick that reported its runs   *)
(* has run everything that was due when it began, whatever the handlers    *)
(* before it did.                                                          *)
TickRunsAllDue ==
    \A c \in Commands : command[c].op = "ticked" => command[c].ran = command[c].due

(* What a tick has run and written back while no other tick was at work    *)
(* never runs again for the same due time; a second run takes an overlap   *)
(* or a process that died between the handler and the write.               *)
NoSettledRunRepeats ==
    \A c \in Commands : command[c].op = "saving" =>
        <<command[c].schedule, command[c].listed[command[c].schedule].next>> \notin settled

(* So a tick runs neither less than it should nor anything again.          *)
TicksAccount == TickRunsAllDue /\ NoSettledRunRepeats

(* A schedule whose removal was reported stays removed.                    *)
RevivesNothing ==
    \A s \in used : s \notin DOMAIN rows /\ s \in DOMAIN rows' =>
        \E c \in Commands : command[c].op = "adding" /\ command[c].schedule = s
RemovedStaysRemoved == [][RevivesNothing]_schedulerVars
=============================================================================
