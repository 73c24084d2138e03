------------------------------ MODULE ServicesMC ------------------------------
(***************************************************************************)
(* The components that stand beside the task engine, each at the size TLC  *)
(* explores it with.  They do not share state: a behaviour is one of one   *)
(* component, chosen at the start, while the others rest where they begin. *)
(* Their properties are checked as they stand.                             *)
(***************************************************************************)
EXTENDS Scheduler, Memory, DatabaseOpening, Tools, Chat, Telegram, ServeProcess,
        ControlPlane, Intelligence, Configuration, PlanGraph, WebFetch

CONSTANTS x, y,         \* ids, pids, listeners and openers
          u, v, w,      \* command processes
          Chosen        \* the components explored

VARIABLES which

(* Every graph of three steps, with distinct ids and with a repeated one;  *)
(* two with a step that waits for an id that is repeated; too many steps.  *)
GraphStep(id, deps) == [id |-> id, deps |-> deps, flaw |-> "none"]
MCGraphs == {[i \in 1..3 |-> GraphStep(ids[i], deps[i])] :
               ids \in {<<1, 2, 3>>, <<1, 1, 2>>}, deps \in [1..3 -> SUBSET (1..3)]}
            \cup {<<GraphStep(1, {}), GraphStep(1, {}), GraphStep(3, {1, 2}), GraphStep(2, {})>>,
                   <<GraphStep(1, {}), GraphStep(2, {1}), GraphStep(1, {})>>,
                   [i \in 1..5 |-> GraphStep(1 + (i % 3), {})]}
            \cup {<<[id |-> 1, deps |-> {}, flaw |-> f]>> : f \in {"blank", "unknown"}}

(* The six stores: those that tolerate everything, those that add a column *)
(* and the memory store, which commits at the end of all its migrations.   *)
DDL(makes, tolerant) == [op |-> "ddl", makes |-> makes, tolerant |-> tolerant]
Version == [op |-> "version", makes |-> "none", tolerant |-> TRUE]
MCStores ==
    {[commits |-> "each",
      script |-> <<DDL("meta", TRUE), DDL("table", TRUE), DDL("index", TRUE), Version>>],
     [commits |-> "each",
      script |-> <<DDL("meta", TRUE), DDL("table", TRUE), Version, DDL("column", FALSE), Version>>],
     [commits |-> "last",
      script |-> <<DDL("meta", TRUE), DDL("table", FALSE), DDL("index", FALSE), Version,
                   DDL("embed", TRUE), Version>>]}

(* Two writes of one file, one of them not atomic, and a command; or one   *)
(* request of the other ways through the pipeline, beside a write.         *)
MCToolRequests == {"first", "second", "third"}
ToolAsk(tool) == [tool |-> tool, wellFormed |-> TRUE, refused |-> FALSE, atomic |-> TRUE]
Workload(a, b, c) == ("first" :> a) @@ ("second" :> b) @@ ("third" :> c)
Write == ToolAsk("write")
MCWorkloads ==
    {Workload(Write, [Write EXCEPT !.atomic = FALSE], ToolAsk("shell"))} \cup
    {Workload(Write, a, ToolAsk("list")) :
       a \in {ToolAsk("read"), ToolAsk("format"), ToolAsk("unknown"),
              [ToolAsk("read") EXCEPT !.wellFormed = FALSE],
              [ToolAsk("read") EXCEPT !.refused = TRUE]}}

Question(coding, tooled) == [hint |-> "none", coding |-> coding, tools |-> tooled]
MCQuestions == {Question(FALSE, FALSE), Question(TRUE, FALSE), Question(FALSE, TRUE)}

(* The requests of the page, one of each kind, and those that are refused. *)
ControlCall(place) ==
    [path |-> place, host |-> TRUE, token |-> TRUE,
     body |-> IF place \in {"approve", "run", "resume"} THEN "approved" ELSE "json"]
MCControlCalls ==
    {ControlCall(place) : place \in {"state", "plan", "agent", "cancel", "decide", "approve",
                                    "run", "resume", "cancelTask", "nowhere"}} \cup
    {[ControlCall("agent") EXCEPT !.token = FALSE], [ControlCall("run") EXCEPT !.body = "json"]}

(* A stranger, a request and a message without a word in it.               *)
MCSent == <<"stranger", "screenshot", "nameless">>


ConfigVars == <<argument, named, standard, doc, env, stage, raw, config>>

(* Where a component that is not chosen rests: one of its first states.    *)
OpeningRests == store = (CHOOSE s \in Stores : TRUE) /\ version = 0 /\ sound = TRUE /\ OpeningInit
ToolRests == /\ asks = (CHOOSE a \in Workloads : TRUE) /\ mode = (CHOOSE m \in Modes : TRUE)
             /\ allowLow = TRUE /\ provider = TRUE
             /\ ToolInit
ChatRests == style = "text" /\ ChatInit
TelegramRests ==
    /\ listener = [l \in Listeners |-> [at |-> "polling", offset |-> NoOffset, batch |-> {},
                                        polls |-> 0, once |-> TRUE, content |-> TRUE]]
    /\ TelegramInit
PlanRests == caller = "planner" /\ PlanInit
WebFetchRests == webRequest = (CHOOSE r \in Requests : TRUE) /\ WebFetchInit
ControlRests == /\ plan = "none" /\ task = "none"
                /\ handler = [c \in Handlers |->
                     [at |-> "asking", ask |-> ControlCall("nowhere"), started |-> NoRun,
                      seen |-> Empty, answer |-> NoAnswer]]
                /\ ControlInit
ConfigOff == argument = "off" /\ named = "off" /\ standard = "off" /\
    doc = "off" /\ env = "off" /\ stage = "off" /\ raw = "off" /\ config = "off"

ServicesInit ==
    /\ which \in Chosen
    /\ IF which = "plan" THEN PlanInit ELSE PlanRests
    /\ SchedulerInit
    /\ MemoryInit
    /\ IF which = "database" THEN OpeningInit ELSE OpeningRests
    /\ IF which = "tools" THEN ToolInit ELSE ToolRests
    /\ IF which = "chat" THEN ChatInit ELSE ChatRests
    /\ IF which = "telegram" THEN TelegramInit ELSE TelegramRests
    /\ ServeInit
    /\ AIInit
    /\ IF which = "config" THEN ConfigurationInit ELSE ConfigOff
    /\ IF which = "web" THEN WebFetchInit ELSE WebFetchRests
    /\ IF which = "control" THEN ControlInit ELSE ControlRests

ServicesNext ==
    /\ UNCHANGED which
    /\ IF which = "plan" THEN PlanNext ELSE UNCHANGED planVars
    /\ IF which = "schedule" THEN SchedulerNext ELSE UNCHANGED schedulerVars
    /\ IF which = "memory" THEN MemoryNext ELSE UNCHANGED memoryVars
    /\ IF which = "database" THEN OpeningNext ELSE UNCHANGED openingVars
    /\ IF which = "tools" THEN ToolNext ELSE UNCHANGED toolVars
    /\ IF which = "chat" THEN ChatNext ELSE UNCHANGED chatVars
    /\ IF which = "telegram" THEN TelegramNext ELSE UNCHANGED telegramVars
    /\ IF which = "serve" THEN ServeNext ELSE UNCHANGED serveVars
    /\ IF which = "ai" THEN AINext ELSE UNCHANGED aiVars
    /\ IF which = "config" THEN ConfigurationNext ELSE UNCHANGED ConfigVars
    /\ IF which = "web" THEN WebFetchNext ELSE UNCHANGED webVars
    /\ IF which = "control" THEN ControlNext ELSE UNCHANGED controlVars

Symmetry == Permutations({x, y})

ASSUME ServicesAssumption ==
    /\ PlanGraphAssumption
    /\ SchedulerAssumption
    /\ MemoryAssumption
    /\ DatabaseOpeningAssumption
    /\ ToolsAssumption
    /\ ChatAssumption
    /\ TelegramAssumption
    /\ ServeAssumption
    /\ ConfigurationAssumption
    /\ AIAssumption
    /\ WebFetchAssumption
    /\ ControlAssumption
=============================================================================
