-------------------------------- MODULE Telegram --------------------------------
(***************************************************************************)
(* greatsage telegram listen: telegram/service.py with the bridge, the     *)
(* client and the handlers of cli.py.                                      *)
(*                                                                         *)
(* Telegram keeps the messages of the last day and hands out, again and    *)
(* again, those from the offset it was last asked for; it forgets the ones *)
(* below.  The offset lives in the process: every command starts from      *)
(* none.  A poll or a reply may fail before or after the server has seen   *)
(* it, the command ends at its deadline, after one batch (--once), or is   *)
(* killed, and cron may start one while another listens.                   *)
(***************************************************************************)
EXTENDS Integers, FiniteSets

CONSTANTS Listeners,    \* telegram listen processes
          Updates,      \* the updates, in the order of their ids
          Sent,         \* what each is: see Kinds
          MaxPolls      \* bound: polls of a process

(* "nameless" is a message with "@" for its first character: the bridge    *)
(* finds no command name in it, and no word to say so with.                *)
Kinds == {"command", "screenshot", "stranger", "other", "nameless"}

TelegramAssumption ==
    /\ Updates \in Nat /\ MaxPolls \in Nat
    /\ Sent \in [1..Updates -> Kinds]

NoOffset == 0           \* update ids start at 1: the first offset is 2

VARIABLES
    arrived,    \* updates Telegram has
    kept,       \* the first one it has not forgotten
    listener,   \* each process: [at, offset, batch, polls, once, content]
    approver,   \* ToolService.approval of each process
    handled,    \* history: how often each process has handled an update
    replied     \* history: <<process, update>> a reply was taken by Telegram

telegramVars == <<arrived, kept, listener, approver, handled, replied>>

TelegramInit ==
    /\ arrived = 0 /\ kept = 1
    /\ listener \in [Listeners ->
         [at : {"polling"}, offset : {NoOffset}, batch : {{}}, polls : {0},
          once : BOOLEAN, content : BOOLEAN]]
    /\ approver = [l \in Listeners |-> "prompt"]
    /\ handled = [l \in Listeners |-> [u \in 1..Updates |-> 0]]
    /\ replied = {}

Arrives ==
    /\ arrived < Updates
    /\ arrived' = arrived + 1
    /\ UNCHANGED <<kept, listener, approver, handled, replied>>

(* Telegram's side of getUpdates: the offset confirms what is below it.    *)
Confirms(offset) == IF offset > kept THEN offset ELSE kept
HandedOut(offset) == Confirms(offset)..arrived

Set(l, r) == listener' = [listener EXCEPT ![l] = r]
Polling(l) == listener[l].at = "polling" /\ listener[l].polls < MaxPolls

PollFails(l) ==
    /\ Polling(l)
    /\ kept' \in {kept, Confirms(listener[l].offset)}
    /\ Set(l, [listener[l] EXCEPT !.polls = @ + 1,
                                  !.at = IF listener[l].once THEN "done" ELSE @])
    /\ UNCHANGED <<arrived, approver, handled, replied>>

Poll(l) ==
    /\ Polling(l)
    /\ kept' = Confirms(listener[l].offset)
    /\ LET batch == HandedOut(listener[l].offset) IN
       Set(l, [listener[l] EXCEPT !.polls = @ + 1, !.batch = batch,
                 !.at = IF batch # {} THEN "handling"
                        ELSE IF listener[l].once THEN "done" ELSE @])
    /\ UNCHANGED <<arrived, approver, handled, replied>>

-----------------------------------------------------------------------------
(* The next update of the batch: the offset passes it first, whatever it   *)
(* is; nobody answers a stranger, and only words are read.                 *)
PastAnswered(offset, u) == IF offset > u THEN offset ELSE u     \* a mutant of Past
Past(offset, u) == IF offset > u + 1 THEN offset ELSE u + 1

First(l) == CHOOSE u \in listener[l].batch : \A v \in listener[l].batch : u <= v
Taken(l) == [listener[l] EXCEPT !.offset = Past(@, First(l)), !.batch = @ \ {First(l)}]

Handles(l, u) == handled' = [handled EXCEPT ![l][u] = @ + 1]

Passes(l) ==
    /\ listener[l].at = "handling" /\ listener[l].batch # {}
    /\ Sent[First(l)] \in {"stranger", "other"}
    /\ Handles(l, First(l))
    /\ Set(l, Taken(l))
    /\ UNCHANGED <<arrived, kept, approver, replied>>

(* A command is carried out when it is read; a screenshot needs --content  *)
(* and the standing approval, which is there for this one call.            *)
CarriesOut(l) ==
    /\ listener[l].at = "handling" /\ listener[l].batch # {}
    /\ Sent[First(l)] \in {"command", "screenshot"}
    /\ Handles(l, First(l))
    /\ IF Sent[First(l)] = "screenshot" /\ listener[l].content
       THEN /\ approver' = [approver EXCEPT ![l] = "standing"]
            /\ Set(l, [Taken(l) EXCEPT !.at = "capturing"])
       ELSE /\ Set(l, [Taken(l) EXCEPT !.at = "replying"])
            /\ UNCHANGED approver
    /\ UNCHANGED <<arrived, kept, replied>>

(* The IndexError of the bridge leaves listen; Telegram has been told      *)
(* nothing of the batch.                                                   *)
Raises(l) ==
    /\ listener[l].at = "handling" /\ listener[l].batch # {}
    /\ Sent[First(l)] = "nameless"
    /\ Handles(l, First(l))
    /\ Set(l, [Taken(l) EXCEPT !.at = "raised"])
    /\ UNCHANGED <<arrived, kept, approver, replied>>

Captured(l) ==
    /\ listener[l].at = "capturing"
    /\ approver' = [approver EXCEPT ![l] = "prompt"]
    /\ Set(l, [listener[l] EXCEPT !.at = "replying"])
    /\ UNCHANGED <<arrived, kept, handled, replied>>

(* A reply that failed is counted and not sent again.                      *)
Replies(l) ==
    /\ listener[l].at = "replying"
    /\ replied' \in {replied, replied \cup {<<l, listener[l].offset - 1>>}}
    /\ Set(l, [listener[l] EXCEPT !.at = "handling"])
    /\ UNCHANGED <<arrived, kept, approver, handled>>

BatchDone(l) ==
    /\ listener[l].at = "handling" /\ listener[l].batch = {}
    /\ Set(l, [listener[l] EXCEPT !.at = IF listener[l].once THEN "done" ELSE "polling"])
    /\ UNCHANGED <<arrived, kept, approver, handled, replied>>

(* The deadline is looked at before a poll; a kill may come at any point.  *)
Stops(l) ==
    /\ listener[l].at \notin {"done", "raised"}
    /\ Set(l, [listener[l] EXCEPT !.at = "done"])
    /\ UNCHANGED <<arrived, kept, approver, handled, replied>>

TelegramNext ==
    \/ Arrives
    \/ \E l \in Listeners :
         \/ PollFails(l) \/ Poll(l) \/ Passes(l) \/ CarriesOut(l) \/ Captured(l)
         \/ Raises(l)
         \/ Replies(l) \/ BatchDone(l) \/ Stops(l)

TelegramSpec == TelegramInit /\ [][TelegramNext]_telegramVars

-----------------------------------------------------------------------------
Times(u) == {l \in Listeners : handled[l][u] > 0}

(* Whatever fails, ends early or runs beside it: one command handles a     *)
(* message once, in the order they were sent; what Telegram has forgotten  *)
(* was handled by somebody; and the standing approval covers nothing but a *)
(* screenshot of a command run with --content.                             *)
HandledBeforeForgotten ==
    /\ \A l \in Listeners, u \in 1..Updates :
         /\ handled[l][u] <= 1
         /\ handled[l][u] = 1 /\ u >= kept =>
              \A v \in kept..u : handled[l][v] = 1
    /\ \A u \in 1..(kept - 1) : Times(u) # {}
    /\ \A l \in Listeners : approver[l] = "standing" /\ listener[l].at # "done" =>
         /\ listener[l].content
         /\ Sent[listener[l].offset - 1] = "screenshot"

(* A message is handled once.                                              *)
HandledOnce == \A u \in 1..Updates : Cardinality(Times(u)) <= 1

(* "Poll Telegram and answer allowlisted chats": no message keeps every    *)
(* later one from being looked at, batch after batch.                      *)
NothingBlocks ==
    \A l, m \in Listeners : l # m =>
        ~ (listener[l].at = "raised" /\ listener[m].at = "raised"
           /\ listener[l].offset = listener[m].offset)
=============================================================================
