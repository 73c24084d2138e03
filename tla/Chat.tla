---------------------------------- MODULE Chat ----------------------------------
(***************************************************************************)
(* greatsage chat: the session of chat.py in its three styles (typed,      *)
(* spoken, always on), the loop of voice/always_on.py, the playback thread *)
(* it interrupts and the turn budget of voice/service.py.                  *)
(*                                                                         *)
(* Always on, a reply is spoken by a thread of its own, which makes the    *)
(* audio, starts the barge-in monitor and plays; meanwhile the loop polls  *)
(* the monitor's flag.  Sound starts before the monitor can have heard the *)
(* three blocks it takes to raise the flag.  The sound device plays one    *)
(* thing: a second play replaces the first.  What is said is one of a few  *)
(* kinds of text; audio is not modelled.                                   *)
(***************************************************************************)
EXTENDS Integers, Sequences, FiniteSets

CONSTANTS Styles,       \* of "text", "voice" and "always"
          MaxTurns,     \* MAX_TURNS
          MaxHistory,   \* MAX_HISTORY_TURNS
          MaxIdle,      \* max_idle_turns
          MaxWindows,   \* max_empty_windows
          MaxVoice      \* limits.max_turns_per_session

ChatAssumption ==
    /\ Styles \subseteq {"text", "voice", "always"}
    /\ {MaxTurns, MaxHistory, MaxIdle, MaxWindows} \subseteq Nat \ {0}
    /\ MaxVoice \in Nat

VARIABLES
    style,      \* how the session is run: a spoken one may turn to typing
    chatMode,   \* LoopMode
    at,         \* where the loop is
    turn,       \* turns begun (always on: turns done)
    idle,       \* idle_turns
    windows,    \* empty_windows
    context,    \* ChatSession._history
    voiceUsed,  \* VoiceService._session_counts of this session
    speaker,    \* the speak threads, by the turn whose reply they speak
    audible,      \* the turn whose reply is heard, 0 for silence
    watching,   \* the barge-in monitor polls the microphone
    hit,        \* _MicBargeMonitor._hit
    failed      \* history: turns whose generation failed

loopVars == <<style, chatMode, turn, idle, windows>>
playVars == <<speaker, audible, watching, hit>>
chatVars == <<loopVars, at, context, voiceUsed, playVars, failed>>

System == [role |-> "system", turn |-> 0]
Said(who) == [role |-> who, turn |-> turn]
Always == style = "always"
InBudget == voiceUsed < MaxVoice        \* _check_budget
SpendsBudget == voiceUsed' = voiceUsed + 1

ChatInit ==
    /\ style \in Styles
    /\ chatMode = IF style = "always" THEN "wake" ELSE "conversing"
    /\ at = "listening" /\ turn = 0 /\ idle = 0 /\ windows = 0
    /\ context = <<System>>
    /\ voiceUsed = 0
    /\ speaker = <<>> /\ audible = 0 /\ watching = FALSE /\ hit = FALSE
    /\ failed = {}

InTime == at = "listening" /\ turn < MaxTurns

SessionEnds(how) == at' = how /\ UNCHANGED <<loopVars, context, failed>>

(* The limit of turns; Ctrl+C anywhere; the end of what is typed.          *)
LeavesLoop ==
    /\ \/ at = "listening" /\ turn = MaxTurns
       \/ at \in {"listening", "transcribing", "asking", "generating", "polling"}
    /\ SessionEnds("ended")
    /\ UNCHANGED <<voiceUsed, playVars>>

-----------------------------------------------------------------------------
(* A turn of the typed or spoken session: every turn counts.               *)
TurnNothing ==
    /\ InTime /\ ~Always
    /\ turn' = turn + 1
    /\ UNCHANGED <<style, chatMode, at, idle, windows, context, voiceUsed, playVars, failed>>

(* "session voice budget exhausted" turns a spoken session to typing.      *)
TurnToTyping ==
    /\ InTime /\ style = "voice" /\ ~InBudget
    /\ style' = "text" /\ turn' = turn + 1
    /\ UNCHANGED <<chatMode, at, idle, windows, context, voiceUsed, playVars, failed>>

TurnText ==
    /\ InTime /\ ~Always
    /\ style = "voice" => InBudget
    /\ voiceUsed' = IF style = "voice" THEN voiceUsed + 1 ELSE voiceUsed
    /\ turn' = turn + 1
    /\ at' \in {"listening", "asking", "ended"}     \* nothing, words, an exit command
    /\ UNCHANGED <<style, chatMode, idle, windows, context, playVars, failed>>

(* A VoiceTimeoutError is no VoiceValidationError: it ends the session.    *)
ListenRaises ==
    /\ \/ InTime /\ style = "voice" /\ InBudget
       \/ at = "transcribing"
    /\ SessionEnds("raised")
    /\ UNCHANGED <<voiceUsed, playVars>>

-----------------------------------------------------------------------------
(* AlwaysOnVoiceLoop.run.  Nothing was said: too many such windows end the *)
(* wait for the wake phrase, or the conversation.                          *)
Silence ==
    \/ /\ chatMode = "wake"
       /\ windows' = windows + 1
       /\ at' = IF windows' >= MaxWindows THEN "ended" ELSE "listening"
       /\ UNCHANGED <<chatMode, idle>>
    \/ /\ chatMode = "conversing"
       /\ idle' = idle + 1
       /\ chatMode' = IF idle' >= MaxIdle THEN "wake" ELSE chatMode
       /\ at' = "listening"
       /\ UNCHANGED windows

(* No speech in the window, or a transcription that was refused.           *)
WindowEmpty ==
    /\ InTime /\ Always
    /\ Silence
    /\ UNCHANGED <<style, turn, context, voiceUsed, playVars, failed>>

(* An utterance: the budget is tested before it is transcribed and spent   *)
(* after.                                                                  *)
HearsOutOfBudget ==
    /\ InTime /\ Always /\ ~InBudget
    /\ SessionEnds("ended")
    /\ UNCHANGED <<voiceUsed, playVars>>

Hears ==
    /\ InTime /\ Always /\ InBudget
    /\ at' = "transcribing"
    /\ UNCHANGED <<loopVars, context, voiceUsed, playVars, failed>>

(* Words while the loop waits: no wake phrase in them, the phrase (with a  *)
(* question behind it or not), or a text the detector refuses to look at.  *)
WakeCheck ==
    \/ /\ at' = "listening" /\ windows' = 0
       /\ UNCHANGED <<chatMode, idle>>
    \/ /\ chatMode' = "conversing" /\ windows' = 0 /\ idle' = 0
       /\ at' \in {"listening", "asking", "ended"}
    \/ /\ at' = "raised" /\ windows' = 0
       /\ UNCHANGED <<chatMode, idle>>

Transcribes ==
    /\ at = "transcribing"
    /\ SpendsBudget
    /\ \/ Silence                                      \* no words
       \/ chatMode = "wake" /\ WakeCheck
       \/ /\ chatMode = "conversing"
          /\ idle' = 0
          /\ at' \in {"asking", "ended"}
          /\ UNCHANGED <<chatMode, windows>>
    /\ UNCHANGED <<style, turn, context, playVars, failed>>

-----------------------------------------------------------------------------
(* _generate and _trim_history.                                            *)
Trimmed(h) ==
    LET most == 1 + 2 * MaxHistory
    IN  IF Len(h) > most
        THEN <<h[1]>> \o SubSeq(h, Len(h) - most + 2, Len(h))
        ELSE h

(* The typed and the spoken session have counted the turn already.         *)
NextTurn == IF Always THEN turn + 1 ELSE turn

Ask ==
    /\ at = "asking"
    /\ context' = Append(context, Said("user"))
    /\ at' = "generating"
    /\ UNCHANGED <<loopVars, voiceUsed, playVars, failed>>

(* A SageError takes the question back.                                    *)
KeepsQuestion(h) == h                    \* a mutant of the next definition
ForgetsQuestion(h) == SubSeq(h, 1, Len(h) - 1)
GenerateFails ==
    /\ at = "generating"
    /\ context' = ForgetsQuestion(context)
    /\ failed' = failed \cup {turn}
    /\ at' = "listening" /\ turn' = NextTurn
    /\ UNCHANGED <<style, chatMode, idle, windows, voiceUsed, playVars>>

(* No content: the question stays, and nothing is trimmed.                 *)
GenerateEmpty ==
    /\ at = "generating"
    /\ at' = "listening" /\ turn' = NextTurn
    /\ UNCHANGED <<style, chatMode, idle, windows, context, voiceUsed, playVars, failed>>

(* Any other exception, a read that timed out among them, ends the session. *)
GenerateRaises ==
    /\ at = "generating"
    /\ SessionEnds("raised")
    /\ UNCHANGED <<voiceUsed, playVars>>

Generates ==
    /\ at = "generating"
    /\ context' = Trimmed(Append(context, Said("assistant")))
    /\ \/ /\ style = "text"
          /\ at' = "listening" /\ UNCHANGED <<voiceUsed, speaker>>
       \/ /\ style = "voice"                     \* spoken before the next turn
          /\ at' = "listening" /\ UNCHANGED speaker
          /\ voiceUsed' \in IF InBudget THEN {voiceUsed, voiceUsed + 1}
                                                    ELSE {voiceUsed}
       \/ /\ Always
          /\ at' = "polling" /\ UNCHANGED voiceUsed
          /\ speaker' = [t \in DOMAIN speaker \cup {turn} |->
                           IF t = turn THEN "making" ELSE speaker[t]]
    /\ UNCHANGED <<loopVars, audible, watching, hit, failed>>

(* So it does when the reply of a spoken session is spoken.                *)
SpeakRaises ==
    /\ at = "generating" /\ style = "voice" /\ InBudget
    /\ context' = Trimmed(Append(context, Said("assistant")))
    /\ at' = "raised"
    /\ UNCHANGED <<loopVars, voiceUsed, playVars, failed>>

-----------------------------------------------------------------------------
(* The speak thread: voice.speak, monitor.start, play_audio, monitor.stop. *)
Become(t, s) == speaker' = [speaker EXCEPT ![t] = s]

SpeakFails(t) ==
    /\ speaker[t] = "making"
    /\ Become(t, "done")
    /\ UNCHANGED <<loopVars, at, context, voiceUsed, audible, watching, hit, failed>>

Plays(t) ==
    /\ speaker[t] = "making" /\ InBudget
    /\ SpendsBudget
    /\ Become(t, "playing")
    /\ audible' = t /\ watching' = TRUE /\ hit' = FALSE
    /\ UNCHANGED <<loopVars, at, context, failed>>

SoundEnds ==
    /\ audible # 0
    /\ audible' = 0
    /\ UNCHANGED <<loopVars, at, context, voiceUsed, speaker, watching, hit, failed>>

PlayReturns(t) ==
    /\ speaker[t] = "playing" /\ audible = 0
    /\ watching' = FALSE
    /\ Become(t, "done")
    /\ UNCHANGED <<loopVars, at, context, voiceUsed, audible, hit, failed>>

OperatorSpeaksOver ==
    /\ watching /\ audible # 0
    /\ hit' = TRUE
    /\ UNCHANGED <<loopVars, at, context, voiceUsed, speaker, audible, watching, failed>>

(* _speak_with_barge_in: the flag stops the sound; the thread is awaited   *)
(* for a second at most.                                                   *)
TurnDone == at' = "listening" /\ turn' = turn + 1

PollsHit ==
    /\ at = "polling" /\ speaker[turn] # "done" /\ hit
    /\ audible' = 0
    /\ TurnDone
    /\ UNCHANGED <<style, chatMode, idle, windows, context, voiceUsed, speaker, watching, hit,
                   failed>>

PollsDone ==
    /\ at = "polling" /\ speaker[turn] = "done"
    /\ TurnDone
    /\ UNCHANGED <<style, chatMode, idle, windows, context, voiceUsed, playVars, failed>>

ChatNext ==
    \/ LeavesLoop \/ TurnNothing \/ TurnToTyping \/ TurnText \/ ListenRaises
    \/ WindowEmpty \/ HearsOutOfBudget \/ Hears \/ Transcribes
    \/ Ask \/ GenerateFails \/ GenerateEmpty \/ GenerateRaises \/ Generates \/ SpeakRaises
    \/ \E t \in DOMAIN speaker : SpeakFails(t) \/ Plays(t) \/ PlayReturns(t)
    \/ SoundEnds \/ OperatorSpeaksOver \/ PollsHit \/ PollsDone

ChatSpec == ChatInit /\ [][ChatNext]_chatVars

-----------------------------------------------------------------------------
(* What the model is sent is the conversation: the system prompt first and *)
(* only there, the turns in their order, every answer right after the      *)
(* question it answers (but for an answer whose question was trimmed), and *)
(* no question whose generation failed, however turns that failed, that    *)
(* got nothing back and that were trimmed follow one another.              *)
ContextIsTheConversation ==
    /\ \A k \in DOMAIN context : (context[k] = System) = (k = 1)
    /\ \A k \in 3..Len(context) :
         /\ context[k - 1].turn <= context[k].turn
         /\ context[k].role = "assistant" =>
              context[k - 1] = [role |-> "user", turn |-> context[k].turn]
         /\ context[k].role = "user" => context[k - 1].turn < context[k].turn
    /\ at # "generating" => \A k \in DOMAIN context : context[k].turn \notin failed \/ k = 1
    /\ Len(context) <= 1 + 2 * MaxHistory + turn

(* "While replies are spoken, the loop polls the barge detector": nothing  *)
(* is heard from a reply of an always-on session that goes on while the    *)
(* loop does anything else.                                                *)
RepliesArePolled ==
    Always /\ audible # 0 /\ at \notin {"ended", "raised"} => at = "polling" /\ audible = turn
=============================================================================
