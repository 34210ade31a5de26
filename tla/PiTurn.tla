-------------------------------- MODULE PiTurn --------------------------------
(***************************************************************************)
(* The turns of one chat, end to end: the prompt that sendSessionMessage   *)
(* writes (session-manager.ts), the records Pi answers on its stdout and   *)
(* the readers that split and parse them (pi-rpc-protocol.ts), and the     *)
(* relay that brings the answer to the chat (stream-relay.ts).             *)
(*                                                                         *)
(* Turns are numbered in the order the message queue starts them, and so   *)
(* are the subprocesses.  How a session is made and when it is closed is   *)
(* the subject of SessionManager; here it is made in one step.             *)
(***************************************************************************)
EXTENDS Naturals, Sequences, FiniteSets

CONSTANTS
    MaxTurns,       \* bound: turns
    MaxChildren,    \* bound: Pi subprocesses
    MaxParts,       \* bound: text deltas of one answer
    MaxFiles,       \* bound: files placed in the outbox
    MaxCleared      \* bound: turns that are detached

ASSUME PiTurnAssumption == {MaxTurns, MaxChildren, MaxParts, MaxFiles} \subseteq Nat \ {0} /\ MaxCleared \in Nat

Turns == 1 .. MaxTurns
Children == 1 .. MaxChildren
Files == 1 .. MaxFiles

VARIABLES
    session,    \* the subprocess of the chat's session in memory, or 0
    born,       \* number of subprocesses started so far
    dead,       \* the subprocesses whose stdout is closed
    prompts,    \* per subprocess: prompts it has not begun
    run,        \* per subprocess: the turn Pi works on, or 0
    said,       \* per turn: the text deltas Pi has emitted
    busy,       \* per subprocess: its run has emitted a record that is no text
    pipe,       \* per subprocess: records in its stdout, unread or half read
    ready,      \* per turn: how many of them the chunk in hand has completed
    cut,        \* per subprocess: the next one is half read
    task,       \* per turn: the queue task of sendSessionMessage
    on,         \* per turn: the subprocess of its task
    held,       \* per turn: its splitter holds the first half of a record
    lines,      \* per turn: lines pushed to the generator, not yet yielded
    relay,      \* per turn: where relayStream stands
    text,       \* per turn: accumulated, as parts <<turn, n>>; n is 0 for a result's text
    signaled,   \* per turn: ownershipSignaled
    draftTimer, \* per turn: a draft is scheduled
    chunks,     \* per turn: the number of chunks left to send
    outbox,     \* the files in the outbox, numbered as they were placed
    entries,    \* per turn: what sendOutboxFiles has read and not yet sent
    file,       \* per turn: the file whose sendFile is awaited, or 0
    cleared,    \* turns the queue has detached
    placed,     \* history: the number of files placed so far
    received,   \* history: how often the chat received a file
    wiped,      \* history: files wiped with the outbox
    undeleted   \* history: files whose unlink failed

sessionVars == <<session, born, dead>>
piVars == <<prompts, run, said, busy>>
readVars == <<pipe, ready, cut, task, on, held>>
relayVars == <<relay, text, signaled, draftTimer, chunks>>
fileVars == <<outbox, entries, file, placed, received, wiped, undeleted>>
vars == <<sessionVars, piVars, readVars, lines, relayVars, fileVars, cleared>>

\* A record of Pi's stdout: what it is, the turn it belongs to (0 for none), and how
\* many text deltas of the turn have come with it.
Record(kind, t, n) == [kind |-> kind, turn |-> t, part |-> n]

Terminal == {"agent_end", "error", "prompt_rejected"}
\* turn_end stands for every record that is ignored, a refused steer and a malformed
\* one included, tool_execution_start for a line that carries no text, as a retry is.
Noise == {"turn_end", "tool_execution_start"}
Kinds == Terminal \cup Noise \cup {"text_delta", "get_state"}

Init ==
    /\ session = 0 /\ born = 0 /\ dead = {}
    /\ prompts = [c \in Children |-> <<>>]
    /\ run = [c \in Children |-> 0]
    /\ said = [t \in Turns |-> 0]
    /\ busy = [c \in Children |-> FALSE]
    /\ pipe = [c \in Children |-> <<>>]
    /\ ready = [t \in Turns |-> 0]
    /\ cut = [c \in Children |-> FALSE]
    /\ task = [t \in Turns |-> "none"]
    /\ on = [t \in Turns |-> 0]
    /\ held = [t \in Turns |-> FALSE]
    /\ lines = [t \in Turns |-> <<>>]
    /\ relay = [t \in Turns |-> "none"]
    /\ text = [t \in Turns |-> <<>>]
    /\ signaled = [t \in Turns |-> FALSE]
    /\ draftTimer = [t \in Turns |-> FALSE]
    /\ chunks = [t \in Turns |-> 0]
    /\ outbox = {} /\ wiped = {} /\ undeleted = {} /\ cleared = {}
    /\ placed = 0
    /\ entries = [t \in Turns |-> {}]
    /\ file = [t \in Turns |-> 0]
    /\ received = [f \in Files |-> 0]

----------------------------------------------------------------------------
(* The turn begins.                                                        *)

Settled(t) == relay[t] \in {"done", "failed"}

\* Of the queue: turns of a chat follow one another, except that a turn may follow
\* one that was detached.
Begins(t) ==
    /\ relay[t] = "none"
    /\ \A u \in Turns : u < t => Settled(u) \/ u \in cleared

WipeOutbox ==
    /\ outbox' = {}
    /\ wiped' = wiped \cup outbox

\* sendSessionMessage writes the prompt and reads on from there.
SendPrompt(t, c) ==
    /\ prompts' = [prompts EXCEPT ![c] = Append(@, t)]
    /\ task' = [task EXCEPT ![t] = "reading"]
    /\ on' = [on EXCEPT ![t] = c]
    /\ relay' = [relay EXCEPT ![t] = "reading"]

\* The session in memory takes the prompt.
ReuseSession(t) ==
    /\ Begins(t)
    /\ session # 0
    /\ SendPrompt(t, session)
    /\ UNCHANGED <<sessionVars, run, said, busy, pipe, ready, cut, held, lines, text,
                   signaled, draftTimer, chunks, fileVars, cleared>>

\* A subprocess starts, with a clean outbox.  Its get_state answer has been read,
\* or was not awaited long enough and is still to come, in whole or by half.
SpawnSession(t) ==
    LET c == born + 1 IN
    /\ Begins(t)
    /\ session = 0
    /\ c \in Children
    /\ born' = c /\ session' = c
    /\ SendPrompt(t, c)
    /\ \E late \in {<<>>, <<Record("get_state", 0, 0)>>}, half \in BOOLEAN :
        /\ half => late # <<>>
        /\ pipe' = [pipe EXCEPT ![c] = late]
        /\ cut' = [cut EXCEPT ![c] = half]
    /\ WipeOutbox
    /\ UNCHANGED <<dead, run, said, busy, ready, held, lines, text, signaled, draftTimer,
                   chunks, entries, file, placed, received, undeleted, cleared>>

\* getOrCreateSession throws, perhaps after it has cleaned the outbox, or the write
\* of the prompt does.
TurnFailsToStart(t) ==
    /\ Begins(t)
    /\ relay' = [relay EXCEPT ![t] = "failed"]
    /\ \/ session = 0 /\ WipeOutbox
       \/ UNCHANGED <<outbox, wiped>>
    /\ UNCHANGED <<sessionVars, piVars, readVars, lines, text, signaled, draftTimer, chunks,
                   entries, file, placed, received, undeleted, cleared>>

----------------------------------------------------------------------------
(* Pi: one run for each prompt, which ends in one terminal record.         *)

Emit(c, r) == pipe' = [pipe EXCEPT ![c] = Append(@, r)]

PiUnchanged ==
    UNCHANGED <<sessionVars, ready, cut, task, on, held, lines, relayVars, cleared>>

\* With streamingBehavior "followUp" a prompt waits for the run before it.
PiBegins(c) ==
    /\ c \in 1 .. born \ dead
    /\ run[c] = 0 /\ prompts[c] # <<>>
    /\ prompts' = [prompts EXCEPT ![c] = Tail(@)]
    /\ \/ /\ run' = [run EXCEPT ![c] = Head(prompts[c])]
          /\ UNCHANGED pipe
       \/ /\ Emit(c, Record("prompt_rejected", Head(prompts[c]), 0))
          /\ UNCHANGED run
    /\ PiUnchanged
    /\ UNCHANGED <<said, busy, fileVars>>

PiSays(c) ==
    LET t == run[c] IN
    /\ c \notin dead /\ t # 0 /\ said[t] < MaxParts
    /\ said' = [said EXCEPT ![t] = @ + 1]
    /\ Emit(c, Record("text_delta", t, said[t] + 1))
    /\ PiUnchanged
    /\ UNCHANGED <<prompts, run, busy, fileVars>>

\* A record that is no text: once in a run.
PiWorks(c) ==
    LET t == run[c] IN
    /\ c \notin dead /\ t # 0 /\ ~busy[c]
    /\ busy' = [busy EXCEPT ![c] = TRUE]
    /\ \E kind \in Noise : Emit(c, Record(kind, t, said[t]))
    /\ PiUnchanged
    /\ UNCHANGED <<prompts, run, said, fileVars>>

\* The agent puts a file into the outbox of its session.
PiPlacesFile(c) ==
    /\ c \notin dead /\ c = session /\ run[c] # 0 /\ placed < MaxFiles
    /\ placed' = placed + 1
    /\ outbox' = outbox \cup {placed'}
    /\ PiUnchanged
    /\ UNCHANGED <<piVars, pipe, entries, file, received, wiped, undeleted>>

PiEnds(c) ==
    LET t == run[c] IN
    /\ c \notin dead /\ t # 0
    /\ run' = [run EXCEPT ![c] = 0]
    /\ busy' = [busy EXCEPT ![c] = FALSE]
    /\ \E kind \in {"agent_end", "error"} : Emit(c, Record(kind, t, said[t]))
    /\ PiUnchanged
    /\ UNCHANGED <<prompts, said, fileVars>>

----------------------------------------------------------------------------
(* Reading: readPiStream in the queue task of sendSessionMessage.          *)

\* Mutant of Parse: the end of a turn of a run is taken for the end of the run.
ParseTurnEnd(kind) ==
    CASE kind = "text_delta" -> "text"
      [] kind = "tool_execution_start" -> "block"
      [] kind = "get_state" -> "init"
      [] kind \in {"agent_end", "turn_end"} -> "result"
      [] kind \in {"error", "prompt_rejected"} -> "error"
      [] OTHER -> "null"

\* parsePiEvent
Parse(kind) ==
    CASE kind = "text_delta" -> "text"
      [] kind = "tool_execution_start" -> "block"
      [] kind = "get_state" -> "init"
      [] kind = "agent_end" -> "result"
      [] kind \in {"error", "prompt_rejected"} -> "error"
      [] OTHER -> "null"

IsFinal(l) == l.kind \in {"result", "error"}

\* A chunk of n whole records, with or without the first half of the next.  The
\* splitter completes all of them but one whose first half an earlier reader took:
\* that one is malformed and skipped.
ReadChunk(t) ==
    LET c == on[t]
        malformed == IF cut[c] /\ ~held[t] THEN 1 ELSE 0
    IN
    /\ task[t] = "reading" /\ ready[t] = 0
    /\ \E n \in 0 .. Len(pipe[c]), half \in BOOLEAN :
        /\ n > 0 \/ (half /\ ~cut[c])
        /\ half => n < Len(pipe[c])
        /\ ready' = [ready EXCEPT ![t] = IF n = 0 THEN 0 ELSE n - malformed]
        /\ pipe' = [pipe EXCEPT ![c] = IF n = 0 THEN @ ELSE SubSeq(@, malformed + 1, Len(@))]
        /\ cut' = [cut EXCEPT ![c] = half]
        /\ held' = [held EXCEPT ![t] = half]
    /\ UNCHANGED <<sessionVars, piVars, task, on, lines, relayVars, fileVars, cleared>>

\* The next record of the chunk in hand becomes a line, unless it comes to nothing.
\* After the result the task stops reading: what is left of the chunk is lost.
ReadRecord(t) ==
    LET c == on[t]
        l == [Head(pipe[c]) EXCEPT !.kind = Parse(@)]
        taken == IF IsFinal(l) THEN ready[t] ELSE 1
    IN
    /\ task[t] = "reading" /\ ready[t] > 0
    /\ lines' = IF l.kind = "null" THEN lines ELSE [lines EXCEPT ![t] = Append(@, l)]
    /\ task' = IF IsFinal(l) THEN [task EXCEPT ![t] = "done"] ELSE task
    /\ pipe' = [pipe EXCEPT ![c] = SubSeq(@, taken + 1, Len(@))]
    /\ ready' = [ready EXCEPT ![t] = @ - taken]
    /\ held' = [held EXCEPT ![t] = @ /\ ~IsFinal(l)]
    /\ UNCHANGED <<sessionVars, piVars, cut, on, relayVars, fileVars, cleared>>

\* The stream ends before a result.
StreamEnds(t) ==
    /\ task[t] = "reading"
    /\ on[t] \in dead /\ pipe[on[t]] = <<>>
    /\ task' = [task EXCEPT ![t] = "error"]
    /\ UNCHANGED <<sessionVars, piVars, pipe, ready, cut, on, held, lines, relayVars, fileVars,
                   cleared>>

----------------------------------------------------------------------------
(* The session ends.                                                       *)

Dies(c) ==
    /\ dead' = dead \cup {c}
    /\ run' = [run EXCEPT ![c] = 0]
    /\ busy' = [busy EXCEPT ![c] = FALSE]
    /\ prompts' = [prompts EXCEPT ![c] = <<>>]

\* The subprocess crashes, or the activity timer kills it.
ChildDies(c) ==
    /\ c \in 1 .. born \ dead
    /\ Dies(c)
    /\ session' = IF session = c THEN 0 ELSE session
    /\ UNCHANGED <<born, said, readVars, lines, relayVars, fileVars, cleared>>

\* Mutant of ActivityTimeout: the timer is armed by the first line.
ActivityTimeoutAfterFirst(t) ==
    /\ task[t] = "reading" /\ pipe[on[t]] = <<>> /\ signaled[t]
    /\ ChildDies(on[t])

\* The activity timer: nothing has come for a long time.
ActivityTimeout(t) ==
    /\ task[t] = "reading" /\ pipe[on[t]] = <<>>
    /\ ChildDies(on[t])

\* closeSession by the idle timer or an eviction, or with clear by /reconnect.  The
\* subprocess is taken to die at once.
Close(clear) ==
    /\ session # 0
    /\ Dies(session)
    /\ session' = 0
    /\ WipeOutbox
    /\ cleared' = IF clear THEN cleared \cup {t \in Turns : relay[t] # "none" /\ ~Settled(t)} ELSE cleared
    /\ Cardinality(cleared') <= MaxCleared
    /\ UNCHANGED <<born, said, readVars, lines, relayVars, entries, file, placed,
                   received, undeleted>>

----------------------------------------------------------------------------
(* relayStream                                                             *)

\* scheduleDraft: a draft is sent at once and its outcome ignored, or the timer runs.
ScheduleDraft(t) ==
    \E timer \in IF draftTimer[t] THEN {TRUE} ELSE BOOLEAN :
        draftTimer' = [draftTimer EXCEPT ![t] = timer]

DraftTimerFires(t) ==
    /\ draftTimer[t]
    /\ draftTimer' = [draftTimer EXCEPT ![t] = FALSE]
    /\ UNCHANGED <<sessionVars, piVars, readVars, lines, relay, text, signaled, chunks,
                   fileVars, cleared>>

RelayUnchanged == UNCHANGED <<sessionVars, piVars, readVars, fileVars, cleared, chunks>>

\* A line of the stream that is not the last.
RelayLine(t) ==
    /\ relay[t] = "reading" /\ lines[t] # <<>>
    /\ LET l == Head(lines[t]) IN
        /\ ~IsFinal(l)
        /\ IF l.kind = "text"
           THEN /\ text' = [text EXCEPT ![t] = Append(@, <<l.turn, l.part>>)]
                /\ ScheduleDraft(t)
           ELSE UNCHANGED <<text, draftTimer>>
    /\ lines' = [lines EXCEPT ![t] = Tail(@)]
    /\ signaled' = [signaled EXCEPT ![t] = TRUE]
    /\ UNCHANGED relay
    /\ RelayUnchanged

\* What msg.result may be: some text for an error, any or none for the end of a run.
ResultTexts(l) ==
    IF l.kind = "error" THEN {<<<<l.turn, 0>>>>} ELSE {<<>>, <<<<l.turn, 0>>>>}

\* Mutant of RelayResult: a draft that is scheduled stays so.
RelayResultKeepsTimer(t) ==
    /\ relay[t] = "reading" /\ lines[t] # <<>>
    /\ LET l == Head(lines[t]) IN
        /\ IsFinal(l)
        /\ \E result \in ResultTexts(l) :
              text' = [text EXCEPT ![t] = IF @ = <<>> THEN result ELSE @]
    /\ lines' = [lines EXCEPT ![t] = Tail(@)]
    /\ signaled' = [signaled EXCEPT ![t] = TRUE]
    /\ relay' = [relay EXCEPT ![t] = "settling"]
    /\ UNCHANGED draftTimer
    /\ RelayUnchanged

\* The result: its text is the answer if there were no deltas.
RelayResult(t) ==
    /\ relay[t] = "reading" /\ lines[t] # <<>>
    /\ LET l == Head(lines[t]) IN
        /\ IsFinal(l)
        /\ \E result \in ResultTexts(l) :
              text' = [text EXCEPT ![t] = IF @ = <<>> THEN result ELSE @]
    /\ lines' = [lines EXCEPT ![t] = Tail(@)]
    /\ signaled' = [signaled EXCEPT ![t] = TRUE]
    /\ draftTimer' = [draftTimer EXCEPT ![t] = FALSE]
    /\ relay' = [relay EXCEPT ![t] = "settling"]
    /\ RelayUnchanged

\* The stream throws, after its lines.
RelayThrows(t) ==
    /\ relay[t] = "reading" /\ lines[t] = <<>> /\ task[t] = "error"
    /\ draftTimer' = [draftTimer EXCEPT ![t] = FALSE]
    /\ relay' = [relay EXCEPT ![t] = "failed"]
    /\ text' = [text EXCEPT ![t] = <<>>]
    /\ UNCHANGED <<lines, signaled>>
    /\ RelayUnchanged

DeliveryUnchanged ==
    UNCHANGED <<sessionVars, piVars, readVars, lines, signaled, draftTimer, cleared>>

\* The drafts have settled, or the wait for them has timed out.  A NO_REPLY answer
\* ends here; any other is split into one chunk or more (here: at most two).
Settle(t) ==
    /\ relay[t] = "settling"
    /\ \/ /\ text[t] # <<>>
          /\ relay' = [relay EXCEPT ![t] = "done"]
          /\ UNCHANGED chunks
       \/ /\ relay' = [relay EXCEPT ![t] = "sending"]
          /\ \E n \in IF text[t] = <<>> THEN {0} ELSE 1 .. 2 :
                chunks' = [chunks EXCEPT ![t] = n]
    /\ text' = [text EXCEPT ![t] = <<>>]
    /\ UNCHANGED fileVars
    /\ DeliveryUnchanged

\* sendMessage of a chunk: if the first fails the turn does, a later one is skipped.
SendChunk(t) ==
    /\ relay[t] \in {"sending", "continuing"} /\ chunks[t] > 0
    /\ \/ /\ relay' = [relay EXCEPT ![t] = "continuing"]
          /\ chunks' = [chunks EXCEPT ![t] = @ - 1]
       \/ /\ relay[t] = "sending"
          /\ relay' = [relay EXCEPT ![t] = "failed"]
          /\ chunks' = [chunks EXCEPT ![t] = 0]
    /\ UNCHANGED <<text, fileVars>>
    /\ DeliveryUnchanged

\* sendOutboxFiles reads the directory
ReadOutbox(t) ==
    /\ relay[t] \in {"sending", "continuing"} /\ chunks[t] = 0
    /\ relay' = [relay EXCEPT ![t] = "outbox"]
    /\ entries' = [entries EXCEPT ![t] = outbox]
    /\ UNCHANGED <<text, chunks, outbox, file, placed, received, wiped, undeleted>>
    /\ DeliveryUnchanged

\* and sends a file that is still there, deleting it only then.
SendFile(t) ==
    /\ relay[t] = "outbox" /\ file[t] = 0
    /\ \E f \in entries[t] :
        /\ entries' = [entries EXCEPT ![t] = @ \ {f}]
        /\ file' = [file EXCEPT ![t] = IF f \in outbox THEN f ELSE 0]
    /\ UNCHANGED <<relay, text, chunks, outbox, placed, received, wiped, undeleted>>
    /\ DeliveryUnchanged

\* Mutant of FileSent: the file is deleted whatever became of it.
FileSentOrNot(t) ==
    /\ file[t] # 0
    /\ \/ received' = [received EXCEPT ![file[t]] = @ + 1]
       \/ UNCHANGED received
    /\ outbox' = outbox \ {file[t]}
    /\ file' = [file EXCEPT ![t] = 0]
    /\ UNCHANGED <<relay, text, chunks, entries, placed, wiped, undeleted>>
    /\ DeliveryUnchanged

\* Mutant of FileSent: the file is not deleted.
FileSentAndLeft(t) ==
    /\ file[t] # 0
    /\ \/ received' = [received EXCEPT ![file[t]] = @ + 1]
       \/ UNCHANGED received
    /\ file' = [file EXCEPT ![t] = 0]
    /\ UNCHANGED <<relay, text, chunks, outbox, entries, placed, wiped, undeleted>>
    /\ DeliveryUnchanged

FileSent(t) ==
    /\ file[t] # 0
    /\ \/ /\ received' = [received EXCEPT ![file[t]] = @ + 1]
          /\ \/ outbox' = outbox \ {file[t]} /\ UNCHANGED undeleted
             \/ undeleted' = undeleted \cup {file[t]} /\ UNCHANGED outbox
       \/ UNCHANGED <<received, outbox, undeleted>>
    /\ file' = [file EXCEPT ![t] = 0]
    /\ UNCHANGED <<relay, text, chunks, entries, placed, wiped>>
    /\ DeliveryUnchanged

RelayEnds(t) ==
    /\ relay[t] = "outbox" /\ entries[t] = {} /\ file[t] = 0
    /\ relay' = [relay EXCEPT ![t] = "done"]
    /\ UNCHANGED <<text, chunks, fileVars>>
    /\ DeliveryUnchanged

----------------------------------------------------------------------------

Next ==
    \/ \E t \in Turns :
        \/ ReuseSession(t) \/ SpawnSession(t) \/ TurnFailsToStart(t)
        \/ ReadChunk(t) \/ ReadRecord(t) \/ StreamEnds(t) \/ ActivityTimeout(t)
        \/ RelayLine(t) \/ RelayResult(t) \/ RelayThrows(t)
        \/ DraftTimerFires(t) \/ Settle(t) \/ SendChunk(t)
        \/ ReadOutbox(t) \/ SendFile(t) \/ FileSent(t) \/ RelayEnds(t)
    \/ \E c \in Children : \/ PiBegins(c) \/ PiSays(c) \/ PiWorks(c) \/ PiPlacesFile(c)
                           \/ PiEnds(c) \/ ChildDies(c)
    \/ \E clear \in BOOLEAN : Close(clear)

Spec == Init /\ [][Next]_vars

\* What is written is read, what is read is relayed, a call of the chat platform
\* settles, and the activity timer fires.  Pi owes nothing.
Fairness ==
    \A t \in Turns :
        /\ WF_vars(ReadChunk(t) \/ ReadRecord(t) \/ StreamEnds(t))
        /\ WF_vars(ActivityTimeout(t))
        /\ WF_vars(RelayLine(t) \/ RelayResult(t) \/ RelayThrows(t))
        /\ WF_vars(Settle(t) \/ SendChunk(t) \/ ReadOutbox(t))
        /\ WF_vars(SendFile(t) \/ FileSent(t) \/ RelayEnds(t))

FairSpec == Spec /\ Fairness

----------------------------------------------------------------------------
(* Properties.                                                             *)

SessionTyped ==
    /\ session \in 0 .. MaxChildren /\ born \in 0 .. MaxChildren /\ dead \subseteq Children
    /\ prompts \in [Children -> Seq(Turns)]
    /\ run \in [Children -> 0 .. MaxTurns]
    /\ said \in [Turns -> 0 .. MaxParts] /\ busy \in [Children -> BOOLEAN]

StreamTyped ==
    /\ pipe \in [Children -> Seq([kind : Kinds, turn : 0 .. MaxTurns, part : 0 .. MaxParts])]
    /\ ready \in [Turns -> Nat] /\ cut \in [Children -> BOOLEAN]
    /\ task \in [Turns -> {"none", "reading", "done", "error"}]
    /\ on \in [Turns -> 0 .. MaxChildren] /\ held \in [Turns -> BOOLEAN]

\* What `lines` and `text` hold is what AnswerIsWhole is about.
RelayTyped ==
    /\ relay \in [Turns -> {"none", "reading", "settling", "sending", "continuing",
                            "outbox", "done", "failed"}]
    /\ signaled \in [Turns -> BOOLEAN] /\ draftTimer \in [Turns -> BOOLEAN]
    /\ chunks \in [Turns -> 0 .. 2] /\ cleared \subseteq Turns

FilesTyped ==
    /\ outbox \subseteq Files /\ placed \in 0 .. MaxFiles /\ wiped \subseteq Files
    /\ undeleted \subseteq Files
    /\ entries \in [Turns -> SUBSET Files] /\ file \in [Turns -> 0 .. MaxFiles]
    /\ received \in [Files -> Nat]

TypeOK == SessionTyped /\ StreamTyped /\ RelayTyped /\ FilesTyped

\* The answer of a run: all its deltas in order, or the text of its result.
Answers(t) == {[i \in 1 .. said[t] |-> <<t, i>>]} \cup
              (IF said[t] = 0 THEN {<<<<t, 0>>>>} ELSE {})

\* However the stream is cut into chunks and whatever an earlier reader has left in
\* it, what a turn delivers is the whole answer to its own prompt and nothing else.
AnswerIsWhole ==
    \A t \in Turns : relay[t] = "settling" => text[t] \in Answers(t)

\* A draft never starts after the final answer: the timer of a scheduled draft does
\* not outlive the reading of the stream.
DraftTimerDiesWithTheStream == \A t \in Turns : draftTimer[t] => relay[t] = "reading"

\* A file the agent left in the outbox waits there, or has reached the chat, unless
\* the outbox was wiped with its session.
FilesAreKept ==
    \A f \in 1 .. placed : f \in outbox \/ received[f] > 0 \/ f \in wiped

\* It reaches the chat once, unless it could not be deleted or two turns of the chat
\* overlap after a /reconnect or /clean.
FilesArriveOnce ==
    \A f \in Files : received[f] > 1 => f \in undeleted \/ cleared # {}

\* Every turn ends, whatever Pi and the chat platform do.
TurnsEnd == \A t \in Turns : (relay[t] = "reading") ~> Settled(t)

----------------------------------------------------------------------------
(* PiTurn implements TurnReply.                                            *)

StageOf(t) ==
    CASE relay[t] = "none" -> "none"
      [] relay[t] = "reading" -> "open"
      [] relay[t] = "done" -> "delivered"
      [] relay[t] = "failed" -> "failed"
      [] OTHER -> "whole"

\* Pi has ended the run: the record that says so is unread, or ended the reading.
EndedOf(t) ==
    \/ task[t] = "done"
    \/ task[t] = "reading" /\ \E i \in DOMAIN pipe[on[t]] : pipe[on[t]][i].kind \in Terminal

ShownOf(t) ==
    CASE relay[t] \in {"none", "reading"} -> text[t]
      [] relay[t] = "failed" -> <<>>
      [] OTHER -> [i \in 1 .. said[t] |-> <<t, i>>]

Reply == INSTANCE TurnReply WITH
    stage <- [t \in Turns |-> StageOf(t)],
    ended <- [t \in Turns |-> EndedOf(t)],
    shown <- [t \in Turns |-> ShownOf(t)],
    draft <- draftTimer

\* Through all the pipes, readers and relays, and whatever dies meanwhile, each turn
\* shows its own deltas in order, is complete once the run has ended and all of them
\* have come, fails otherwise, and sends no draft afterwards.
ImplementsReply == Reply!ReplySpec

=============================================================================
