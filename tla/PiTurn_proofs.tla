---------------------------- MODULE PiTurn_proofs ----------------------------
(***************************************************************************)
(* What holds of the turns of a chat for any number of turns, subprocesses *)
(* and files: the types, the draft timer, the files of the outbox, the     *)
(* answer that a turn delivers, and that the turns implement TurnReply.    *)
(***************************************************************************)
EXTENDS PiTurn, WellFoundedInduction, TLAPS

States == {"none", "reading", "settling", "sending", "continuing", "outbox", "done", "failed"}

Records == [kind : Kinds, turn : 0 .. MaxTurns, part : 0 .. MaxParts]

-----------------------------------------------------------------------------
(* Types.                                                                  *)

LEMMA Numbers ==
    /\ MaxTurns \in Nat /\ MaxChildren \in Nat /\ MaxParts \in Nat /\ MaxFiles \in Nat
    /\ MaxTurns > 0 /\ MaxChildren > 0 /\ MaxParts > 0 /\ MaxFiles > 0
    /\ Turns \subseteq 0 .. MaxTurns /\ Children \subseteq 0 .. MaxChildren
    /\ Files \subseteq 0 .. MaxFiles
  BY PiTurnAssumption DEF Turns, Children, Files

LEMMA RecordTyped ==
    ASSUME NEW kind \in Kinds, NEW t \in 0 .. MaxTurns, NEW n \in 0 .. MaxParts
    PROVE  Record(kind, t, n) \in Records
  BY DEF Record, Records

LEMMA EmitTyped ==
    ASSUME StreamTyped, NEW c \in Children, NEW r \in Records, Emit(c, r),
           UNCHANGED <<ready, cut, task, on, held>>
    PROVE  StreamTyped'
<1>1. Append(pipe[c], r) \in Seq(Records)
  <2>1. pipe[c] \in Seq(Records) BY DEF StreamTyped, Records
  <2> QED BY <2>1
<1> QED BY <1>1 DEF StreamTyped, Emit, Records

LEMMA TypeInit == Init => TypeOK
<1> SUFFICES ASSUME Init PROVE TypeOK OBVIOUS
<1>1. SessionTyped BY Numbers DEF Init, SessionTyped
<1>2. StreamTyped BY Numbers DEF Init, StreamTyped
<1>3. RelayTyped BY DEF Init, RelayTyped
<1>4. FilesTyped BY Numbers DEF Init, FilesTyped
<1> QED BY <1>1, <1>2, <1>3, <1>4 DEF TypeOK

LEMMA PromptTyped ==
    ASSUME TypeOK, NEW t \in Turns, NEW c \in Children, SendPrompt(t, c),
           UNCHANGED <<run, said, busy, held, signaled, draftTimer, chunks, cleared>>
    PROVE  /\ prompts' \in [Children -> Seq(Turns)]
           /\ task' \in [Turns -> {"none", "reading", "done", "error"}]
           /\ on' \in [Turns -> 0 .. MaxChildren]
           /\ RelayTyped'
<1>1. Append(prompts[c], t) \in Seq(Turns) BY DEF TypeOK, SessionTyped
<1>2. prompts' \in [Children -> Seq(Turns)]
  BY <1>1 DEF SendPrompt, TypeOK, SessionTyped
<1>3. task' \in [Turns -> {"none", "reading", "done", "error"}]
  BY DEF SendPrompt, TypeOK, StreamTyped
<1>4. on' \in [Turns -> 0 .. MaxChildren] BY Numbers DEF SendPrompt, TypeOK, StreamTyped
<1>5. RelayTyped' BY DEF SendPrompt, TypeOK, RelayTyped
<1> QED BY <1>2, <1>3, <1>4, <1>5

LEMMA WipeTyped ==
    ASSUME FilesTyped, WipeOutbox, UNCHANGED <<entries, file, placed, received, undeleted>>
    PROVE  FilesTyped'
  BY DEF FilesTyped, WipeOutbox

LEMMA BeginTyped ==
    ASSUME TypeOK, NEW t \in Turns, ReuseSession(t) \/ SpawnSession(t) \/ TurnFailsToStart(t)
    PROVE  TypeOK'
<1>1. CASE ReuseSession(t)
  <2>1. session \in Children BY <1>1 DEF ReuseSession, TypeOK, SessionTyped, Children
  <2>2. /\ prompts' \in [Children -> Seq(Turns)]
        /\ task' \in [Turns -> {"none", "reading", "done", "error"}]
        /\ on' \in [Turns -> 0 .. MaxChildren] /\ RelayTyped'
    BY <1>1, <2>1, PromptTyped DEF ReuseSession
  <2> QED BY <1>1, <2>2
      DEF ReuseSession, TypeOK, SessionTyped, StreamTyped, FilesTyped, sessionVars, fileVars
<1>2. CASE SpawnSession(t)
  <2> DEFINE c == born + 1
  <2>1. c \in Children /\ c \in 0 .. MaxChildren /\ SendPrompt(t, c) /\ WipeOutbox
    BY <1>2, Numbers DEF SpawnSession
  <2>2. PICK late \in {<<>>, <<Record("get_state", 0, 0)>>}, half \in BOOLEAN :
           pipe' = [pipe EXCEPT ![c] = late] /\ cut' = [cut EXCEPT ![c] = half]
    BY <1>2 DEF SpawnSession
  <2>3. /\ prompts' \in [Children -> Seq(Turns)]
        /\ task' \in [Turns -> {"none", "reading", "done", "error"}]
        /\ on' \in [Turns -> 0 .. MaxChildren] /\ RelayTyped'
    BY <1>2, <2>1, PromptTyped DEF SpawnSession
  <2>4. late \in Seq(Records)
    <3>1. Record("get_state", 0, 0) \in Records BY RecordTyped, Numbers DEF Kinds
    <3>2. ASSUME NEW r \in Records PROVE <<r>> \in Seq(Records) OBVIOUS
    <3>3. <<>> \in Seq(Records) OBVIOUS
    <3> QED BY <3>1, <3>2, <3>3
  <2>5. FilesTyped' BY <1>2, <2>1, WipeTyped DEF SpawnSession, TypeOK
  <2>6. pipe' \in [Children -> Seq(Records)] /\ cut' \in [Children -> BOOLEAN]
    BY <2>1, <2>2, <2>4 DEF TypeOK, StreamTyped, Records
  <2>7. SessionTyped' BY <1>2, <2>1, <2>3 DEF SpawnSession, TypeOK, SessionTyped
  <2>8. StreamTyped' BY <1>2, <2>3, <2>6 DEF SpawnSession, TypeOK, StreamTyped, Records
  <2> QED BY <2>3, <2>5, <2>7, <2>8 DEF TypeOK
<1>3. CASE TurnFailsToStart(t)
  <2>1. FilesTyped' BY <1>3, WipeTyped DEF TurnFailsToStart, TypeOK, FilesTyped
  <2>2. RelayTyped' BY <1>3 DEF TurnFailsToStart, TypeOK, RelayTyped
  <2> QED BY <1>3, <2>1, <2>2
      DEF TurnFailsToStart, TypeOK, SessionTyped, StreamTyped, sessionVars, piVars, readVars
<1> QED BY <1>1, <1>2, <1>3

LEMMA PiTyped ==
    ASSUME TypeOK, NEW c \in Children,
           PiBegins(c) \/ PiSays(c) \/ PiWorks(c) \/ PiPlacesFile(c) \/ PiEnds(c)
    PROVE  TypeOK'
<1>1. RelayTyped' /\ UNCHANGED <<session, born, dead, ready, cut, task, on, held>>
  BY DEF PiBegins, PiSays, PiWorks, PiPlacesFile, PiEnds, PiUnchanged, TypeOK, RelayTyped,
         relayVars, sessionVars
<1>2. run[c] \in 0 .. MaxTurns /\ 0 \in 0 .. MaxParts /\ 0 \in 0 .. MaxTurns
  BY Numbers DEF TypeOK, SessionTyped
<1>3. CASE PiBegins(c)
  <2>1. /\ prompts[c] \in Seq(Turns) /\ prompts[c] # <<>>
        /\ prompts' = [prompts EXCEPT ![c] = Tail(prompts[c])]
    BY <1>3 DEF PiBegins, TypeOK, SessionTyped
  <2>2. Head(prompts[c]) \in Turns /\ Tail(prompts[c]) \in Seq(Turns) BY <2>1
  <2>3. Head(prompts[c]) \in 0 .. MaxTurns BY <2>2, Numbers
  <2>4. run' \in [Children -> 0 .. MaxTurns] BY <1>3, <2>3 DEF PiBegins, TypeOK, SessionTyped
  <2>5. SessionTyped' BY <1>1, <1>3, <2>1, <2>2, <2>4 DEF PiBegins, TypeOK, SessionTyped
  <2>6. StreamTyped'
    <3>1. CASE UNCHANGED pipe BY <1>1, <3>1 DEF TypeOK, StreamTyped
    <3>2. CASE Emit(c, Record("prompt_rejected", Head(prompts[c]), 0))
      <4>1. Record("prompt_rejected", Head(prompts[c]), 0) \in Records
        BY <1>2, <2>3, RecordTyped DEF Kinds, Terminal
      <4> QED BY <1>1, <3>2, <4>1, EmitTyped DEF TypeOK
    <3> QED BY <1>3, <3>1, <3>2 DEF PiBegins
  <2>7. FilesTyped' BY <1>3 DEF PiBegins, TypeOK, FilesTyped, fileVars
  <2> QED BY <1>1, <2>5, <2>6, <2>7 DEF TypeOK
<1>4. CASE PiSays(c)
  <2> DEFINE t == run[c]
  <2>1. /\ t \in Turns /\ said[t] \in 0 .. MaxParts /\ said[t] < MaxParts
        /\ said' = [said EXCEPT ![t] = said[t] + 1]
    BY <1>2, <1>4 DEF PiSays, TypeOK, SessionTyped, Turns
  <2>2. said[t] + 1 \in 0 .. MaxParts BY <2>1, Numbers
  <2>3. Record("text_delta", t, said[t] + 1) \in Records
    BY <1>2, <2>2, RecordTyped DEF Kinds
  <2>4. StreamTyped' BY <1>1, <1>4, <2>3, EmitTyped DEF PiSays, TypeOK
  <2>5. SessionTyped' BY <1>1, <1>4, <2>1, <2>2 DEF PiSays, TypeOK, SessionTyped
  <2>6. FilesTyped' BY <1>4 DEF PiSays, TypeOK, FilesTyped, fileVars
  <2> QED BY <1>1, <2>4, <2>5, <2>6 DEF TypeOK
<1>5. CASE PiWorks(c)
  <2>1. PICK kind \in Noise : Emit(c, Record(kind, run[c], said[run[c]])) BY <1>5 DEF PiWorks
  <2>2. Record(kind, run[c], said[run[c]]) \in Records
    BY <1>2, <1>5, RecordTyped DEF PiWorks, Kinds, TypeOK, SessionTyped, Turns
  <2>3. StreamTyped' BY <1>1, <2>1, <2>2, EmitTyped DEF TypeOK
  <2>4. SessionTyped' BY <1>1, <1>5 DEF PiWorks, TypeOK, SessionTyped
  <2>5. FilesTyped' BY <1>5 DEF PiWorks, TypeOK, FilesTyped, fileVars
  <2> QED BY <1>1, <2>3, <2>4, <2>5 DEF TypeOK
<1>6. CASE PiPlacesFile(c)
  <2>1. placed' = placed + 1 /\ placed < MaxFiles /\ outbox' = outbox \cup {placed'}
    BY <1>6 DEF PiPlacesFile
  <2>2. placed + 1 \in Files /\ placed' \in 0 .. MaxFiles
    BY <2>1, Numbers DEF TypeOK, FilesTyped, Files
  <2>3. FilesTyped' BY <1>6, <2>1, <2>2 DEF PiPlacesFile, TypeOK, FilesTyped
  <2> QED BY <1>1, <1>6, <2>3 DEF PiPlacesFile, TypeOK, SessionTyped, StreamTyped, piVars
<1>7. CASE PiEnds(c)
  <2>1. PICK kind \in {"agent_end", "error"} : Emit(c, Record(kind, run[c], said[run[c]]))
    BY <1>7 DEF PiEnds
  <2>2. Record(kind, run[c], said[run[c]]) \in Records
    BY <1>2, <1>7, RecordTyped DEF PiEnds, Kinds, Terminal, TypeOK, SessionTyped, Turns
  <2>3. StreamTyped' BY <1>1, <2>1, <2>2, EmitTyped DEF TypeOK
  <2>4. SessionTyped' BY <1>1, <1>2, <1>7 DEF PiEnds, TypeOK, SessionTyped
  <2>5. FilesTyped' BY <1>7 DEF PiEnds, TypeOK, FilesTyped, fileVars
  <2> QED BY <1>1, <2>3, <2>4, <2>5 DEF TypeOK
<1> QED BY <1>3, <1>4, <1>5, <1>6, <1>7

\* The rest of a pipe, from some record on.
LEMMA RestTyped ==
    ASSUME TypeOK, NEW c, NEW n \in Nat,
           pipe' = [pipe EXCEPT ![c] = SubSeq(pipe[c], n + 1, Len(pipe[c]))]
    PROVE  pipe' \in [Children -> Seq(Records)]
<1>1. pipe \in [Children -> Seq(Records)] BY DEF TypeOK, StreamTyped, Records
<1>2. CASE c \in Children
  <2>1. pipe[c] \in Seq(Records) BY <1>1, <1>2
  <2>2. SubSeq(pipe[c], n + 1, Len(pipe[c])) \in Seq(Records)
    <3>1. CASE n >= Len(pipe[c]) BY <2>1, <3>1
    <3>2. CASE n < Len(pipe[c])
      <4>1. n + 1 \in 1 .. Len(pipe[c]) /\ Len(pipe[c]) \in 1 .. Len(pipe[c]) BY <2>1, <3>2
      <4> QED BY <2>1, <4>1
    <3> QED BY <2>1, <3>1, <3>2
  <2> QED BY <1>1, <2>2
<1>3. CASE c \notin Children BY <1>1, <1>3
<1> QED BY <1>2, <1>3

LEMMA ReadTyped ==
    ASSUME TypeOK, NEW t \in Turns, ReadChunk(t) \/ ReadRecord(t) \/ StreamEnds(t)
    PROVE  TypeOK'
<1>1. CASE ReadChunk(t)
  <2> DEFINE c == on[t]
             malformed == IF cut[c] /\ ~held[t] THEN 1 ELSE 0
  <2>1. PICK n \in 0 .. Len(pipe[c]), half \in BOOLEAN :
          /\ ready' = [ready EXCEPT ![t] = IF n = 0 THEN 0 ELSE n - malformed]
          /\ pipe' = [pipe EXCEPT ![c] = IF n = 0 THEN pipe[c]
                                        ELSE SubSeq(pipe[c], malformed + 1, Len(pipe[c]))]
          /\ cut' = [cut EXCEPT ![c] = half]
          /\ held' = [held EXCEPT ![t] = half]
    BY <1>1 DEF ReadChunk
  <2>2. malformed \in {0, 1} OBVIOUS
  <2> HIDE DEF malformed
  <2>3. pipe' \in [Children -> Seq(Records)]
    <3>1. CASE n = 0
      <4>1. pipe' = pipe BY <2>1, <3>1 DEF TypeOK, StreamTyped
      <4> QED BY <4>1 DEF TypeOK, StreamTyped, Records
    <3>2. CASE n # 0
      <4>1. pipe' = [pipe EXCEPT ![c] = SubSeq(pipe[c], malformed + 1, Len(pipe[c]))]
        BY <2>1, <3>2
      <4> QED BY <2>2, <4>1, RestTyped
    <3> QED BY <3>1, <3>2
  <2>4. ready' \in [Turns -> Nat]
    <3>1. n = 0 \/ n - malformed \in Nat BY <2>1, <2>2
    <3> QED BY <2>1, <3>1 DEF TypeOK, StreamTyped
  <2>5. cut' \in [Children -> BOOLEAN] /\ held' \in [Turns -> BOOLEAN]
    BY <2>1 DEF TypeOK, StreamTyped
  <2>6. StreamTyped' BY <1>1, <2>3, <2>4, <2>5 DEF ReadChunk, TypeOK, StreamTyped, Records
  <2> QED BY <1>1, <2>6
      DEF ReadChunk, TypeOK, SessionTyped, RelayTyped, FilesTyped, sessionVars, piVars,
          relayVars, fileVars
<1>3. CASE ReadRecord(t)
  <2> DEFINE c == on[t]
  <2>0. PICK l : l = [Head(pipe[c]) EXCEPT !.kind = Parse(@)] OBVIOUS
  <2>1. PICK final \in BOOLEAN : final <=> IsFinal(l) OBVIOUS
  <2>2. PICK taken \in Nat :
          /\ taken = IF final THEN ready[t] ELSE 1
          /\ ready[t] - taken \in Nat
    BY <1>3 DEF ReadRecord, TypeOK, StreamTyped
  <2>3. /\ task' = IF final THEN [task EXCEPT ![t] = "done"] ELSE task
        /\ pipe' = [pipe EXCEPT ![c] = SubSeq(pipe[c], taken + 1, Len(pipe[c]))]
        /\ ready' = [ready EXCEPT ![t] = ready[t] - taken]
        /\ held' = [held EXCEPT ![t] = held[t] /\ ~final]
    BY <1>3, <2>0, <2>1, <2>2 DEF ReadRecord
  <2>4. pipe' \in [Children -> Seq(Records)] BY <2>2, <2>3, RestTyped
  <2>5. /\ task' \in [Turns -> {"none", "reading", "done", "error"}]
        /\ ready' \in [Turns -> Nat] /\ held' \in [Turns -> BOOLEAN]
    BY <2>2, <2>3 DEF TypeOK, StreamTyped
  <2>6. StreamTyped' BY <1>3, <2>4, <2>5 DEF ReadRecord, TypeOK, StreamTyped, Records
  <2> QED BY <1>3, <2>6
      DEF ReadRecord, TypeOK, SessionTyped, RelayTyped, FilesTyped, sessionVars, piVars,
          relayVars, fileVars
<1>2. CASE StreamEnds(t)
  BY <1>2 DEF StreamEnds, TypeOK, SessionTyped, StreamTyped, RelayTyped, FilesTyped,
              sessionVars, piVars, relayVars, fileVars
<1> QED BY <1>1, <1>2, <1>3

LEMMA DeathTyped ==
    ASSUME TypeOK, NEW c \in Children, Dies(c)
    PROVE  /\ dead' \subseteq Children /\ prompts' \in [Children -> Seq(Turns)]
           /\ run' \in [Children -> 0 .. MaxTurns] /\ busy' \in [Children -> BOOLEAN]
  BY Numbers DEF Dies, TypeOK, SessionTyped

LEMMA EndTyped ==
    ASSUME TypeOK, \/ \E c \in Children : ChildDies(c)
                   \/ \E t \in Turns : ActivityTimeout(t)
                   \/ \E clear \in BOOLEAN : Close(clear)
    PROVE  TypeOK'
<1>1. ASSUME NEW c \in 1 .. born, ChildDies(c) PROVE TypeOK'
  <2>1. c \in Children BY Numbers DEF TypeOK, SessionTyped, Children
  <2>2. /\ dead' \subseteq Children /\ prompts' \in [Children -> Seq(Turns)]
        /\ run' \in [Children -> 0 .. MaxTurns] /\ busy' \in [Children -> BOOLEAN]
    BY <1>1, <2>1, DeathTyped DEF ChildDies
  <2>3. session' \in 0 .. MaxChildren BY <1>1, Numbers DEF ChildDies, TypeOK, SessionTyped
  <2> QED BY <1>1, <2>2, <2>3
      DEF ChildDies, TypeOK, SessionTyped, StreamTyped, RelayTyped, FilesTyped, readVars,
          relayVars, fileVars
<1>2. ASSUME NEW clear \in BOOLEAN, Close(clear) PROVE TypeOK'
  <2>1. session \in Children BY <1>2 DEF Close, TypeOK, SessionTyped, Children
  <2>2. /\ dead' \subseteq Children /\ prompts' \in [Children -> Seq(Turns)]
        /\ run' \in [Children -> 0 .. MaxTurns] /\ busy' \in [Children -> BOOLEAN]
    BY <1>2, <2>1, DeathTyped DEF Close
  <2>3. session' \in 0 .. MaxChildren BY <1>2, Numbers DEF Close
  <2>4. FilesTyped' BY <1>2, WipeTyped DEF Close, TypeOK
  <2>5. cleared' \subseteq Turns BY <1>2 DEF Close, TypeOK, RelayTyped
  <2> QED BY <1>2, <2>2, <2>3, <2>4, <2>5
      DEF Close, TypeOK, SessionTyped, StreamTyped, RelayTyped, readVars, relayVars
<1>3. ASSUME NEW c, ChildDies(c) PROVE c \in 1 .. born BY <1>3 DEF ChildDies
<1> QED BY <1>1, <1>2, <1>3 DEF ActivityTimeout

LEMMA RelayStepTyped ==
    ASSUME TypeOK, NEW t \in Turns,
           \/ RelayLine(t) \/ RelayResult(t) \/ RelayThrows(t) \/ DraftTimerFires(t)
    PROVE  TypeOK'
<1>1. UNCHANGED <<sessionVars, piVars, readVars, fileVars, cleared, chunks>>
  BY DEF RelayLine, RelayResult, RelayThrows, DraftTimerFires, RelayUnchanged
<1>2. SessionTyped' /\ StreamTyped' /\ FilesTyped'
  BY <1>1 DEF TypeOK, SessionTyped, StreamTyped, FilesTyped, sessionVars, piVars, readVars, fileVars
<1>3. signaled' \in [Turns -> BOOLEAN]
  BY DEF RelayLine, RelayResult, RelayThrows, DraftTimerFires, TypeOK, RelayTyped
<1>4. draftTimer' \in [Turns -> BOOLEAN]
  <2>1. CASE RelayLine(t)
    <3>1. CASE ScheduleDraft(t) BY <3>1 DEF ScheduleDraft, TypeOK, RelayTyped
    <3> QED BY <2>1, <3>1 DEF RelayLine, TypeOK, RelayTyped
  <2> QED BY <2>1 DEF RelayResult, RelayThrows, DraftTimerFires, TypeOK, RelayTyped
<1>5. relay' \in [Turns -> States]
  BY DEF RelayLine, RelayResult, RelayThrows, DraftTimerFires, TypeOK, RelayTyped, States
<1> QED BY <1>1, <1>2, <1>3, <1>4, <1>5 DEF TypeOK, RelayTyped, States

LEMMA DeliveryTyped ==
    ASSUME TypeOK, NEW t \in Turns,
           \/ Settle(t) \/ SendChunk(t) \/ ReadOutbox(t) \/ SendFile(t) \/ FileSent(t)
           \/ RelayEnds(t)
    PROVE  TypeOK'
<1>1. UNCHANGED <<sessionVars, piVars, readVars, signaled, draftTimer, cleared>>
  BY DEF Settle, SendChunk, ReadOutbox, SendFile, FileSent, RelayEnds, DeliveryUnchanged
<1>2. SessionTyped' /\ StreamTyped'
  BY <1>1 DEF TypeOK, SessionTyped, StreamTyped, sessionVars, piVars, readVars
<1>3. relay' \in [Turns -> States]
  BY DEF Settle, SendChunk, ReadOutbox, SendFile, FileSent, RelayEnds, TypeOK, RelayTyped, States
<1>4. chunks' \in [Turns -> 0 .. 2]
  <2>1. CASE Settle(t)
    <3>1. CASE UNCHANGED chunks BY <3>1 DEF TypeOK, RelayTyped
    <3>2. CASE \E n \in 0 .. 2 : chunks' = [chunks EXCEPT ![t] = n]
      BY <3>2 DEF TypeOK, RelayTyped
    <3>3. {0} \subseteq 0 .. 2 /\ 1 .. 2 \subseteq 0 .. 2 OBVIOUS
    <3> QED BY <2>1, <3>1, <3>2, <3>3 DEF Settle
  <2>2. CASE SendChunk(t)
    <3>1. chunks[t] \in 0 .. 2 /\ chunks[t] > 0 BY <2>2 DEF SendChunk, TypeOK, RelayTyped
    <3>2. chunks[t] - 1 \in 0 .. 2 /\ 0 \in 0 .. 2 BY <3>1
    <3>3. \/ chunks' = [chunks EXCEPT ![t] = chunks[t] - 1]
          \/ chunks' = [chunks EXCEPT ![t] = 0]
      BY <2>2 DEF SendChunk
    <3> QED BY <3>2, <3>3 DEF TypeOK, RelayTyped
  <2> QED BY <2>1, <2>2 DEF ReadOutbox, SendFile, FileSent, RelayEnds, TypeOK, RelayTyped
<1>5. RelayTyped' BY <1>1, <1>3, <1>4 DEF TypeOK, RelayTyped, States
<1>6. FilesTyped'
  <2>1. CASE Settle(t) \/ SendChunk(t) \/ RelayEnds(t)
    BY <2>1 DEF Settle, SendChunk, RelayEnds, TypeOK, FilesTyped, fileVars
  <2>2. CASE ReadOutbox(t) BY <2>2 DEF ReadOutbox, TypeOK, FilesTyped
  <2>3. CASE SendFile(t)
    <3>1. PICK f \in entries[t] : /\ entries' = [entries EXCEPT ![t] = entries[t] \ {f}]
                                  /\ file' = [file EXCEPT ![t] = IF f \in outbox THEN f ELSE 0]
      BY <2>3 DEF SendFile
    <3>2. f \in 0 .. MaxFiles /\ 0 \in 0 .. MaxFiles
      BY <3>1, Numbers DEF TypeOK, FilesTyped
    <3>3. entries[t] \ {f} \in SUBSET Files BY DEF TypeOK, FilesTyped
    <3>4. entries' \in [Turns -> SUBSET Files] BY <3>1, <3>3 DEF TypeOK, FilesTyped
    <3>5. file' \in [Turns -> 0 .. MaxFiles] BY <3>1, <3>2 DEF TypeOK, FilesTyped
    <3> QED BY <2>3, <3>4, <3>5 DEF SendFile, TypeOK, FilesTyped
  <2>4. CASE FileSent(t)
    <3>1. file[t] \in Files /\ received[file[t]] + 1 \in Nat
      BY <2>4 DEF FileSent, TypeOK, FilesTyped, Files
    <3>2. \/ received' = [received EXCEPT ![file[t]] = received[file[t]] + 1]
          \/ received' = received
      BY <2>4 DEF FileSent
    <3>3. received' \in [Files -> Nat] BY <3>1, <3>2 DEF TypeOK, FilesTyped
    <3>4. file' \in [Turns -> 0 .. MaxFiles] BY <2>4, Numbers DEF FileSent, TypeOK, FilesTyped
    <3>5. outbox' \subseteq Files /\ undeleted' \subseteq Files
      BY <2>4, <3>1 DEF FileSent, TypeOK, FilesTyped
    <3> QED BY <2>4, <3>3, <3>4, <3>5 DEF FileSent, TypeOK, FilesTyped
  <2> QED BY <2>1, <2>2, <2>3, <2>4
<1> QED BY <1>2, <1>5, <1>6 DEF TypeOK

LEMMA TypeStep == TypeOK /\ [Next]_vars => TypeOK'
<1> SUFFICES ASSUME TypeOK, [Next]_vars PROVE TypeOK' OBVIOUS
<1>1. CASE Next
  BY <1>1, BeginTyped, PiTyped, ReadTyped, EndTyped, RelayStepTyped, DeliveryTyped DEF Next
<1>2. CASE UNCHANGED vars
  BY <1>2 DEF vars, sessionVars, piVars, readVars, relayVars, fileVars, TypeOK, SessionTyped,
              StreamTyped, RelayTyped, FilesTyped
<1> QED BY <1>1, <1>2

\* Every reachable state of the turns is well typed, but for what the lines and the
\* text say.
THEOREM TypeCorrect == Spec => []TypeOK
  BY TypeInit, TypeStep, PTL DEF Spec

-----------------------------------------------------------------------------
(* The draft timer and the files.                                          *)

\* A turn has begun only when those before it are over, or were detached.
InTurn ==
    \A t, u \in Turns : t < u /\ relay[u] # "none" => Settled(t) \/ t \in cleared

\* Only placed files are in the outbox, awaited or received.
PlacedBefore ==
    /\ outbox \subseteq 1 .. placed
    /\ \A t \in Turns : file[t] <= placed
    /\ \A f \in Files : received[f] > 0 => f <= placed

Excused(f) == f \in undeleted \/ cleared # {}

\* What was received is no longer in the outbox,
SentIsGone == \A f \in outbox : received[f] > 0 => Excused(f)

\* and a file whose sending is awaited was not received before.
AwaitedOnce ==
    \A t \in Turns : file[t] # 0 =>
        /\ relay[t] = "outbox"
        /\ received[file[t]] > 0 => Excused(file[t])

Delivery ==
    /\ InTurn /\ PlacedBefore /\ SentIsGone /\ AwaitedOnce
    /\ FilesAreKept /\ FilesArriveOnce /\ DraftTimerDiesWithTheStream

LEMMA DeliveryInit == Init => Delivery
  BY DEF Init, Delivery, InTurn, PlacedBefore, SentIsGone, AwaitedOnce, FilesAreKept,
         FilesArriveOnce, DraftTimerDiesWithTheStream

\* A turn that begins, if it begins at all, does so in its turn.
LEMMA InTurnBegins ==
    ASSUME TypeOK, InTurn, NEW t \in Turns, Begins(t),
           relay' \in {[relay EXCEPT ![t] = "reading"], [relay EXCEPT ![t] = "failed"]},
           cleared' = cleared
    PROVE  InTurn'
<1>1. \A u \in Turns : u # t => relay'[u] = relay[u] BY DEF TypeOK, RelayTyped
<1>2. \A u \in Turns : u < t => Settled(u) \/ u \in cleared BY DEF Begins
<1>3. ~Settled(t) BY DEF Begins, Settled
<1>4. ASSUME NEW u \in Turns, NEW v \in Turns, u < v, relay'[v] # "none"
      PROVE  relay'[u] \in {"done", "failed"} \/ u \in cleared'
  <2>1. CASE v = t BY <1>1, <1>2, <1>4, <2>1 DEF Settled, Turns
  <2>2. CASE v # t /\ u # t BY <1>1, <1>4, <2>2 DEF InTurn, Settled
  <2>3. CASE v # t /\ u = t BY <1>1, <1>3, <1>4, <2>3 DEF InTurn
  <2> QED BY <2>1, <2>2, <2>3
<1> QED BY <1>4 DEF InTurn, Settled

\* A turn that is under way goes on.
LEMMA InTurnGoesOn ==
    ASSUME TypeOK, InTurn, NEW t \in Turns, relay[t] \notin {"none", "done", "failed"},
           \A u \in Turns \ {t} : relay'[u] = relay[u], cleared' = cleared
    PROVE  InTurn'
<1>1. ~Settled(t) /\ relay[t] # "none" BY DEF Settled
<1> QED BY <1>1 DEF InTurn, Settled

\* The files are left alone.
LEMMA FilesRest ==
    ASSUME TypeOK, Delivery, UNCHANGED <<outbox, file, placed, received, wiped, undeleted>>,
           cleared \subseteq cleared',
           \A t \in Turns : file[t] # 0 => relay'[t] = relay[t]
    PROVE  PlacedBefore' /\ SentIsGone' /\ AwaitedOnce' /\ FilesAreKept' /\ FilesArriveOnce'
  BY DEF Delivery, PlacedBefore, SentIsGone, AwaitedOnce, FilesAreKept, FilesArriveOnce, Excused

\* The outbox is wiped.
LEMMA FilesWiped ==
    ASSUME TypeOK, Delivery, WipeOutbox, UNCHANGED <<file, placed, received, undeleted>>,
           cleared \subseteq cleared',
           \A t \in Turns : file[t] # 0 => relay'[t] = relay[t]
    PROVE  PlacedBefore' /\ SentIsGone' /\ AwaitedOnce' /\ FilesAreKept' /\ FilesArriveOnce'
  BY DEF WipeOutbox, Delivery, PlacedBefore, SentIsGone, AwaitedOnce, FilesAreKept,
         FilesArriveOnce, Excused

LEMMA BeginDelivery ==
    ASSUME TypeOK, Delivery, NEW t \in Turns,
           ReuseSession(t) \/ SpawnSession(t) \/ TurnFailsToStart(t)
    PROVE  Delivery'
<1>1. /\ Begins(t) /\ UNCHANGED <<file, placed, received, undeleted, cleared, draftTimer>>
      /\ relay' \in {[relay EXCEPT ![t] = "reading"], [relay EXCEPT ![t] = "failed"]}
  BY DEF ReuseSession, SpawnSession, TurnFailsToStart, SendPrompt, fileVars
<1>2. \A u \in Turns \ {t} : relay'[u] = relay[u] BY <1>1 DEF TypeOK, RelayTyped
<1>3. relay[t] = "none" BY <1>1 DEF Begins
<1>4. file[t] = 0 /\ ~draftTimer[t]
  BY <1>3 DEF Delivery, AwaitedOnce, DraftTimerDiesWithTheStream
<1>5. \A u \in Turns : file[u] # 0 => relay'[u] = relay[u] BY <1>2, <1>4
<1>6. WipeOutbox \/ UNCHANGED <<outbox, wiped>>
  BY DEF ReuseSession, SpawnSession, TurnFailsToStart, fileVars
<1>7. PlacedBefore' /\ SentIsGone' /\ AwaitedOnce' /\ FilesAreKept' /\ FilesArriveOnce'
  BY <1>1, <1>5, <1>6, FilesRest, FilesWiped
<1>8. InTurn' BY <1>1, InTurnBegins DEF Delivery
<1>9. DraftTimerDiesWithTheStream'
  BY <1>1, <1>2, <1>4 DEF Delivery, DraftTimerDiesWithTheStream
<1> QED BY <1>7, <1>8, <1>9 DEF Delivery

LEMMA PiDelivery ==
    ASSUME TypeOK, Delivery, NEW c \in Children,
           PiBegins(c) \/ PiSays(c) \/ PiWorks(c) \/ PiPlacesFile(c) \/ PiEnds(c)
    PROVE  Delivery'
<1>1. UNCHANGED <<relay, draftTimer, cleared>>
  BY DEF PiBegins, PiSays, PiWorks, PiPlacesFile, PiEnds, PiUnchanged, relayVars
<1>2. InTurn' /\ DraftTimerDiesWithTheStream'
  BY <1>1 DEF Delivery, InTurn, DraftTimerDiesWithTheStream, Settled
<1>3. CASE UNCHANGED <<outbox, file, placed, received, wiped, undeleted>>
  BY <1>1, <1>2, <1>3, FilesRest DEF Delivery
<1>4. CASE PiPlacesFile(c)
  <2>1. /\ placed' = placed + 1 /\ outbox' = outbox \cup {placed + 1} /\ placed < MaxFiles
        /\ UNCHANGED <<file, received, wiped, undeleted>>
    BY <1>4 DEF PiPlacesFile
  <2>2. placed \in Nat /\ placed + 1 \in Files /\ MaxFiles \in Nat
    BY <2>1, Numbers DEF TypeOK, FilesTyped, Files
  <2>3. \A f \in Files : received[f] \in Nat /\ f \in Nat
    BY DEF TypeOK, FilesTyped, Files
  <2>4. \A t \in Turns : file[t] \in Nat BY DEF TypeOK, FilesTyped
  <2>5. received[placed + 1] = 0 BY <2>2, <2>3 DEF Delivery, PlacedBefore
  <2>6. PlacedBefore' BY <2>1, <2>2, <2>3, <2>4 DEF Delivery, PlacedBefore
  <2>7. SentIsGone' BY <1>1, <2>1, <2>5 DEF Delivery, SentIsGone, Excused
  <2>8. AwaitedOnce' BY <1>1, <2>1 DEF Delivery, AwaitedOnce, Excused
  <2>9. FilesAreKept' BY <2>1, <2>2 DEF Delivery, FilesAreKept
  <2>10. FilesArriveOnce' BY <1>1, <2>1 DEF Delivery, FilesArriveOnce
  <2> QED BY <1>2, <2>6, <2>7, <2>8, <2>9, <2>10 DEF Delivery
<1> QED BY <1>3, <1>4 DEF PiBegins, PiSays, PiWorks, PiEnds, fileVars

LEMMA EndDelivery ==
    ASSUME TypeOK, Delivery, \/ \E c \in Children : ChildDies(c)
                             \/ \E t \in Turns : \/ ActivityTimeout(t) \/ ReadChunk(t)
                                                 \/ ReadRecord(t) \/ StreamEnds(t)
                             \/ \E clear \in BOOLEAN : Close(clear)
    PROVE  Delivery'
<1>1. UNCHANGED <<relay, draftTimer, file, placed, received, undeleted>>
  BY DEF ChildDies, ActivityTimeout, ReadChunk, ReadRecord, StreamEnds, Close, relayVars, fileVars
<1>2. cleared \subseteq cleared'
  BY DEF ChildDies, ActivityTimeout, ReadChunk, ReadRecord, StreamEnds, Close
<1>3. WipeOutbox \/ UNCHANGED <<outbox, wiped>>
  BY DEF ChildDies, ActivityTimeout, ReadChunk, ReadRecord, StreamEnds, Close, fileVars
<1>4. PlacedBefore' /\ SentIsGone' /\ AwaitedOnce' /\ FilesAreKept' /\ FilesArriveOnce'
  BY <1>1, <1>2, <1>3, FilesRest, FilesWiped
<1>5. InTurn' /\ DraftTimerDiesWithTheStream'
  BY <1>1, <1>2 DEF Delivery, InTurn, DraftTimerDiesWithTheStream, Settled
<1> QED BY <1>4, <1>5 DEF Delivery

LEMMA RelayDelivery ==
    ASSUME TypeOK, Delivery, NEW t \in Turns,
           \/ RelayLine(t) \/ RelayResult(t) \/ RelayThrows(t) \/ DraftTimerFires(t)
    PROVE  Delivery'
<1>1. UNCHANGED <<outbox, file, placed, received, wiped, undeleted, cleared>>
  BY DEF RelayLine, RelayResult, RelayThrows, DraftTimerFires, RelayUnchanged, fileVars
<1>2. relay[t] = "reading"
  BY DEF RelayLine, RelayResult, RelayThrows, DraftTimerFires, Delivery,
         DraftTimerDiesWithTheStream
<1>3. \A u \in Turns \ {t} : relay'[u] = relay[u] /\ draftTimer'[u] = draftTimer[u]
  BY DEF RelayLine, RelayResult, RelayThrows, DraftTimerFires, ScheduleDraft, TypeOK, RelayTyped
<1>4. draftTimer'[t] => relay'[t] = "reading"
  BY <1>2 DEF RelayLine, RelayResult, RelayThrows, DraftTimerFires, TypeOK, RelayTyped
<1>5. file[t] = 0 BY <1>2 DEF Delivery, AwaitedOnce
<1>6. PlacedBefore' /\ SentIsGone' /\ AwaitedOnce' /\ FilesAreKept' /\ FilesArriveOnce'
  BY <1>1, <1>3, <1>5, FilesRest
<1>7. InTurn' BY <1>1, <1>2, <1>3, InTurnGoesOn DEF Delivery
<1>8. DraftTimerDiesWithTheStream' BY <1>3, <1>4 DEF Delivery, DraftTimerDiesWithTheStream
<1> QED BY <1>6, <1>7, <1>8 DEF Delivery

LEMMA SendDelivery ==
    ASSUME TypeOK, Delivery, NEW t \in Turns,
           \/ Settle(t) \/ SendChunk(t) \/ ReadOutbox(t) \/ SendFile(t) \/ FileSent(t)
           \/ RelayEnds(t)
    PROVE  Delivery'
<1>1. UNCHANGED <<draftTimer, cleared>>
  BY DEF Settle, SendChunk, ReadOutbox, SendFile, FileSent, RelayEnds, DeliveryUnchanged
<1>2. relay[t] \in {"settling", "sending", "continuing", "outbox"}
  BY DEF Settle, SendChunk, ReadOutbox, SendFile, FileSent, RelayEnds, Delivery, AwaitedOnce
<1>3. \A u \in Turns \ {t} : relay'[u] = relay[u]
  BY DEF Settle, SendChunk, ReadOutbox, SendFile, FileSent, RelayEnds, TypeOK, RelayTyped
<1>4. InTurn' BY <1>1, <1>2, <1>3, InTurnGoesOn DEF Delivery
<1>5. DraftTimerDiesWithTheStream'
  BY <1>1, <1>2, <1>3 DEF Delivery, DraftTimerDiesWithTheStream
<1>6. CASE Settle(t) \/ SendChunk(t) \/ ReadOutbox(t) \/ RelayEnds(t)
  <2>1. file[t] = 0
    BY <1>6 DEF Settle, SendChunk, ReadOutbox, RelayEnds, Delivery, AwaitedOnce
  <2>2. UNCHANGED <<outbox, file, placed, received, wiped, undeleted>>
    BY <1>6 DEF Settle, SendChunk, ReadOutbox, RelayEnds, fileVars
  <2>3. PlacedBefore' /\ SentIsGone' /\ AwaitedOnce' /\ FilesAreKept' /\ FilesArriveOnce'
    BY <1>1, <1>3, <2>1, <2>2, FilesRest
  <2> QED BY <1>4, <1>5, <2>3 DEF Delivery
<1>7. CASE SendFile(t)
  <2>1. PICK f \in entries[t] : file' = [file EXCEPT ![t] = IF f \in outbox THEN f ELSE 0]
    BY <1>7 DEF SendFile
  <2>2. /\ UNCHANGED <<relay, outbox, placed, received, wiped, undeleted>>
        /\ relay[t] = "outbox"
    BY <1>7 DEF SendFile
  <2>3. \A u \in Turns : file'[u] = IF u # t THEN file[u] ELSE IF f \in outbox THEN f ELSE 0
    BY <2>1 DEF TypeOK, FilesTyped
  <2>4. PlacedBefore'
    <3>1. placed \in Nat /\ \A g \in outbox : g <= placed
      BY DEF TypeOK, FilesTyped, Delivery, PlacedBefore
    <3>2. \A u \in Turns : file'[u] <= placed
      BY <2>3, <3>1 DEF Delivery, PlacedBefore
    <3> QED BY <2>2, <3>2 DEF Delivery, PlacedBefore
  <2>5. AwaitedOnce' BY <1>1, <2>2, <2>3 DEF Delivery, AwaitedOnce, SentIsGone, Excused
  <2>6. SentIsGone' /\ FilesAreKept' /\ FilesArriveOnce'
    BY <1>1, <2>2 DEF Delivery, SentIsGone, FilesAreKept, FilesArriveOnce, Excused
  <2> QED BY <1>4, <1>5, <2>4, <2>5, <2>6 DEF Delivery
<1>8. CASE FileSent(t)
  <2> DEFINE f == file[t]
  <2>1. /\ f # 0 /\ file' = [file EXCEPT ![t] = 0] /\ UNCHANGED <<relay, placed, wiped>>
        /\ \/ /\ received' = [received EXCEPT ![f] = received[f] + 1]
              /\ \/ outbox' = outbox \ {f} /\ undeleted' = undeleted
                 \/ undeleted' = undeleted \cup {f} /\ outbox' = outbox
           \/ UNCHANGED <<received, outbox, undeleted>>
    BY <1>8 DEF FileSent
  <2>2. f \in Files /\ received[f] \in Nat /\ f <= placed /\ f \in Nat
    BY <2>1 DEF TypeOK, FilesTyped, Files, Delivery, PlacedBefore
  <2>3. relay[t] = "outbox" /\ (received[f] > 0 => Excused(f))
    BY <2>1 DEF Delivery, AwaitedOnce
  <2>4. \A u \in Turns : file'[u] = IF u = t THEN 0 ELSE file[u]
    BY <2>1 DEF TypeOK, FilesTyped
  <2>5. ASSUME NEW u \in Turns \ {t}, file[u] = f PROVE cleared # {}
    <3>1. relay[u] = "outbox" BY <2>1, <2>5 DEF Delivery, AwaitedOnce
    <3>2. t < u \/ u < t BY <2>5 DEF Turns
    <3> QED BY <2>3, <2>5, <3>1, <3>2 DEF Delivery, InTurn, Settled
  <2>6. CASE UNCHANGED <<received, outbox, undeleted>>
    <3>1. PlacedBefore'
      BY <2>1, <2>4, <2>6 DEF Delivery, PlacedBefore, TypeOK, FilesTyped
    <3>2. SentIsGone' /\ AwaitedOnce' /\ FilesAreKept' /\ FilesArriveOnce'
      BY <1>1, <2>1, <2>4, <2>6
      DEF Delivery, SentIsGone, AwaitedOnce, FilesAreKept, FilesArriveOnce, Excused
    <3> QED BY <1>4, <1>5, <3>1, <3>2 DEF Delivery
  <2>7. CASE /\ received' = [received EXCEPT ![f] = received[f] + 1]
             /\ \/ outbox' = outbox \ {f} /\ undeleted' = undeleted
                \/ undeleted' = undeleted \cup {f} /\ outbox' = outbox
    <3>1. \A g \in Files : received'[g] = IF g = f THEN received[f] + 1 ELSE received[g]
      BY <2>7 DEF TypeOK, FilesTyped
    <3>2. outbox' \subseteq outbox /\ undeleted \subseteq undeleted'
          /\ (f \in outbox' => f \in undeleted')
      BY <2>7
    <3>3. outbox \subseteq Files BY DEF TypeOK, FilesTyped
    <3>4. 1 .. placed \subseteq Files BY Numbers DEF TypeOK, FilesTyped, Files
    <3> HIDE DEF f
    <3>5. PlacedBefore'
      <4>1. outbox' \subseteq 1 .. placed' BY <2>1, <3>2 DEF Delivery, PlacedBefore
      <4>2. \A u \in Turns : file'[u] <= placed'
        BY <2>1, <2>4 DEF Delivery, PlacedBefore, TypeOK, FilesTyped
      <4>3. \A g \in Files : received'[g] > 0 => g <= placed'
        BY <2>1, <2>2, <3>1 DEF Delivery, PlacedBefore
      <4> QED BY <4>1, <4>2, <4>3 DEF PlacedBefore
    <3>6. SentIsGone'
      BY <1>1, <3>1, <3>2, <3>3 DEF Delivery, SentIsGone, Excused
    <3>7. AwaitedOnce'
      <4>1. ASSUME NEW u \in Turns, file'[u] # 0
            PROVE  /\ relay'[u] = "outbox"
                   /\ received'[file'[u]] > 0 => file'[u] \in undeleted' \/ cleared' # {}
        <5>1. u # t /\ file'[u] = file[u] /\ file[u] \in Files
          BY <2>4, <4>1 DEF TypeOK, FilesTyped, Files
        <5>2. relay[u] = "outbox" /\ (received[file[u]] > 0 => Excused(file[u]))
          BY <4>1, <5>1 DEF Delivery, AwaitedOnce
        <5>3. CASE file[u] = f BY <1>1, <2>1, <2>5, <5>1, <5>2, <5>3
        <5>4. CASE file[u] # f
          BY <1>1, <2>1, <3>1, <3>2, <5>1, <5>2, <5>4 DEF Excused
        <5> QED BY <5>3, <5>4
      <4> QED BY <4>1 DEF AwaitedOnce, Excused
    <3>8. FilesAreKept'
      <4>1. ASSUME NEW g \in 1 .. placed
            PROVE  g \in outbox' \/ received'[g] > 0 \/ g \in wiped
        <5>1. g \in Files BY <3>4
        <5>2. CASE g = f BY <2>2, <3>1, <5>1, <5>2
        <5>3. CASE g # f BY <2>7, <3>1, <5>1, <5>3 DEF Delivery, FilesAreKept
        <5> QED BY <5>2, <5>3
      <4> QED BY <2>1, <4>1 DEF FilesAreKept
    <3>9. FilesArriveOnce'
      <4>1. ASSUME NEW g \in Files, received'[g] > 1
            PROVE  g \in undeleted' \/ cleared' # {}
        <5>1. CASE g = f
          BY <1>1, <2>2, <2>3, <3>1, <3>2, <4>1, <5>1 DEF Excused
        <5>2. CASE g # f BY <1>1, <3>1, <3>2, <4>1, <5>2 DEF Delivery, FilesArriveOnce
        <5> QED BY <5>1, <5>2
      <4> QED BY <4>1 DEF FilesArriveOnce
    <3> QED BY <1>4, <1>5, <3>5, <3>6, <3>7, <3>8, <3>9 DEF Delivery
  <2> QED BY <2>1, <2>6, <2>7
<1> QED BY <1>6, <1>7, <1>8

LEMMA DeliveryStep == TypeOK /\ Delivery /\ [Next]_vars => Delivery'
<1> SUFFICES ASSUME TypeOK, Delivery, [Next]_vars PROVE Delivery' OBVIOUS
<1>1. CASE Next
  BY <1>1, BeginDelivery, PiDelivery, EndDelivery, RelayDelivery, SendDelivery DEF Next
<1>2. CASE UNCHANGED vars
  BY <1>2 DEF vars, relayVars, fileVars, Delivery, InTurn, PlacedBefore, SentIsGone,
              AwaitedOnce, FilesAreKept, FilesArriveOnce, DraftTimerDiesWithTheStream,
              Settled, Excused
<1> QED BY <1>1, <1>2

\* The inductive invariant of the delivery, on which the next three rest.
THEOREM DeliveryAlways == Spec => []Delivery
  BY TypeCorrect, DeliveryInit, DeliveryStep, PTL DEF Spec

\* However many turns, subprocesses and files there are: no draft is scheduled once
\* the answer is complete.
THEOREM NoLateDraft == Spec => []DraftTimerDiesWithTheStream
<1>1. Delivery => DraftTimerDiesWithTheStream BY DEF Delivery
<1> QED BY <1>1, DeliveryAlways, PTL

\* A file of the outbox is kept until the chat has received it.
THEOREM FilesSurvive == Spec => []FilesAreKept
<1>1. Delivery => FilesAreKept BY DEF Delivery
<1> QED BY <1>1, DeliveryAlways, PTL

\* A file is received once, but for a failing unlink or turns that overlap.
THEOREM FilesComeOnce == Spec => []FilesArriveOnce
<1>1. Delivery => FilesArriveOnce BY DEF Delivery
<1> QED BY <1>1, DeliveryAlways, PTL

-----------------------------------------------------------------------------
(* The answer.  Every record of a run tells how many deltas have come with *)
(* it: the count goes on from the text of the relay through the lines that *)
(* it has not taken and the records that are unread, up to what Pi has     *)
(* said.                                                                   *)

LineKinds == {"text", "block", "init", "result", "error"}
Lines == [kind : LineKinds, turn : 0 .. MaxTurns, part : 0 .. MaxParts]
Pieces == [kind : Kinds \cup LineKinds, turn : 0 .. MaxTurns, part : 0 .. MaxParts]
Finals == {"result", "error"}

Deltas(r) == IF r.kind \in {"text", "text_delta"} THEN 1 ELSE 0

Chain(s, b) ==
    \A i \in 1 .. Len(s) : s[i].part = (IF i = 1 THEN b ELSE s[i - 1].part) + Deltas(s[i])

End(s, b) == IF s = <<>> THEN b ELSE s[Len(s)].part

\* The records or lines of a sequence are the turn's, or the late answer to get_state.
Of(s, t) ==
    \A i \in 1 .. Len(s) :
        s[i].turn = t \/ (s[i].turn = 0 /\ s[i].kind \in {"get_state", "init"})

Without(s, K) == \A i \in 1 .. Len(s) : s[i].kind \notin K
LastOnly(s, K) == \A i \in 1 .. Len(s) : s[i].kind \in K => i = Len(s)

StreamsTyped ==
    /\ lines \in [Turns -> Seq(Lines)]
    /\ text \in [Turns -> Seq(Turns \X (0 .. MaxParts))]

\* Only the subprocess of the session lives, and only it has something to do.
Living ==
    /\ dead \subseteq 1 .. born
    /\ \A c \in Children : c \in 1 .. born \ dead <=> c = session
    /\ \A c \in Children : c > born => pipe[c] = <<>> /\ ~cut[c]
    /\ \A c \in Children : c # session => prompts[c] = <<>> /\ run[c] = 0

\* Of the turns, at most one is read from a subprocess.
Apart ==
    /\ \A t, u \in Turns :
        task[t] = "reading" /\ task[u] = "reading" /\ on[t] = on[u] => t = u
    /\ \A t \in Turns :
        /\ t \in cleared => on[t] # session /\ task[t] # "none"
        /\ task[t] = "error" => on[t] # session

Quiet(c) == prompts[c] = <<>> /\ run[c] = 0 /\ pipe[c] = <<>> /\ ~cut[c]

SessionServes ==
    session # 0 => Quiet(session) \/ \E t \in Turns : task[t] = "reading" /\ on[t] = session

Begun ==
    \A t \in Turns :
        /\ task[t] = "none" => /\ relay[t] \in {"none", "failed"} /\ on[t] = 0 /\ said[t] = 0
                               /\ lines[t] = <<>> /\ text[t] = <<>> /\ ~held[t]
        /\ task[t] # "none" => on[t] \in 1 .. born /\ relay[t] # "none"
        /\ task[t] = "reading" => relay[t] = "reading"
        /\ task[t] # "reading" => ready[t] = 0
        /\ relay[t] \notin {"none", "reading", "failed"} => task[t] = "done"

\* How far Pi is with the prompt of the turn that is read.
Answering(t, c) ==
    \/ prompts[c] = <<t>> /\ run[c] = 0 /\ said[t] = 0 /\ Without(pipe[c], Kinds \ {"get_state"})
    \/ prompts[c] = <<>> /\ run[c] = t /\ Without(pipe[c], Terminal)
    \/ prompts[c] = <<>> /\ run[c] = 0

Unread(t) == End(lines[t], Len(text[t]))

Reads(t, c) ==
    /\ Chain(pipe[c], Unread(t)) /\ End(pipe[c], Unread(t)) = said[t]
    /\ Of(pipe[c], t) /\ LastOnly(pipe[c], Terminal)
    /\ ready[t] <= Len(pipe[c]) /\ (cut[c] => ready[t] < Len(pipe[c]))
    /\ cut[c] /\ ~held[t] => ready[t] = 0 /\ pipe[c][1].kind = "get_state"
    /\ Answering(t, c)

Relays(t) ==
    /\ \A i \in 1 .. Len(text[t]) : text[t][i] = <<t, i>>
    /\ Chain(lines[t], Len(text[t])) /\ Of(lines[t], t) /\ LastOnly(lines[t], Finals)
    /\ task[t] # "done" => Without(lines[t], Finals)
    /\ task[t] = "done" => lines[t] # <<>> /\ lines[t][Len(lines[t])].kind \in Finals
    /\ task[t] # "reading" => Unread(t) = said[t]

StreamInv ==
    /\ StreamsTyped /\ Living /\ Apart /\ SessionServes /\ Begun
    /\ \A t \in Turns : task[t] = "reading" => Reads(t, on[t])
    /\ \A t \in Turns : relay[t] = "reading" => Relays(t)
    /\ AnswerIsWhole

LEMMA ChainAppend ==
    ASSUME NEW s \in Seq(Pieces), NEW r \in Pieces, NEW b \in Nat,
           Chain(s, b), r.part = End(s, b) + Deltas(r)
    PROVE  /\ Append(s, r) \in Seq(Pieces) /\ Append(s, r) # <<>>
           /\ Chain(Append(s, r), b) /\ End(Append(s, r), b) = r.part
<1> DEFINE u == Append(s, r)
<1>1. /\ u \in Seq(Pieces) /\ Len(u) = Len(s) + 1 /\ u[Len(u)] = r /\ u # <<>>
      /\ \A i \in 1 .. Len(s) : u[i] = s[i]
  OBVIOUS
<1> HIDE DEF u
<1>2. End(u, b) = r.part BY <1>1 DEF End
<1>3. ASSUME NEW i \in 1 .. Len(u)
      PROVE  u[i].part = (IF i = 1 THEN b ELSE u[i - 1].part) + Deltas(u[i])
  <2>1. CASE i \in 1 .. Len(s)
    <3>1. u[i] = s[i] /\ (i # 1 => u[i - 1] = s[i - 1]) BY <1>1, <2>1
    <3> QED BY <2>1, <3>1 DEF Chain
  <2>2. CASE i = Len(s) + 1
    <3>1. u[i] = r BY <1>1, <2>2
    <3>2. i = 1 <=> s = <<>> BY <2>2
    <3>3. i # 1 => u[i - 1] = s[Len(s)] BY <1>1, <2>2
    <3> QED BY <3>1, <3>2, <3>3 DEF End
  <2> QED BY <1>1, <2>1, <2>2
<1> QED BY <1>1, <1>2, <1>3 DEF Chain, u

LEMMA RestOf ==
    ASSUME NEW S, NEW s \in Seq(S), s # <<>>, NEW u \in {Tail(s), SubSeq(s, 2, Len(s))}
    PROVE  /\ u \in Seq(S) /\ Len(u) = Len(s) - 1 /\ Len(s) \in Nat \ {0}
           /\ \A i \in 1 .. Len(u) : u[i] = s[i + 1]
           /\ Head(s) = s[1] /\ Head(s) \in S
<1>1. CASE u = Tail(s) BY <1>1
<1>2. CASE u = SubSeq(s, 2, Len(s))
  <2>1. CASE Len(s) = 1 BY <1>2, <2>1
  <2>2. CASE Len(s) > 1
    <3>1. 2 \in 1 .. Len(s) /\ Len(s) \in 1 .. Len(s) BY <2>2
    <3>2. u \in Seq(S) BY <1>2, <3>1
    <3>3. Len(u) = Len(s) - 1 BY <1>2, <3>1
    <3>4. \A i \in 1 .. Len(u) : u[i] = s[i + 1] BY <1>2, <3>1, <3>3
    <3> QED BY <3>1, <3>2, <3>3, <3>4
  <2> QED BY <2>1, <2>2
<1> QED BY <1>1, <1>2

LEMMA ChainRest ==
    ASSUME NEW s \in Seq(Pieces), s # <<>>, NEW b \in Nat, Chain(s, b),
           NEW u \in {Tail(s), SubSeq(s, 2, Len(s))}
    PROVE  /\ Head(s).part = b + Deltas(Head(s))
           /\ Chain(u, Head(s).part) /\ End(u, Head(s).part) = End(s, b)
<1>1. /\ u \in Seq(Pieces) /\ Len(u) = Len(s) - 1 /\ Len(s) \in Nat \ {0}
      /\ \A i \in 1 .. Len(u) : u[i] = s[i + 1]
      /\ Head(s) = s[1]
  BY RestOf
<1>2. Head(s).part = b + Deltas(Head(s)) BY <1>1 DEF Chain
<1>3. ASSUME NEW i \in 1 .. Len(u)
      PROVE  u[i].part = (IF i = 1 THEN Head(s).part ELSE u[i - 1].part) + Deltas(u[i])
  <2>1. i + 1 \in 1 .. Len(s) /\ i + 1 # 1 /\ u[i] = s[i + 1] BY <1>1
  <2>2. s[i + 1].part = s[i].part + Deltas(s[i + 1]) BY <2>1 DEF Chain
  <2>3. i # 1 => u[i - 1] = s[i] BY <1>1
  <2> QED BY <1>1, <2>1, <2>2, <2>3
<1>4. Chain(u, Head(s).part) BY <1>3 DEF Chain
<1>5. End(u, Head(s).part) = End(s, b)
  <2>1. CASE Len(s) = 1 BY <1>1, <2>1 DEF End
  <2>2. CASE Len(s) # 1
    <3>1. Len(u) \in 1 .. Len(u) /\ u # <<>> /\ Len(u) + 1 = Len(s) BY <1>1, <2>2
    <3>2. u[Len(u)] = s[Len(s)] BY <1>1, <3>1
    <3> QED BY <3>1, <3>2 DEF End
  <2> QED BY <2>1, <2>2
<1> QED BY <1>2, <1>4, <1>5

LEMMA PiecesTyped ==
    ASSUME TypeOK, StreamsTyped
    PROVE  /\ \A c \in Children : pipe[c] \in Seq(Pieces) /\ pipe[c] \in Seq(Records)
           /\ \A t \in Turns : /\ lines[t] \in Seq(Pieces) /\ lines[t] \in Seq(Lines)
                               /\ Len(text[t]) \in Nat /\ Unread(t) \in Nat
<1>1. Records \subseteq Pieces /\ Lines \subseteq Pieces BY DEF Records, Lines, Pieces
<1>2. ASSUME NEW S \in SUBSET Pieces, NEW s \in Seq(S) PROVE s \in Seq(Pieces)
  <2>1. Len(s) \in Nat /\ s \in [1 .. Len(s) -> Pieces] BY <1>2
  <2> QED BY <2>1
<1>3. ASSUME NEW c \in Children PROVE pipe[c] \in Seq(Pieces) /\ pipe[c] \in Seq(Records)
  <2>1. pipe[c] \in Seq(Records) BY DEF TypeOK, StreamTyped, Records
  <2> QED BY <1>1, <1>2, <2>1
<1>4. ASSUME NEW t \in Turns
      PROVE  /\ lines[t] \in Seq(Pieces) /\ lines[t] \in Seq(Lines)
             /\ Len(text[t]) \in Nat /\ Unread(t) \in Nat
  <2>1. lines[t] \in Seq(Lines) /\ text[t] \in Seq(Turns \X (0 .. MaxParts)) BY DEF StreamsTyped
  <2>2. lines[t] \in Seq(Pieces) BY <1>1, <1>2, <2>1
  <2>3. lines[t] # <<>> => lines[t][Len(lines[t])].part \in Nat
    <3>1. lines[t] # <<>> => lines[t][Len(lines[t])] \in Lines BY <2>1
    <3> QED BY <3>1 DEF Lines
  <2> QED BY <2>1, <2>2, <2>3 DEF Unread, End
<1> QED BY <1>3, <1>4

LEMMA ReadsKept ==
    ASSUME NEW t, NEW c, Reads(t, c), pipe'[c] = pipe[c], cut'[c] = cut[c], lines'[t] = lines[t],
           text'[t] = text[t], said'[t] = said[t], ready'[t] = ready[t], held'[t] = held[t],
           \/ prompts'[c] = prompts[c] /\ run'[c] = run[c]
           \/ prompts'[c] = <<>> /\ run'[c] = 0
    PROVE  Reads(t, c)'
<1>1. Answering(t, c)' BY DEF Reads, Answering
<1> QED BY <1>1 DEF Reads, Unread

LEMMA RelaysKept ==
    ASSUME NEW t, Relays(t), lines'[t] = lines[t], text'[t] = text[t],
           said'[t] = said[t] \/ task'[t] = "reading", task'[t] = "done" <=> task[t] = "done",
           task'[t] \in {task[t], "reading"} \/ Unread(t) = said[t]
    PROVE  Relays(t)'
  BY DEF Relays, Unread

LEMMA OnChildren ==
    ASSUME TypeOK, StreamInv
    PROVE  /\ 1 .. born \subseteq Children
           /\ \A u \in Turns : task[u] # "none" => on[u] \in 1 .. born /\ on[u] \in Children
<1>1. born \in Nat /\ born <= MaxChildren /\ MaxChildren \in Nat
  BY Numbers DEF TypeOK, SessionTyped
<1>2. 1 .. born \subseteq Children BY <1>1 DEF Children
<1>3. \A u \in Turns : task[u] # "none" => on[u] \in 1 .. born BY DEF StreamInv, Begun
<1> QED BY <1>2, <1>3

\* A subprocess that has something to do is the session's, and its turn is read.
LEMMA Serves ==
    ASSUME TypeOK, StreamInv, NEW c \in Children, prompts[c] # <<>> \/ run[c] # 0
    PROVE  /\ c = session /\ c \in 1 .. born /\ c \notin dead
           /\ \E t \in Turns : task[t] = "reading" /\ on[t] = c /\ Reads(t, c)
<1>1. c = session /\ c # 0 BY DEF StreamInv, Living, Children
<1>2. \E t \in Turns : task[t] = "reading" /\ on[t] = c
  BY <1>1 DEF StreamInv, SessionServes, Quiet
<1> QED BY <1>1, <1>2 DEF StreamInv, Living

\* A record of the turn that is read.
LEMMA EmitStream ==
    ASSUME TypeOK, StreamInv, NEW t \in Turns, NEW c \in Children, NEW r \in Records,
           task[t] = "reading", on[t] = c, c = session, Without(pipe[c], Terminal),
           Emit(c, r), r.turn = t, said'[t] = said[t] + Deltas(r), r.part = said'[t],
           \A u \in Turns \ {t} : said'[u] = said[u],
           \A d \in Children \ {c} : prompts'[d] = prompts[d] /\ run'[d] = run[d],
           Answering(t, c)', PiUnchanged
    PROVE  StreamInv'
<1>1. /\ UNCHANGED <<session, born, dead, ready, cut, task, on, held, lines, relay, text, cleared>>
      /\ pipe' = [pipe EXCEPT ![c] = Append(pipe[c], r)]
      /\ pipe'[c] = Append(pipe[c], r) /\ \A d \in Children \ {c} : pipe'[d] = pipe[d]
  BY DEF PiUnchanged, sessionVars, relayVars, Emit, TypeOK, StreamTyped
<1>2. c \in 1 .. born /\ c \notin dead /\ Reads(t, c) /\ relay[t] = "reading"
  BY DEF StreamInv, Living, Begun
<1>3. \A u \in Turns : task[u] # "none" => on[u] \in Children
  BY OnChildren
<1>4. StreamsTyped' BY <1>1 DEF StreamInv, StreamsTyped
<1>5. Living'
  <2>1. \A d \in Children : d > born => pipe'[d] = <<>> /\ ~cut[d]
    <3>1. \A d \in Children : d > born => d # c
      BY <1>2, Numbers DEF TypeOK, SessionTyped, Children
    <3> QED BY <1>1, <3>1 DEF StreamInv, Living
  <2> QED BY <1>1, <2>1 DEF StreamInv, Living
<1>6. Apart' BY <1>1 DEF StreamInv, Apart
<1>7. SessionServes' BY <1>1 DEF SessionServes
<1>8. Begun' BY <1>1 DEF StreamInv, Begun
<1>9. Reads(t, c)'
  <2>1. /\ pipe[c] \in Seq(Pieces) /\ pipe[c] \in Seq(Records) /\ Unread(t) \in Nat
    BY PiecesTyped DEF StreamInv
  <2>2. r \in Pieces BY DEF Records, Pieces
  <2>3. /\ pipe'[c] \in Seq(Pieces) /\ pipe'[c] # <<>>
        /\ Chain(pipe'[c], Unread(t)) /\ End(pipe'[c], Unread(t)) = said'[t]
    BY <1>1, <1>2, <2>1, <2>2, ChainAppend DEF Reads
  <2>4. /\ Len(pipe'[c]) = Len(pipe[c]) + 1 /\ pipe'[c][Len(pipe[c]) + 1] = r
        /\ \A i \in 1 .. Len(pipe[c]) : pipe'[c][i] = pipe[c][i]
    BY <1>1, <2>1
  <2>5. Of(pipe'[c], t) BY <1>2, <2>1, <2>4 DEF Reads, Of
  <2>6. LastOnly(pipe'[c], Terminal) BY <2>1, <2>4 DEF LastOnly, Without
  <2>7. ready[t] \in Nat BY DEF TypeOK, StreamTyped
  <2>8. ready[t] <= Len(pipe'[c]) /\ (cut[c] => ready[t] < Len(pipe'[c]))
    BY <1>2, <2>1, <2>4, <2>7 DEF Reads
  <2>9. cut[c] /\ ~held[t] => ready[t] = 0 /\ pipe'[c][1].kind = "get_state"
    <3>1. cut[c] => 1 \in 1 .. Len(pipe[c]) BY <1>2, <2>1, <2>7 DEF Reads
    <3> QED BY <1>2, <2>4, <3>1 DEF Reads
  <2>10. Unread(t)' = Unread(t) BY <1>1 DEF Unread
  <2> QED BY <1>1, <2>3, <2>5, <2>6, <2>8, <2>9, <2>10 DEF Reads
<1>10. ASSUME NEW u \in Turns \ {t}, task[u] = "reading" PROVE Reads(u, on[u])'
  <2>1. on[u] \in Children \ {c} BY <1>3, <1>10 DEF StreamInv, Apart
  <2>2. Reads(u, on[u]) BY <1>10 DEF StreamInv
  <2>3. PICK d \in Children \ {c} : d = on[u] /\ on'[u] = d BY <1>1, <2>1
  <2>4. Reads(u, d)' BY <1>1, <2>2, <2>3, ReadsKept
  <2> QED BY <1>1, <2>3, <2>4 DEF Reads, Answering
<1>11. ASSUME NEW u \in Turns, relay[u] = "reading" PROVE Relays(u)'
  BY <1>1, <1>11, RelaysKept DEF StreamInv
<1>12. AnswerIsWhole' BY <1>1, <1>2 DEF StreamInv, AnswerIsWhole, Answers
<1> QED BY <1>1, <1>4, <1>5, <1>6, <1>7, <1>8, <1>9, <1>10, <1>11, <1>12 DEF StreamInv, Reads, Answering

LEMMA PiStream ==
    ASSUME TypeOK, StreamInv, NEW c \in Children,
           PiBegins(c) \/ PiSays(c) \/ PiWorks(c) \/ PiPlacesFile(c) \/ PiEnds(c)
    PROVE  StreamInv'
<1>0. MaxTurns \in Nat /\ 0 \in 0 .. MaxParts /\ Turns \subseteq 0 .. MaxTurns
  BY Numbers
<1>1. CASE PiPlacesFile(c)
  <2>1. /\ UNCHANGED <<session, born, dead, prompts, run, said, pipe, ready, cut, task, on, held,
                       lines, relay, text, cleared>>
    BY <1>1 DEF PiPlacesFile, PiUnchanged, sessionVars, piVars, relayVars
  <2> QED BY <2>1 DEF StreamInv, StreamsTyped, Living, Apart, SessionServes, Quiet, Begun, Reads,
                      Answering, Relays, Unread, AnswerIsWhole, Answers
<1>2. CASE PiBegins(c)
  <2>1. /\ prompts[c] # <<>> /\ run[c] = 0 /\ prompts' = [prompts EXCEPT ![c] = Tail(prompts[c])]
        /\ said' = said /\ PiUnchanged
    BY <1>2 DEF PiBegins
  <2>2. PICK t \in Turns : task[t] = "reading" /\ on[t] = c /\ Reads(t, c)
    BY <2>1, Serves
  <2>3. c = session BY <2>1, Serves
  <2>4. prompts[c] = <<t>> /\ said[t] = 0 /\ Without(pipe[c], Kinds \ {"get_state"})
    BY <2>1, <2>2 DEF Reads, Answering
  <2>5. Head(prompts[c]) = t /\ Tail(prompts[c]) = <<>> BY <2>4
  <2>6. /\ prompts' = [prompts EXCEPT ![c] = <<>>] /\ prompts'[c] = <<>>
        /\ \A d \in Children \ {c} : prompts'[d] = prompts[d]
    BY <2>1, <2>5 DEF TypeOK, SessionTyped
  <2>7. Without(pipe[c], Terminal) BY <2>4 DEF Without, Kinds, Terminal
  <2>8. CASE run' = [run EXCEPT ![c] = t] /\ UNCHANGED pipe
    <3>1. run'[c] = t /\ \A d \in Children \ {c} : run'[d] = run[d]
      BY <2>8 DEF TypeOK, SessionTyped
    <3>2. /\ UNCHANGED <<session, born, dead, said, pipe, ready, cut, task, on, held, lines, relay,
                         text, cleared>>
      BY <2>1, <2>8 DEF PiUnchanged, sessionVars, relayVars
    <3>3. Answering(t, c)' BY <2>6, <2>7, <3>1, <3>2 DEF Answering
    <3>4. Reads(t, c)' BY <2>2, <3>2, <3>3 DEF Reads, Unread
    <3>5. ASSUME NEW u \in Turns, task[u] = "reading" PROVE Reads(u, on[u])'
      <4>1. CASE u = t
        BY <2>2, <3>2, <3>4, <4>1 DEF Reads, Answering
      <4>2. CASE u # t
        <5>1. on[u] \in Children \ {c}
          BY <2>2, <3>5, <4>2, OnChildren DEF StreamInv, Apart
        <5> QED BY <2>6, <3>1, <3>2, <3>5, <5>1 DEF StreamInv, Reads, Unread, Answering
      <4> QED BY <4>1, <4>2
    <3>6. Living' BY <2>3, <2>6, <3>1, <3>2 DEF StreamInv, Living
    <3>7. SessionServes' BY <2>2, <2>3, <3>2 DEF SessionServes
    <3> QED BY <3>2, <3>5, <3>6, <3>7 DEF StreamInv, StreamsTyped, Apart, Begun, Relays, Unread,
                                      AnswerIsWhole, Answers
  <2>9. CASE Emit(c, Record("prompt_rejected", t, 0)) /\ UNCHANGED run
    <3>1. PICK r : r = Record("prompt_rejected", t, 0) OBVIOUS
    <3>2. /\ r \in Records /\ r.turn = t /\ r.part = 0 /\ Deltas(r) = 0
      BY <1>0, <3>1, RecordTyped DEF Record, Deltas, Kinds, Terminal
    <3>3. Answering(t, c)' BY <2>1, <2>6, <2>9 DEF Answering
    <3> QED BY <2>1, <2>2, <2>3, <2>4, <2>6, <2>7, <2>9, <3>1, <3>2, <3>3, EmitStream
  <2> QED BY <1>2, <2>5, <2>8, <2>9 DEF PiBegins
<1>3. ASSUME run[c] # 0
      PROVE  /\ c = session /\ run[c] \in Turns /\ task[run[c]] = "reading" /\ on[run[c]] = c
             /\ prompts[c] = <<>> /\ Without(pipe[c], Terminal) /\ said[run[c]] \in 0 .. MaxParts
  <2>1. PICK t \in Turns : task[t] = "reading" /\ on[t] = c /\ Reads(t, c) BY <1>3, Serves
  <2> QED BY <1>3, <2>1, Serves DEF Reads, Answering, TypeOK, SessionTyped
<1>4. CASE PiSays(c)
  <2>1. PICK t \in Turns : t = run[c] BY <1>3, <1>4 DEF PiSays
  <2>2. /\ run[c] # 0 /\ said[t] < MaxParts /\ said' = [said EXCEPT ![t] = said[t] + 1]
        /\ Emit(c, Record("text_delta", t, said[t] + 1))
        /\ UNCHANGED <<prompts, run>> /\ PiUnchanged
    BY <1>4, <2>1 DEF PiSays
  <2>3. PICK r : r = Record("text_delta", t, said[t] + 1) OBVIOUS
  <2>4. said[t] + 1 \in 0 .. MaxParts BY <1>3, <2>1, <2>2, Numbers
  <2>5. /\ r \in Records /\ r.turn = t /\ r.part = said[t] + 1 /\ Deltas(r) = 1
    BY <1>0, <2>3, <2>4, RecordTyped DEF Record, Deltas, Kinds
  <2>6. said'[t] = said[t] + 1 /\ \A u \in Turns \ {t} : said'[u] = said[u]
    BY <2>2 DEF TypeOK, SessionTyped
  <2>7. Answering(t, c)'
    <3>1. Without(pipe[c], Terminal) /\ pipe'[c] = Append(pipe[c], r)
      BY <1>3, <2>2, <2>3 DEF Emit, TypeOK, StreamTyped
    <3>2. pipe[c] \in Seq(Records) BY DEF TypeOK, StreamTyped, Records
    <3>3. r.kind = "text_delta" BY <2>3 DEF Record
    <3>4. Without(pipe'[c], Terminal) BY <3>1, <3>2, <3>3 DEF Without, Terminal
    <3> QED BY <1>3, <2>1, <2>2, <3>4 DEF Answering
  <2> QED BY <1>3, <2>1, <2>2, <2>3, <2>5, <2>6, <2>7, EmitStream
<1>5. CASE PiWorks(c)
  <2>1. PICK t \in Turns : t = run[c] BY <1>3, <1>5 DEF PiWorks
  <2>2. PICK kind \in Noise : Emit(c, Record(kind, t, said[t])) BY <1>5, <2>1 DEF PiWorks
  <2>3. run[c] # 0 /\ UNCHANGED <<prompts, run, said>> /\ PiUnchanged
    BY <1>5, <2>1 DEF PiWorks
  <2>4. PICK r : r = Record(kind, t, said[t]) OBVIOUS
  <2>5. /\ r \in Records /\ r.turn = t /\ r.part = said[t] /\ Deltas(r) = 0
    BY <1>0, <1>3, <2>1, <2>3, <2>4, RecordTyped DEF Record, Deltas, Kinds, Noise
  <2>6. Answering(t, c)'
    <3>1. Without(pipe[c], Terminal) /\ pipe'[c] = Append(pipe[c], r)
      BY <1>3, <2>2, <2>3, <2>4 DEF Emit, TypeOK, StreamTyped
    <3>2. pipe[c] \in Seq(Records) BY DEF TypeOK, StreamTyped, Records
    <3>3. r.kind \in Noise BY <2>4 DEF Record
    <3>4. Without(pipe'[c], Terminal) BY <3>1, <3>2, <3>3 DEF Without, Terminal, Noise
    <3> QED BY <1>3, <2>1, <2>3, <3>4 DEF Answering
  <2> QED BY <1>3, <2>1, <2>2, <2>3, <2>4, <2>5, <2>6, EmitStream
<1>6. CASE PiEnds(c)
  <2>1. PICK t \in Turns : t = run[c] BY <1>3, <1>6 DEF PiEnds
  <2>2. PICK kind \in {"agent_end", "error"} : Emit(c, Record(kind, t, said[t]))
    BY <1>6, <2>1 DEF PiEnds
  <2>3. /\ run[c] # 0 /\ UNCHANGED <<prompts, said>> /\ PiUnchanged
        /\ run' = [run EXCEPT ![c] = 0]
    BY <1>6, <2>1 DEF PiEnds
  <2>4. PICK r : r = Record(kind, t, said[t]) OBVIOUS
  <2>5. /\ r \in Records /\ r.turn = t /\ r.part = said[t] /\ Deltas(r) = 0
    BY <1>0, <1>3, <2>1, <2>3, <2>4, RecordTyped DEF Record, Deltas, Kinds, Terminal
  <2>6. run'[c] = 0 /\ \A d \in Children \ {c} : run'[d] = run[d]
    BY <2>3 DEF TypeOK, SessionTyped
  <2>7. Answering(t, c)' BY <1>3, <2>3, <2>6 DEF Answering
  <2> QED BY <1>3, <2>1, <2>2, <2>3, <2>4, <2>5, <2>6, <2>7, EmitStream
<1> QED BY <1>1, <1>2, <1>4, <1>5, <1>6

\* A turn that begins finds the subprocess of the session at rest.
LEMMA SessionQuiet ==
    ASSUME TypeOK, Delivery, StreamInv, NEW t \in Turns, Begins(t), session # 0
    PROVE  /\ session \in Children /\ session \in 1 .. born /\ Quiet(session)
           /\ \A u \in Turns : task[u] = "reading" => on[u] # session
<1>1. session \in Children BY DEF TypeOK, SessionTyped, Children
<1>2. relay[t] = "none" /\ task[t] = "none" /\ t \notin cleared
  BY DEF Begins, StreamInv, Begun, Apart
<1>3. ASSUME NEW u \in Turns, task[u] = "reading" PROVE on[u] # session
  <2>1. u # t /\ relay[u] = "reading" /\ ~Settled(u) /\ ~Settled(t)
    BY <1>2, <1>3 DEF StreamInv, Begun, Settled
  <2>2. u < t \/ t < u BY <2>1 DEF Turns
  <2>3. u \in cleared BY <1>2, <2>1, <2>2 DEF Begins, Delivery, InTurn
  <2> QED BY <2>3 DEF StreamInv, Apart
<1> QED BY <1>1, <1>3 DEF StreamInv, SessionServes, Living

LEMMA PromptStream ==
    ASSUME TypeOK, StreamInv, NEW t \in Turns, NEW c \in Children, relay[t] = "none",
           SendPrompt(t, c), session' = c, prompts[c] = <<>>,
           pipe'[c] \in {<<>>, <<Record("get_state", 0, 0)>>}, cut'[c] => pipe'[c] # <<>>,
           \A d \in Children \ {c} : pipe'[d] = pipe[d] /\ cut'[d] = cut[d],
           \A u \in Turns : task[u] = "reading" => on[u] # c,
           \/ session' = session /\ born' = born /\ c \in 1 .. born
           \/ session = 0 /\ c = born + 1 /\ born' = born + 1,
           UNCHANGED <<dead, run, said, ready, held, lines, text, cleared>>
    PROVE  StreamInv'
<1>1. task[t] = "none" /\ t \notin cleared BY DEF StreamInv, Begun, Apart
<1>2. /\ prompts'[c] = <<t>> /\ \A d \in Children \ {c} : prompts'[d] = prompts[d]
      /\ task'[t] = "reading" /\ \A u \in Turns \ {t} : task'[u] = task[u]
      /\ on'[t] = c /\ \A u \in Turns \ {t} : on'[u] = on[u]
      /\ relay'[t] = "reading" /\ \A u \in Turns \ {t} : relay'[u] = relay[u]
  BY DEF SendPrompt, TypeOK, SessionTyped, StreamTyped, RelayTyped
<1>3. /\ born \in Nat /\ born' \in Nat /\ born <= born' /\ c \in 1 .. born' /\ Children \subseteq Nat
      /\ 0 \notin Children
  BY DEF TypeOK, SessionTyped, Children
<1>4. StreamsTyped' BY DEF StreamInv, StreamsTyped
<1>5. Living'
  <2>1. dead \subseteq 1 .. born /\ dead \subseteq 1 .. born' BY <1>3 DEF StreamInv, Living
  <2>2. \A d \in Children : d \in 1 .. born' \ dead <=> d = c
    <3>1. CASE session' = session /\ born' = born BY <3>1 DEF StreamInv, Living
    <3>2. CASE session = 0 /\ c = born + 1 /\ born' = born + 1
      <4>1. \A d \in Children : d \notin 1 .. born \ dead BY <1>3, <3>2 DEF StreamInv, Living
      <4>2. c \notin dead BY <1>3, <2>1, <3>2
      <4> QED BY <1>3, <3>2, <4>1, <4>2
    <3> QED BY <3>1, <3>2
  <2>3. \A d \in Children : d > born' => pipe'[d] = <<>> /\ ~cut'[d]
    <3>1. ASSUME NEW d \in Children, d > born' PROVE d \in Children \ {c} /\ d > born
      <4>1. d \in Nat /\ c \in Nat /\ c <= born' /\ born <= born' BY <1>3, <3>1
      <4> QED BY <1>3, <3>1, <4>1
    <3> QED BY <3>1 DEF StreamInv, Living
  <2>4. \A d \in Children : d # c => prompts'[d] = <<>> /\ run[d] = 0
    BY <1>2, <1>3 DEF StreamInv, Living
  <2> QED BY <2>1, <2>2, <2>3, <2>4 DEF Living
<1>6. \A u \in Turns : task[u] # "none" => on[u] \in 1 .. born /\ on[u] \in Children
  BY OnChildren
<1>7. Apart'
  <2>1. ASSUME NEW u \in Turns, u \in cleared \/ task[u] = "error" PROVE on[u] # c
    <3>1. task[u] # "none" /\ on[u] # session BY <2>1 DEF StreamInv, Apart
    <3> QED BY <1>3, <1>6, <3>1
  <2>2. \A u \in Turns : u \in cleared => u # t /\ task[u] # "none"
    BY <1>1 DEF StreamInv, Apart
  <2> QED BY <1>2, <2>1, <2>2 DEF StreamInv, Apart
<1>8. SessionServes' BY <1>2 DEF SessionServes
<1>9. Begun'
  <2>1. \A u \in Turns : task[u] # "none" => on[u] \in 1 .. born' BY <1>3, <1>6
  <2>2. ready[t] = 0 BY <1>1 DEF StreamInv, Begun
  <2> QED BY <1>1, <1>2, <1>3, <2>1, <2>2 DEF StreamInv, Begun
<1>10. lines[t] = <<>> /\ text[t] = <<>> /\ said[t] = 0 /\ ready[t] = 0
  BY <1>1 DEF StreamInv, Begun
<1>11. Reads(t, c)'
  <2>1. PICK r : r = Record("get_state", 0, 0) OBVIOUS
  <2>2. r.kind = "get_state" /\ r.turn = 0 /\ r.part = 0 /\ Deltas(r) = 0
    BY <2>1 DEF Record, Deltas
  <2>3. PICK s : s = pipe'[c] OBVIOUS
  <2>4. Unread(t)' = 0 /\ Len(text[t]) = 0 BY <1>10 DEF Unread, End
  <2>5. run'[c] = 0
    <3>1. CASE session' = session BY <1>3, <3>1 DEF StreamInv, SessionServes, Quiet
    <3>2. CASE session = 0 BY <1>3, <3>2 DEF StreamInv, Living
    <3> QED BY <3>1, <3>2
  <2>6. /\ Chain(s, 0) /\ End(s, 0) = 0 /\ Of(s, t) /\ LastOnly(s, Terminal) /\ Len(s) \in Nat
        /\ Without(s, Kinds \ {"get_state"}) /\ (s # <<>> => Len(s) = 1 /\ s[1] = r)
    <3>1. CASE s = <<>> BY <3>1 DEF Chain, End, Of, LastOnly, Without
    <3>2. CASE s = <<r>>
      <4>1. Len(s) = 1 /\ s[1] = r /\ s # <<>> BY <3>2
      <4> QED BY <2>2, <4>1 DEF Chain, End, Of, LastOnly, Without, Terminal
    <3> QED BY <2>1, <2>3, <3>1, <3>2
  <2>7. Answering(t, c)' BY <1>2, <1>10, <2>3, <2>5, <2>6 DEF Answering
  <2> QED BY <1>10, <2>2, <2>3, <2>4, <2>6, <2>7 DEF Reads
<1>12. ASSUME NEW u \in Turns \ {t}, task[u] = "reading" PROVE Reads(u, on[u])'
  <2>1. PICK d \in Children \ {c} : d = on[u] /\ on'[u] = d BY <1>2, <1>6, <1>12
  <2>2. Reads(u, d) BY <1>12, <2>1 DEF StreamInv
  <2>3. Reads(u, d)' BY <1>2, <2>1, <2>2, ReadsKept
  <2> QED BY <2>1, <2>3 DEF Reads, Answering
<1>13. Reads(t, on[t])' BY <1>2, <1>11 DEF Reads, Answering
<1>14. Relays(t)'
  BY <1>2, <1>10 DEF Relays, Chain, Of, LastOnly, Without, Deltas
<1>15. ASSUME NEW u \in Turns \ {t}, relay[u] = "reading" PROVE Relays(u)'
  BY <1>2, <1>15, RelaysKept DEF StreamInv
<1>16. AnswerIsWhole' BY <1>2 DEF StreamInv, AnswerIsWhole, Answers
<1> QED BY <1>2, <1>4, <1>5, <1>7, <1>8, <1>9, <1>12, <1>13, <1>14, <1>15, <1>16 DEF StreamInv

LEMMA BeginStream ==
    ASSUME TypeOK, Delivery, StreamInv, NEW t \in Turns,
           ReuseSession(t) \/ SpawnSession(t) \/ TurnFailsToStart(t)
    PROVE  StreamInv'
<1>1. CASE ReuseSession(t)
  <2>1. PICK c \in Children : c = session BY <1>1, SessionQuiet DEF ReuseSession
  <2>2. /\ Begins(t) /\ relay[t] = "none" /\ SendPrompt(t, c)
        /\ UNCHANGED <<session, born, dead, run, said, pipe, ready, cut, held, lines, text, cleared>>
    BY <1>1, <2>1 DEF ReuseSession, Begins, sessionVars
  <2>3. /\ Quiet(c) /\ c \in 1 .. born /\ \A u \in Turns : task[u] = "reading" => on[u] # c
    BY <1>1, <2>1, <2>2, SessionQuiet DEF ReuseSession
  <2> QED BY <2>1, <2>2, <2>3, PromptStream DEF Quiet
<1>2. CASE SpawnSession(t)
  <2>1. PICK c \in Children : c = born + 1 BY <1>2 DEF SpawnSession
  <2>2. /\ Begins(t) /\ relay[t] = "none" /\ SendPrompt(t, c) /\ session = 0
        /\ born' = born + 1 /\ session' = c
        /\ UNCHANGED <<dead, run, said, ready, held, lines, text, cleared>>
        /\ \E late \in {<<>>, <<Record("get_state", 0, 0)>>}, half \in BOOLEAN :
              /\ half => late # <<>>
              /\ pipe' = [pipe EXCEPT ![c] = late]
              /\ cut' = [cut EXCEPT ![c] = half]
    BY <1>2, <2>1 DEF SpawnSession, Begins
  <2>3. /\ pipe'[c] \in {<<>>, <<Record("get_state", 0, 0)>>} /\ (cut'[c] => pipe'[c] # <<>>)
        /\ \A d \in Children \ {c} : pipe'[d] = pipe[d] /\ cut'[d] = cut[d]
    BY <2>2 DEF TypeOK, StreamTyped
  <2>4. prompts[c] = <<>> BY <2>2 DEF StreamInv, Living, Children
  <2>5. \A u \in Turns : task[u] = "reading" => on[u] # c
    BY <2>1 DEF StreamInv, Begun, TypeOK, SessionTyped
  <2> QED BY <2>1, <2>2, <2>3, <2>4, <2>5, PromptStream
<1>3. CASE TurnFailsToStart(t)
  <2>1. /\ relay[t] = "none" /\ relay'[t] = "failed"
        /\ \A u \in Turns \ {t} : relay'[u] = relay[u]
        /\ UNCHANGED <<session, born, dead, prompts, run, said, pipe, ready, cut, task, on, held,
                       lines, text, cleared>>
    BY <1>3 DEF TurnFailsToStart, Begins, sessionVars, piVars, readVars, TypeOK, RelayTyped
  <2>2. Begun' BY <2>1 DEF StreamInv, Begun
  <2>3. ASSUME NEW u \in Turns, relay'[u] = "reading" PROVE Relays(u)'
    BY <2>1, <2>3, RelaysKept DEF StreamInv
  <2>4. AnswerIsWhole' BY <2>1 DEF StreamInv, AnswerIsWhole, Answers
  <2> QED BY <2>1, <2>2, <2>3, <2>4
          DEF StreamInv, StreamsTyped, Living, Apart, SessionServes, Quiet, Reads, Unread, Answering
<1> QED BY <1>1, <1>2, <1>3

\* A subprocess that dies leaves to the turn what it has written.
LEMMA DeathStream ==
    ASSUME TypeOK, StreamInv, NEW c \in Children, c \in 1 .. born \ dead, Dies(c), session' = 0,
           \A t \in cleared' : t \in cleared \/ relay[t] \notin {"none", "done", "failed"},
           UNCHANGED <<born, said, pipe, ready, cut, task, on, held, lines, relay, text>>
    PROVE  StreamInv'
<1>1. c = session BY DEF StreamInv, Living
<1>2. /\ dead' = dead \cup {c}
      /\ \A d \in Children : d # c => prompts'[d] = prompts[d] /\ run'[d] = run[d]
      /\ prompts'[c] = <<>> /\ run'[c] = 0
  BY DEF Dies, TypeOK, SessionTyped
<1>3. Living' BY <1>1, <1>2 DEF StreamInv, Living, Children
<1>4. Apart'
  <2>1. \A t \in Turns : task[t] # "none" => on[t] # 0 BY OnChildren DEF Children
  <2>2. \A t \in Turns : t \in cleared' => task[t] # "none"
    BY DEF StreamInv, Apart, Begun
  <2> QED BY <2>1, <2>2 DEF StreamInv, Apart
<1>5. SessionServes' BY DEF SessionServes
<1>6. Begun' BY DEF StreamInv, Begun
<1>7. ASSUME NEW t \in Turns, task[t] = "reading" PROVE Reads(t, on[t])'
  <2>1. PICK d \in Children : d = on[t] BY <1>7, OnChildren
  <2>2. Reads(t, d) BY <1>7, <2>1 DEF StreamInv
  <2>3. Reads(t, d)'
    <3>1. \/ prompts'[d] = prompts[d] /\ run'[d] = run[d]
          \/ prompts'[d] = <<>> /\ run'[d] = 0
      BY <1>2
    <3> QED BY <2>2, <3>1, ReadsKept
  <2> QED BY <2>1, <2>3 DEF Reads, Answering
<1> QED BY <1>3, <1>4, <1>5, <1>6, <1>7
    DEF StreamInv, StreamsTyped, Relays, Unread, AnswerIsWhole, Answers

LEMMA EndStream ==
    ASSUME TypeOK, StreamInv, \/ \E c \in Children : ChildDies(c)
                              \/ \E t \in Turns : ActivityTimeout(t)
                              \/ \E clear \in BOOLEAN : Close(clear)
    PROVE  StreamInv'
<1>1. ASSUME NEW c, ChildDies(c) PROVE StreamInv'
  <2>1. c \in 1 .. born \ dead /\ c \in Children BY <1>1, OnChildren DEF ChildDies
  <2>2. c = session BY <2>1 DEF StreamInv, Living
  <2>3. /\ Dies(c) /\ session' = 0
        /\ UNCHANGED <<born, said, pipe, ready, cut, task, on, held, lines, relay, text, cleared>>
    BY <1>1, <2>2 DEF ChildDies, readVars, relayVars
  <2> QED BY <2>1, <2>3, DeathStream
<1>2. ASSUME NEW clear \in BOOLEAN, Close(clear) PROVE StreamInv'
  <2>1. PICK c \in Children : c = session BY <1>2 DEF Close, TypeOK, SessionTyped, Children
  <2>2. c \in 1 .. born \ dead BY <2>1 DEF StreamInv, Living
  <2>3. /\ Dies(c) /\ session' = 0
        /\ UNCHANGED <<born, said, pipe, ready, cut, task, on, held, lines, relay, text>>
    BY <1>2, <2>1 DEF Close, readVars, relayVars
  <2>4. \A t \in cleared' : t \in cleared \/ relay[t] \notin {"none", "done", "failed"}
    BY <1>2 DEF Close, Settled
  <2> QED BY <2>2, <2>3, <2>4, DeathStream
<1> QED BY <1>1, <1>2 DEF ActivityTimeout

LEMMA WithoutRest ==
    ASSUME NEW s \in Seq(Pieces), s # <<>>, NEW u \in {Tail(s), SubSeq(s, 2, Len(s))},
           NEW K, Without(s, K)
    PROVE  Without(u, K)
<1>1. /\ Len(u) = Len(s) - 1 /\ Len(s) \in Nat \ {0} /\ \A i \in 1 .. Len(u) : u[i] = s[i + 1]
  BY RestOf
<1>2. \A i \in 1 .. Len(u) : i + 1 \in 1 .. Len(s) BY <1>1
<1> QED BY <1>1, <1>2 DEF Without

\* What is read of a pipe is read in the order it was written.
LEMMA PipeRest ==
    ASSUME TypeOK, StreamInv, NEW t \in Turns, NEW c \in Children, Reads(t, c), pipe[c] # <<>>,
           NEW r, r = Head(pipe[c]), NEW u, u = SubSeq(pipe[c], 2, Len(pipe[c]))
    PROVE  /\ u \in Seq(Pieces) /\ Len(u) = Len(pipe[c]) - 1 /\ r = pipe[c][1] /\ r \in Records
           /\ r.part = Unread(t) + Deltas(r) /\ Chain(u, r.part)
           /\ Of(u, t) /\ LastOnly(u, Terminal)
<1>1. pipe[c] \in Seq(Pieces) /\ pipe[c] \in Seq(Records) /\ Unread(t) \in Nat
  BY PiecesTyped DEF StreamInv
<1>2. /\ u \in Seq(Pieces) /\ Len(u) = Len(pipe[c]) - 1 /\ Len(pipe[c]) \in Nat \ {0}
      /\ \A i \in 1 .. Len(u) : u[i] = pipe[c][i + 1]
      /\ r = pipe[c][1] /\ r \in Records
  BY <1>1, RestOf
<1>3. r.part = Unread(t) + Deltas(r) /\ Chain(u, r.part) BY <1>1, ChainRest DEF Reads
<1>4. \A i \in 1 .. Len(u) : i + 1 \in 1 .. Len(pipe[c]) BY <1>2
<1>5. Of(u, t) BY <1>2, <1>4 DEF Reads, Of
<1>6. LastOnly(u, Terminal)
  <2>1. ASSUME NEW i \in 1 .. Len(u), u[i].kind \in Terminal PROVE i = Len(u)
    <3>1. i + 1 = Len(pipe[c]) BY <1>2, <1>4, <2>1 DEF Reads, LastOnly
    <3> QED BY <1>2, <3>1
  <2> QED BY <2>1 DEF LastOnly
<1> QED BY <1>2, <1>3, <1>5, <1>6

LEMMA PipeEnd ==
    ASSUME TypeOK, StreamInv, NEW t \in Turns, NEW c \in Children, Reads(t, c), pipe[c] # <<>>,
           NEW r, r = Head(pipe[c]), NEW u, u = SubSeq(pipe[c], 2, Len(pipe[c]))
    PROVE  End(u, r.part) = said[t]
<1>1. pipe[c] \in Seq(Pieces) /\ Unread(t) \in Nat BY PiecesTyped DEF StreamInv
<1> QED BY <1>1, ChainRest DEF Reads

\* A step of the reader of one turn.
LEMMA ReaderStream ==
    ASSUME TypeOK, StreamInv, NEW t \in Turns, NEW c \in Children, task[t] = "reading", c = on[t],
           StreamsTyped', task'[t] \in {"reading", "done", "error"},
           \A u \in Turns \ {t} : /\ task'[u] = task[u] /\ ready'[u] = ready[u]
                                  /\ held'[u] = held[u] /\ lines'[u] = lines[u],
           \A d \in Children \ {c} : pipe'[d] = pipe[d] /\ cut'[d] = cut[d],
           UNCHANGED <<session, born, dead, prompts, run, said, on, relay, text, cleared>>,
           task'[t] = "reading" => Reads(t, c)',
           task'[t] = "done" => ready'[t] = 0 /\ (c = session => Quiet(c)'),
           task'[t] = "error" => ready'[t] = 0 /\ c # session,
           Relays(t)'
    PROVE  StreamInv'
<1>1. c \in 1 .. born BY OnChildren
<1>2. Living'
  <2>1. \A d \in Children : d > born => d # c BY <1>1 DEF Children, TypeOK, SessionTyped
  <2> QED BY <2>1 DEF StreamInv, Living
<1>3. Apart' BY DEF StreamInv, Apart
<1>4. SessionServes'
  <2>1. CASE c = session /\ task'[t] = "reading" BY <2>1 DEF SessionServes
  <2>2. CASE c = session /\ task'[t] = "done" BY <2>2 DEF SessionServes, Quiet
  <2>3. CASE c # session
    <3>1. SUFFICES ASSUME session # 0 PROVE SessionServes' BY DEF SessionServes
    <3>2. session \in Children \ {c} BY <2>3, <3>1 DEF TypeOK, SessionTyped, Children
    <3>3. CASE Quiet(session) BY <3>2, <3>3 DEF SessionServes, Quiet
    <3>4. CASE \E u \in Turns : task[u] = "reading" /\ on[u] = session
      BY <2>3, <3>4 DEF SessionServes
    <3> QED BY <3>1, <3>3, <3>4 DEF StreamInv, SessionServes
  <2> QED BY <2>1, <2>2, <2>3
<1>5. Begun' BY DEF StreamInv, Begun
<1>6. ASSUME NEW u \in Turns \ {t}, task[u] = "reading" PROVE Reads(u, on[u])'
  <2>1. PICK d \in Children \ {c} : d = on[u] /\ on'[u] = d
    BY <1>6, OnChildren DEF StreamInv, Apart
  <2>2. Reads(u, d) BY <1>6, <2>1 DEF StreamInv
  <2>3. Reads(u, d)' BY <2>1, <2>2, ReadsKept
  <2> QED BY <2>1, <2>3 DEF Reads, Answering
<1>7. task'[t] = "reading" => Reads(t, on[t])' BY DEF Reads, Answering
<1>8. ASSUME NEW u \in Turns \ {t}, relay[u] = "reading" PROVE Relays(u)'
  BY <1>8, RelaysKept DEF StreamInv
<1>9. AnswerIsWhole' BY DEF StreamInv, AnswerIsWhole, Answers
<1> QED BY <1>2, <1>3, <1>4, <1>5, <1>6, <1>7, <1>8, <1>9 DEF StreamInv

LEMMA ChunkStream ==
    ASSUME TypeOK, StreamInv, NEW t \in Turns, ReadChunk(t)
    PROVE  StreamInv'
<1>1. PICK c \in Children : c = on[t] BY OnChildren DEF ReadChunk
<1>2. /\ task[t] = "reading" /\ ready[t] = 0 /\ Reads(t, c) /\ relay[t] = "reading" /\ Relays(t)
      /\ UNCHANGED <<session, born, dead, prompts, run, said, task, on, lines, relay, text, cleared>>
  BY <1>1 DEF ReadChunk, StreamInv, Begun, sessionVars, piVars, relayVars
<1>3. PICK malformed : malformed = IF cut[c] /\ ~held[t] THEN 1 ELSE 0 OBVIOUS
<1>4. PICK n \in 0 .. Len(pipe[c]), half \in BOOLEAN :
        /\ half => n < Len(pipe[c])
        /\ ready' = [ready EXCEPT ![t] = IF n = 0 THEN 0 ELSE n - malformed]
        /\ pipe' = [pipe EXCEPT ![c] = IF n = 0 THEN pipe[c]
                                      ELSE SubSeq(pipe[c], malformed + 1, Len(pipe[c]))]
        /\ cut' = [cut EXCEPT ![c] = half]
        /\ held' = [held EXCEPT ![t] = half]
  BY <1>1, <1>3 DEF ReadChunk
<1>5. /\ ready'[t] = (IF n = 0 THEN 0 ELSE n - malformed)
      /\ pipe'[c] = (IF n = 0 THEN pipe[c] ELSE SubSeq(pipe[c], malformed + 1, Len(pipe[c])))
      /\ cut'[c] = half /\ held'[t] = half
      /\ \A d \in Children \ {c} : pipe'[d] = pipe[d] /\ cut'[d] = cut[d]
      /\ \A u \in Turns \ {t} : ready'[u] = ready[u] /\ held'[u] = held[u]
  BY <1>4 DEF TypeOK, StreamTyped
<1>6. pipe[c] \in Seq(Pieces) /\ pipe[c] \in Seq(Records) /\ Len(pipe[c]) \in Nat /\ Unread(t) \in Nat
  BY PiecesTyped DEF StreamInv
<1>7. /\ Chain(pipe'[c], Unread(t)) /\ End(pipe'[c], Unread(t)) = said[t]
      /\ Of(pipe'[c], t) /\ LastOnly(pipe'[c], Terminal)
      /\ ready'[t] <= Len(pipe'[c]) /\ (half => ready'[t] < Len(pipe'[c]))
      /\ Without(pipe[c], Terminal) => Without(pipe'[c], Terminal)
      /\ Without(pipe[c], Kinds \ {"get_state"}) => Without(pipe'[c], Kinds \ {"get_state"})
  <2>1. CASE n = 0 \/ malformed = 0
    <3>1. SubSeq(pipe[c], 1, Len(pipe[c])) = pipe[c] BY <1>6
    <3>2. pipe'[c] = pipe[c] /\ ready'[t] = n
      <4>1. n \in Nat BY <1>4, <1>6
      <4>2. CASE n = 0 BY <1>5, <4>2
      <4>3. CASE n # 0 /\ malformed = 0 BY <1>5, <3>1, <4>1, <4>3
      <4> QED BY <2>1, <4>2, <4>3
    <3>3. n <= Len(pipe[c]) BY <1>4, <1>6
    <3> QED BY <1>2, <1>4, <3>2, <3>3 DEF Reads
  <2>2. CASE n # 0 /\ malformed = 1
    <3>1. cut[c] /\ ~held[t] BY <1>3, <2>2
    <3>2. pipe[c][1].kind = "get_state" BY <1>2, <3>1 DEF Reads
    <3>3. pipe[c] # <<>> BY <1>4, <1>6, <2>2
    <3>4. pipe'[c] = SubSeq(pipe[c], 2, Len(pipe[c])) /\ ready'[t] = n - 1 BY <1>5, <2>2
    <3>5. PICK r, u : r = Head(pipe[c]) /\ u = pipe'[c] OBVIOUS
    <3>6. Reads(t, c) /\ u = SubSeq(pipe[c], 2, Len(pipe[c])) BY <1>2, <3>4, <3>5
    <3>7. /\ Len(u) = Len(pipe[c]) - 1 /\ r = pipe[c][1]
          /\ r.part = Unread(t) + Deltas(r) /\ Chain(u, r.part)
          /\ Of(u, t) /\ LastOnly(u, Terminal)
      BY <3>3, <3>5, <3>6, PipeRest
    <3>8. End(u, r.part) = said[t] BY <3>3, <3>5, <3>6, PipeEnd
    <3>9. /\ Without(pipe[c], Terminal) => Without(u, Terminal)
          /\ Without(pipe[c], Kinds \ {"get_state"}) => Without(u, Kinds \ {"get_state"})
      BY <1>6, <3>3, <3>6, WithoutRest
    <3>10. r.part = Unread(t) BY <1>6, <3>2, <3>7 DEF Deltas
    <3> QED BY <1>4, <1>6, <2>2, <3>4, <3>5, <3>7, <3>8, <3>9, <3>10
  <2> QED BY <1>3, <2>1, <2>2
<1>8. Answering(t, c)' BY <1>2, <1>7 DEF Reads, Answering
<1>9. Reads(t, c)' BY <1>2, <1>5, <1>7, <1>8 DEF Reads, Unread
<1>10. Relays(t)' BY <1>2, RelaysKept
<1>11. StreamsTyped' BY <1>2 DEF StreamInv, StreamsTyped
<1> QED BY <1>1, <1>2, <1>5, <1>9, <1>10, <1>11, ReaderStream

LEMMA Parsed ==
    ASSUME NEW r \in Records, NEW l, l = [r EXCEPT !.kind = Parse(@)]
    PROVE  /\ l.kind # "null" => l \in Lines /\ l \in Pieces /\ Deltas(l) = Deltas(r)
           /\ l.kind = "null" => Deltas(r) = 0
           /\ IsFinal(l) <=> l.kind \in Finals
           /\ IsFinal(l) <=> r.kind \in Terminal
           /\ l.kind = "init" <=> r.kind = "get_state"
           /\ r.kind # "init" /\ l.turn = r.turn /\ l.part = r.part
<1>1. /\ r.kind \in Kinds /\ r.turn \in 0 .. MaxTurns /\ r.part \in 0 .. MaxParts
      /\ r = [kind |-> r.kind, turn |-> r.turn, part |-> r.part]
  BY DEF Records
<1>2. l = [kind |-> Parse(r.kind), turn |-> r.turn, part |-> r.part] BY <1>1
<1>3. l.kind = Parse(r.kind) /\ l.turn = r.turn /\ l.part = r.part BY <1>2
<1>4. /\ l.kind \in LineKinds \cup {"null"}
      /\ l.kind = "text" <=> r.kind = "text_delta"
      /\ l.kind = "init" <=> r.kind = "get_state"
      /\ l.kind \in Finals <=> r.kind \in Terminal
      /\ l.kind # "text_delta" /\ r.kind # "text" /\ r.kind # "init"
  BY <1>1, <1>3 DEF Parse, Kinds, Terminal, Noise, LineKinds, Finals
<1>5. l.kind # "null" => l \in Lines /\ l \in Pieces BY <1>1, <1>2, <1>4 DEF Lines, Pieces
<1> QED BY <1>3, <1>4, <1>5 DEF Deltas, IsFinal, Finals

LEMMA RecordStream ==
    ASSUME TypeOK, StreamInv, NEW t \in Turns, ReadRecord(t)
    PROVE  StreamInv'
<1>1. PICK c \in Children : c = on[t] BY OnChildren DEF ReadRecord
<1>2. PICK l : l = [Head(pipe[c]) EXCEPT !.kind = Parse(@)] OBVIOUS
<1>3. PICK taken : taken = IF IsFinal(l) THEN ready[t] ELSE 1 OBVIOUS
<1>4. /\ task[t] = "reading" /\ ready[t] > 0 /\ Reads(t, c) /\ relay[t] = "reading" /\ Relays(t)
      /\ lines' = IF l.kind = "null" THEN lines ELSE [lines EXCEPT ![t] = Append(lines[t], l)]
      /\ task' = IF IsFinal(l) THEN [task EXCEPT ![t] = "done"] ELSE task
      /\ pipe' = [pipe EXCEPT ![c] = SubSeq(pipe[c], taken + 1, Len(pipe[c]))]
      /\ ready' = [ready EXCEPT ![t] = ready[t] - taken]
      /\ held' = [held EXCEPT ![t] = held[t] /\ ~IsFinal(l)]
      /\ UNCHANGED <<session, born, dead, prompts, run, said, cut, on, relay, text, cleared>>
  BY <1>1, <1>2, <1>3 DEF ReadRecord, StreamInv, Begun, sessionVars, piVars, relayVars
<1>5. PICK r : r = Head(pipe[c]) OBVIOUS
<1>6. /\ pipe[c] \in Seq(Pieces) /\ Len(pipe[c]) \in Nat /\ Unread(t) \in Nat /\ ready[t] \in Nat
      /\ lines[t] \in Seq(Lines) /\ lines[t] \in Seq(Pieces) /\ Len(text[t]) \in Nat
  <2>1. /\ pipe[c] \in Seq(Pieces) /\ Unread(t) \in Nat /\ Len(text[t]) \in Nat
        /\ lines[t] \in Seq(Lines) /\ lines[t] \in Seq(Pieces)
    BY PiecesTyped DEF StreamInv
  <2>2. ready[t] \in Nat BY DEF TypeOK, StreamTyped
  <2> QED BY <2>1, <2>2
<1>7. pipe[c] # <<>> /\ ready[t] <= Len(pipe[c]) BY <1>4, <1>6 DEF Reads
<1>8. PICK u : u = SubSeq(pipe[c], 2, Len(pipe[c])) OBVIOUS
<1>9. /\ u \in Seq(Pieces) /\ Len(u) = Len(pipe[c]) - 1 /\ r = pipe[c][1] /\ r \in Records
      /\ r.part = Unread(t) + Deltas(r) /\ Chain(u, r.part) /\ End(u, r.part) = said[t]
      /\ Of(u, t) /\ LastOnly(u, Terminal)
      /\ Without(pipe[c], Terminal) => Without(u, Terminal)
      /\ Without(pipe[c], Kinds \ {"get_state"}) => Without(u, Kinds \ {"get_state"})
  <2>1. Reads(t, c) /\ pipe[c] # <<>> BY <1>4, <1>7
  <2>2. /\ u \in Seq(Pieces) /\ Len(u) = Len(pipe[c]) - 1 /\ r = pipe[c][1] /\ r \in Records
        /\ r.part = Unread(t) + Deltas(r) /\ Chain(u, r.part)
        /\ Of(u, t) /\ LastOnly(u, Terminal)
    BY <1>5, <1>8, <2>1, PipeRest
  <2>3. End(u, r.part) = said[t] BY <1>5, <1>8, <2>1, PipeEnd
  <2>4. /\ Without(pipe[c], Terminal) => Without(u, Terminal)
        /\ Without(pipe[c], Kinds \ {"get_state"}) => Without(u, Kinds \ {"get_state"})
    BY <1>6, <1>8, <2>1, WithoutRest
  <2> QED BY <2>2, <2>3, <2>4
<1>10. /\ l.kind # "null" => l \in Lines /\ l \in Pieces /\ Deltas(l) = Deltas(r)
       /\ l.kind = "null" => Deltas(r) = 0
       /\ IsFinal(l) <=> l.kind \in Finals
       /\ IsFinal(l) <=> r.kind \in Terminal
       /\ l.kind = "init" <=> r.kind = "get_state"
       /\ r.kind # "init" /\ l.turn = r.turn /\ l.part = r.part
  BY <1>2, <1>5, <1>9, Parsed
<1>11. IsFinal(l) => Len(pipe[c]) = 1 /\ ready[t] = 1 /\ ~cut[c] /\ u = <<>>
  <2>1. 1 \in 1 .. Len(pipe[c]) BY <1>4, <1>6, <1>7
  <2>2. IsFinal(l) => 1 = Len(pipe[c]) BY <1>4, <1>9, <1>10, <2>1 DEF Reads, LastOnly
  <2> QED BY <1>4, <1>6, <1>7, <1>9, <2>2 DEF Reads
<1>12. taken = 1 BY <1>3, <1>11
<1>13. /\ pipe'[c] = u /\ ready'[t] = ready[t] - 1 /\ (held'[t] <=> held[t] /\ ~IsFinal(l))
       /\ task'[t] = (IF IsFinal(l) THEN "done" ELSE "reading")
       /\ lines'[t] = (IF l.kind = "null" THEN lines[t] ELSE Append(lines[t], l))
       /\ \A d \in Children \ {c} : pipe'[d] = pipe[d] /\ cut'[d] = cut[d]
       /\ \A v \in Turns \ {t} : /\ task'[v] = task[v] /\ ready'[v] = ready[v]
                                 /\ held'[v] = held[v] /\ lines'[v] = lines[v]
  <2>1. /\ pipe'[c] = u /\ \A d \in Children \ {c} : pipe'[d] = pipe[d] /\ cut'[d] = cut[d]
    BY <1>4, <1>8, <1>12 DEF TypeOK, StreamTyped
  <2>2. /\ ready'[t] = ready[t] - 1 /\ (held'[t] <=> held[t] /\ ~IsFinal(l))
        /\ task'[t] = (IF IsFinal(l) THEN "done" ELSE "reading")
        /\ \A v \in Turns \ {t} : task'[v] = task[v] /\ ready'[v] = ready[v] /\ held'[v] = held[v]
    BY <1>4, <1>12 DEF TypeOK, StreamTyped
  <2>3. /\ lines'[t] = (IF l.kind = "null" THEN lines[t] ELSE Append(lines[t], l))
        /\ \A v \in Turns \ {t} : lines'[v] = lines[v]
    BY <1>4 DEF StreamInv, StreamsTyped
  <2> QED BY <2>1, <2>2, <2>3
<1>14. StreamsTyped'
  <2>1. l.kind # "null" => Append(lines[t], l) \in Seq(Lines) BY <1>6, <1>10
  <2> QED BY <1>4, <2>1 DEF StreamInv, StreamsTyped
<1>15. Chain(lines[t], Len(text[t])) /\ Of(lines[t], t) /\ Without(lines[t], Finals)
  BY <1>4 DEF Relays
<1>16. Chain(lines'[t], Len(text[t])) /\ End(lines'[t], Len(text[t])) = r.part
  <2>1. CASE l.kind = "null" BY <1>6, <1>9, <1>10, <1>13, <1>15, <2>1 DEF Unread
  <2>2. CASE l.kind # "null"
    <3>1. l.part = End(lines[t], Len(text[t])) + Deltas(l)
      BY <1>9, <1>10, <2>2 DEF Unread
    <3>2. l \in Pieces BY <1>10, <2>2
    <3> QED BY <1>6, <1>10, <1>13, <1>15, <2>2, <3>1, <3>2, ChainAppend
  <2> QED BY <2>1, <2>2
<1>17. Unread(t)' = r.part BY <1>4, <1>16 DEF Unread
<1>18. Relays(t)'
  <2>1. CASE l.kind = "null"
    <3>1. ~IsFinal(l) BY <1>10, <2>1 DEF Finals
    <3> QED BY <1>4, <1>13, <2>1, <3>1, RelaysKept
  <2>2. CASE l.kind # "null"
    <3>1. PICK n \in Nat : n = Len(lines[t]) BY <1>6
    <3>2. /\ Len(lines'[t]) = n + 1 /\ lines'[t][n + 1] = l /\ lines'[t] # <<>>
          /\ \A i \in 1 .. n : lines'[t][i] = lines[t][i]
      BY <1>6, <1>10, <1>13, <2>2, <3>1
    <3>3. l.turn = t \/ (l.turn = 0 /\ l.kind \in {"get_state", "init"})
      BY <1>4, <1>6, <1>7, <1>9, <1>10 DEF Reads, Of
    <3>4. Of(lines'[t], t) BY <1>15, <3>1, <3>2, <3>3 DEF Of
    <3>5. LastOnly(lines'[t], Finals) BY <1>15, <3>1, <3>2 DEF LastOnly, Without
    <3>6. ~IsFinal(l) => Without(lines'[t], Finals) BY <1>10, <1>15, <3>1, <3>2 DEF Without
    <3>7. IsFinal(l) => r.part = said[t] BY <1>9, <1>11 DEF End
    <3> QED BY <1>4, <1>10, <1>13, <1>16, <1>17, <3>2, <3>4, <3>5, <3>6, <3>7 DEF Relays
  <2> QED BY <2>1, <2>2
<1>19. ASSUME ~IsFinal(l) PROVE Reads(t, c)'
  <2>1. Answering(t, c)' BY <1>4, <1>9, <1>13 DEF Reads, Answering
  <2>2. cut[c] => held[t] BY <1>4 DEF Reads
  <2>3. cut'[c] = cut[c] /\ said'[t] = said[t] BY <1>4
  <2>4. ready'[t] <= Len(u) /\ (cut[c] => ready'[t] < Len(u))
    BY <1>4, <1>6, <1>9, <1>13 DEF Reads
  <2>5. cut[c] => held'[t] BY <1>13, <1>19, <2>2
  <2> QED BY <1>9, <1>13, <1>17, <2>1, <2>3, <2>4, <2>5 DEF Reads
<1>20. ASSUME IsFinal(l) PROVE Quiet(c)'
  <2>1. r.kind \in Terminal /\ r.kind \in Kinds \ {"get_state"} /\ 1 \in 1 .. Len(pipe[c])
    BY <1>9, <1>10, <1>11, <1>20 DEF Records, Terminal
  <2>2. prompts[c] = <<>> /\ run[c] = 0 BY <1>4, <1>9, <2>1 DEF Reads, Answering, Without
  <2> QED BY <1>4, <1>11, <1>13, <1>20, <2>2 DEF Quiet
<1> QED BY <1>1, <1>4, <1>11, <1>13, <1>14, <1>18, <1>19, <1>20, ReaderStream

LEMMA StreamEndsStream ==
    ASSUME TypeOK, StreamInv, NEW t \in Turns, StreamEnds(t)
    PROVE  StreamInv'
<1>1. PICK c \in Children : c = on[t] BY OnChildren DEF StreamEnds
<1>2. /\ task[t] = "reading" /\ c \in dead /\ pipe[c] = <<>> /\ Reads(t, c) /\ Relays(t)
      /\ task' = [task EXCEPT ![t] = "error"]
      /\ UNCHANGED <<session, born, dead, prompts, run, said, pipe, ready, cut, on, held, lines,
                     relay, text, cleared>>
  BY <1>1 DEF StreamEnds, StreamInv, Begun, sessionVars, piVars, relayVars
<1>3. task'[t] = "error" /\ \A u \in Turns \ {t} : task'[u] = task[u]
  BY <1>2 DEF TypeOK, StreamTyped
<1>4. c # session BY <1>2 DEF StreamInv, Living
<1>5. ready[t] = 0 BY <1>2 DEF Reads, TypeOK, StreamTyped
<1>6. Relays(t)'
  <2>1. Unread(t) = said[t] BY <1>2 DEF Reads, End
  <2> QED BY <1>2, <1>3, <2>1, RelaysKept
<1>7. StreamsTyped' BY <1>2 DEF StreamInv, StreamsTyped
<1> QED BY <1>1, <1>2, <1>3, <1>4, <1>5, <1>6, <1>7, ReaderStream

\* A step of the relay of one turn, which leaves the reading of the pipes alone.
LEMMA RelayerStream ==
    ASSUME TypeOK, StreamInv, NEW t \in Turns, StreamsTyped',
           relay[t] \notin {"none"}, task[t] # "none", relay'[t] # "none",
           relay'[t] \notin {"reading", "failed"} => task[t] = "done",
           task[t] = "reading" => relay'[t] = "reading" /\ Unread(t)' = Unread(t),
           relay'[t] = "reading" => Relays(t)',
           relay'[t] = "settling" => text'[t] \in Answers(t),
           \A u \in Turns \ {t} : relay'[u] = relay[u] /\ lines'[u] = lines[u] /\ text'[u] = text[u],
           UNCHANGED <<session, born, dead, prompts, run, said, pipe, ready, cut, task, on, held,
                       cleared>>
    PROVE  StreamInv'
<1>1. Living' BY DEF StreamInv, Living
<1>2. Apart' BY DEF StreamInv, Apart
<1>3. SessionServes' BY DEF StreamInv, SessionServes, Quiet
<1>4. Begun' BY DEF StreamInv, Begun
<1>5. ASSUME NEW u \in Turns, task[u] = "reading" PROVE Reads(u, on[u])'
  <2>1. PICK d : d = on[u] OBVIOUS
  <2>2. Reads(u, d) BY <1>5, <2>1 DEF StreamInv
  <2>3. Unread(u)' = Unread(u)
    <3>1. CASE u = t BY <1>5, <3>1
    <3>2. CASE u # t BY <3>2 DEF Unread
    <3> QED BY <3>1, <3>2
  <2>4. Reads(u, d)' BY <2>2, <2>3 DEF Reads, Answering
  <2> QED BY <2>1, <2>4 DEF Reads, Answering
<1>6. ASSUME NEW u \in Turns \ {t}, relay[u] = "reading" PROVE Relays(u)'
  BY <1>6, RelaysKept DEF StreamInv
<1>7. AnswerIsWhole' BY DEF StreamInv, AnswerIsWhole, Answers
<1> QED BY <1>1, <1>2, <1>3, <1>4, <1>5, <1>6, <1>7 DEF StreamInv

\* The line that the relay takes.
LEMMA NextLine ==
    ASSUME TypeOK, StreamInv, NEW t \in Turns, relay[t] = "reading", lines[t] # <<>>,
           NEW l, l = Head(lines[t])
    PROVE  /\ Relays(t) /\ task[t] # "none" /\ l \in Lines /\ l = lines[t][1]
           /\ Len(lines[t]) \in Nat \ {0} /\ Len(text[t]) \in Nat
           /\ l.part = Len(text[t]) + Deltas(l)
           /\ l.turn = t \/ l.kind = "init"
           /\ IsFinal(l) <=> l.kind \in Finals
<1>1. Relays(t) /\ task[t] # "none" BY DEF StreamInv, Begun
<1>2. /\ lines[t] \in Seq(Lines) /\ lines[t] \in Seq(Pieces) /\ Len(text[t]) \in Nat
  BY PiecesTyped DEF StreamInv
<1>3. l = lines[t][1] /\ l \in Lines /\ Len(lines[t]) \in Nat \ {0} BY <1>2, RestOf
<1>4. l.part = Len(text[t]) + Deltas(l) BY <1>1, <1>2, ChainRest DEF Relays
<1>5. l.turn = t \/ l.kind = "init"
  <2>1. 1 \in 1 .. Len(lines[t]) BY <1>3
  <2>2. l.kind # "get_state" BY <1>3 DEF Lines, LineKinds
  <2> QED BY <1>1, <1>3, <2>1, <2>2 DEF Relays, Of
<1>6. IsFinal(l) <=> l.kind \in Finals BY DEF IsFinal, Finals
<1> QED BY <1>1, <1>2, <1>3, <1>4, <1>5, <1>6

LEMMA LineStream ==
    ASSUME TypeOK, StreamInv, NEW t \in Turns, RelayLine(t)
    PROVE  StreamInv'
<1>1. PICK l : l = Head(lines[t]) OBVIOUS
<1>2. PICK u : u = Tail(lines[t]) OBVIOUS
<1>3. /\ relay[t] = "reading" /\ lines[t] # <<>> /\ ~IsFinal(l)
      /\ text' = IF l.kind = "text" THEN [text EXCEPT ![t] = Append(text[t], <<l.turn, l.part>>)]
                 ELSE text
      /\ lines' = [lines EXCEPT ![t] = u]
      /\ UNCHANGED <<session, born, dead, prompts, run, said, pipe, ready, cut, task, on, held,
                     relay, cleared>>
  BY <1>1, <1>2 DEF RelayLine, RelayUnchanged, sessionVars, piVars, readVars
<1>4. /\ Relays(t) /\ task[t] # "none" /\ l \in Lines /\ l = lines[t][1]
      /\ Len(lines[t]) \in Nat \ {0} /\ Len(text[t]) \in Nat
      /\ l.part = Len(text[t]) + Deltas(l)
      /\ l.turn = t \/ l.kind = "init"
      /\ IsFinal(l) <=> l.kind \in Finals
  BY <1>1, <1>3, NextLine
<1>5. /\ lines[t] \in Seq(Lines) /\ lines[t] \in Seq(Pieces) /\ Unread(t) \in Nat
      /\ text[t] \in Seq(Turns \X (0 .. MaxParts))
  BY PiecesTyped DEF StreamInv, StreamsTyped
<1>6. /\ u \in Seq(Lines) /\ Len(u) = Len(lines[t]) - 1
      /\ \A i \in 1 .. Len(u) : u[i] = lines[t][i + 1] /\ i + 1 \in 1 .. Len(lines[t])
  BY <1>2, <1>3, <1>5, RestOf
<1>7. Chain(u, l.part) /\ End(u, l.part) = Unread(t)
  BY <1>1, <1>2, <1>3, <1>4, <1>5, ChainRest DEF Relays, Unread
<1>8. l.kind \in {"text", "block", "init"}
  BY <1>3, <1>4 DEF Lines, LineKinds, Finals
<1>9. /\ lines'[t] = u /\ \A v \in Turns \ {t} : lines'[v] = lines[v] /\ text'[v] = text[v]
      /\ text'[t] = IF l.kind = "text" THEN Append(text[t], <<l.turn, l.part>>) ELSE text[t]
  BY <1>3 DEF StreamInv, StreamsTyped
<1>10. /\ Len(text'[t]) = l.part /\ text'[t] \in Seq(Turns \X (0 .. MaxParts))
       /\ \A i \in 1 .. Len(text'[t]) : text'[t][i] = <<t, i>>
  <2>1. CASE l.kind = "text"
    <3>1. l.turn = t /\ l.part = Len(text[t]) + 1 /\ l.part \in 0 .. MaxParts
      BY <1>4, <2>1 DEF Deltas, Lines
    <3>2. <<l.turn, l.part>> \in Turns \X (0 .. MaxParts) BY <3>1
    <3>3. /\ Len(text'[t]) = Len(text[t]) + 1 /\ text'[t] \in Seq(Turns \X (0 .. MaxParts))
          /\ text'[t][Len(text[t]) + 1] = <<l.turn, l.part>>
          /\ \A i \in 1 .. Len(text[t]) : text'[t][i] = text[t][i]
      BY <1>5, <1>9, <2>1, <3>2
    <3>4. \A i \in 1 .. Len(text[t]) : text[t][i] = <<t, i>> BY <1>4 DEF Relays
    <3> QED BY <1>4, <3>1, <3>3, <3>4
  <2>2. CASE l.kind # "text"
    <3>1. Deltas(l) = 0 BY <1>8, <2>2 DEF Deltas
    <3> QED BY <1>4, <1>5, <1>9, <2>2, <3>1 DEF Relays
  <2> QED BY <2>1, <2>2
<1>11. StreamsTyped' BY <1>3, <1>5, <1>6, <1>9, <1>10 DEF StreamInv, StreamsTyped
<1>12. Unread(t)' = Unread(t) BY <1>7, <1>9, <1>10 DEF Unread
<1>13. Relays(t)'
  <2>1. Of(u, t) BY <1>4, <1>6 DEF Relays, Of
  <2>2. LastOnly(u, Finals)
    <3>1. ASSUME NEW i \in 1 .. Len(u), u[i].kind \in Finals PROVE i = Len(u)
      <4>1. i + 1 = Len(lines[t]) BY <1>4, <1>6, <3>1 DEF Relays, LastOnly
      <4> QED BY <1>4, <1>6, <4>1
    <3> QED BY <3>1 DEF LastOnly
  <2>3. task[t] # "done" => Without(u, Finals) BY <1>4, <1>6 DEF Relays, Without
  <2>4. ASSUME task[t] = "done" PROVE u # <<>> /\ u[Len(u)].kind \in Finals
    <3>1. lines[t][Len(lines[t])].kind \in Finals BY <1>4, <2>4 DEF Relays
    <3>2. Len(lines[t]) # 1 BY <1>3, <1>4, <3>1
    <3>3. Len(u) \in Nat \ {0} /\ Len(u) + 1 = Len(lines[t]) /\ u # <<>>
      <4>1. Len(u) \in Nat \ {0} /\ Len(u) + 1 = Len(lines[t]) BY <1>4, <1>6, <3>2
      <4> QED BY <4>1
    <3> QED BY <1>6, <3>1, <3>3
  <2>5. task[t] # "reading" => Unread(t) = said[t] BY <1>4 DEF Relays
  <2> QED BY <1>3, <1>7, <1>9, <1>10, <1>12, <2>1, <2>2, <2>3, <2>4, <2>5 DEF Relays
<1>14. relay'[t] = "reading" BY <1>3
<1>15. task[t] = "reading" => relay[t] = "reading" BY <1>3
<1> QED BY <1>3, <1>4, <1>9, <1>11, <1>12, <1>13, <1>14, RelayerStream

LEMMA ResultStream ==
    ASSUME TypeOK, StreamInv, NEW t \in Turns, RelayResult(t)
    PROVE  StreamInv'
<1>1. PICK l : l = Head(lines[t]) OBVIOUS
<1>2. PICK u : u = Tail(lines[t]) OBVIOUS
<1>3. PICK result \in ResultTexts(l) :
        text' = [text EXCEPT ![t] = IF text[t] = <<>> THEN result ELSE text[t]]
  BY <1>1 DEF RelayResult
<1>4. /\ relay[t] = "reading" /\ lines[t] # <<>> /\ IsFinal(l)
      /\ lines' = [lines EXCEPT ![t] = u] /\ relay' = [relay EXCEPT ![t] = "settling"]
      /\ UNCHANGED <<session, born, dead, prompts, run, said, pipe, ready, cut, task, on, held,
                     cleared>>
  BY <1>1, <1>2 DEF RelayResult, RelayUnchanged, sessionVars, piVars, readVars
<1>5. /\ Relays(t) /\ task[t] # "none" /\ l \in Lines /\ l = lines[t][1]
      /\ Len(lines[t]) \in Nat \ {0} /\ Len(text[t]) \in Nat
      /\ l.part = Len(text[t]) + Deltas(l)
      /\ l.turn = t \/ l.kind = "init"
      /\ IsFinal(l) <=> l.kind \in Finals
  BY <1>1, <1>4, NextLine
<1>6. l.kind \in Finals /\ l.turn = t /\ Deltas(l) = 0 /\ l.part = Len(text[t])
  <2>1. l.kind \in Finals BY <1>4, <1>5
  <2>2. l.kind # "init" /\ Deltas(l) = 0 BY <2>1 DEF Finals, Deltas
  <2> QED BY <1>5, <2>1, <2>2
<1>7. task[t] = "done" /\ Len(lines[t]) = 1
  <2>1. 1 \in 1 .. Len(lines[t]) BY <1>5
  <2> QED BY <1>5, <1>6, <2>1 DEF Relays, Without, LastOnly
<1>8. Len(text[t]) = said[t]
  <2>1. End(lines[t], Len(text[t])) = l.part BY <1>4, <1>5, <1>7 DEF End
  <2> QED BY <1>5, <1>6, <1>7, <2>1 DEF Relays, Unread
<1>9. /\ relay'[t] = "settling" /\ lines'[t] = u
      /\ text'[t] = IF text[t] = <<>> THEN result ELSE text[t]
      /\ \A v \in Turns \ {t} : relay'[v] = relay[v] /\ lines'[v] = lines[v] /\ text'[v] = text[v]
  BY <1>3, <1>4 DEF StreamInv, StreamsTyped, TypeOK, RelayTyped
<1>10. lines[t] \in Seq(Lines) /\ text[t] \in Seq(Turns \X (0 .. MaxParts)) /\ u \in Seq(Lines)
  <2>1. lines[t] \in Seq(Lines) /\ text[t] \in Seq(Turns \X (0 .. MaxParts))
    BY DEF StreamInv, StreamsTyped
  <2> QED BY <1>2, <1>4, <2>1, RestOf
<1>11. result \in {<<>>, <<<<t, 0>>>>} BY <1>3, <1>6 DEF ResultTexts
<1>12. result \in Seq(Turns \X (0 .. MaxParts))
  <2>1. <<t, 0>> \in Turns \X (0 .. MaxParts) BY Numbers
  <2>2. ASSUME NEW p \in Turns \X (0 .. MaxParts) PROVE <<p>> \in Seq(Turns \X (0 .. MaxParts))
    OBVIOUS
  <2>3. <<>> \in Seq(Turns \X (0 .. MaxParts)) OBVIOUS
  <2> QED BY <1>11, <2>1, <2>2, <2>3
<1>13. StreamsTyped'
  <2>1. text'[t] \in Seq(Turns \X (0 .. MaxParts)) BY <1>9, <1>10, <1>12
  <2>2. text' \in [Turns -> Seq(Turns \X (0 .. MaxParts))]
    BY <1>3, <1>10, <1>12 DEF StreamInv, StreamsTyped
  <2>3. lines' \in [Turns -> Seq(Lines)] BY <1>4, <1>10 DEF StreamInv, StreamsTyped
  <2> QED BY <2>2, <2>3 DEF StreamsTyped
<1>14. text'[t] \in Answers(t)
  <2>1. CASE text[t] = <<>>
    <3>1. said[t] = 0 BY <1>8, <2>1
    <3>2. <<>> = [i \in 1 .. 0 |-> <<t, i>>] OBVIOUS
    <3>3. <<>> \in Answers(t) /\ <<<<t, 0>>>> \in Answers(t) BY <3>1, <3>2 DEF Answers
    <3> QED BY <1>9, <1>11, <2>1, <3>3
  <2>2. CASE text[t] # <<>>
    <3>1. \A i \in 1 .. Len(text[t]) : text[t][i] = <<t, i>> BY <1>5 DEF Relays
    <3>2. text[t] = [i \in 1 .. Len(text[t]) |-> <<t, i>>]
      <4>1. text[t] \in [1 .. Len(text[t]) -> Turns \X (0 .. MaxParts)] BY <1>10
      <4>2. PICK n : n = Len(text[t]) OBVIOUS
      <4>3. text[t] = [i \in 1 .. n |-> text[t][i]] BY <4>1, <4>2
      <4> QED BY <3>1, <4>2, <4>3
    <3> QED BY <1>8, <1>9, <2>2, <3>2 DEF Answers
  <2> QED BY <2>1, <2>2
<1> QED BY <1>4, <1>5, <1>7, <1>9, <1>13, <1>14, RelayerStream

LEMMA ThrowStream ==
    ASSUME TypeOK, StreamInv, NEW t \in Turns, RelayThrows(t)
    PROVE  StreamInv'
<1>1. /\ relay[t] = "reading" /\ task[t] = "error"
      /\ relay' = [relay EXCEPT ![t] = "failed"] /\ text' = [text EXCEPT ![t] = <<>>]
      /\ UNCHANGED <<session, born, dead, prompts, run, said, pipe, ready, cut, task, on, held,
                     lines, cleared>>
  BY DEF RelayThrows, RelayUnchanged, sessionVars, piVars, readVars
<1>2. /\ relay'[t] = "failed"
      /\ \A v \in Turns \ {t} : relay'[v] = relay[v] /\ lines'[v] = lines[v] /\ text'[v] = text[v]
  BY <1>1 DEF StreamInv, StreamsTyped, TypeOK, RelayTyped
<1>3. StreamsTyped'
  <2>1. <<>> \in Seq(Turns \X (0 .. MaxParts)) OBVIOUS
  <2> QED BY <1>1, <2>1 DEF StreamInv, StreamsTyped
<1> QED BY <1>1, <1>2, <1>3, RelayerStream

LEMMA SendStream ==
    ASSUME TypeOK, Delivery, StreamInv, NEW t \in Turns,
           \/ Settle(t) \/ SendChunk(t) \/ ReadOutbox(t) \/ SendFile(t) \/ FileSent(t)
           \/ RelayEnds(t)
    PROVE  StreamInv'
<1>1. /\ UNCHANGED <<session, born, dead, prompts, run, said, pipe, ready, cut, task, on, held,
                     lines, cleared>>
  BY DEF Settle, SendChunk, ReadOutbox, SendFile, FileSent, RelayEnds, DeliveryUnchanged,
         sessionVars, piVars, readVars
<1>2. relay[t] \in {"settling", "sending", "continuing", "outbox"}
  BY DEF Settle, SendChunk, ReadOutbox, SendFile, FileSent, RelayEnds, Delivery, AwaitedOnce
<1>3. /\ relay'[t] \in {"sending", "continuing", "outbox", "done", "failed"}
      /\ \A u \in Turns \ {t} : relay'[u] = relay[u]
  <2>1. CASE Settle(t) \/ SendChunk(t) \/ ReadOutbox(t) \/ RelayEnds(t)
    BY <2>1 DEF Settle, SendChunk, ReadOutbox, RelayEnds, TypeOK, RelayTyped
  <2>2. CASE SendFile(t) BY <2>2 DEF SendFile
  <2>3. CASE FileSent(t) BY <2>3 DEF FileSent, Delivery, AwaitedOnce
  <2> QED BY <2>1, <2>2, <2>3
<1>4. text' = text \/ text' = [text EXCEPT ![t] = <<>>]
  BY DEF Settle, SendChunk, ReadOutbox, SendFile, FileSent, RelayEnds
<1>5. StreamsTyped'
  <2>1. <<>> \in Seq(Turns \X (0 .. MaxParts)) OBVIOUS
  <2> QED BY <1>1, <1>4, <2>1 DEF StreamInv, StreamsTyped
<1>6. \A u \in Turns \ {t} : text'[u] = text[u] BY <1>4 DEF StreamInv, StreamsTyped
<1>7. task[t] = "done" BY <1>2 DEF StreamInv, Begun
<1> QED BY <1>1, <1>2, <1>3, <1>5, <1>6, <1>7, RelayerStream

LEMMA StreamInit == Init => StreamInv
<1> SUFFICES ASSUME Init PROVE StreamInv OBVIOUS
<1>1. StreamsTyped BY DEF Init, StreamsTyped
<1>2. Living /\ Apart /\ SessionServes /\ Begun
  BY DEF Init, Living, Apart, SessionServes, Begun, Children
<1>3. AnswerIsWhole BY DEF Init, AnswerIsWhole
<1> QED BY <1>1, <1>2, <1>3 DEF Init, StreamInv

LEMMA StreamStep == TypeOK /\ Delivery /\ StreamInv /\ [Next]_vars => StreamInv'
<1> SUFFICES ASSUME TypeOK, Delivery, StreamInv, [Next]_vars PROVE StreamInv' OBVIOUS
<1>1. CASE (\E t \in Turns : DraftTimerFires(t)) \/ UNCHANGED vars
  <2>1. UNCHANGED <<session, born, dead, prompts, run, said, pipe, ready, cut, task, on, held,
                    lines, relay, text, cleared>>
    BY <1>1 DEF DraftTimerFires, vars, sessionVars, piVars, readVars, relayVars
  <2> QED BY <2>1 DEF StreamInv, StreamsTyped, Living, Apart, SessionServes, Quiet, Begun, Reads,
                      Answering, Relays, Unread, AnswerIsWhole, Answers
<1>2. CASE Next
  BY <1>1, <1>2, BeginStream, PiStream, EndStream, ChunkStream, RecordStream, StreamEndsStream,
     LineStream, ResultStream, ThrowStream, SendStream
  DEF Next
<1> QED BY <1>1, <1>2

\* The inductive invariant of the stream, on which the next one rests.
THEOREM StreamAlways == Spec => []StreamInv
  BY TypeCorrect, DeliveryAlways, StreamInit, StreamStep, PTL DEF Spec

\* However many turns, subprocesses, deltas and chunks there are, and wherever a
\* subprocess dies or a reader stops: the answer a turn delivers is its own and whole.
THEOREM AnswersAreWhole == Spec => []AnswerIsWhole
<1>1. StreamInv => AnswerIsWhole BY DEF StreamInv
<1> QED BY <1>1, StreamAlways, PTL

-----------------------------------------------------------------------------
(* PiTurn implements TurnReply.                                            *)

StageMap == [t \in Turns |-> StageOf(t)]
EndedMap == [t \in Turns |-> EndedOf(t)]
ShownMap == [t \in Turns |-> ShownOf(t)]
ReplyMap == <<StageMap, said, EndedMap, ShownMap, draftTimer>>

LEMMA ChainRises ==
    ASSUME NEW s \in Seq(Pieces), s # <<>>, NEW b \in Nat, Chain(s, b)
    PROVE  s[1].part <= End(s, b)
<1> DEFINE J == {j \in 1 .. Len(s) : s[j].part <= s[Len(s)].part}
           R == OpToRel(<, Nat)
<1>1. Len(s) \in 1 .. Len(s) /\ \A i \in 1 .. Len(s) : s[i].part \in Nat
  <2>1. Len(s) \in 1 .. Len(s) /\ \A i \in 1 .. Len(s) : s[i] \in Pieces OBVIOUS
  <2> QED BY <2>1, Numbers DEF Pieces
<1>2. J \subseteq Nat /\ J # {} BY <1>1
<1>3. \E j \in J : \A k \in J : ~ (<<k, j>> \in R)
  <2>1. IsWellFoundedOn(R, Nat) BY NatLessThanWellFounded
  <2> HIDE DEF R, J
  <2> QED BY <1>2, <2>1, WFMin
<1>4. PICK j \in J : \A k \in J : ~ (k < j) BY <1>2, <1>3 DEF OpToRel
<1>5. j = 1
  <2>1. SUFFICES ASSUME j # 1 PROVE FALSE OBVIOUS
  <2>2. j - 1 \in 1 .. Len(s) /\ s[j].part = s[j - 1].part + Deltas(s[j])
    BY <1>1, <2>1 DEF Chain
  <2>3. Deltas(s[j]) \in Nat BY DEF Deltas
  <2>4. j - 1 \in J BY <1>1, <2>2, <2>3
  <2> QED BY <1>2, <1>4, <2>4
<1> QED BY <1>4, <1>5 DEF End

\* The lines that the relay has not taken are of what Pi has said.
LEMMA ReadIsSaid ==
    ASSUME TypeOK, StreamInv, NEW t \in Turns, relay[t] = "reading"
    PROVE  Unread(t) <= said[t]
<1>1. Relays(t) /\ Unread(t) \in Nat /\ said[t] \in Nat
  BY PiecesTyped, Numbers DEF StreamInv, TypeOK, SessionTyped
<1>2. CASE task[t] = "reading"
  <2>1. PICK c \in Children : c = on[t] BY <1>2, OnChildren
  <2>2. Reads(t, c) BY <1>2, <2>1 DEF StreamInv
  <2>3. pipe[c] \in Seq(Pieces) BY PiecesTyped DEF StreamInv
  <2>4. CASE pipe[c] = <<>> BY <1>1, <2>2, <2>4 DEF Reads, End
  <2>5. CASE pipe[c] # <<>>
    <3>1. pipe[c][1].part <= said[t] BY <1>1, <2>2, <2>3, <2>5, ChainRises DEF Reads
    <3>2. 1 \in 1 .. Len(pipe[c]) BY <2>3, <2>5
    <3>3. pipe[c][1].part = Unread(t) + Deltas(pipe[c][1]) BY <2>2, <3>2 DEF Reads, Chain
    <3> QED BY <1>1, <3>1, <3>3 DEF Deltas
  <2> QED BY <2>4, <2>5
<1>3. CASE task[t] # "reading" BY <1>1, <1>3 DEF Relays
<1> QED BY <1>2, <1>3

\* What the rest of a step leaves alone of the other turns.
OnlyTurn(t) ==
    \A u \in Turns \ {t} :
        relay'[u] = relay[u] /\ text'[u] = text[u] /\ said'[u] = said[u] /\ EndedOf(u)' = EndedOf(u)

LEMMA ReplyStep ==
    ASSUME NEW t \in Turns, OnlyTurn(t)
    PROVE  /\ StageMap' = [StageMap EXCEPT ![t] = StageOf(t)'] /\ StageMap[t] = StageOf(t)
           /\ EndedMap' = [EndedMap EXCEPT ![t] = EndedOf(t)'] /\ EndedMap[t] = EndedOf(t)
           /\ ShownMap' = [ShownMap EXCEPT ![t] = ShownOf(t)'] /\ ShownMap[t] = ShownOf(t)
<1>1. \A u \in Turns \ {t} : StageOf(u)' = StageOf(u) BY DEF OnlyTurn, StageOf
<1>2. \A u \in Turns \ {t} : ShownOf(u)' = ShownOf(u) BY DEF OnlyTurn, ShownOf
<1>3. \A u \in Turns \ {t} : EndedOf(u)' = EndedOf(u) BY DEF OnlyTurn
<1>4. StageMap' = [StageMap EXCEPT ![t] = StageOf(t)'] BY <1>1 DEF StageMap
<1>5. ShownMap' = [ShownMap EXCEPT ![t] = ShownOf(t)'] BY <1>2 DEF ShownMap
<1>6. EndedMap' = [EndedMap EXCEPT ![t] = EndedOf(t)'] BY <1>3 DEF EndedMap
<1> QED BY <1>4, <1>5, <1>6 DEF StageMap, ShownMap, EndedMap

\* A step that changes nothing of what the chat is promised.
LEMMA ReplyStutters ==
    ASSUME \A u \in Turns : StageOf(u)' = StageOf(u) /\ ShownOf(u)' = ShownOf(u)
                            /\ EndedOf(u)' = EndedOf(u),
           UNCHANGED <<said, draftTimer>>
    PROVE  UNCHANGED ReplyMap
<1>1. UNCHANGED StageMap BY DEF StageMap
<1>2. UNCHANGED ShownMap BY DEF ShownMap
<1>3. UNCHANGED EndedMap BY DEF EndedMap
<1> QED BY <1>1, <1>2, <1>3 DEF ReplyMap

\* Nothing but a pipe changes, and only the turn that reads it can see that.
LEMMA EndedElsewhere ==
    ASSUME TypeOK, StreamInv, NEW c \in Children, NEW u \in Turns, task'[u] = task[u],
           on'[u] = on[u], task[u] = "reading" => on[u] # c,
           \A d \in Children \ {c} : pipe'[d] = pipe[d]
    PROVE  EndedOf(u)' = EndedOf(u)
<1>1. CASE task[u] = "reading"
  <2>1. PICK d \in Children \ {c} : d = on[u] BY <1>1, OnChildren
  <2> QED BY <1>1, <2>1 DEF EndedOf
<1>2. CASE task[u] # "reading" BY <1>2 DEF EndedOf
<1> QED BY <1>1, <1>2

LEMMA EndedEmit ==
    ASSUME TypeOK, StreamInv, NEW c \in Children, NEW r, Emit(c, r), UNCHANGED <<task, on>>,
           NEW u \in Turns
    PROVE  IF task[u] = "reading" /\ on[u] = c /\ r.kind \in Terminal
           THEN EndedOf(u)' = TRUE ELSE EndedOf(u)' = EndedOf(u)
<1>1. /\ pipe'[c] = Append(pipe[c], r) /\ \A d \in Children \ {c} : pipe'[d] = pipe[d]
      /\ pipe[c] \in Seq(Records)
  BY DEF Emit, TypeOK, StreamTyped, Records
<1>2. CASE task[u] = "reading" /\ on[u] = c
  <2>1. /\ DOMAIN pipe'[c] = 1 .. Len(pipe[c]) + 1 /\ DOMAIN pipe[c] = 1 .. Len(pipe[c])
        /\ Len(pipe[c]) \in Nat
        /\ pipe'[c][Len(pipe[c]) + 1] = r
        /\ \A i \in 1 .. Len(pipe[c]) : pipe'[c][i] = pipe[c][i]
    BY <1>1
  <2>2. (\E i \in DOMAIN pipe'[c] : pipe'[c][i].kind \in Terminal)
        <=> (\E i \in DOMAIN pipe[c] : pipe[c][i].kind \in Terminal) \/ r.kind \in Terminal
    <3>1. PICK n \in Nat : n = Len(pipe[c]) BY <2>1
    <3>2. \A i : i \in 1 .. n + 1 <=> (i \in 1 .. n \/ i = n + 1) BY <3>1
    <3> QED BY <2>1, <3>1, <3>2
  <2>3. EndedOf(u)' <=> EndedOf(u) \/ r.kind \in Terminal BY <1>2, <2>2 DEF EndedOf
  <2>4. EndedOf(u) \in BOOLEAN /\ EndedOf(u)' \in BOOLEAN BY DEF EndedOf
  <2> QED BY <1>2, <2>3, <2>4
<1>3. CASE ~(task[u] = "reading" /\ on[u] = c)
  <2>1. EndedOf(u)' = EndedOf(u) BY <1>1, <1>3, EndedElsewhere
  <2> QED BY <1>3, <2>1
<1> QED BY <1>2, <1>3

LEMMA Unended ==
    ASSUME NEW t \in Turns, NEW c, task[t] = "reading", on[t] = c, Without(pipe[c], Terminal),
           pipe[c] \in Seq(Records)
    PROVE  ~EndedOf(t)
<1>1. DOMAIN pipe[c] = 1 .. Len(pipe[c]) OBVIOUS
<1> QED BY <1>1 DEF EndedOf, Without

LEMMA PiReplies ==
    ASSUME TypeOK, StreamInv, NEW c \in Children,
           PiBegins(c) \/ PiSays(c) \/ PiWorks(c) \/ PiPlacesFile(c) \/ PiEnds(c)
    PROVE  [Reply!ReplyNext]_ReplyMap
<1>1. UNCHANGED <<task, on, relay, text, draftTimer>>
  BY DEF PiBegins, PiSays, PiWorks, PiPlacesFile, PiEnds, PiUnchanged, relayVars
<1>2. ASSUME UNCHANGED said, \A u \in Turns : EndedOf(u)' = EndedOf(u)
      PROVE  UNCHANGED ReplyMap
  BY <1>1, <1>2, ReplyStutters DEF StageOf, ShownOf
<1>3. ASSUME run[c] # 0 \/ prompts[c] # <<>>
      PROVE  \E t \in Turns : /\ task[t] = "reading" /\ on[t] = c /\ relay[t] = "reading"
                              /\ \A u \in Turns \ {t} : ~(task[u] = "reading" /\ on[u] = c)
                              /\ run[c] # 0 => run[c] = t
                              /\ ~EndedOf(t)
  <2>1. PICK t \in Turns : task[t] = "reading" /\ on[t] = c /\ Reads(t, c) BY <1>3, Serves
  <2>2. Without(pipe[c], Terminal) /\ (run[c] # 0 => run[c] = t)
    BY <1>3, <2>1 DEF Reads, Answering, Without, Kinds, Terminal
  <2>3. pipe[c] \in Seq(Records) BY DEF TypeOK, StreamTyped, Records
  <2>4. ~EndedOf(t) BY <2>1, <2>2, <2>3, Unended
  <2> QED BY <2>1, <2>2, <2>4 DEF StreamInv, Begun, Apart
<1>4. ASSUME NEW r, Emit(c, r), UNCHANGED said, r.kind \in Terminal, run[c] # 0 \/ prompts[c] # <<>>
      PROVE  Reply!ReplyNext
  <2>1. PICK t \in Turns : /\ task[t] = "reading" /\ on[t] = c /\ relay[t] = "reading"
                           /\ \A u \in Turns \ {t} : ~(task[u] = "reading" /\ on[u] = c)
                           /\ ~EndedOf(t)
    BY <1>3, <1>4
  <2>2. \A u \in Turns \ {t} : EndedOf(u)' = EndedOf(u) BY <1>1, <1>4, <2>1, EndedEmit
  <2>3. EndedOf(t)' = TRUE BY <1>1, <1>4, <2>1, EndedEmit
  <2>4. OnlyTurn(t) BY <1>1, <1>4, <2>2 DEF OnlyTurn
  <2>5. StageOf(t)' = StageOf(t) /\ ShownOf(t)' = ShownOf(t) /\ StageOf(t) = "open"
    BY <1>1, <1>4, <2>1 DEF StageOf, ShownOf
  <2>6. UNCHANGED <<StageMap, ShownMap, said, draftTimer>>
    BY <1>1, <1>4, <2>4, <2>5, ReplyStep DEF StageMap, ShownMap
  <2>7. StageMap[t] = "open" /\ ~EndedMap[t] /\ EndedMap' = [EndedMap EXCEPT ![t] = TRUE]
    BY <2>1, <2>3, <2>4, <2>5, ReplyStep
  <2>8. Reply!EndRun(t) BY <2>6, <2>7 DEF Reply!EndRun, StageMap, EndedMap, ShownMap
  <2> QED BY <2>8 DEF Reply!ReplyNext
<1>5. CASE PiBegins(c)
  <2>1. UNCHANGED said /\ prompts[c] # <<>> BY <1>5 DEF PiBegins
  <2>2. CASE UNCHANGED pipe
    <3>1. \A u \in Turns : EndedOf(u)' = EndedOf(u) BY <1>1, <2>2 DEF EndedOf
    <3> QED BY <1>2, <2>1, <3>1
  <2>3. CASE Emit(c, Record("prompt_rejected", Head(prompts[c]), 0))
    <3>1. PICK r : r = Record("prompt_rejected", Head(prompts[c]), 0) OBVIOUS
    <3>2. r.kind \in Terminal BY <3>1 DEF Record, Terminal
    <3> QED BY <1>4, <2>1, <2>3, <3>1, <3>2
  <2> QED BY <1>5, <2>2, <2>3 DEF PiBegins
<1>6. CASE PiSays(c)
  <2>1. PICK t \in Turns : /\ task[t] = "reading" /\ on[t] = c /\ relay[t] = "reading"
                           /\ run[c] = t /\ ~EndedOf(t)
    BY <1>3, <1>6 DEF PiSays
  <2>2. PICK r : r = Record("text_delta", t, said[t] + 1) OBVIOUS
  <2>3. /\ said' = [said EXCEPT ![t] = said[t] + 1] /\ Emit(c, r) /\ r.kind \notin Terminal
    BY <1>6, <2>1, <2>2 DEF PiSays, Record, Terminal
  <2>4. \A u \in Turns : EndedOf(u)' = EndedOf(u) BY <1>1, <2>3, EndedEmit
  <2>5. OnlyTurn(t) BY <1>1, <2>3, <2>4 DEF OnlyTurn, TypeOK, SessionTyped
  <2>6. StageOf(t)' = StageOf(t) /\ ShownOf(t)' = ShownOf(t) /\ StageOf(t) = "open"
    BY <1>1, <2>1 DEF StageOf, ShownOf
  <2>7. UNCHANGED <<StageMap, EndedMap, ShownMap, draftTimer>>
    BY <1>1, <2>4, <2>5, <2>6, ReplyStep DEF StageMap, EndedMap, ShownMap
  <2>8. StageMap[t] = "open" /\ ~EndedMap[t] BY <2>1, <2>5, <2>6, ReplyStep
  <2>9. Reply!Say(t) BY <2>3, <2>7, <2>8 DEF Reply!Say, StageMap, EndedMap, ShownMap
  <2> QED BY <2>9 DEF Reply!ReplyNext
<1>7. CASE PiWorks(c)
  <2>1. PICK kind \in Noise : Emit(c, Record(kind, run[c], said[run[c]])) BY <1>7 DEF PiWorks
  <2>2. PICK r : r = Record(kind, run[c], said[run[c]]) OBVIOUS
  <2>3. r.kind \notin Terminal BY <2>2 DEF Record, Terminal, Noise
  <2>4. \A u \in Turns : EndedOf(u)' = EndedOf(u) BY <1>1, <2>1, <2>2, <2>3, EndedEmit
  <2> QED BY <1>2, <1>7, <2>4 DEF PiWorks
<1>8. CASE PiPlacesFile(c)
  <2>1. UNCHANGED <<said, pipe>> BY <1>8 DEF PiPlacesFile, piVars
  <2>2. \A u \in Turns : EndedOf(u)' = EndedOf(u) BY <1>1, <2>1 DEF EndedOf
  <2> QED BY <1>2, <2>1, <2>2
<1>9. CASE PiEnds(c)
  <2>1. PICK kind \in {"agent_end", "error"} : Emit(c, Record(kind, run[c], said[run[c]]))
    BY <1>9 DEF PiEnds
  <2>2. PICK r : r = Record(kind, run[c], said[run[c]]) OBVIOUS
  <2>3. r.kind \in Terminal BY <2>2 DEF Record, Terminal
  <2> QED BY <1>4, <1>9, <2>1, <2>2, <2>3 DEF PiEnds
<1> QED BY <1>5, <1>6, <1>7, <1>8, <1>9

LEMMA BeginReplies ==
    ASSUME TypeOK, Delivery, StreamInv, NEW t \in Turns,
           ReuseSession(t) \/ SpawnSession(t) \/ TurnFailsToStart(t)
    PROVE  [Reply!ReplyNext]_ReplyMap
<1>1. /\ relay[t] = "none" /\ UNCHANGED <<said, text, draftTimer>>
      /\ relay' = [relay EXCEPT ![t] = IF TurnFailsToStart(t) THEN "failed" ELSE "reading"]
  <2>1. CASE TurnFailsToStart(t)
    BY <2>1 DEF TurnFailsToStart, Begins, piVars
  <2>2. CASE ReuseSession(t) \/ SpawnSession(t)
    <3>1. relay[t] = "none" /\ UNCHANGED <<said, text, draftTimer>>
          /\ relay' = [relay EXCEPT ![t] = "reading"]
      BY <2>2 DEF ReuseSession, SpawnSession, SendPrompt, Begins
    <3>2. ~TurnFailsToStart(t)
      <4>1. relay'[t] = "reading" BY <3>1 DEF TypeOK, RelayTyped
      <4>2. TurnFailsToStart(t) => relay'[t] = "failed"
        BY DEF TurnFailsToStart, TypeOK, RelayTyped
      <4> QED BY <4>1, <4>2
    <3> QED BY <3>1, <3>2
  <2> QED BY <2>1, <2>2
<1>2. task[t] = "none" /\ text[t] = <<>> BY <1>1 DEF StreamInv, Begun
<1>3. relay'[t] \in {"reading", "failed"} /\ \A u \in Turns \ {t} : relay'[u] = relay[u]
  BY <1>1 DEF TypeOK, RelayTyped
<1>4. /\ EndedOf(t)' = EndedOf(t)
      /\ \A u \in Turns \ {t} : EndedOf(u)' = EndedOf(u)
  <2>1. CASE TurnFailsToStart(t) BY <2>1 DEF TurnFailsToStart, readVars, EndedOf
  <2>2. ASSUME NEW c \in Children, SendPrompt(t, c), Without(pipe'[c], Terminal),
               pipe'[c] \in Seq(Records), \A u \in Turns : task[u] = "reading" => on[u] # c,
               \A d \in Children \ {c} : pipe'[d] = pipe[d]
        PROVE  EndedOf(t)' = EndedOf(t) /\ \A u \in Turns \ {t} : EndedOf(u)' = EndedOf(u)
    <3>1. /\ task'[t] = "reading" /\ on'[t] = c
          /\ \A u \in Turns \ {t} : task'[u] = task[u] /\ on'[u] = on[u]
      BY <2>2 DEF SendPrompt, TypeOK, StreamTyped
    <3>2. ~EndedOf(t) BY <1>2 DEF EndedOf
    <3>3. ~EndedOf(t)'
      <4>1. DOMAIN pipe'[c] = 1 .. Len(pipe'[c]) BY <2>2
      <4> QED BY <2>2, <3>1, <4>1 DEF EndedOf, Without
    <3>4. \A u \in Turns \ {t} : EndedOf(u)' = EndedOf(u) BY <2>2, <3>1, EndedElsewhere
    <3>5. EndedOf(t) \in BOOLEAN /\ EndedOf(t)' \in BOOLEAN BY DEF EndedOf
    <3> QED BY <3>2, <3>3, <3>4, <3>5
  <2>3. CASE ReuseSession(t)
    <3>1. PICK c \in Children : c = session BY <2>3, SessionQuiet DEF ReuseSession
    <3>2. /\ Begins(t) /\ session # 0 /\ SendPrompt(t, c) /\ UNCHANGED pipe
      BY <2>3, <3>1 DEF ReuseSession
    <3>3. pipe[c] = <<>> /\ \A u \in Turns : task[u] = "reading" => on[u] # c
      BY <3>1, <3>2, SessionQuiet DEF Quiet
    <3>4. pipe'[c] \in Seq(Records) /\ Without(pipe'[c], Terminal) BY <3>2, <3>3 DEF Without
    <3> QED BY <2>2, <3>2, <3>3, <3>4
  <2>4. CASE SpawnSession(t)
    <3>1. PICK c \in Children : c = born + 1 BY <2>4 DEF SpawnSession
    <3>2. PICK late \in {<<>>, <<Record("get_state", 0, 0)>>} :
            SendPrompt(t, c) /\ pipe' = [pipe EXCEPT ![c] = late]
      BY <2>4, <3>1 DEF SpawnSession
    <3>3. pipe'[c] = late /\ \A d \in Children \ {c} : pipe'[d] = pipe[d]
      BY <3>2 DEF TypeOK, StreamTyped
    <3>4. late \in Seq(Records) /\ Without(late, Terminal)
      <4>1. Record("get_state", 0, 0) \in Records /\ Record("get_state", 0, 0).kind \notin Terminal
        BY Numbers, RecordTyped DEF Record, Records, Kinds, Terminal
      <4>2. PICK r \in Records : r = Record("get_state", 0, 0) BY <4>1
      <4>3. /\ <<r>> \in Seq(Records) /\ Len(<<r>>) = 1 /\ <<r>>[1] = r /\ Len(<<>>) = 0
            /\ <<>> \in Seq(Records)
        OBVIOUS
      <4>4. CASE late = <<>> BY <4>3, <4>4 DEF Without
      <4>5. CASE late = <<r>> BY <4>1, <4>2, <4>3, <4>5 DEF Without
      <4> QED BY <3>2, <4>2, <4>4, <4>5
    <3>5. \A u \in Turns : task[u] = "reading" => on[u] # c
      <4>1. \A u \in Turns : task[u] = "reading" => on[u] \in 1 .. born BY OnChildren
      <4>2. born \in Nat BY Numbers DEF TypeOK, SessionTyped
      <4> QED BY <3>1, <4>1, <4>2
    <3> QED BY <2>2, <3>2, <3>3, <3>4, <3>5
  <2> QED BY <2>1, <2>3, <2>4
<1>5. OnlyTurn(t) BY <1>1, <1>3, <1>4 DEF OnlyTurn
<1>6. /\ StageOf(t) = "none" /\ StageOf(t)' \in {"open", "failed"}
      /\ ShownOf(t)' = ShownOf(t)
  BY <1>1, <1>2, <1>3 DEF StageOf, ShownOf
<1>7. UNCHANGED <<said, EndedMap, ShownMap, draftTimer>>
  BY <1>1, <1>4, <1>5, <1>6, ReplyStep DEF EndedMap, ShownMap
<1>8. Reply!Goes(t, "none", "open") \/ Reply!Goes(t, "none", "failed")
  <2>1. StageMap[t] = "none" /\ StageMap' = [StageMap EXCEPT ![t] = StageOf(t)']
    BY <1>5, <1>6, ReplyStep
  <2> QED BY <1>6, <2>1 DEF Reply!Goes, StageMap
<1>9. Reply!Begin(t) BY <1>7, <1>8 DEF Reply!Begin, EndedMap, ShownMap
<1> QED BY <1>9 DEF Reply!ReplyNext

\* Reading, and the end of a session, say nothing to the chat.
LEMMA ReadReplies ==
    ASSUME TypeOK, StreamInv, NEW t \in Turns, ReadChunk(t) \/ ReadRecord(t) \/ StreamEnds(t)
    PROVE  UNCHANGED ReplyMap
<1>1. PICK c \in Children : c = on[t] BY OnChildren DEF ReadChunk, ReadRecord, StreamEnds
<1>2. /\ task[t] = "reading" /\ Reads(t, c)
      /\ UNCHANGED <<said, on, relay, text, draftTimer>>
  BY <1>1 DEF ReadChunk, ReadRecord, StreamEnds, StreamInv, relayVars, piVars
<1>3. /\ \A u \in Turns \ {t} : task'[u] = task[u]
      /\ \A d \in Children \ {c} : pipe'[d] = pipe[d]
  BY <1>1 DEF ReadChunk, ReadRecord, StreamEnds, TypeOK, StreamTyped
<1>4. \A u \in Turns \ {t} : EndedOf(u)' = EndedOf(u)
  BY <1>1, <1>2, <1>3, EndedElsewhere DEF StreamInv, Apart
<1>5. pipe[c] \in Seq(Records) /\ DOMAIN pipe[c] = 1 .. Len(pipe[c]) /\ Len(pipe[c]) \in Nat
      /\ ready[t] \in Nat
  <2>1. pipe[c] \in Seq(Records) /\ ready[t] \in Nat BY DEF TypeOK, StreamTyped, Records
  <2> QED BY <2>1
<1>6. ASSUME pipe[c] # <<>>, pipe'[c] = SubSeq(pipe[c], 2, Len(pipe[c])), task'[t] = task[t],
             pipe[c][1].kind \notin Terminal
      PROVE  EndedOf(t)' <=> EndedOf(t)
  <2>1. PICK n \in Nat : n = Len(pipe[c]) - 1
    <3>1. Len(pipe[c]) \in Nat \ {0} BY <1>5, <1>6, RestOf
    <3> QED BY <3>1
  <2>2. /\ DOMAIN pipe'[c] = 1 .. n /\ \A i \in 1 .. n : pipe'[c][i] = pipe[c][i + 1]
    <3>1. /\ pipe'[c] \in Seq(Records) /\ Len(pipe'[c]) = n
          /\ \A i \in 1 .. n : pipe'[c][i] = pipe[c][i + 1]
      BY <1>5, <1>6, <2>1, RestOf
    <3> QED BY <3>1
  <2>3. \A i \in 1 .. n + 1 : i = 1 \/ i - 1 \in 1 .. n BY <2>1
  <2>4. \A i \in 1 .. n : i + 1 \in 1 .. n + 1 /\ (i + 1) - 1 = i BY <2>1
  <2>5. \A i \in 1 .. n + 1 : i # 1 => pipe'[c][i - 1] = pipe[c][i]
    BY <2>2, <2>3
  <2>6. n + 1 = Len(pipe[c]) BY <1>5, <2>1
  <2>7. (\E i \in 1 .. n : pipe'[c][i].kind \in Terminal)
        <=> (\E i \in 1 .. n + 1 : pipe[c][i].kind \in Terminal)
    BY <1>6, <2>2, <2>3, <2>4, <2>5
  <2> QED BY <1>1, <1>2, <1>5, <1>6, <2>2, <2>6, <2>7 DEF EndedOf
<1>7. EndedOf(t)' <=> EndedOf(t)
  <2>1. CASE ReadChunk(t)
    <3>1. PICK malformed : malformed = IF cut[c] /\ ~held[t] THEN 1 ELSE 0 OBVIOUS
    <3>2. PICK n \in 0 .. Len(pipe[c]) :
            pipe' = [pipe EXCEPT ![c] = IF n = 0 THEN pipe[c]
                                        ELSE SubSeq(pipe[c], malformed + 1, Len(pipe[c]))]
      BY <1>1, <2>1, <3>1 DEF ReadChunk
    <3>3. /\ task' = task
          /\ pipe'[c] = IF n = 0 THEN pipe[c] ELSE SubSeq(pipe[c], malformed + 1, Len(pipe[c]))
      BY <2>1, <3>2 DEF ReadChunk, TypeOK, StreamTyped
    <3>4. CASE pipe'[c] = pipe[c] BY <1>1, <1>2, <3>3, <3>4 DEF EndedOf
    <3>5. CASE n # 0 /\ malformed = 1
      <4>1. pipe[c][1].kind = "get_state" BY <1>2, <3>1, <3>5 DEF Reads
      <4>2. pipe[c] # <<>> BY <1>5, <3>2, <3>5
      <4> QED BY <1>6, <3>3, <3>5, <4>1, <4>2 DEF Terminal
    <3>6. CASE malformed = 0
      <4>1. SubSeq(pipe[c], 1, Len(pipe[c])) = pipe[c] BY <1>5
      <4>2. n # 0 => pipe'[c] = SubSeq(pipe[c], 1, Len(pipe[c])) BY <3>3, <3>6
      <4>3. n = 0 => pipe'[c] = pipe[c] BY <3>3
      <4> QED BY <3>4, <4>1, <4>2, <4>3
    <3> QED BY <3>1, <3>3, <3>4, <3>5, <3>6
  <2>2. CASE ReadRecord(t)
    <3>1. PICK l : l = [Head(pipe[c]) EXCEPT !.kind = Parse(@)] OBVIOUS
    <3>2. PICK r : r = Head(pipe[c]) OBVIOUS
    <3>3. pipe[c] # <<>> /\ ready[t] > 0 /\ 1 \in 1 .. Len(pipe[c])
      BY <1>2, <1>5, <2>2 DEF ReadRecord, Reads
    <3>4. r = pipe[c][1] /\ r \in Records BY <1>5, <3>2, <3>3, RestOf
    <3>5. IsFinal(l) <=> r.kind \in Terminal BY <3>1, <3>2, <3>4, Parsed
    <3>6. CASE IsFinal(l)
      <4>1. task'[t] = "done" BY <1>1, <2>2, <3>1, <3>6 DEF ReadRecord, TypeOK, StreamTyped
      <4>2. EndedOf(t)
        BY <1>1, <1>2, <1>5, <3>3, <3>4, <3>5, <3>6 DEF EndedOf
      <4> QED BY <4>1, <4>2 DEF EndedOf
    <3>7. CASE ~IsFinal(l)
      <4>1. task'[t] = task[t] /\ pipe'[c] = SubSeq(pipe[c], 2, Len(pipe[c]))
        BY <1>1, <2>2, <3>1, <3>7 DEF ReadRecord, TypeOK, StreamTyped
      <4> QED BY <1>6, <3>3, <3>4, <3>5, <3>7, <4>1
    <3> QED BY <3>6, <3>7
  <2>3. CASE StreamEnds(t)
    <3>1. task'[t] = "error" /\ pipe[c] = <<>> BY <1>1, <2>3 DEF StreamEnds, TypeOK, StreamTyped
    <3> QED BY <1>1, <1>2, <1>5, <3>1 DEF EndedOf
  <2> QED BY <2>1, <2>2, <2>3
<1>8. EndedOf(t) \in BOOLEAN /\ EndedOf(t)' \in BOOLEAN BY DEF EndedOf
<1>9. \A u \in Turns : EndedOf(u)' = EndedOf(u) BY <1>4, <1>7, <1>8
<1> QED BY <1>2, <1>9, ReplyStutters DEF StageOf, ShownOf

LEMMA EndReplies ==
    ASSUME \/ \E c \in Children : ChildDies(c)
           \/ \E t \in Turns : ActivityTimeout(t)
           \/ \E clear \in BOOLEAN : Close(clear)
           \/ UNCHANGED vars
    PROVE  UNCHANGED ReplyMap
<1>1. UNCHANGED <<said, pipe, task, on, relay, text, draftTimer>>
  BY DEF ChildDies, ActivityTimeout, Close, vars, piVars, readVars, relayVars
<1>2. \A u \in Turns : EndedOf(u)' = EndedOf(u) BY <1>1 DEF EndedOf
<1> QED BY <1>1, <1>2, ReplyStutters DEF StageOf, ShownOf

LEMMA LineReplies ==
    ASSUME TypeOK, StreamInv, NEW t \in Turns, RelayLine(t)
    PROVE  [Reply!ReplyNext]_ReplyMap
<1>1. PICK l : l = Head(lines[t]) OBVIOUS
<1>2. /\ relay[t] = "reading" /\ lines[t] # <<>> /\ ~IsFinal(l)
      /\ UNCHANGED <<said, pipe, task, on, relay>>
      /\ IF l.kind = "text"
         THEN text' = [text EXCEPT ![t] = Append(text[t], <<l.turn, l.part>>)] /\ ScheduleDraft(t)
         ELSE UNCHANGED <<text, draftTimer>>
  BY <1>1 DEF RelayLine, RelayUnchanged, piVars, readVars
<1>3. \A u \in Turns : EndedOf(u)' = EndedOf(u) BY <1>2 DEF EndedOf
<1>4. CASE l.kind # "text" BY <1>2, <1>3, <1>4, ReplyStutters DEF StageOf, ShownOf
<1>5. CASE l.kind = "text"
  <2>1. /\ Relays(t) /\ Len(text[t]) \in Nat /\ l = lines[t][1] /\ Len(lines[t]) \in Nat \ {0}
        /\ l.part = Len(text[t]) + 1 /\ l.turn = t
    <3>1. /\ Relays(t) /\ Len(text[t]) \in Nat /\ l = lines[t][1] /\ Len(lines[t]) \in Nat \ {0}
          /\ l.part = Len(text[t]) + Deltas(l)
          /\ l.turn = t \/ l.kind = "init"
      BY <1>1, <1>2, NextLine
    <3> QED BY <1>5, <3>1 DEF Deltas
  <2>2. Len(text[t]) < said[t]
    <3>1. lines[t] \in Seq(Pieces) BY PiecesTyped DEF StreamInv
    <3>2. l.part <= Unread(t) BY <1>2, <2>1, <3>1, ChainRises DEF Relays, Unread
    <3>3. Unread(t) <= said[t] /\ Unread(t) \in Nat /\ said[t] \in Nat
      BY <1>2, ReadIsSaid, PiecesTyped, Numbers DEF StreamInv, TypeOK, SessionTyped
    <3> QED BY <2>1, <3>2, <3>3
  <2>3. /\ text'[t] = Append(text[t], <<t, Len(text[t]) + 1>>)
        /\ \A u \in Turns \ {t} : text'[u] = text[u]
    BY <1>2, <1>5, <2>1 DEF StreamInv, StreamsTyped
  <2>4. OnlyTurn(t) BY <1>2, <1>3, <2>3 DEF OnlyTurn
  <2>5. /\ StageOf(t)' = StageOf(t) /\ StageOf(t) = "open" /\ EndedOf(t)' = EndedOf(t)
        /\ ShownOf(t) = text[t] /\ ShownOf(t)' = text'[t]
    BY <1>2, <1>3 DEF StageOf, ShownOf
  <2>6. UNCHANGED <<StageMap, said, EndedMap>>
    BY <1>2, <2>4, <2>5, ReplyStep DEF StageMap, EndedMap
  <2>7. /\ StageMap[t] = "open" /\ Len(ShownMap[t]) < said[t]
        /\ ShownMap' = [ShownMap EXCEPT ![t] = Append(ShownMap[t], <<t, Len(ShownMap[t]) + 1>>)]
    BY <2>2, <2>3, <2>4, <2>5, ReplyStep
  <2>8. \E later \in BOOLEAN : (draftTimer[t] => later) /\ draftTimer' = [draftTimer EXCEPT ![t] = later]
    BY <1>2, <1>5 DEF ScheduleDraft
  <2>9. Reply!Show(t) BY <2>6, <2>7, <2>8 DEF Reply!Show, StageMap, EndedMap, ShownMap
  <2> QED BY <2>9 DEF Reply!ReplyNext
<1> QED BY <1>4, <1>5

\* The relay has all the deltas of a turn when its result comes.
LEMMA WholeText ==
    ASSUME TypeOK, StreamInv, NEW t \in Turns, relay[t] = "reading", lines[t] # <<>>,
           IsFinal(Head(lines[t]))
    PROVE  task[t] = "done" /\ text[t] = [i \in 1 .. said[t] |-> <<t, i>>]
<1>1. PICK l : l = Head(lines[t]) OBVIOUS
<1>2. /\ Relays(t) /\ l = lines[t][1] /\ Len(lines[t]) \in Nat \ {0} /\ Len(text[t]) \in Nat
      /\ l.part = Len(text[t]) + Deltas(l) /\ l.kind \in Finals
  BY <1>1, NextLine
<1>3. task[t] = "done" /\ Len(lines[t]) = 1
  <2>1. 1 \in 1 .. Len(lines[t]) BY <1>2
  <2> QED BY <1>2, <2>1 DEF Relays, Without, LastOnly
<1>4. Len(text[t]) = said[t]
  <2>1. Unread(t) = l.part BY <1>2, <1>3 DEF Unread, End
  <2>2. Deltas(l) = 0 BY <1>2 DEF Deltas, Finals
  <2> QED BY <1>2, <1>3, <2>1, <2>2 DEF Relays
<1>5. text[t] = [i \in 1 .. Len(text[t]) |-> <<t, i>>]
  <2>1. text[t] \in [1 .. Len(text[t]) -> Turns \X (0 .. MaxParts)] BY DEF StreamInv, StreamsTyped
  <2>2. PICK n : n = Len(text[t]) OBVIOUS
  <2>3. text[t] = [i \in 1 .. n |-> text[t][i]] BY <2>1, <2>2
  <2> QED BY <1>2, <2>2, <2>3 DEF Relays
<1> QED BY <1>3, <1>4, <1>5

LEMMA ResultReplies ==
    ASSUME TypeOK, StreamInv, NEW t \in Turns, RelayResult(t)
    PROVE  Reply!ReplyNext
<1>1. /\ relay[t] = "reading" /\ lines[t] # <<>> /\ IsFinal(Head(lines[t]))
      /\ UNCHANGED <<said, pipe, task, on>>
      /\ relay' = [relay EXCEPT ![t] = "settling"]
      /\ draftTimer' = [draftTimer EXCEPT ![t] = FALSE]
      /\ \E s : text' = [text EXCEPT ![t] = s]
  BY DEF RelayResult, RelayUnchanged, piVars, readVars
<1>2. task[t] = "done" /\ text[t] = [i \in 1 .. said[t] |-> <<t, i>>] BY <1>1, WholeText
<1>3. \A u \in Turns : EndedOf(u)' = EndedOf(u) BY <1>1 DEF EndedOf
<1>4. /\ relay'[t] = "settling" /\ said'[t] = said[t]
      /\ \A u \in Turns \ {t} : relay'[u] = relay[u] /\ text'[u] = text[u]
  BY <1>1 DEF StreamInv, StreamsTyped, TypeOK, RelayTyped
<1>5. OnlyTurn(t) BY <1>1, <1>3, <1>4 DEF OnlyTurn
<1>6. /\ StageOf(t) = "open" /\ StageOf(t)' = "whole" /\ EndedOf(t)' = EndedOf(t) /\ EndedOf(t)
      /\ ShownOf(t) = text[t] /\ ShownOf(t)' = text[t]
  BY <1>1, <1>2, <1>3, <1>4 DEF StageOf, ShownOf, EndedOf
<1>7. UNCHANGED <<said, EndedMap, ShownMap>>
  <2>1. UNCHANGED EndedMap BY <1>3 DEF EndedMap
  <2>2. ShownMap' = [ShownMap EXCEPT ![t] = ShownMap[t]] BY <1>5, <1>6, ReplyStep
  <2>3. UNCHANGED ShownMap BY <2>2 DEF ShownMap
  <2> QED BY <1>1, <2>1, <2>3
<1>8. /\ EndedMap[t] /\ ShownMap[t] = [i \in 1 .. said[t] |-> <<t, i>>]
      /\ StageMap[t] = "open" /\ StageMap' = [StageMap EXCEPT ![t] = "whole"]
  BY <1>2, <1>5, <1>6, ReplyStep
<1>9. Reply!Complete(t)
  BY <1>1, <1>7, <1>8 DEF Reply!Complete, Reply!Answer, Reply!Goes, StageMap, EndedMap, ShownMap
<1> QED BY <1>9 DEF Reply!ReplyNext

LEMMA ThrowReplies ==
    ASSUME TypeOK, StreamInv, NEW t \in Turns, RelayThrows(t)
    PROVE  Reply!ReplyNext
<1>1. /\ relay[t] = "reading" /\ task[t] = "error"
      /\ UNCHANGED <<said, pipe, task, on>>
      /\ relay' = [relay EXCEPT ![t] = "failed"] /\ text' = [text EXCEPT ![t] = <<>>]
      /\ draftTimer' = [draftTimer EXCEPT ![t] = FALSE]
  BY DEF RelayThrows, RelayUnchanged, piVars, readVars
<1>2. \A u \in Turns : EndedOf(u)' = EndedOf(u) BY <1>1 DEF EndedOf
<1>3. /\ relay'[t] = "failed"
      /\ \A u \in Turns \ {t} : relay'[u] = relay[u] /\ text'[u] = text[u]
  BY <1>1 DEF StreamInv, StreamsTyped, TypeOK, RelayTyped
<1>4. OnlyTurn(t) BY <1>1, <1>2, <1>3 DEF OnlyTurn
<1>5. /\ StageOf(t) = "open" /\ StageOf(t)' = "failed" /\ EndedOf(t)' = EndedOf(t) /\ ~EndedOf(t)
      /\ ShownOf(t)' = <<>>
  BY <1>1, <1>2, <1>3 DEF StageOf, ShownOf, EndedOf
<1>6. UNCHANGED <<said, EndedMap>> BY <1>1, <1>4, <1>5, ReplyStep DEF EndedMap
<1>7. /\ ~EndedMap[t] /\ ShownMap' = [ShownMap EXCEPT ![t] = <<>>]
      /\ StageMap[t] = "open" /\ StageMap' = [StageMap EXCEPT ![t] = "failed"]
  BY <1>4, <1>5, ReplyStep
<1>8. Reply!Fail(t) BY <1>1, <1>6, <1>7 DEF Reply!Fail, Reply!Goes, StageMap, EndedMap, ShownMap
<1> QED BY <1>8 DEF Reply!ReplyNext

LEMMA DraftReplies ==
    ASSUME TypeOK, Delivery, NEW t \in Turns, DraftTimerFires(t)
    PROVE  Reply!ReplyNext
<1>1. /\ draftTimer[t] /\ relay[t] = "reading" /\ draftTimer' = [draftTimer EXCEPT ![t] = FALSE]
      /\ UNCHANGED <<said, pipe, task, on, relay, text>>
  BY DEF DraftTimerFires, Delivery, DraftTimerDiesWithTheStream, piVars, readVars
<1>2. UNCHANGED <<StageMap, said, EndedMap, ShownMap>>
  BY <1>1 DEF StageMap, EndedMap, ShownMap, StageOf, EndedOf, ShownOf
<1>3. StageMap[t] = "open" BY <1>1 DEF StageMap, StageOf
<1>4. Reply!SendDraft(t)
  BY <1>1, <1>2, <1>3 DEF Reply!SendDraft, StageMap, EndedMap, ShownMap
<1> QED BY <1>4 DEF Reply!ReplyNext

LEMMA SendReplies ==
    ASSUME TypeOK, Delivery, StreamInv, NEW t \in Turns,
           \/ Settle(t) \/ SendChunk(t) \/ ReadOutbox(t) \/ SendFile(t) \/ FileSent(t)
           \/ RelayEnds(t)
    PROVE  [Reply!ReplyNext]_ReplyMap
<1>1. UNCHANGED <<said, pipe, task, on, draftTimer>>
  BY DEF Settle, SendChunk, ReadOutbox, SendFile, FileSent, RelayEnds, DeliveryUnchanged,
         piVars, readVars
<1>2. relay[t] \in {"settling", "sending", "continuing", "outbox"} /\ ~draftTimer[t]
  BY DEF Settle, SendChunk, ReadOutbox, SendFile, FileSent, RelayEnds, Delivery, AwaitedOnce,
         DraftTimerDiesWithTheStream
<1>3. /\ \A u \in Turns \ {t} : relay'[u] = relay[u]
      /\ relay'[t] \in {"sending", "continuing", "outbox", "done", "failed"}
  <2>1. CASE Settle(t) \/ SendChunk(t) \/ ReadOutbox(t) \/ RelayEnds(t)
    BY <2>1 DEF Settle, SendChunk, ReadOutbox, RelayEnds, TypeOK, RelayTyped
  <2>2. CASE SendFile(t) BY <2>2 DEF SendFile
  <2>3. CASE FileSent(t) BY <2>3 DEF FileSent, Delivery, AwaitedOnce
  <2> QED BY <2>1, <2>2, <2>3
<1>4. \A u \in Turns \ {t} : text'[u] = text[u]
  BY DEF Settle, SendChunk, ReadOutbox, SendFile, FileSent, RelayEnds, StreamInv, StreamsTyped
<1>5. \A u \in Turns : EndedOf(u)' = EndedOf(u) BY <1>1 DEF EndedOf
<1>6. OnlyTurn(t) BY <1>1, <1>3, <1>4, <1>5 DEF OnlyTurn
<1>7. StageOf(t) = "whole" /\ StageMap[t] = "whole" BY <1>2 DEF StageOf, StageMap
<1>8. /\ StageMap' = [StageMap EXCEPT ![t] = StageOf(t)'] /\ UNCHANGED <<said, EndedMap>>
      /\ ShownMap' = [ShownMap EXCEPT ![t] = ShownOf(t)'] /\ ShownMap[t] = ShownOf(t)
  <2>1. EndedMap' = EndedMap BY <1>5 DEF EndedMap
  <2> QED BY <1>1, <1>6, <2>1, ReplyStep
<1>9. CASE relay'[t] = "failed"
  <2>1. StageOf(t)' = "failed" /\ ShownOf(t)' = <<>> BY <1>9 DEF StageOf, ShownOf
  <2>2. draftTimer' = [draftTimer EXCEPT ![t] = FALSE] BY <1>1, <1>2 DEF TypeOK, RelayTyped
  <2>3. Reply!Fail(t)
    BY <1>7, <1>8, <2>1, <2>2 DEF Reply!Fail, Reply!Goes, StageMap, EndedMap, ShownMap
  <2> QED BY <2>3 DEF Reply!ReplyNext
<1>10. ASSUME relay'[t] # "failed" PROVE ShownMap' = ShownMap
  <2>1. ShownOf(t)' = ShownOf(t) BY <1>1, <1>2, <1>3, <1>10 DEF ShownOf
  <2> QED BY <1>8, <2>1 DEF ShownMap
<1>11. CASE relay'[t] = "done"
  <2>1. StageOf(t)' = "delivered" BY <1>11 DEF StageOf
  <2>2. Reply!Deliver(t)
    BY <1>1, <1>7, <1>8, <1>10, <1>11, <2>1 DEF Reply!Deliver, Reply!Goes, StageMap, EndedMap, ShownMap
  <2> QED BY <2>2 DEF Reply!ReplyNext
<1>12. CASE relay'[t] \in {"sending", "continuing", "outbox"}
  <2>1. StageOf(t)' = "whole" BY <1>12 DEF StageOf
  <2>2. StageMap' = StageMap BY <1>7, <1>8, <2>1 DEF StageMap
  <2> QED BY <1>1, <1>8, <1>10, <1>12, <2>2 DEF ReplyMap
<1> QED BY <1>3, <1>9, <1>11, <1>12

LEMMA ReplyInits == Init => Reply!ReplyInit
<1> SUFFICES ASSUME Init PROVE Reply!ReplyInit OBVIOUS
<1>1. StageMap = [t \in Turns |-> "none"] BY DEF Init, StageMap, StageOf
<1>2. EndedMap = [t \in Turns |-> FALSE] BY DEF Init, EndedMap, EndedOf
<1>3. ShownMap = [t \in Turns |-> <<>>] BY DEF Init, ShownMap, ShownOf
<1> QED BY <1>1, <1>2, <1>3 DEF Init, Reply!ReplyInit, StageMap, EndedMap, ShownMap

LEMMA StepReplies ==
    TypeOK /\ Delivery /\ StreamInv /\ [Next]_vars => [Reply!ReplyNext]_ReplyMap
<1> SUFFICES ASSUME TypeOK, Delivery, StreamInv, [Next]_vars PROVE [Reply!ReplyNext]_ReplyMap
  OBVIOUS
<1>1. ASSUME NEW t \in Turns,
             \/ ReuseSession(t) \/ SpawnSession(t) \/ TurnFailsToStart(t)
             \/ ReadChunk(t) \/ ReadRecord(t) \/ StreamEnds(t) \/ ActivityTimeout(t)
             \/ RelayLine(t) \/ RelayResult(t) \/ RelayThrows(t)
             \/ DraftTimerFires(t) \/ Settle(t) \/ SendChunk(t)
             \/ ReadOutbox(t) \/ SendFile(t) \/ FileSent(t) \/ RelayEnds(t)
      PROVE  [Reply!ReplyNext]_ReplyMap
  BY <1>1, BeginReplies, ReadReplies, EndReplies, LineReplies, ResultReplies, ThrowReplies,
     DraftReplies, SendReplies
<1>2. ASSUME NEW c \in Children,
             \/ PiBegins(c) \/ PiSays(c) \/ PiWorks(c) \/ PiPlacesFile(c) \/ PiEnds(c)
             \/ ChildDies(c)
      PROVE  [Reply!ReplyNext]_ReplyMap
  BY <1>2, PiReplies, EndReplies
<1>3. ASSUME (\E clear \in BOOLEAN : Close(clear)) \/ UNCHANGED vars
      PROVE  [Reply!ReplyNext]_ReplyMap
  BY <1>3, EndReplies
<1> QED BY <1>1, <1>2, <1>3 DEF Next

\* Through all the pipes, readers and relays, for any number of them and whatever dies
\* meanwhile: every step of the turns is a step of the replies, or none.
THEOREM TurnsImplementReply == Spec => ImplementsReply
<1>1. Init => Reply!ReplyInit BY ReplyInits
<1>2. TypeOK /\ Delivery /\ StreamInv /\ [Next]_vars => [Reply!ReplyNext]_(Reply!replyVars)
  BY StepReplies DEF Reply!replyVars, ReplyMap, StageMap, EndedMap, ShownMap
<1> QED BY <1>1, <1>2, TypeCorrect, DeliveryAlways, StreamAlways, PTL
        DEF Spec, ImplementsReply, Reply!ReplySpec

=============================================================================
