------------------------ MODULE SessionManager_proofs ------------------------
(***************************************************************************)
(* Proofs about SessionManager, for any set of chats, any number of        *)
(* concurrent calls, and any limits.                                       *)
(***************************************************************************)
EXTENDS SessionManager, FiniteSetTheorems, TLAPS

ChildRecords == LiveChildren \cup DeadChildren \cup {Unborn}

Live(p) == children[p].state = "live"

\* A session of process p has its idle timer running.
Armed(p) == children[p].state # "unborn" /\ children[p].timer

\* A call that has a child.
Holding(k) == call[k].pc \in {"starting", "queued", "running"}

-----------------------------------------------------------------------------
(* Records.                                                                *)

LEMMA ChildKinds ==
    ASSUME NEW r \in ChildRecords
    PROVE  /\ r.state \in {"live", "dead", "unborn"}
           /\ r.state = "live" => r \in LiveChildren
           /\ r.state = "dead" => r \in DeadChildren
           /\ r.state = "unborn" <=> r = Unborn
  BY DEF ChildRecords, LiveChildren, DeadChildren, Unborn

LEMMA LiveFields ==
    ASSUME NEW r \in LiveChildren
    PROVE  /\ r \in ChildRecords
           /\ r.state = "live" /\ r.chat \in Chats /\ r.killed \in BOOLEAN
           /\ r.timer \in BOOLEAN /\ r.conv \in Ids /\ r.id \in Ids \cup {None}
  BY DEF ChildRecords, LiveChildren

LEMMA KilledChild ==
    ASSUME NEW r \in LiveChildren
    PROVE  LET s == [r EXCEPT !.killed = TRUE, !.timer = FALSE] IN
           /\ s \in LiveChildren
           /\ s.chat = r.chat /\ s.conv = r.conv /\ s.id = r.id
           /\ s.killed = TRUE /\ ~s.timer
  BY DEF LiveChildren

LEMMA SignalledChild ==
    ASSUME NEW r \in LiveChildren
    PROVE  LET s == [r EXCEPT !.killed = TRUE] IN
           /\ s \in LiveChildren
           /\ s.chat = r.chat /\ s.conv = r.conv /\ s.id = r.id /\ s.timer = r.timer
           /\ s.killed = TRUE
  BY DEF LiveChildren

LEMMA UnarmedChild ==
    ASSUME NEW r \in LiveChildren
    PROVE  LET s == [r EXCEPT !.timer = FALSE] IN
           /\ s \in LiveChildren
           /\ s.chat = r.chat /\ s.conv = r.conv /\ s.id = r.id /\ s.killed = r.killed
           /\ ~s.timer
  BY DEF LiveChildren

LEMMA InstalledChild ==
    ASSUME NEW r \in LiveChildren, NEW id \in Ids
    PROVE  LET s == [r EXCEPT !.id = id, !.timer = TRUE] IN
           /\ s \in LiveChildren
           /\ s.chat = r.chat /\ s.conv = r.conv /\ s.killed = r.killed
           /\ s.id = id /\ s.timer
  BY DEF LiveChildren

LEMMA DeadFields ==
    ASSUME NEW c \in Chats, NEW armed \in BOOLEAN
    PROVE  /\ Dead(c, armed) \in DeadChildren
           /\ Dead(c, armed) \in ChildRecords
           /\ Dead(c, armed).state = "dead" /\ Dead(c, armed).chat = c
           /\ Dead(c, armed).timer = armed
  BY DEF Dead, DeadChildren, ChildRecords

LEMMA NewChildFields ==
    ASSUME NEW c \in Chats, NEW conv \in Ids
    PROVE  LET s == NewChild(c, conv) IN
           /\ s \in LiveChildren
           /\ s.chat = c /\ s.conv = conv /\ ~s.killed /\ ~s.timer /\ s.id = None
  BY DEF NewChild, LiveChildren

LEMMA CallKinds ==
    ASSUME NEW r \in CallRecords \cup {NoCall}
    PROVE  /\ r.pc \in {"idle", "evicting", "backoff", "starting", "queued", "running"}
           /\ r.pc # "idle" => r \in CallRecords
           /\ r.pc = "idle" <=> r = NoCall
  BY DEF CallRecords, NoCall

LEMMA CallFields ==
    ASSUME NEW r \in CallRecords
    PROVE  /\ r.pc \in {"evicting", "backoff", "starting", "queued", "running"}
           /\ r.chat \in Chats /\ r.cleared \in BOOLEAN /\ r.existed \in BOOLEAN
           /\ r.resume \in BOOLEAN /\ r.retried \in BOOLEAN
           /\ r.id \in Ids \cup {None} /\ r.child \in Children \cup {None}
  BY DEF CallRecords

LEMMA ClearedFields ==
    ASSUME NEW r \in CallRecords
    PROVE  LET s == [r EXCEPT !.cleared = TRUE] IN
           /\ s \in CallRecords
           /\ s.pc = r.pc /\ s.chat = r.chat /\ s.child = r.child /\ s.cleared
           /\ s.resume = r.resume /\ s.id = r.id /\ s.retried = r.retried
  BY DEF CallRecords

LEMMA StartedFields ==
    ASSUME NEW r \in CallRecords, NEW p \in Children, NEW resume \in BOOLEAN,
           NEW id \in Ids \cup {None}
    PROVE  LET s == [r EXCEPT !.resume = resume, !.id = id] IN
           /\ s \in CallRecords
           /\ s.pc = r.pc /\ s.chat = r.chat /\ s.resume = resume /\ s.id = id
           /\ s.cleared = r.cleared
  BY DEF CallRecords

LEMMA SpawnedFields ==
    ASSUME NEW r \in CallRecords, NEW p \in Children
    PROVE  LET s == [r EXCEPT !.pc = "starting", !.child = p] IN
           /\ s \in CallRecords
           /\ s.pc = "starting" /\ s.chat = r.chat /\ s.child = p
           /\ s.resume = r.resume /\ s.id = r.id /\ s.cleared = r.cleared
  BY DEF CallRecords

LEMMA WaitingFields ==
    ASSUME NEW r \in CallRecords, NEW pc \in {"backoff", "running"}
    PROVE  LET s == [r EXCEPT !.pc = pc] IN
           /\ s \in CallRecords
           /\ s.pc = pc /\ s.chat = r.chat /\ s.child = r.child
           /\ s.resume = r.resume /\ s.id = r.id /\ s.cleared = r.cleared
  BY DEF CallRecords

LEMMA RetriedFields ==
    ASSUME NEW r \in CallRecords, NEW p \in Children
    PROVE  LET s == [r EXCEPT !.retried = TRUE, !.child = p] IN
           /\ s \in CallRecords
           /\ s.pc = r.pc /\ s.chat = r.chat /\ s.child = p
           /\ s.resume = r.resume /\ s.id = r.id /\ s.cleared = r.cleared
  BY DEF CallRecords

-----------------------------------------------------------------------------
(* The inductive invariant about sessions and processes.                   *)

Born == \A p \in Children : children[p].state = "unborn" <=> p > born

Mapped ==
    \A c \in Sessions :
        /\ Live(active[c])
        /\ children[active[c]].chat = c
        /\ children[active[c]].timer
        /\ children[active[c]].id # None
        /\ active[c] \notin overwritten

Held ==
    \A k \in Calls : Holding(k) =>
        /\ call[k].child \in 1 .. born
        /\ children[call[k].child].chat = call[k].chat

\* A child that is being started belongs to the call that starts it alone.
Starting ==
    \A k \in Calls : call[k].pc = "starting" =>
        /\ Live(call[k].child)
        /\ ~children[call[k].child].killed
        /\ call[k].child \notin overwritten
        /\ \A c \in Chats : active[c] # call[k].child
        /\ \A j \in Calls : Holding(j) /\ call[j].child = call[k].child => j = k

Resuming ==
    \A k \in Calls :
        call[k].pc \in {"backoff", "starting"} /\ call[k].resume => call[k].id # None

Replaced == overwritten \subseteq 1 .. born

\* TimersHaveTheirSession.
Timers ==
    \A p \in Children : Armed(p) => active[children[p].chat] = p \/ p \in overwritten

Sound ==
    /\ Born /\ Mapped /\ Held /\ Starting /\ Resuming /\ Replaced
    /\ GaugeCountsSessions /\ LiveChildrenAreOwned /\ Timers

-----------------------------------------------------------------------------
(* What closing sessions does.                                             *)

LEMMA SessionSets ==
    ASSUME TypeOK
    PROVE  /\ IsFiniteSet(Sessions) /\ IsFiniteSet(overwritten)
           /\ Cardinality(Sessions) \in Nat /\ Cardinality(overwritten) \in Nat
  <1>1. IsFiniteSet(Sessions) BY BoundsAssumption, FS_Subset DEF Sessions
  <1>2. IsFiniteSet(Children) BY BoundsAssumption, FS_Interval DEF Children
  <1>3. IsFiniteSet(overwritten) BY <1>2, FS_Subset DEF TypeOK
  <1> QED BY <1>1, <1>3, FS_CardinalityType

LEMMA ChatOfChild ==
    ASSUME TypeOK, NEW p \in Children, children[p].state # "unborn"
    PROVE  children[p].chat \in Chats
  BY ChildKinds, LiveFields DEF TypeOK, ChildRecords, DeadChildren

\* The processes of the sessions of G.
Processes(G) == {active[c] : c \in G}

LEMMA TerminatedChildren ==
    ASSUME TypeOK, Mapped, NEW G \in SUBSET Sessions
    PROVE  /\ Terminated(Processes(G)) \in [Children -> ChildRecords]
           /\ \A p \in Children \ Processes(G) : Terminated(Processes(G))[p] = children[p]
           /\ \A p \in Processes(G) :
                /\ p \in Children /\ Live(p)
                /\ Terminated(Processes(G))[p] \in LiveChildren
                /\ Terminated(Processes(G))[p].chat = children[p].chat
                /\ Terminated(Processes(G))[p].conv = children[p].conv
                /\ Terminated(Processes(G))[p].id = children[p].id
                /\ Terminated(Processes(G))[p].killed
                /\ ~Terminated(Processes(G))[p].timer
<1> DEFINE T == Terminated(Processes(G))
<1>1. \A p \in Children \ Processes(G) : T[p] = children[p] BY DEF Terminated
<1>2. ASSUME NEW p \in Processes(G)
      PROVE  /\ p \in Children /\ Live(p)
             /\ T[p] = [children[p] EXCEPT !.killed = TRUE, !.timer = FALSE]
             /\ children[p] \in LiveChildren
  <2>1. PICK c \in G : p = active[c] BY DEF Processes
  <2>2. p \in Children /\ Live(p) BY <2>1 DEF Mapped, Sessions, TypeOK
  <2>3. T[p] = [children[p] EXCEPT !.killed = TRUE, !.timer = FALSE] BY <2>2 DEF Terminated
  <2>4. children[p] \in LiveChildren BY <2>2, ChildKinds DEF TypeOK, ChildRecords, Live
  <2> QED BY <2>2, <2>3, <2>4
<1>3. ASSUME NEW p \in Processes(G)
      PROVE  /\ T[p] \in LiveChildren
             /\ T[p].chat = children[p].chat /\ T[p].conv = children[p].conv
             /\ T[p].id = children[p].id /\ T[p].killed /\ ~T[p].timer
  <2>1. T[p] = [children[p] EXCEPT !.killed = TRUE, !.timer = FALSE] BY <1>2
  <2>2. children[p] \in LiveChildren BY <1>2
  <2> QED BY <2>1, <2>2, KilledChild
<1>4. T \in [Children -> ChildRecords]
  <2>1. \A p \in Children : T[p] \in ChildRecords
    BY <1>1, <1>3, LiveFields DEF TypeOK, ChildRecords
  <2> QED BY <2>1 DEF Terminated
<1> QED BY <1>1, <1>2, <1>3, <1>4

\* The sessions of G are closed.
Closes(G) ==
    /\ G \subseteq Sessions
    /\ active' = Without(G)
    /\ gauge' = gauge - Cardinality(G)
    /\ UNCHANGED <<born, overwritten>>
    /\ children' \in [Children -> ChildRecords]
    /\ \A p \in Children :
          /\ children'[p].state = children[p].state
          /\ children[p].state # "unborn" => children'[p].chat = children[p].chat
          /\ Live(p) => children'[p].conv = children[p].conv /\ children'[p].id = children[p].id
          /\ p \in Processes(G) => children'[p].killed
          /\ Live(p) /\ p \notin Processes(G) => children'[p].killed = children[p].killed
          /\ (\E c \in Sessions \ G : active[c] = p) => children'[p] = children[p]
          /\ Armed(p)' => Armed(p) /\ p \notin Processes(G)

LEMMA OthersProcesses ==
    ASSUME TypeOK, Mapped, NEW G \in SUBSET Sessions, NEW c \in Sessions \ G
    PROVE  active[c] \in Children \ Processes(G)
  BY DEF Mapped, Processes, Sessions, TypeOK

LEMMA ClosesTerminated ==
    ASSUME TypeOK, Sound, NEW C \in SUBSET Chats,
           active' = Without(C), gauge' = gauge - Cardinality(C \cap Sessions),
           children' = Terminated({active[c] : c \in C \cap Sessions}),
           UNCHANGED <<born, overwritten>>
    PROVE  Closes(C \cap Sessions)
<1> DEFINE G == C \cap Sessions
<1> USE DEF Sound
<1>1. Without(C) = Without(G) BY DEF Without, Sessions
<1>2. children' = Terminated(Processes(G)) BY DEF Processes
<1>3. G \in SUBSET Sessions OBVIOUS
<1>4. children' \in [Children -> ChildRecords] BY <1>2, <1>3, TerminatedChildren
<1>5. ASSUME NEW p \in Children
      PROVE  /\ children'[p].state = children[p].state
             /\ children[p].state # "unborn" => children'[p].chat = children[p].chat
             /\ Live(p) => children'[p].conv = children[p].conv /\ children'[p].id = children[p].id
             /\ p \in Processes(G) => children'[p].killed
             /\ Live(p) /\ p \notin Processes(G) => children'[p].killed = children[p].killed
             /\ (\E c \in Sessions \ G : active[c] = p) => children'[p] = children[p]
             /\ Armed(p)' => Armed(p) /\ p \notin Processes(G)
  <2>1. CASE p \in Processes(G)
    <3>1. /\ Live(p) /\ children'[p] \in LiveChildren
          /\ children'[p].chat = children[p].chat /\ children'[p].conv = children[p].conv
          /\ children'[p].id = children[p].id /\ children'[p].killed /\ ~children'[p].timer
      BY <1>2, <1>3, <2>1, TerminatedChildren
    <3>2. children'[p].state = "live" BY <3>1, LiveFields
    <3>3. ~\E c \in Sessions \ G : active[c] = p BY <1>3, <2>1, OthersProcesses
    <3> QED BY <2>1, <3>1, <3>2, <3>3 DEF Live, Armed
  <2>2. CASE p \notin Processes(G)
    <3>1. children'[p] = children[p] BY <1>2, <1>3, <2>2, TerminatedChildren
    <3> QED BY <2>2, <3>1 DEF Armed
  <2> QED BY <2>1, <2>2
<1> QED BY <1>1, <1>3, <1>4, <1>5 DEF Closes

LEMMA ClosesIdle ==
    ASSUME TypeOK, Sound, NEW p \in Children, IdleTimerFires(p)
    PROVE  Closes({children[p].chat} \cap Sessions)
<1> DEFINE C == {children[p].chat}
           G == C \cap Sessions
           T == Terminated(Processes(G))
<1> USE DEF Sound
<1>1. /\ children' = [T EXCEPT ![p].timer = FALSE]
      /\ active' = Without(C) /\ gauge' = gauge - Cardinality(G)
      /\ UNCHANGED <<born, overwritten>>
  BY DEF IdleTimerFires, Processes, history
<1>2. Without(C) = Without(G) BY DEF Without, Sessions
<1>3. G \in SUBSET Sessions OBVIOUS
<1>4. T \in [Children -> ChildRecords] BY <1>3, TerminatedChildren
<1>5. children[p].state \in {"live", "dead"}
  BY ChildKinds DEF IdleTimerFires, TypeOK, ChildRecords
<1>6. children'[p] = [T[p] EXCEPT !.timer = FALSE] BY <1>1, <1>4
<1>7. \A q \in Children \ {p} : children'[q] = T[q] BY <1>1, <1>4
<1>8. /\ T[p].state = children[p].state /\ T[p].chat = children[p].chat
      /\ Live(p) => T[p].conv = children[p].conv /\ T[p].id = children[p].id
      /\ p \in Processes(G) => T[p].killed
      /\ p \notin Processes(G) => T[p] = children[p]
  BY <1>3, TerminatedChildren, LiveFields DEF Live
<1>9. /\ children'[p] \in ChildRecords
      /\ children'[p].state = T[p].state /\ children'[p].chat = T[p].chat
      /\ Live(p) => /\ children'[p].conv = T[p].conv /\ children'[p].id = T[p].id
                    /\ children'[p].killed = T[p].killed
      /\ ~children'[p].timer
  <2>1. CASE Live(p)
    <3>1. T[p] \in LiveChildren BY <1>4, <1>8, <2>1, ChildKinds DEF Live
    <3>2. /\ children'[p] \in LiveChildren /\ children'[p].chat = T[p].chat
          /\ children'[p].conv = T[p].conv /\ children'[p].id = T[p].id
          /\ children'[p].killed = T[p].killed /\ ~children'[p].timer
      BY <1>6, <3>1, UnarmedChild
    <3> QED BY <3>1, <3>2, LiveFields
  <2>2. CASE ~Live(p)
    <3>1. T[p] \in DeadChildren BY <1>4, <1>5, <1>8, <2>2, ChildKinds DEF Live
    <3>2. children'[p] \in DeadChildren /\ children'[p].chat = T[p].chat /\ ~children'[p].timer
      BY <1>6, <3>1 DEF DeadChildren
    <3>3. children'[p].state = "dead" /\ T[p].state = "dead" BY <3>1, <3>2 DEF DeadChildren
    <3> QED BY <2>2, <3>2, <3>3 DEF ChildRecords
  <2> QED BY <2>1, <2>2
<1>10. children' \in [Children -> ChildRecords]
  BY <1>1, <1>4, <1>9
<1>11. ~\E c \in Sessions \ G : active[c] = p BY DEF Mapped
<1>12. ASSUME NEW q \in Children
       PROVE  /\ children'[q].state = children[q].state
              /\ children[q].state # "unborn" => children'[q].chat = children[q].chat
              /\ Live(q) => children'[q].conv = children[q].conv /\ children'[q].id = children[q].id
              /\ q \in Processes(G) => children'[q].killed
              /\ Live(q) /\ q \notin Processes(G) => children'[q].killed = children[q].killed
              /\ (\E c \in Sessions \ G : active[c] = q) => children'[q] = children[q]
              /\ Armed(q)' => Armed(q) /\ q \notin Processes(G)
  <2>1. CASE q = p
    <3>1. p \in Processes(G) => Live(p) BY <1>3, TerminatedChildren
    <3> QED BY <1>8, <1>9, <1>11, <2>1, <3>1 DEF Armed
  <2>2. CASE q # p
    <3>1. CASE q \in Processes(G)
      <4>1. /\ Live(q) /\ T[q] \in LiveChildren
            /\ T[q].chat = children[q].chat /\ T[q].conv = children[q].conv
            /\ T[q].id = children[q].id /\ T[q].killed /\ ~T[q].timer
        BY <1>3, <3>1, TerminatedChildren
      <4>2. T[q].state = "live" BY <4>1, LiveFields
      <4>3. ~\E c \in Sessions \ G : active[c] = q BY <1>3, <3>1, OthersProcesses
      <4> QED BY <1>7, <2>2, <3>1, <4>1, <4>2, <4>3 DEF Live, Armed
    <3>2. CASE q \notin Processes(G)
      <4>1. children'[q] = children[q] BY <1>3, <1>7, <2>2, <3>2, TerminatedChildren
      <4> QED BY <3>2, <4>1 DEF Armed
    <3> QED BY <3>1, <3>2
  <2> QED BY <2>1, <2>2
<1> HIDE DEF T
<1> QED BY <1>1, <1>2, <1>3, <1>10, <1>12 DEF Closes

LEMMA ClosesNothing ==
    ASSUME TypeOK, UNCHANGED <<active, children, born, gauge, overwritten>>
    PROVE  Closes({})
<1>1. Without({}) = active BY DEF Without, TypeOK
<1>2. gauge - Cardinality({}) = gauge BY FS_EmptySet DEF TypeOK
<1>3. Processes({}) = {} BY DEF Processes
<1> QED BY <1>1, <1>2, <1>3 DEF Closes, TypeOK, ChildRecords, Armed

\* No call gets a child but that of a session in memory, and those that start one
\* go on.
CallsStay ==
    /\ Resuming'
    /\ \A k \in Calls :
          /\ Holding(k)' =>
                \/ /\ Holding(k)
                   /\ call'[k].child = call[k].child /\ call'[k].chat = call[k].chat
                \/ /\ call'[k].pc = "queued" /\ call'[k].chat \in Sessions
                   /\ call'[k].child = active[call'[k].chat]
          /\ call'[k].pc = "starting" <=> call[k].pc = "starting"

LEMMA ClosedGauge ==
    ASSUME TypeOK, GaugeCountsSessions, NEW G \in SUBSET Sessions,
           active' = Without(G), gauge' = gauge - Cardinality(G), overwritten' = overwritten
    PROVE  gauge' \in Nat /\ GaugeCountsSessions' /\ Sessions' = Sessions \ G
<1>1. Sessions' = Sessions \ G BY DEF Sessions, Without
<1>2. Sessions \cap G = G OBVIOUS
<1>3. Cardinality(Sessions \ G) = Cardinality(Sessions) - Cardinality(G)
  BY <1>2, SessionSets, FS_Difference
<1>4. Cardinality(Sessions \ G) \in Nat /\ Cardinality(G) \in Nat
  BY SessionSets, FS_Difference, FS_Subset, FS_CardinalityType
<1> QED BY <1>1, <1>3, <1>4, SessionSets DEF GaugeCountsSessions

LEMMA SoundClosing ==
    ASSUME TypeOK, Sound, NEW G, Closes(G), CallsStay
    PROVE  Sound' /\ gauge' \in Nat
<1> USE DEF Sound
<1>1. G \in SUBSET Sessions /\ born' = born /\ overwritten' = overwritten /\ born \in 0 .. MaxChildren
  BY DEF Closes, TypeOK
<1>2. Sessions' = Sessions \ G /\ gauge' \in Nat /\ GaugeCountsSessions'
  BY ClosedGauge DEF Closes
<1>3. \A c \in Sessions' : active'[c] = active[c] BY <1>2 DEF Closes, Without, Sessions
<1>4. \A c \in Chats : active'[c] \in {active[c], None} BY DEF Closes, Without
<1>5. \A p \in Children : children'[p].state = children[p].state BY DEF Closes
<1>6. Born' BY <1>1, <1>5 DEF Born
<1>7. Mapped'
  <2>1. ASSUME NEW c \in Sessions' PROVE children'[active[c]] = children[active[c]]
    BY <1>2, <2>1 DEF Closes, TypeOK, Sessions
  <2> QED BY <1>1, <1>2, <1>3, <2>1 DEF Mapped, Live
<1>8. ASSUME NEW k \in Calls, Holding(k)
      PROVE  /\ call[k].child \in 1 .. born /\ call[k].child \in Children
             /\ children'[call[k].child].chat = call[k].chat
  <2>1. call[k].child \in 1 .. born /\ children[call[k].child].chat = call[k].chat
    BY <1>8 DEF Held
  <2>2. call[k].child \in Children BY <1>1, <2>1, BoundsAssumption DEF Children
  <2>3. children[call[k].child].state # "unborn" BY <1>1, <2>1, <2>2 DEF Born
  <2> QED BY <2>1, <2>2, <2>3 DEF Closes
<1>9. Held'
  <2>1. ASSUME NEW c \in Sessions
        PROVE  active[c] \in 1 .. born /\ children'[active[c]].chat = c
    <3>1. active[c] \in Children /\ Live(active[c]) /\ children[active[c]].chat = c
      BY DEF Mapped, Sessions, TypeOK
    <3>2. active[c] \in 1 .. born BY <1>1, <3>1, BoundsAssumption DEF Born, Live, Children
    <3> QED BY <3>1, <3>2 DEF Closes, Live
  <2> QED BY <1>1, <1>8, <2>1 DEF Held, CallsStay
<1>10. Starting'
  <2>1. ASSUME NEW k \in Calls, call[k].pc = "starting"
        PROVE  /\ children'[call[k].child].state = "live" /\ ~children'[call[k].child].killed
               /\ \A c \in Chats : active'[c] # call[k].child
    <3>1. call[k].child \in Children BY <1>8, <2>1 DEF Holding
    <3>2. /\ Live(call[k].child) /\ ~children[call[k].child].killed
          /\ \A c \in Chats : active[c] # call[k].child
      BY <2>1 DEF Starting
    <3>3. call[k].child \notin Processes(G) BY <1>1, <3>2 DEF Processes, Sessions
    <3>4. call[k].child # None BY <3>1 DEF Children, None
    <3>5. children'[call[k].child].killed = children[call[k].child].killed
      BY <3>1, <3>2, <3>3 DEF Closes
    <3>6. children'[call[k].child].state = "live" BY <1>5, <3>1, <3>2 DEF Live
    <3>7. ~children'[call[k].child].killed BY <3>2, <3>5
    <3> QED BY <1>4, <3>2, <3>4, <3>6, <3>7
  <2>2. ASSUME NEW k \in Calls, call'[k].pc = "starting"
        PROVE  call[k].pc = "starting" /\ call'[k].child = call[k].child
    BY <2>2 DEF CallsStay, Holding
  <2>3. \A j \in Calls : Holding(j)' =>
            \/ Holding(j) /\ call'[j].child = call[j].child
            \/ call'[j].child \in {active[c] : c \in Chats}
    BY DEF CallsStay, Sessions
  <2> QED BY <1>1, <2>1, <2>2, <2>3 DEF Starting, Live
<1>11. Replaced' BY <1>1 DEF Replaced
<1>12. LiveChildrenAreOwned'
  <2> SUFFICES ASSUME NEW p \in Children, Live(p)', ~children'[p].killed
               PROVE  \/ active'[children'[p].chat] = p
                      \/ p \in overwritten'
                      \/ \E k \in Calls : /\ call'[k].pc = "starting" /\ call'[k].child = p
                               /\ \A j \in Calls \ {k} : call'[j].pc = "starting" => call'[j].child # p
    BY DEF LiveChildrenAreOwned, Live
  <2>1. Live(p) BY <1>5 DEF Live
  <2>2. p \notin Processes(G) /\ ~children[p].killed /\ children'[p].chat = children[p].chat
    BY <2>1 DEF Closes, Live
  <2>3. CASE active[children[p].chat] = p
    <3>1. children[p].chat \in Chats
      BY <2>1, ChildKinds, LiveFields DEF Live, TypeOK, ChildRecords
    <3>2. children[p].chat \notin G BY <2>2, <2>3 DEF Processes
    <3>3. active'[children[p].chat] = p BY <2>3, <3>1, <3>2 DEF Closes, Without
    <3> QED BY <2>2, <3>3
  <2>4. CASE p \in overwritten BY <1>1, <2>4
  <2>5. ASSUME NEW k \in Calls, call[k].pc = "starting", call[k].child = p,
               \A j \in Calls \ {k} : call[j].pc = "starting" => call[j].child # p
        PROVE  /\ call'[k].pc = "starting" /\ call'[k].child = p
               /\ \A j \in Calls \ {k} : call'[j].pc = "starting" => call'[j].child # p
    BY <2>5 DEF CallsStay, Holding
  <2> QED BY <2>1, <2>2, <2>3, <2>4, <2>5 DEF LiveChildrenAreOwned, Live
<1>13. Timers'
  <2> SUFFICES ASSUME NEW p \in Children, Armed(p)'
               PROVE  active'[children'[p].chat] = p \/ p \in overwritten'
    BY DEF Timers
  <2>1. Armed(p) /\ p \notin Processes(G) /\ children'[p].chat = children[p].chat
    BY DEF Closes, Armed
  <2>2. CASE active[children[p].chat] = p
    <3>1. children[p].chat \in Chats BY <2>1, ChatOfChild DEF Armed
    <3>2. children[p].chat \notin G BY <2>1, <2>2 DEF Processes
    <3>3. active'[children[p].chat] = p BY <2>2, <3>1, <3>2 DEF Closes, Without
    <3> QED BY <2>1, <3>3
  <2> QED BY <1>1, <2>1, <2>2 DEF Timers
<1> QED BY <1>2, <1>6, <1>7, <1>9, <1>10, <1>11, <1>12, <1>13 DEF CallsStay

-----------------------------------------------------------------------------
(* What starting a process does.                                           *)

\* Call k has a new child, born + 1; that of call k before it, if any, is dead.
Starts(k) ==
    /\ UNCHANGED <<active, gauge, overwritten>>
    /\ born < MaxChildren /\ born' = born + 1
    /\ call[k].pc \in {"evicting", "backoff", "starting"}
    /\ \A j \in Calls \ {k} : call'[j] = call[j]
    /\ call'[k] \in CallRecords
    /\ call'[k].pc = "starting" /\ call'[k].child = born + 1 /\ call'[k].chat = call[k].chat
    /\ call'[k].resume => call'[k].id # None
    /\ children' \in [Children -> ChildRecords]
    /\ children'[born + 1] \in LiveChildren
    /\ children'[born + 1].chat = call[k].chat
    /\ ~children'[born + 1].killed /\ ~children'[born + 1].timer
    /\ children'[born + 1].id = None
    /\ \A p \in Children \ {born + 1} :
          \/ children'[p] = children[p] /\ (call[k].pc = "starting" => p # call[k].child)
          \/ /\ call[k].pc = "starting" /\ p = call[k].child
             /\ children'[p].state = "dead" /\ children'[p].chat = children[p].chat
             /\ ~children'[p].timer

LEMMA SoundStarting ==
    ASSUME TypeOK, Sound, NEW k \in Calls, Starts(k)
    PROVE  Sound'
<1> USE DEF Sound
<1>1. /\ born \in Nat /\ born + 1 \in Children /\ born' = born + 1 /\ born + 1 > born
      /\ Children = 1 .. MaxChildren /\ MaxChildren \in Nat
      /\ 1 .. born \subseteq Children
  BY BoundsAssumption DEF Starts, TypeOK, Children
<1>2. active' = active /\ overwritten' = overwritten /\ gauge' = gauge /\ Sessions' = Sessions
  BY DEF Starts, Sessions
<1>3. children[born + 1].state = "unborn" BY <1>1 DEF Born
<1>4. children'[born + 1].state = "live" BY LiveFields DEF Starts
<1>5. ASSUME NEW p \in Children \ {born + 1}
      PROVE  /\ children'[p].chat = children[p].chat
             /\ call[k].pc = "starting" /\ p = call[k].child => p \in 1 .. born /\ Live(p)
             /\ ~(call[k].pc = "starting" /\ p = call[k].child) => children'[p] = children[p]
             /\ children'[p].state = "unborn" <=> children[p].state = "unborn"
  <2>1. CASE call[k].pc = "starting" /\ p = call[k].child
    <3>1. p \in 1 .. born /\ Live(p) BY <2>1 DEF Held, Holding, Starting
    <3> QED BY <2>1, <3>1 DEF Starts, Live
  <2>2. CASE ~(call[k].pc = "starting" /\ p = call[k].child) BY <2>2 DEF Starts
  <2> QED BY <2>1, <2>2
<1>6. \A c \in Chats : active[c] # born + 1
  BY <1>1, <1>3 DEF Mapped, Live, Sessions, None
<1>7. \A j \in Calls : Holding(j) => call[j].child \in 1 .. born /\ call[j].child # born + 1
  BY <1>1 DEF Held
<1>8. \A j \in Calls \ {k} : call'[j] = call[j] BY DEF Starts
<1>9. call'[k].pc = "starting" /\ call'[k].child = born + 1 /\ call'[k].chat = call[k].chat
  BY DEF Starts
<1>10. Born'
  <2>1. ASSUME NEW p \in Children PROVE children'[p].state = "unborn" <=> p > born + 1
    <3>1. CASE p = born + 1 BY <1>1, <1>4, <3>1
    <3>2. CASE p # born + 1 BY <1>1, <1>5, <3>2 DEF Born
    <3> QED BY <3>1, <3>2
  <2> QED BY <1>1, <2>1 DEF Born
<1>11. Mapped'
  <2>1. ASSUME NEW c \in Sessions PROVE children'[active[c]] = children[active[c]]
    <3>1. active[c] \in Children \ {born + 1} BY <1>6, <2>1 DEF TypeOK, Sessions
    <3>2. ~(call[k].pc = "starting" /\ active[c] = call[k].child) BY DEF Starting, Sessions
    <3> QED BY <1>5, <3>1, <3>2
  <2> QED BY <1>2, <2>1 DEF Mapped, Live
<1>12. Held'
  <2>1. ASSUME NEW j \in Calls, Holding(j)'
        PROVE  call'[j].child \in 1 .. born + 1 /\ children'[call'[j].child].chat = call'[j].chat
    <3>1. CASE j = k BY <1>1, <1>9, <3>1 DEF Starts
    <3>2. CASE j # k
      <4>1. Holding(j) /\ call'[j] = call[j] BY <1>8, <2>1, <3>2 DEF Holding
      <4>2. call[j].child \in Children \ {born + 1} BY <1>1, <1>7, <4>1
      <4> QED BY <1>1, <1>5, <1>7, <4>1, <4>2 DEF Held
    <3> QED BY <3>1, <3>2
  <2> QED BY <1>1, <2>1 DEF Held
<1>13. ASSUME NEW j \in Calls \ {k}, call[j].pc = "starting"
       PROVE  children'[call[j].child] = children[call[j].child]
  <2>1. call[j].child \in Children \ {born + 1} BY <1>1, <1>7, <1>13 DEF Holding
  <2>2. ~(call[k].pc = "starting" /\ call[j].child = call[k].child)
    BY <1>13 DEF Starting, Holding
  <2> QED BY <1>5, <2>1, <2>2
<1>14. Starting'
  <2>1. ASSUME NEW j \in Calls, call'[j].pc = "starting"
        PROVE  /\ children'[call'[j].child].state = "live"
               /\ ~children'[call'[j].child].killed
               /\ call'[j].child \notin overwritten
               /\ \A c \in Chats : active[c] # call'[j].child
               /\ \A i \in Calls : Holding(i)' /\ call'[i].child = call'[j].child => i = j
    <3>1. CASE j = k
      <4>1. call'[j].child \notin overwritten BY <1>1, <1>9, <3>1 DEF Replaced
      <4>2. \A i \in Calls \ {k} : Holding(i)' => call'[i].child # born + 1
        BY <1>7, <1>8 DEF Holding
      <4>3. ~children'[born + 1].killed BY DEF Starts
      <4> QED BY <1>4, <1>6, <1>9, <3>1, <4>1, <4>2, <4>3
    <3>2. CASE j # k
      <4>1. call[j].pc = "starting" /\ call'[j] = call[j] BY <1>8, <2>1, <3>2
      <4>2. call[j].child # born + 1 BY <1>7, <4>1 DEF Holding
      <4>3. \A i \in Calls : Holding(i)' /\ call'[i].child = call[j].child => i = j
        BY <1>8, <1>9, <4>1, <4>2 DEF Starting, Holding
      <4> QED BY <1>13, <3>2, <4>1, <4>3 DEF Starting, Live
    <3> QED BY <3>1, <3>2
  <2> QED BY <1>2, <2>1 DEF Starting, Live
<1>15. Resuming' BY <1>8 DEF Resuming, Starts
<1>16. Replaced' BY <1>1, <1>2 DEF Replaced
<1>17. LiveChildrenAreOwned'
  <2> SUFFICES ASSUME NEW p \in Children, Live(p)', ~children'[p].killed
               PROVE  \/ active'[children'[p].chat] = p
                      \/ p \in overwritten'
                      \/ \E j \in Calls : /\ call'[j].pc = "starting" /\ call'[j].child = p
                               /\ \A i \in Calls \ {j} : call'[i].pc = "starting" => call'[i].child # p
    BY DEF LiveChildrenAreOwned, Live
  <2>1. CASE p = born + 1
    <3>1. \A i \in Calls \ {k} : call'[i].pc = "starting" => call'[i].child # p
      BY <1>7, <1>8, <2>1 DEF Holding
    <3> QED BY <1>9, <2>1, <3>1
  <2>2. CASE p # born + 1
    <3>1. children'[p] = children[p] BY <2>2 DEF Starts, Live
    <3>2. ~(call[k].pc = "starting" /\ p = call[k].child) BY <2>2 DEF Starts, Live
    <3>3. ASSUME NEW j \in Calls, call[j].pc = "starting", call[j].child = p,
                 \A i \in Calls \ {j} : call[i].pc = "starting" => call[i].child # p
          PROVE  /\ call'[j].pc = "starting" /\ call'[j].child = p
                 /\ \A i \in Calls \ {j} : call'[i].pc = "starting" => call'[i].child # p
      BY <1>8, <1>9, <2>2, <3>2, <3>3
    <3> QED BY <1>2, <3>1, <3>3 DEF LiveChildrenAreOwned, Live
  <2> QED BY <2>1, <2>2
<1>18. Timers'
  <2> SUFFICES ASSUME NEW p \in Children, Armed(p)'
               PROVE  active'[children'[p].chat] = p \/ p \in overwritten'
    BY DEF Timers
  <2>1. p # born + 1 BY DEF Starts, Armed
  <2>2. children'[p] = children[p] BY <2>1 DEF Starts, Armed
  <2> QED BY <1>2, <2>2 DEF Timers, Armed
<1> QED BY <1>2, <1>10, <1>11, <1>12, <1>14, <1>15, <1>16, <1>17, <1>18
    DEF GaugeCountsSessions

-----------------------------------------------------------------------------
(* What installing a session does.                                         *)

\* The child of call k gets an id, and its session enters the map.
Installs(k, id) ==
    LET p == call[k].child
        c == call[k].chat
    IN
    /\ call[k].pc = "starting"
    /\ id \in Ids
    /\ children' = [children EXCEPT ![p].id = id, ![p].timer = TRUE]
    /\ active' = [active EXCEPT ![c] = p]
    /\ gauge' = gauge + 1 /\ born' = born
    /\ overwritten' = IF active[c] # None THEN overwritten \cup {active[c]} ELSE overwritten
    /\ \A j \in Calls \ {k} : call'[j] = call[j]
    /\ call'[k] \in CallRecords
    /\ call'[k].pc = "queued" /\ call'[k].child = p /\ call'[k].chat = c

LEMMA ChildOfCall ==
    ASSUME TypeOK, Sound, NEW k \in Calls, Holding(k)
    PROVE  /\ call[k] \in CallRecords /\ call[k].chat \in Chats
           /\ call[k].child \in 1 .. born /\ call[k].child \in Children
           /\ call[k].child # None
           /\ children[call[k].child].state \in {"live", "dead"}
           /\ children[call[k].child].chat = call[k].chat
<1>1. call[k] \in CallRecords BY CallKinds DEF TypeOK, Holding
<1>2. call[k].child \in 1 .. born /\ children[call[k].child].chat = call[k].chat
  BY DEF Sound, Held
<1>3. call[k].child \in Children BY <1>2, BoundsAssumption DEF TypeOK, Children
<1>4. children[call[k].child].state # "unborn" BY <1>2, <1>3 DEF Sound, Born, TypeOK
<1>5. children[call[k].child].state \in {"live", "dead"}
  BY <1>3, <1>4, ChildKinds DEF TypeOK, ChildRecords
<1>6. call[k].child # None BY <1>2 DEF None, TypeOK
<1> QED BY <1>1, <1>2, <1>3, <1>5, <1>6, CallFields

LEMMA SoundInstall ==
    ASSUME TypeOK, Sound, NEW k \in Calls, NEW id \in Ids, Installs(k, id)
    PROVE  /\ Sound' /\ children' \in [Children -> ChildRecords]
           /\ overwritten' \subseteq Children
<1> DEFINE p == call[k].child
           c == call[k].chat
<1> USE DEF Sound
<1>1. /\ p \in 1 .. born /\ p \in Children /\ p # None /\ c \in Chats
      /\ children[p].chat = c /\ call[k].pc = "starting" /\ Holding(k)
  BY ChildOfCall DEF Installs, Holding
<1>2. /\ Live(p) /\ ~children[p].killed /\ p \notin overwritten
      /\ \A d \in Chats : active[d] # p
      /\ \A j \in Calls \ {k} : Holding(j) => call[j].child # p
  BY <1>1 DEF Starting
<1>3. children[p] \in LiveChildren BY <1>1, <1>2, ChildKinds DEF TypeOK, ChildRecords, Live
<1>4. children'[p] = [children[p] EXCEPT !.id = id, !.timer = TRUE]
  BY <1>1 DEF Installs, TypeOK
<1>5. /\ children'[p] \in LiveChildren /\ children'[p].chat = c
      /\ ~children'[p].killed /\ children'[p].id = id /\ children'[p].timer
  <2>1. /\ children'[p] \in LiveChildren /\ children'[p].chat = children[p].chat
        /\ children'[p].killed = children[p].killed
        /\ children'[p].id = id /\ children'[p].timer
    <3> DEFINE r == children[p]
    <3>1. LET s == [r EXCEPT !.id = id, !.timer = TRUE] IN
          /\ s \in LiveChildren
          /\ s.chat = r.chat /\ s.killed = r.killed /\ s.id = id /\ s.timer
      <4> HIDE DEF r
      <4>1. r \in LiveChildren BY <1>3 DEF r
      <4> QED BY <4>1, InstalledChild
    <3> QED BY <1>4, <3>1
  <2> QED BY <1>1, <1>2, <2>1
<1>6. children'[p].state = "live" /\ children'[p] \in ChildRecords BY <1>5, LiveFields
<1>7. \A q \in Children \ {p} : children'[q] = children[q] BY <1>1 DEF Installs, TypeOK
<1>8. active'[c] = p /\ \A d \in Chats \ {c} : active'[d] = active[d]
  BY <1>1 DEF Installs, TypeOK
<1>9. Sessions' = Sessions \cup {c} BY <1>1, <1>8 DEF Sessions
<1>10. \A j \in Calls \ {k} : call'[j] = call[j] BY DEF Installs
<1>11. call'[k].pc = "queued" /\ call'[k].child = p /\ call'[k].chat = c BY DEF Installs
<1>12. born' = born BY DEF Installs
<1>13. overwritten' = IF active[c] # None THEN overwritten \cup {active[c]} ELSE overwritten
  BY DEF Installs
<1>14. active[c] # None => active[c] \in 1 .. born /\ active[c] \notin overwritten /\ active[c] # p
  <2> SUFFICES ASSUME active[c] # None PROVE active[c] \in 1 .. born /\ active[c] \notin overwritten
    BY <1>1, <1>2
  <2>1. c \in Sessions BY <1>1 DEF Sessions
  <2>2. active[c] \notin overwritten /\ Live(active[c]) BY <2>1 DEF Mapped
  <2>3. active[c] \in Children BY <1>1 DEF TypeOK
  <2>4. ~(active[c] > born) BY <2>2, <2>3 DEF Born, Live
  <2> QED BY <2>2, <2>3, <2>4, BoundsAssumption DEF Children, TypeOK
<1>15. children' \in [Children -> ChildRecords]
  BY <1>1, <1>6, <1>7 DEF Installs, TypeOK, ChildRecords
<1>16. Born' BY <1>1, <1>2, <1>6, <1>7, <1>12 DEF Born, Live
<1>17. Mapped'
  <2>1. ASSUME NEW d \in Sessions, d # c
        PROVE  /\ active[d] # p /\ active[d] \in Children /\ active[d] \notin overwritten'
               /\ children'[active[d]] = children[active[d]]
    <3>1. active[d] # p /\ active[d] \in Children BY <1>2, <2>1 DEF Sessions, TypeOK
    <3>2. active[d] # active[c] BY <1>1, <2>1 DEF Mapped, Sessions
    <3> QED BY <1>7, <1>13, <2>1, <3>1, <3>2 DEF Mapped
  <2>2. p \notin overwritten' BY <1>2, <1>13, <1>14
  <2>3. id # None BY DEF Ids, None
  <2> QED BY <1>5, <1>6, <1>8, <1>9, <2>1, <2>2, <2>3 DEF Mapped, Live, Sessions
<1>18. Held'
  <2>1. ASSUME NEW j \in Calls, Holding(j)
        PROVE  children'[call[j].child].chat = children[call[j].child].chat
    BY <1>1, <1>5, <1>7, <2>1, ChildOfCall
  <2> QED BY <1>1, <1>10, <1>11, <1>12, <2>1 DEF Held, Holding
<1>19. Starting'
  <2>1. ASSUME NEW j \in Calls, call'[j].pc = "starting"
        PROVE  /\ children'[call'[j].child].state = "live"
               /\ ~children'[call'[j].child].killed
               /\ call'[j].child \notin overwritten'
               /\ \A d \in Chats : active'[d] # call'[j].child
               /\ \A i \in Calls : Holding(i)' /\ call'[i].child = call'[j].child => i = j
    <3>1. j # k /\ call'[j] = call[j] /\ call[j].pc = "starting" BY <1>10, <1>11, <2>1
    <3>2. call[j].child \in Children /\ call[j].child # p
      BY <1>2, <3>1, ChildOfCall DEF Holding
    <3>3. children'[call[j].child] = children[call[j].child] BY <1>7, <3>2
    <3>4. call[j].child \notin overwritten' BY <1>1, <1>13, <3>1 DEF Starting
    <3>5. \A i \in Calls : Holding(i)' => Holding(i) /\ call'[i].child = call[i].child
      BY <1>1, <1>10, <1>11 DEF Holding
    <3> QED BY <1>8, <3>1, <3>2, <3>3, <3>4, <3>5 DEF Starting, Live
  <2> QED BY <2>1 DEF Starting, Live
<1>20. Resuming' BY <1>10, <1>11 DEF Resuming
<1>21. Replaced' BY <1>12, <1>13, <1>14 DEF Replaced
<1>22. overwritten' \subseteq Children BY <1>1, <1>13 DEF TypeOK
<1>23. GaugeCountsSessions'
  <2>1. CASE active[c] = None
    <3>1. Cardinality(Sessions \cup {c}) = Cardinality(Sessions) + 1
      BY <2>1, SessionSets, FS_AddElement DEF Sessions
    <3> QED BY <1>9, <1>13, <2>1, <3>1, SessionSets DEF GaugeCountsSessions, Installs
  <2>2. CASE active[c] # None
    <3>1. Sessions' = Sessions BY <1>1, <1>9, <2>2 DEF Sessions
    <3>2. Cardinality(overwritten') = Cardinality(overwritten) + 1
      BY <1>13, <1>14, <2>2, SessionSets, FS_AddElement
    <3> QED BY <3>1, <3>2, SessionSets DEF GaugeCountsSessions, Installs
  <2> QED BY <2>1, <2>2
<1>24. LiveChildrenAreOwned'
  <2> SUFFICES ASSUME NEW q \in Children, Live(q)', ~children'[q].killed
               PROVE  \/ active'[children'[q].chat] = q
                      \/ q \in overwritten'
                      \/ \E j \in Calls : /\ call'[j].pc = "starting" /\ call'[j].child = q
                               /\ \A i \in Calls \ {j} : call'[i].pc = "starting" => call'[i].child # q
    BY DEF LiveChildrenAreOwned, Live
  <2>1. CASE q = p BY <1>5, <1>8, <2>1
  <2>2. CASE q # p
    <3>1. children'[q] = children[q] BY <1>7, <2>2
    <3>2. children[q].chat \in Chats
      BY <3>1, ChildKinds, LiveFields DEF Live, TypeOK, ChildRecords
    <3>3. CASE active[children[q].chat] = q
      BY <1>1, <1>8, <1>13, <2>2, <3>1, <3>2, <3>3 DEF None, Children
    <3>4. CASE q \in overwritten BY <1>13, <3>4
    <3>5. ASSUME NEW j \in Calls, call[j].pc = "starting", call[j].child = q,
                 \A i \in Calls \ {j} : call[i].pc = "starting" => call[i].child # q
          PROVE  /\ call'[j].pc = "starting" /\ call'[j].child = q
                 /\ \A i \in Calls \ {j} : call'[i].pc = "starting" => call'[i].child # q
      BY <1>10, <1>11, <2>2, <3>5
    <3> QED BY <3>1, <3>3, <3>4, <3>5 DEF LiveChildrenAreOwned, Live
  <2> QED BY <2>1, <2>2
<1>25. Timers'
  <2> SUFFICES ASSUME NEW q \in Children, Armed(q)'
               PROVE  active'[children'[q].chat] = q \/ q \in overwritten'
    BY DEF Timers
  <2>1. CASE q = p BY <1>5, <1>8, <2>1
  <2>2. CASE q # p
    <3>1. children'[q] = children[q] /\ Armed(q) BY <1>7, <2>2 DEF Armed
    <3>2. children[q].chat \in Chats BY <3>1, ChatOfChild DEF Armed
    <3>3. CASE active[children[q].chat] = q
      BY <1>1, <1>8, <1>13, <2>2, <3>1, <3>2, <3>3 DEF None, Children
    <3>4. CASE q \in overwritten BY <1>13, <3>4
    <3> QED BY <3>1, <3>3, <3>4 DEF Timers
  <2> QED BY <2>1, <2>2
<1> QED BY <1>15, <1>16, <1>17, <1>18, <1>19, <1>20, <1>21, <1>22, <1>23, <1>24, <1>25

-----------------------------------------------------------------------------
(* What a signal to a process or its exit does.                            *)

SessionsOf(p) == {c \in Sessions : active[c] = p}

\* Process p is signalled, or exits and takes its session with it; a call that
\* was starting it is over.
Hurts(p) ==
    /\ Live(p)
    /\ born' = born /\ overwritten' = overwritten
    /\ \A q \in Children \ {p} : children'[q] = children[q]
    /\ children' \in [Children -> ChildRecords]
    /\ children'[p].chat = children[p].chat
    /\ \/ /\ children'[p].state = "live" /\ children'[p].killed
          /\ children'[p].timer = children[p].timer /\ children'[p].id = children[p].id
          /\ children'[p].conv = children[p].conv
          /\ UNCHANGED <<active, gauge>>
       \/ /\ children'[p].state = "dead"
          /\ children'[p].timer => children[p].timer /\ SessionsOf(p) = {}
          /\ active' = Without(SessionsOf(p))
          /\ gauge' = gauge - Cardinality(SessionsOf(p))
    /\ Resuming'
    /\ \A k \in Calls :
          /\ Holding(k)' => /\ Holding(k)
                            /\ call'[k].child = call[k].child /\ call'[k].chat = call[k].chat
          /\ call'[k].pc = "starting" <=> call[k].pc = "starting" /\ call[k].child # p

LEMMA SoundHurt ==
    ASSUME TypeOK, Sound, NEW p \in Children, Hurts(p)
    PROVE  Sound' /\ gauge' \in Nat
<1> USE DEF Sound
<1>1. PICK G \in SUBSET Sessions :
         /\ active' = Without(G) /\ gauge' = gauge - Cardinality(G)
         /\ \A c \in G : active[c] = p
         /\ children'[p].state = "live" => G = {}
         /\ children'[p].state = "dead" => G = SessionsOf(p)
  <2>1. CASE children'[p].state = "live"
    <3>1. UNCHANGED <<active, gauge>> BY <2>1 DEF Hurts
    <3>2. Without({}) = active BY DEF Without, TypeOK
    <3>3. gauge - Cardinality({}) = gauge BY FS_EmptySet DEF TypeOK
    <3> QED BY <2>1, <3>1, <3>2, <3>3
  <2>2. CASE children'[p].state = "dead" BY <2>2 DEF Hurts, SessionsOf
  <2> QED BY <2>1, <2>2 DEF Hurts
<1>2. /\ born' = born /\ overwritten' = overwritten /\ Live(p)
      /\ children'[p].chat = children[p].chat
      /\ children'[p].state \in {"live", "dead"}
      /\ \A q \in Children \ {p} : children'[q] = children[q]
  BY DEF Hurts
<1>3. Sessions' = Sessions \ G /\ gauge' \in Nat /\ GaugeCountsSessions'
  BY <1>1, <1>2, ClosedGauge
<1>4. \A c \in Sessions' : active'[c] = active[c] BY <1>1, <1>3 DEF Without, Sessions
<1>5. \A c \in Chats : active'[c] \in {active[c], None} BY <1>1 DEF Without
<1>6. Born' BY <1>2 DEF Born, Live
<1>7. ASSUME NEW c \in Sessions' PROVE
        /\ children'[active[c]].state = "live"
        /\ children'[active[c]].chat = children[active[c]].chat
        /\ children'[active[c]].timer = children[active[c]].timer
        /\ children'[active[c]].id = children[active[c]].id
  <2>1. c \in Sessions /\ active[c] \in Children BY <1>3, <1>7 DEF Sessions, TypeOK
  <2>2. CASE active[c] = p
    <3>1. children'[p].state # "dead" BY <1>1, <1>3, <1>7, <2>1, <2>2 DEF SessionsOf
    <3> QED BY <1>2, <2>2, <3>1 DEF Hurts
  <2>3. CASE active[c] # p BY <1>2, <2>1, <2>3 DEF Mapped, Live
  <2> QED BY <2>2, <2>3
<1>8. Mapped' BY <1>2, <1>3, <1>4, <1>7 DEF Mapped, Live
<1>9. ASSUME NEW k \in Calls, Holding(k)
      PROVE  /\ call[k].child \in 1 .. born /\ call[k].child \in Children /\ call[k].child # None
             /\ children'[call[k].child].chat = call[k].chat
  BY <1>2, <1>9, ChildOfCall
<1>10. Held' BY <1>2, <1>9 DEF Held, Hurts
<1>11. Starting'
  <2>1. ASSUME NEW k \in Calls, call'[k].pc = "starting"
        PROVE  /\ call[k].pc = "starting" /\ call'[k].child = call[k].child
               /\ children'[call[k].child] = children[call[k].child]
               /\ \A c \in Chats : active'[c] # call[k].child
    <3>1. call[k].pc = "starting" /\ call[k].child # p /\ call'[k].child = call[k].child
      BY <2>1 DEF Hurts, Holding
    <3>2. call[k].child \in Children /\ call[k].child # None BY <1>9, <3>1 DEF Holding
    <3>3. children'[call[k].child] = children[call[k].child] BY <1>2, <3>1, <3>2
    <3> QED BY <1>5, <3>1, <3>2, <3>3 DEF Starting
  <2>2. \A j \in Calls : Holding(j)' => Holding(j) /\ call'[j].child = call[j].child
    BY DEF Hurts
  <2> QED BY <1>2, <2>1, <2>2 DEF Starting, Live
<1>12. Replaced' BY <1>2 DEF Replaced
<1>13. LiveChildrenAreOwned'
  <2> SUFFICES ASSUME NEW q \in Children, Live(q)', ~children'[q].killed
               PROVE  \/ active'[children'[q].chat] = q
                      \/ q \in overwritten'
                      \/ \E k \in Calls : /\ call'[k].pc = "starting" /\ call'[k].child = q
                               /\ \A j \in Calls \ {k} : call'[j].pc = "starting" => call'[j].child # q
    BY DEF LiveChildrenAreOwned, Live
  <2>1. q # p BY DEF Hurts, Live
  <2>2. children'[q] = children[q] BY <1>2, <2>1
  <2>3. children[q].chat \in Chats
    BY <2>2, ChildKinds, LiveFields DEF Live, TypeOK, ChildRecords
  <2>4. CASE active[children[q].chat] = q
    BY <1>1, <2>1, <2>2, <2>3, <2>4 DEF Without
  <2>5. CASE q \in overwritten BY <1>2, <2>5
  <2>6. ASSUME NEW k \in Calls, call[k].pc = "starting", call[k].child = q,
               \A j \in Calls \ {k} : call[j].pc = "starting" => call[j].child # q
        PROVE  /\ call'[k].pc = "starting" /\ call'[k].child = q
               /\ \A j \in Calls \ {k} : call'[j].pc = "starting" => call'[j].child # q
    BY <2>1, <2>6 DEF Hurts, Holding
  <2> QED BY <2>2, <2>4, <2>5, <2>6 DEF LiveChildrenAreOwned, Live
<1>14. Timers'
  <2> SUFFICES ASSUME NEW q \in Children, Armed(q)'
               PROVE  active'[children'[q].chat] = q \/ q \in overwritten'
    BY DEF Timers
  <2>1. /\ Armed(q) /\ children'[q].chat = children[q].chat
        /\ q = p /\ children'[p].state = "dead" => SessionsOf(p) = {}
    BY <1>2 DEF Hurts, Armed, Live
  <2>2. children[q].chat \in Chats BY <2>1, ChatOfChild DEF Armed
  <2>3. CASE active[children[q].chat] = q
    <3>1. children[q].chat \in Sessions BY <2>2, <2>3 DEF Sessions, None, Children
    <3>2. children[q].chat \notin G
      <4>1. CASE q # p BY <1>1, <2>3, <4>1
      <4>2. CASE q = p BY <1>1, <1>2, <2>1, <2>3, <3>1, <4>2 DEF SessionsOf
      <4> QED BY <4>1, <4>2
    <3> QED BY <1>1, <2>1, <2>2, <2>3, <3>2 DEF Without
  <2>4. CASE q \in overwritten BY <1>2, <2>4
  <2> QED BY <2>1, <2>3, <2>4 DEF Timers
<1> QED BY <1>3, <1>6, <1>8, <1>10, <1>11, <1>12, <1>13, <1>14 DEF Hurts

-----------------------------------------------------------------------------
(* What the steps do to the calls.                                         *)

CallsTyped == call' \in [Calls -> CallRecords \cup {NoCall}]

LEMMA ClearingCalls ==
    ASSUME TypeOK, NEW c \in Chats, ClearQueue(c)
    PROVE  /\ CallsTyped
           /\ \A k \in Calls :
                /\ call'[k].pc = call[k].pc
                /\ call[k] # NoCall =>
                     /\ call'[k].chat = call[k].chat /\ call'[k].child = call[k].child
                     /\ call'[k].resume = call[k].resume /\ call'[k].id = call[k].id
                     /\ call[k].chat = c => call'[k].cleared
                /\ ~(call[k] # NoCall /\ call[k].chat = c) => call'[k] = call[k]
<1>1. ASSUME NEW k \in CallsOf(c)
      PROVE  /\ k \in Calls /\ call[k] \in CallRecords
             /\ call'[k] = [call[k] EXCEPT !.cleared = TRUE]
  BY <1>1 DEF CallsOf, ClearQueue, TypeOK
<1>2. ASSUME NEW k \in CallsOf(c)
      PROVE  /\ call'[k] \in CallRecords /\ call'[k].pc = call[k].pc
             /\ call'[k].chat = call[k].chat /\ call'[k].child = call[k].child
             /\ call'[k].resume = call[k].resume /\ call'[k].id = call[k].id
             /\ call'[k].cleared
  BY <1>1, ClearedFields
<1>3. \A k \in Calls \ CallsOf(c) : call'[k] = call[k] BY DEF ClearQueue
<1>4. CallsTyped BY <1>2, <1>3 DEF ClearQueue, CallsTyped, TypeOK
<1> QED BY <1>2, <1>3, <1>4 DEF CallsOf

LEMMA ReturningCalls ==
    ASSUME TypeOK, NEW k \in Calls, Return(k)
    PROVE  /\ CallsTyped /\ ahead' \in [Calls -> SUBSET Calls]
           /\ call'[k] = NoCall /\ call'[k].pc = "idle"
           /\ \A j \in Calls \ {k} : call'[j] = call[j]
  BY DEF Return, NoCall, TypeOK, CallsTyped

LEMMA OneCallTyped ==
    ASSUME TypeOK, NEW k \in Calls, NEW r \in CallRecords, call' = [call EXCEPT ![k] = r]
    PROVE  CallsTyped /\ call'[k] = r /\ \A j \in Calls \ {k} : call'[j] = call[j]
  BY DEF TypeOK, CallsTyped

LEMMA JoiningCalls ==
    ASSUME TypeOK, NEW k \in Calls, NEW c \in Chats, NEW p \in Children,
           NEW cleared \in BOOLEAN, JoinQueue(k, c, p, cleared)
    PROVE  /\ CallsTyped /\ ahead' \in [Calls -> SUBSET Calls]
           /\ call'[k] \in CallRecords /\ call'[k].pc = "queued" /\ call'[k].chat = c
           /\ call'[k].child = p /\ call'[k].cleared = cleared /\ ~call'[k].resume
           /\ \A j \in Calls \ {k} : call'[j] = call[j]
<1> DEFINE r == [NewCall(c, "queued", FALSE, p) EXCEPT !.cleared = cleared]
<1>1. /\ r \in CallRecords /\ r.pc = "queued" /\ r.chat = c /\ r.child = p
      /\ r.cleared = cleared /\ ~r.resume
  BY DEF NewCall, CallRecords
<1>2. call' = [call EXCEPT ![k] = r] BY DEF JoinQueue
<1> HIDE DEF r
<1>3. CallsTyped /\ call'[k] = r /\ \A j \in Calls \ {k} : call'[j] = call[j]
  BY <1>1, <1>2, OneCallTyped
<1>4. ahead' \in [Calls -> SUBSET Calls] BY DEF JoinQueue, InQueue, TypeOK
<1> QED BY <1>1, <1>3, <1>4

\* A step that ends calls or marks them, or lets them go on to a place where they
\* have no child or keep it, leaves CallsStay.
LEMMA ReturnStays ==
    ASSUME TypeOK, Sound, NEW k \in Calls, Return(k), call[k].pc # "starting"
    PROVE  CallsStay
<1>1. call'[k].pc = "idle" /\ \A j \in Calls \ {k} : call'[j] = call[j] BY ReturningCalls
<1> QED BY <1>1 DEF CallsStay, Sound, Resuming, Holding

LEMMA UnchangedStays ==
    ASSUME Sound, UNCHANGED call
    PROVE  CallsStay
  BY DEF CallsStay, Sound, Resuming, Holding

LEMMA ClearStays ==
    ASSUME TypeOK, Sound, NEW c \in Chats, ClearQueue(c)
    PROVE  CallsStay
<1>1. \A k \in Calls : call'[k].pc = call[k].pc BY ClearingCalls
<1>2. ASSUME NEW k \in Calls, call[k].pc # "idle"
      PROVE  /\ call'[k].chat = call[k].chat /\ call'[k].child = call[k].child
             /\ call'[k].resume = call[k].resume /\ call'[k].id = call[k].id
  BY <1>2, ClearingCalls DEF NoCall
<1> QED BY <1>1, <1>2 DEF CallsStay, Sound, Resuming, Holding

-----------------------------------------------------------------------------
(* Every step is of one of the four kinds.                                 *)

LEMMA ReconnectCloses ==
    ASSUME TypeOK, Sound, NEW c \in Chats, Reconnect(c) \/ Clean(c)
    PROVE  Closes({c} \cap Sessions) /\ CallsStay
  BY ClosesTerminated, ClearStays DEF Reconnect, Clean, CloseSessions

LEMMA CloseAllCloses ==
    ASSUME TypeOK, Sound, CloseAll
    PROVE  Closes(Chats \cap Sessions) /\ CallsStay
  BY ClosesTerminated, UnchangedStays DEF CloseAll, CloseSessions, history

LEMMA ConfigFailsCloses ==
    ASSUME TypeOK, Sound, NEW k \in Calls, NEW c \in Chats, ConfigFails(k, c)
    PROVE  Closes({c} \cap Sessions) /\ CallsStay
  BY ClosesTerminated, UnchangedStays DEF ConfigFails, history

LEMMA IdleTimerCloses ==
    ASSUME TypeOK, Sound, NEW p \in Children, IdleTimerFires(p)
    PROVE  Closes({children[p].chat} \cap Sessions) /\ CallsStay
  BY ClosesIdle, UnchangedStays DEF IdleTimerFires

LEMMA CreateCloses ==
    ASSUME TypeOK, Sound, NEW k \in Calls, NEW c \in Chats, Create(k, c)
    PROVE  /\ CallsTyped /\ CallsStay
           /\ call'[k].pc = "evicting" /\ call'[k].chat = c /\ ~call'[k].cleared
           /\ call[k] = NoCall
           /\ \A j \in Calls \ {k} : call'[j] = call[j]
           /\ \E V \in Victims(c) :
                /\ V \subseteq Sessions
                /\ Closes((V \cup {c}) \cap Sessions)
                /\ store' = Persisted(V) /\ restarts' = NoRestarts(V)
<1> DEFINE r == NewCall(c, "evicting", active[c] # None, None)
<1>1. r \in CallRecords /\ r.pc = "evicting" /\ r.chat = c /\ ~r.cleared /\ ~r.resume
  BY DEF NewCall, CallRecords
<1>2. call' = [call EXCEPT ![k] = r] BY DEF Create
<1> HIDE DEF r
<1>3. CallsTyped /\ call'[k] = r /\ \A j \in Calls \ {k} : call'[j] = call[j]
  BY <1>1, <1>2, OneCallTyped
<1>4. call[k] = NoCall BY DEF Create, NeedsSpawn, Begins
<1>5. call[k].pc = "idle" BY <1>4 DEF NoCall
<1>6. CallsStay BY <1>1, <1>3, <1>5 DEF CallsStay, Sound, Resuming, Holding
<1>7. PICK V \in Victims(c) :
        LET gone == (V \cup {c}) \cap Sessions IN
        /\ active' = Without(gone)
        /\ children' = Terminated({active[d] : d \in gone})
        /\ gauge' = gauge - Cardinality(gone)
        /\ store' = Persisted(V)
        /\ restarts' = NoRestarts(V)
  BY DEF Create
<1>8. V \subseteq Sessions BY DEF Victims
<1>9. Closes((V \cup {c}) \cap Sessions)
  <2> DEFINE gone == (V \cup {c}) \cap Sessions
  <2>1. gone \in SUBSET Chats /\ gone \cap Sessions = gone BY DEF Sessions
  <2>2. UNCHANGED <<born, overwritten>> BY DEF Create, history
  <2> HIDE DEF gone
  <2>3. Closes(gone \cap Sessions) BY <1>7, <2>1, <2>2, ClosesTerminated DEF gone
  <2> QED BY <2>1, <2>3 DEF gone
<1> QED BY <1>1, <1>3, <1>4, <1>6, <1>7, <1>8, <1>9

LEMMA NextChild ==
    ASSUME TypeOK, born < MaxChildren
    PROVE  born + 1 \in Children /\ born + 1 \in Ids
  BY BoundsAssumption DEF TypeOK, Children, Ids

LEMMA SpawnStarts ==
    ASSUME TypeOK, Sound, NEW k \in Calls, call[k].pc \in {"evicting", "backoff"},
           NEW r \in CallRecords, r.chat = call[k].chat, r.resume => r.id # None,
           Spawn(k, r), UNCHANGED <<active, gauge, overwritten>>
    PROVE  /\ Starts(k) /\ CallsTyped
           /\ call'[k].resume = r.resume /\ call'[k].id = r.id /\ call'[k].cleared = r.cleared
           /\ children'[born + 1].conv = IF r.resume THEN r.id ELSE born + 1
           /\ \A p \in Children \ {born + 1} : children'[p] = children[p]
<1> DEFINE p == born + 1
           conv == IF r.resume THEN r.id ELSE p
           s == [r EXCEPT !.pc = "starting", !.child = p]
           x == NewChild(r.chat, conv)
<1>1. p \in Children /\ p \in Ids BY NextChild DEF Spawn
<1>2. r.chat \in Chats /\ conv \in Ids BY <1>1, CallFields
<1>3. /\ s \in CallRecords /\ s.pc = "starting" /\ s.chat = r.chat /\ s.child = p
      /\ s.resume = r.resume /\ s.id = r.id /\ s.cleared = r.cleared
  BY <1>1 DEF CallRecords
<1>4. /\ x \in LiveChildren /\ x.chat = r.chat /\ x.conv = conv
      /\ ~x.killed /\ ~x.timer /\ x.id = None
  <2> HIDE DEF conv
  <2> QED BY <1>2, NewChildFields
<1>5. call' = [call EXCEPT ![k] = s] /\ children' = [children EXCEPT ![p] = x]
  BY DEF Spawn
<1> HIDE DEF s, x
<1>6. CallsTyped /\ call'[k] = s /\ \A j \in Calls \ {k} : call'[j] = call[j]
  BY <1>3, <1>5, OneCallTyped
<1>7. children'[p] = x /\ \A q \in Children \ {p} : children'[q] = children[q]
  BY <1>1, <1>5 DEF TypeOK
<1>8. children' \in [Children -> ChildRecords]
  BY <1>4, <1>5, LiveFields DEF TypeOK, ChildRecords
<1>9. Starts(k) BY <1>3, <1>4, <1>6, <1>7, <1>8 DEF Starts, Spawn
<1> QED BY <1>3, <1>4, <1>6, <1>7, <1>9

\* What Resolve and BackoffEnds leave of call k, which had the locals of r.
Proceeds(k, r) ==
    /\ CallsTyped /\ ahead' \in [Calls -> SUBSET Calls]
    /\ \A j \in Calls \ {k} : call'[j] = call[j]
    /\ \/ /\ Closes({}) /\ CallsStay /\ UNCHANGED <<children, born>>
          /\ \/ call'[k] = NoCall
             \/ /\ call'[k].pc = "backoff" /\ call'[k].chat = r.chat
                /\ call'[k].resume = r.resume /\ call'[k].id = r.id /\ call'[k].cleared = r.cleared
       \/ /\ Starts(k)
          /\ call'[k].resume = r.resume /\ call'[k].id = r.id /\ call'[k].cleared = r.cleared
          /\ children'[born + 1].conv = IF r.resume THEN r.id ELSE born + 1
          /\ \A p \in Children \ {born + 1} : children'[p] = children[p]

LEMMA SpawnProceeds ==
    ASSUME TypeOK, Sound, NEW k \in Calls, call[k].pc \in {"evicting", "backoff"},
           NEW r \in CallRecords, r.chat = call[k].chat, r.resume => r.id # None,
           Spawn(k, r) \/ Throws(k), UNCHANGED <<active, gauge, overwritten>>
    PROVE  Proceeds(k, r)
<1>1. CASE Spawn(k, r)
  <2>1. Starts(k) => \A j \in Calls \ {k} : call'[j] = call[j] BY DEF Starts
  <2>2. ahead' \in [Calls -> SUBSET Calls] BY <1>1 DEF Spawn, TypeOK
  <2> QED BY <1>1, <2>1, <2>2, SpawnStarts DEF Proceeds
<1>2. CASE Throws(k)
  <2>1. Return(k) /\ UNCHANGED <<children, born>> BY <1>2 DEF Throws
  <2>2. Closes({}) /\ CallsStay BY <2>1, ClosesNothing, ReturnStays
  <2> QED BY <2>1, <2>2, ReturningCalls DEF Proceeds
<1> QED BY <1>1, <1>2

\* The locals of a call after resolveStoredSession.
Resolved(k, resume) ==
    [call[k] EXCEPT !.resume = resume, !.id = IF resume THEN store[call[k].chat] ELSE None]

LEMMA ResolveProceeds ==
    ASSUME TypeOK, Sound, NEW k \in Calls, Resolve(k)
    PROVE  /\ UNCHANGED <<active, gauge, overwritten, closing, restarts, disturbed, forgotten>>
           /\ call[k] \in CallRecords
           /\ \E resume \in BOOLEAN :
                LET r == Resolved(k, resume) IN
                /\ resume => store[call[k].chat] # None
                /\ r \in CallRecords /\ r.chat = call[k].chat /\ r.resume = resume
                /\ r.cleared = call[k].cleared
                /\ r.id = IF resume THEN store[call[k].chat] ELSE None
                /\ store' = [store EXCEPT ![call[k].chat] = r.id]
                /\ Proceeds(k, r)
<1> DEFINE c == call[k].chat
<1>1. /\ UNCHANGED <<active, gauge, overwritten, closing, restarts, disturbed, forgotten>>
      /\ call[k].pc = "evicting"
  BY DEF Resolve, history
<1>2. call[k] \in CallRecords BY <1>1, CallKinds DEF TypeOK
<1>3. c \in Chats BY <1>2, CallFields
<1>4. PICK resume \in BOOLEAN :
        LET r == Resolved(k, resume) IN
        /\ resume => store[c] # None
        /\ store' = [store EXCEPT ![c] = r.id]
        /\ \/ Throws(k)
           \/ /\ call' = [call EXCEPT ![k] = [r EXCEPT !.pc = "backoff"]]
              /\ UNCHANGED <<children, born, ahead>>
           \/ Spawn(k, r)
  <2>1. PICK sameAgent \in BOOLEAN :
          LET resume == store[c] # None /\ sameAgent
              r == [call[k] EXCEPT !.resume = resume, !.id = IF resume THEN store[c] ELSE None]
          IN
          /\ store' = [store EXCEPT ![c] = r.id]
          /\ \/ Throws(k)
             \/ /\ call' = [call EXCEPT ![k] = [r EXCEPT !.pc = "backoff"]]
                /\ UNCHANGED <<children, born, ahead>>
             \/ Spawn(k, r)
    BY DEF Resolve
  <2>2. (store[c] # None /\ sameAgent) \in BOOLEAN OBVIOUS
  <2> QED BY <2>1, <2>2 DEF Resolved
<1> DEFINE r == Resolved(k, resume)
           id == IF resume THEN store[c] ELSE None
<1>5. id \in Ids \cup {None} /\ (resume => id # None) BY <1>3, <1>4 DEF TypeOK
<1>6. /\ r \in CallRecords /\ r.chat = c /\ r.resume = resume /\ r.cleared = call[k].cleared
      /\ r.pc = "evicting" /\ r.id = id
  <2> HIDE DEF id
  <2>1. [call[k] EXCEPT !.resume = resume, !.id = id] \in CallRecords
    BY <1>2, <1>5 DEF CallRecords
  <2>2. r = [call[k] EXCEPT !.resume = resume, !.id = id] BY DEF Resolved, id
  <2> HIDE DEF r
  <2> QED BY <1>1, <1>2, <2>1, <2>2 DEF CallRecords
<1> HIDE DEF r
<1>7. Proceeds(k, r)
  <2>1. CASE Spawn(k, r) \/ Throws(k) BY <1>1, <1>5, <1>6, <2>1, SpawnProceeds
  <2>2. CASE /\ call' = [call EXCEPT ![k] = [r EXCEPT !.pc = "backoff"]]
             /\ UNCHANGED <<children, born, ahead>>
    <3> DEFINE s == [r EXCEPT !.pc = "backoff"]
    <3>1. /\ s \in CallRecords /\ s.pc = "backoff" /\ s.chat = r.chat
          /\ s.resume = r.resume /\ s.id = r.id /\ s.cleared = r.cleared
      BY <1>6, WaitingFields
    <3>2. call' = [call EXCEPT ![k] = s] BY <2>2
    <3> HIDE DEF s
    <3>3. CallsTyped /\ call'[k] = s /\ \A j \in Calls \ {k} : call'[j] = call[j]
      BY <3>1, <3>2, OneCallTyped
    <3>4. CallsStay
      BY <1>1, <1>5, <1>6, <3>1, <3>3 DEF CallsStay, Sound, Resuming, Holding
    <3>5. Closes({}) BY <1>1, <2>2, ClosesNothing
    <3> QED BY <2>2, <3>1, <3>3, <3>4, <3>5 DEF Proceeds, TypeOK
  <2> QED BY <1>4, <2>1, <2>2 DEF r
<1> QED BY <1>1, <1>2, <1>4, <1>6, <1>7 DEF r

LEMMA BackoffProceeds ==
    ASSUME TypeOK, Sound, NEW k \in Calls, BackoffEnds(k)
    PROVE  /\ UNCHANGED <<active, store, gauge, overwritten, closing, restarts, disturbed, forgotten>>
           /\ call[k] \in CallRecords /\ Proceeds(k, call[k])
<1>1. /\ UNCHANGED <<active, store, gauge, overwritten, closing, restarts, disturbed, forgotten>>
      /\ call[k].pc = "backoff"
  BY DEF BackoffEnds, history
<1>2. call[k] \in CallRecords BY <1>1, CallKinds DEF TypeOK
<1>3. call[k].resume => call[k].id # None BY <1>1 DEF Sound, Resuming
<1>4. Spawn(k, call[k]) \/ Throws(k) BY DEF BackoffEnds
<1>5. Proceeds(k, call[k]) BY <1>1, <1>2, <1>3, <1>4, SpawnProceeds
<1> QED BY <1>1, <1>2, <1>5

LEMMA ReuseStays ==
    ASSUME TypeOK, Sound, NEW k \in Calls, NEW c \in Chats, Reuse(k, c)
    PROVE  /\ Closes({}) /\ CallsStay /\ CallsTyped /\ ahead' \in [Calls -> SUBSET Calls]
           /\ c \in Sessions /\ call[k] = NoCall
           /\ call'[k].pc = "queued" /\ call'[k].chat = c /\ ~call'[k].cleared
           /\ \A j \in Calls \ {k} : call'[j] = call[j]
<1>1. /\ JoinQueue(k, c, active[c], FALSE) /\ active[c] # None
      /\ UNCHANGED <<active, children, born, gauge, overwritten>>
      /\ call[k] = NoCall
  BY DEF Reuse, history, Begins
<1>2. active[c] \in Children /\ c \in Sessions BY <1>1 DEF TypeOK, Sessions
<1>3. /\ CallsTyped /\ ahead' \in [Calls -> SUBSET Calls]
      /\ call'[k].pc = "queued" /\ call'[k].chat = c
      /\ call'[k].child = active[c] /\ call'[k].cleared = FALSE /\ ~call'[k].resume
      /\ \A j \in Calls \ {k} : call'[j] = call[j]
  BY <1>1, <1>2, JoiningCalls
<1>4. call[k].pc = "idle" BY <1>1 DEF NoCall
<1>5. CallsStay BY <1>2, <1>3, <1>4 DEF CallsStay, Sound, Resuming, Holding
<1> QED BY <1>1, <1>2, <1>3, <1>5, ClosesNothing

\* Steps of the turn that touch no process.
LEMMA TurnStays ==
    ASSUME TypeOK, Sound, NEW k \in Calls,
           StartTurn(k) \/ PromptFails(k) \/ GetResult(k) \/ StreamEnds(k)
    PROVE  /\ Closes({}) /\ CallsStay /\ CallsTyped /\ ahead' \in [Calls -> SUBSET Calls]
           /\ UNCHANGED children
           /\ \A j \in Calls \ {k} : call'[j] = call[j]
           /\ \/ call'[k] = NoCall
              \/ /\ call'[k].pc = "running" /\ call[k].pc = "queued"
                 /\ call'[k].chat = call[k].chat /\ call'[k].cleared = call[k].cleared
<1>1. /\ call[k].pc \in {"queued", "running"}
      /\ UNCHANGED <<active, children, born, gauge, overwritten>>
  BY DEF StartTurn, PromptFails, GetResult, StreamEnds, history
<1>2. Closes({}) BY <1>1, ClosesNothing
<1>3. CASE Return(k) BY <1>1, <1>2, <1>3, ReturningCalls, ReturnStays
<1>4. CASE StartTurn(k)
  <2> DEFINE r == [call[k] EXCEPT !.pc = "running"]
  <2>1. call[k].pc = "queued" /\ call[k] \in CallRecords
    BY <1>4, CallKinds DEF StartTurn, TypeOK
  <2>2. /\ r \in CallRecords /\ r.pc = "running" /\ r.chat = call[k].chat
        /\ r.child = call[k].child /\ r.cleared = call[k].cleared
    BY <2>1, WaitingFields
  <2>3. call' = [call EXCEPT ![k] = r]
    <3>1. call' = [call EXCEPT ![k].pc = "running"] BY <1>4 DEF StartTurn
    <3> QED BY <3>1
  <2> HIDE DEF r
  <2>4. CallsTyped /\ call'[k] = r /\ \A j \in Calls \ {k} : call'[j] = call[j]
    BY <2>2, <2>3, OneCallTyped
  <2>5. CallsStay BY <2>1, <2>2, <2>4 DEF CallsStay, Sound, Resuming, Holding
  <2>6. ahead' = ahead BY <1>4 DEF StartTurn
  <2> QED BY <1>1, <1>2, <2>1, <2>2, <2>4, <2>5, <2>6 DEF TypeOK
<1> QED BY <1>3, <1>4 DEF PromptFails, GetResult, StreamEnds

\* A process that is not in the map leaves no session behind.
LEMMA HurtOffMap ==
    ASSUME TypeOK, NEW p \in Children, \A c \in Chats : active[c] # p,
           UNCHANGED <<active, gauge>>
    PROVE  active' = Without(SessionsOf(p)) /\ gauge' = gauge - Cardinality(SessionsOf(p))
<1>1. SessionsOf(p) = {} BY DEF SessionsOf, Sessions
<1>2. Without({}) = active BY DEF Without, TypeOK
<1>3. gauge - Cardinality({}) = gauge BY FS_EmptySet DEF TypeOK
<1> QED BY <1>1, <1>2, <1>3

\* Call k, which was starting a child, is over.
LEMMA StarterReturns ==
    ASSUME TypeOK, Sound, NEW k \in Calls, call[k].pc = "starting", Return(k)
    PROVE  /\ Resuming'
           /\ \A j \in Calls :
                /\ Holding(j)' => /\ Holding(j)
                                  /\ call'[j].child = call[j].child /\ call'[j].chat = call[j].chat
                /\ call'[j].pc = "starting" <=>
                      call[j].pc = "starting" /\ call[j].child # call[k].child
<1>1. call'[k].pc = "idle" /\ \A j \in Calls \ {k} : call'[j] = call[j] BY ReturningCalls
<1>2. \A j \in Calls \ {k} : call[j].pc = "starting" => call[j].child # call[k].child
  BY DEF Sound, Starting, Holding
<1> QED BY <1>1, <1>2 DEF Sound, Resuming, Holding

LEMMA StartupHurts ==
    ASSUME TypeOK, Sound, NEW k \in Calls, StartupFails(k)
    PROVE  /\ Hurts(call[k].child) /\ call[k].child \in Children
           /\ CallsTyped /\ ahead' \in [Calls -> SUBSET Calls]
           /\ call[k] \in CallRecords /\ call'[k] = NoCall
           /\ \A j \in Calls \ {k} : call'[j] = call[j]
<1> DEFINE p == call[k].child
           c == call[k].chat
<1>1. /\ call[k].pc = "starting" /\ Return(k)
      /\ UNCHANGED <<active, born, gauge, overwritten>>
  BY DEF StartupFails, history
<1>2. /\ p \in Children /\ c \in Chats /\ children[p].chat = c /\ call[k] \in CallRecords
  BY <1>1, ChildOfCall DEF Holding
<1>3. Live(p) /\ \A d \in Chats : active[d] # p BY <1>1 DEF Sound, Starting
<1>4. children[p] \in LiveChildren BY <1>2, <1>3, ChildKinds DEF TypeOK, ChildRecords, Live
<1>5. CASE children' = [children EXCEPT ![p].killed = TRUE]
  <2> DEFINE s == [children[p] EXCEPT !.killed = TRUE]
  <2>1. /\ s \in LiveChildren /\ s.chat = children[p].chat /\ s.killed /\ s.timer = children[p].timer
        /\ s.id = children[p].id /\ s.conv = children[p].conv
    BY <1>4 DEF LiveChildren
  <2>2. children' = [children EXCEPT ![p] = s] BY <1>5
  <2> HIDE DEF s
  <2>3. s \in ChildRecords /\ s.state = "live" BY <2>1, LiveFields
  <2>4. children'[p] = s /\ \A q \in Children \ {p} : children'[q] = children[q]
    BY <1>2, <2>2 DEF TypeOK
  <2>5. children' \in [Children -> ChildRecords] BY <2>2, <2>3 DEF TypeOK, ChildRecords
  <2>6. Hurts(p) BY <1>1, <1>3, <2>1, <2>3, <2>4, <2>5, StarterReturns DEF Hurts
  <2> QED BY <1>1, <1>2, <2>6, ReturningCalls
<1>6. CASE children' = [children EXCEPT ![p] = Dead(c, FALSE)]
  <2> DEFINE s == Dead(c, FALSE)
  <2>1. s \in ChildRecords /\ s.state = "dead" /\ s.chat = c /\ ~s.timer BY <1>2, DeadFields
  <2> HIDE DEF s
  <2>2. children' = [children EXCEPT ![p] = s] BY <1>6 DEF s
  <2>3. children'[p] = s /\ \A q \in Children \ {p} : children'[q] = children[q]
    BY <1>2, <2>2 DEF TypeOK
  <2>4. children' \in [Children -> ChildRecords] BY <2>1, <2>2 DEF TypeOK, ChildRecords
  <2>5. active' = Without(SessionsOf(p)) /\ gauge' = gauge - Cardinality(SessionsOf(p))
    BY <1>1, <1>2, <1>3, HurtOffMap
  <2>6. Hurts(p) BY <1>1, <1>2, <1>3, <2>1, <2>3, <2>4, <2>5, StarterReturns DEF Hurts
  <2> QED BY <1>1, <1>2, <2>6, ReturningCalls
<1> QED BY <1>5, <1>6 DEF StartupFails

LEMMA ActivityHurts ==
    ASSUME TypeOK, Sound, NEW k \in Calls, ActivityTimeout(k)
    PROVE  Hurts(call[k].child) /\ call[k].child \in Children
<1> DEFINE p == call[k].child
           s == [children[p] EXCEPT !.killed = TRUE]
<1>1. /\ call[k].pc = "running" /\ Usable(p)
      /\ children' = [children EXCEPT ![p].killed = TRUE]
      /\ UNCHANGED <<active, born, gauge, overwritten, call>>
  BY DEF ActivityTimeout, history
<1>2. p \in Children /\ children[p].state \in {"live", "dead"}
  BY <1>1, ChildOfCall DEF Holding
<1>3. Live(p) BY <1>1, <1>2 DEF Usable, Exited, Live
<1>4. children[p] \in LiveChildren BY <1>2, <1>3, ChildKinds DEF TypeOK, ChildRecords, Live
<1>5. /\ s \in LiveChildren /\ s.chat = children[p].chat /\ s.killed /\ s.timer = children[p].timer
      /\ s.id = children[p].id /\ s.conv = children[p].conv
  BY <1>4 DEF LiveChildren
<1>6. children' = [children EXCEPT ![p] = s] BY <1>1
<1> HIDE DEF s
<1>7. s \in ChildRecords /\ s.state = "live" BY <1>5, LiveFields
<1>8. children'[p] = s /\ \A q \in Children \ {p} : children'[q] = children[q]
  BY <1>2, <1>6 DEF TypeOK
<1>9. children' \in [Children -> ChildRecords] BY <1>6, <1>7 DEF TypeOK, ChildRecords
<1>10. \A j \in Calls : call[j].pc = "starting" => call[j].child # p
  BY <1>1 DEF Sound, Starting, Holding
<1> QED BY <1>1, <1>2, <1>3, <1>5, <1>7, <1>8, <1>9, <1>10 DEF Hurts, Sound, Resuming, Holding

LEMMA ExitHurts ==
    ASSUME TypeOK, Sound, NEW p \in Children, ChildExits(p)
    PROVE  /\ Hurts(p) /\ call' = call /\ children'[p].state = "dead"
           /\ \A q \in Children \ {p} : children'[q] = children[q]
<1> DEFINE c == children[p].chat
<1>1. /\ Live(p) /\ UNCHANGED <<call, born, overwritten>>
      /\ \A k \in Calls : call[k].pc = "starting" => call[k].child # p
  BY DEF ChildExits, history, Live
<1>2. children[p] \in LiveChildren BY <1>1, ChildKinds DEF TypeOK, ChildRecords, Live
<1>3. c \in Chats /\ children[p].timer \in BOOLEAN BY <1>2, LiveFields
<1> DEFINE armed == IF active[c] = p THEN FALSE ELSE children[p].timer
<1>4. children' = [children EXCEPT ![p] = Dead(c, armed)] BY DEF ChildExits
<1> DEFINE s == Dead(c, armed)
<1>5. s \in ChildRecords /\ s.state = "dead" /\ s.chat = c /\ s.timer = armed
  <2>1. armed \in BOOLEAN BY <1>3
  <2> HIDE DEF armed
  <2> QED BY <1>3, <2>1, DeadFields
<1>6. children' = [children EXCEPT ![p] = s] BY <1>4
<1> HIDE DEF s
<1>7. children'[p] = s /\ \A q \in Children \ {p} : children'[q] = children[q]
  BY <1>6 DEF TypeOK
<1>8. children' \in [Children -> ChildRecords] BY <1>5, <1>6 DEF TypeOK, ChildRecords
<1>9. active' = Without(SessionsOf(p)) /\ gauge' = gauge - Cardinality(SessionsOf(p))
  <2>1. CASE active[c] = p
    <3>1. c \in Sessions BY <1>3, <2>1 DEF Sessions, None, Children
    <3>2. SessionsOf(p) = {c} BY <2>1, <3>1 DEF SessionsOf, Sound, Mapped
    <3>3. Cardinality({c}) = 1 BY FS_Singleton
    <3> QED BY <2>1, <3>2, <3>3 DEF ChildExits
  <2>2. CASE active[c] # p
    <3>1. UNCHANGED <<active, gauge>> BY <2>2 DEF ChildExits
    <3>2. \A d \in Chats : active[d] # p BY <2>2 DEF Sound, Mapped, Sessions, None, Children
    <3> QED BY <3>1, <3>2, HurtOffMap
  <2> QED BY <2>1, <2>2
<1>10. children'[p].timer => children[p].timer /\ SessionsOf(p) = {}
  <2>1. children'[p].timer = armed BY <1>5, <1>7
  <2>2. active[c] # p => SessionsOf(p) = {}
    BY DEF SessionsOf, Sound, Mapped
  <2> QED BY <1>3, <2>1, <2>2
<1> QED BY <1>1, <1>5, <1>7, <1>8, <1>9, <1>10 DEF Hurts, Sound, Resuming, Holding

LEMMA ResumeNotFoundDoes ==
    ASSUME TypeOK, Sound, NEW k \in Calls, ResumeNotFound(k)
    PROVE  /\ CallsTyped /\ ahead' \in [Calls -> SUBSET Calls]
           /\ call[k] \in CallRecords /\ call[k].pc = "starting"
           /\ call[k].chat \in Chats /\ call[k].child \in Children
           /\ \A j \in Calls \ {k} : call'[j] = call[j]
           /\ \/ Hurts(call[k].child) /\ call'[k] = NoCall
              \/ /\ Starts(k) /\ call'[k].cleared = call[k].cleared
                 /\ call'[k].resume = call[k].resume /\ call'[k].id = call[k].id
                 /\ children'[born + 1].conv = born + 1
                 /\ \A p \in Children \ {born + 1, call[k].child} : children'[p] = children[p]
           /\ children'[call[k].child].state = "dead"
<1> DEFINE p == call[k].child
           c == call[k].chat
           s == Dead(c, FALSE)
           dead == [children EXCEPT ![p] = s]
<1>1. call[k].pc = "starting" /\ UNCHANGED <<active, gauge, overwritten>>
  BY DEF ResumeNotFound, history
<1>2. /\ p \in Children /\ p \in 1 .. born /\ c \in Chats /\ children[p].chat = c
      /\ call[k] \in CallRecords
  BY <1>1, ChildOfCall DEF Holding
<1>3. /\ Live(p) /\ \A d \in Chats : active[d] # p
      /\ call[k].resume => call[k].id # None
  BY <1>1 DEF Sound, Starting, Resuming
<1>4. s \in ChildRecords /\ s.state = "dead" /\ s.chat = c /\ ~s.timer BY <1>2, DeadFields
<1>5. CASE children' = dead /\ Return(k) /\ UNCHANGED born
  <2> HIDE DEF s
  <2>1. children'[p] = s /\ \A q \in Children \ {p} : children'[q] = children[q]
    BY <1>2, <1>5 DEF TypeOK
  <2>2. children' \in [Children -> ChildRecords] BY <1>4, <1>5 DEF TypeOK, ChildRecords
  <2>3. active' = Without(SessionsOf(p)) /\ gauge' = gauge - Cardinality(SessionsOf(p))
    BY <1>1, <1>2, <1>3, HurtOffMap
  <2>4. Hurts(p)
    BY <1>1, <1>2, <1>3, <1>4, <1>5, <2>1, <2>2, <2>3, StarterReturns DEF Hurts
  <2> QED BY <1>1, <1>2, <1>4, <1>5, <2>1, <2>4, ReturningCalls
<1>6. CASE /\ born < MaxChildren /\ born' = born + 1
           /\ children' = [dead EXCEPT ![born + 1] = NewChild(c, born + 1)]
           /\ call' = [call EXCEPT ![k] = [call[k] EXCEPT !.retried = TRUE, !.child = born + 1]]
           /\ UNCHANGED ahead
  <2> DEFINE x == NewChild(c, born + 1)
             r == [call[k] EXCEPT !.retried = TRUE, !.child = born + 1]
  <2>1. born + 1 \in Children /\ born + 1 \in Ids BY <1>6, NextChild
  <2>2. /\ x \in LiveChildren /\ x.chat = c /\ x.conv = born + 1
        /\ ~x.killed /\ ~x.timer /\ x.id = None
    BY <1>2, <2>1, NewChildFields
  <2>3. /\ r \in CallRecords /\ r.pc = "starting" /\ r.chat = c /\ r.child = born + 1
        /\ r.resume = call[k].resume /\ r.id = call[k].id /\ r.cleared = call[k].cleared
    BY <1>1, <1>2, <2>1 DEF CallRecords
  <2>4. call' = [call EXCEPT ![k] = r] BY <1>6
  <2>5. children' = [dead EXCEPT ![born + 1] = x] BY <1>6
  <2> HIDE DEF x, r, s
  <2>6. CallsTyped /\ call'[k] = r /\ \A j \in Calls \ {k} : call'[j] = call[j]
    BY <2>3, <2>4, OneCallTyped
  <2>7. p # born + 1 BY <1>2 DEF TypeOK
  <2>8. /\ children'[born + 1] = x /\ children'[p] = s
        /\ \A q \in Children \ {born + 1, p} : children'[q] = children[q]
    BY <1>2, <2>1, <2>5, <2>7 DEF TypeOK
  <2>9. children' \in [Children -> ChildRecords]
    BY <1>4, <2>2, <2>5, LiveFields DEF TypeOK, ChildRecords
  <2>10. Starts(k)
    BY <1>1, <1>2, <1>3, <1>4, <1>6, <2>2, <2>3, <2>6, <2>8, <2>9 DEF Starts
  <2>11. ahead' \in [Calls -> SUBSET Calls] BY <1>6 DEF TypeOK
  <2> QED BY <1>1, <1>2, <1>4, <2>2, <2>3, <2>6, <2>8, <2>10, <2>11
<1> QED BY <1>5, <1>6 DEF ResumeNotFound

LEMMA InstallDoes ==
    ASSUME TypeOK, Sound, NEW k \in Calls, Install(k)
    PROVE  /\ CallsTyped /\ ahead' \in [Calls -> SUBSET Calls]
           /\ call'[k].cleared = call[k].cleared /\ call[k] \in CallRecords
           /\ KnownToPi(children[call[k].child].conv)
           /\ \E id \in Ids :
                /\ Installs(k, id) /\ store' = [store EXCEPT ![call[k].chat] = id]
                /\ \/ id = children[call[k].child].conv
                   \/ call[k].resume /\ id = call[k].id
                   \/ id = LocalId(call[k].child)
<1> DEFINE p == call[k].child
           c == call[k].chat
<1>1. /\ call[k].pc = "starting" /\ KnownToPi(children[p].conv)
      /\ JoinQueue(k, c, p, call[k].cleared)
      /\ active' = [active EXCEPT ![c] = p] /\ gauge' = gauge + 1 /\ born' = born
      /\ overwritten' = IF active[c] # None THEN overwritten \cup {active[c]} ELSE overwritten
  BY DEF Install
<1>2. p \in Children /\ c \in Chats /\ call[k] \in CallRecords
  BY <1>1, ChildOfCall DEF Holding
<1>3. call[k].cleared \in BOOLEAN /\ call[k].id \in Ids \cup {None} BY <1>2, CallFields
<1>4. /\ CallsTyped /\ ahead' \in [Calls -> SUBSET Calls]
      /\ call'[k] \in CallRecords /\ call'[k].pc = "queued" /\ call'[k].chat = c
      /\ call'[k].child = p /\ call'[k].cleared = call[k].cleared
      /\ \A j \in Calls \ {k} : call'[j] = call[j]
  BY <1>1, <1>2, <1>3, JoiningCalls
<1>5. children[p].conv \in Ids
  BY <1>1, <1>2, ChildKinds, LiveFields DEF TypeOK, ChildRecords, Sound, Starting, Live
<1>6. call[k].resume => call[k].id \in Ids
  BY <1>1, <1>3 DEF Sound, Resuming
<1>7. LocalId(p) \in Ids BY <1>2, BoundsAssumption DEF LocalId, Ids, Children
<1>8. PICK id \in {children[p].conv,
                   IF call[k].resume /\ ~call[k].retried THEN call[k].id ELSE LocalId(p)} :
        /\ children' = [children EXCEPT ![p].id = id, ![p].timer = TRUE]
        /\ store' = [store EXCEPT ![c] = id]
  BY DEF Install
<1>9. id \in Ids /\ \/ id = children[p].conv
                    \/ call[k].resume /\ id = call[k].id
                    \/ id = LocalId(p)
  BY <1>5, <1>6, <1>7, <1>8
<1>10. Installs(k, id) BY <1>1, <1>4, <1>8, <1>9 DEF Installs
<1> QED BY <1>1, <1>2, <1>4, <1>8, <1>9, <1>10

-----------------------------------------------------------------------------
(* Type correctness, and the invariant about sessions and processes.       *)

CoreTyped ==
    /\ active' \in [Chats -> Children \cup {None}]
    /\ children' \in [Children -> ChildRecords]
    /\ born' \in 0 .. MaxChildren
    /\ gauge' \in Nat
    /\ overwritten' \subseteq Children

LEMMA ClosingKeeps ==
    ASSUME TypeOK, Sound, NEW G, Closes(G), CallsStay
    PROVE  CoreTyped /\ Sound'
<1>1. Sound' /\ gauge' \in Nat BY SoundClosing
<1>2. active' \in [Chats -> Children \cup {None}] BY DEF Closes, Without, TypeOK
<1> QED BY <1>1, <1>2 DEF CoreTyped, Closes, TypeOK

LEMMA StartingKeeps ==
    ASSUME TypeOK, Sound, NEW k \in Calls, Starts(k)
    PROVE  CoreTyped /\ Sound'
<1>1. Sound' BY SoundStarting
<1> QED BY <1>1, BoundsAssumption DEF CoreTyped, Starts, TypeOK

LEMMA InstallKeeps ==
    ASSUME TypeOK, Sound, NEW k \in Calls, NEW id \in Ids, Installs(k, id)
    PROVE  CoreTyped /\ Sound'
<1>1. Sound' /\ children' \in [Children -> ChildRecords] /\ overwritten' \subseteq Children
  BY SoundInstall
<1>2. call[k].child \in Children BY ChildOfCall DEF Installs, Holding
<1>3. active' \in [Chats -> Children \cup {None}] BY <1>2 DEF Installs, TypeOK
<1>4. gauge' \in Nat /\ born' \in 0 .. MaxChildren BY DEF Installs, TypeOK
<1> QED BY <1>1, <1>3, <1>4 DEF CoreTyped

LEMMA HurtKeeps ==
    ASSUME TypeOK, Sound, NEW p \in Children, Hurts(p)
    PROVE  CoreTyped /\ Sound'
<1>1. Sound' /\ gauge' \in Nat BY SoundHurt
<1>2. active' \in [Chats -> Children \cup {None}] BY DEF Hurts, Without, TypeOK
<1> QED BY <1>1, <1>2 DEF CoreTyped, Hurts, TypeOK

LEMMA IdOfSession ==
    ASSUME TypeOK, Sound, NEW c \in Sessions
    PROVE  children[active[c]].id \in Ids
<1>1. /\ active[c] \in Children /\ Live(active[c]) /\ children[active[c]].id # None
  BY DEF Sound, Mapped, Sessions, TypeOK
<1>2. children[active[c]] \in LiveChildren
  BY <1>1, ChildKinds DEF TypeOK, ChildRecords, Live
<1> QED BY <1>1, <1>2, LiveFields

LEMMA PersistedTyped ==
    ASSUME TypeOK, Sound, NEW C
    PROVE  Persisted(C) \in [Chats -> Ids \cup {None}]
  BY IdOfSession DEF Persisted, TypeOK

StoresTyped ==
    /\ store' \in [Chats -> Ids \cup {None}]
    /\ restarts' \in [Chats -> Nat]
    /\ closing' \in BOOLEAN /\ disturbed' \subseteq Chats
    /\ forgotten' \in [Chats -> 0 .. MaxChildren]

LEMMA ProceedKeeps ==
    ASSUME TypeOK, Sound, NEW k \in Calls, NEW r, Proceeds(k, r)
    PROVE  CoreTyped /\ Sound' /\ CallsTyped /\ ahead' \in [Calls -> SUBSET Calls]
<1>1. CASE Closes({}) /\ CallsStay BY <1>1, ClosingKeeps DEF Proceeds
<1>2. CASE Starts(k) BY <1>2, StartingKeeps DEF Proceeds
<1> QED BY <1>1, <1>2 DEF Proceeds

LEMMA TypedTogether ==
    ASSUME CoreTyped, StoresTyped, CallsTyped, ahead' \in [Calls -> SUBSET Calls]
    PROVE  TypeOK'
  BY DEF CoreTyped, StoresTyped, CallsTyped, TypeOK, ChildRecords

LEMMA NoRestartsTyped ==
    ASSUME TypeOK, NEW C
    PROVE  NoRestarts(C) \in [Chats -> Nat]
  BY DEF NoRestarts, TypeOK

LEMMA ChatStep ==
    ASSUME TypeOK, Sound, NEW c \in Chats, Reconnect(c) \/ Clean(c)
    PROVE  TypeOK' /\ Sound'
<1>1. CoreTyped /\ Sound' BY ReconnectCloses, ClosingKeeps
<1>2. ClearQueue(c) /\ ahead' = ahead /\ closing' = closing BY DEF Reconnect, Clean
<1>3. CallsTyped BY <1>2, ClearingCalls
<1>4. store' \in [Chats -> Ids \cup {None}]
  BY PersistedTyped DEF Reconnect, Clean, CloseSessions, TypeOK
<1>5. restarts' \in [Chats -> Nat] BY NoRestartsTyped DEF Reconnect, Clean, CloseSessions
<1>6. disturbed' \subseteq Chats BY <1>2 DEF ClearQueue, TypeOK
<1>7. forgotten' \in [Chats -> 0 .. MaxChildren] BY DEF Reconnect, Clean, TypeOK
<1>8. StoresTyped BY <1>2, <1>4, <1>5, <1>6, <1>7 DEF StoresTyped, TypeOK
<1>9. ahead' \in [Calls -> SUBSET Calls] BY <1>2 DEF TypeOK
<1> QED BY <1>1, <1>3, <1>8, <1>9, TypedTogether

LEMMA TimerStep ==
    ASSUME TypeOK, Sound, NEW p \in Children, IdleTimerFires(p)
    PROVE  TypeOK' /\ Sound'
<1>1. CoreTyped /\ Sound' BY IdleTimerCloses, ClosingKeeps
<1>2. StoresTyped
  BY PersistedTyped, NoRestartsTyped DEF IdleTimerFires, StoresTyped, TypeOK, history
<1>3. CallsTyped /\ ahead' \in [Calls -> SUBSET Calls]
  BY DEF IdleTimerFires, CallsTyped, TypeOK
<1> QED BY <1>1, <1>2, <1>3, TypedTogether

LEMMA CloseAllStep ==
    ASSUME TypeOK, Sound, CloseAll
    PROVE  TypeOK' /\ Sound'
<1>1. CoreTyped /\ Sound' BY CloseAllCloses, ClosingKeeps
<1>2. StoresTyped
  BY PersistedTyped, NoRestartsTyped DEF CloseAll, CloseSessions, StoresTyped, TypeOK, history
<1>3. CallsTyped /\ ahead' \in [Calls -> SUBSET Calls] BY DEF CloseAll, CallsTyped, TypeOK
<1> QED BY <1>1, <1>2, <1>3, TypedTogether

LEMMA BeginStep ==
    ASSUME TypeOK, Sound, NEW k \in Calls, NEW c \in Chats,
           Reuse(k, c) \/ Create(k, c) \/ ConfigFails(k, c)
    PROVE  TypeOK' /\ Sound'
<1>1. CASE Reuse(k, c)
  <2>1. CoreTyped /\ Sound' BY <1>1, ReuseStays, ClosingKeeps
  <2>2. StoresTyped BY <1>1 DEF Reuse, StoresTyped, TypeOK, history
  <2> QED BY <1>1, <2>1, <2>2, ReuseStays, TypedTogether
<1>2. CASE Create(k, c)
  <2>1. CoreTyped /\ Sound' BY <1>2, CreateCloses, ClosingKeeps
  <2>2. store' \in [Chats -> Ids \cup {None}] /\ restarts' \in [Chats -> Nat]
    BY <1>2, CreateCloses, PersistedTyped, NoRestartsTyped
  <2>3. StoresTyped BY <1>2, <2>2 DEF Create, StoresTyped, TypeOK, history
  <2>4. ahead' \in [Calls -> SUBSET Calls] BY <1>2 DEF Create, TypeOK
  <2> QED BY <1>2, <2>1, <2>3, <2>4, CreateCloses, TypedTogether
<1>3. CASE ConfigFails(k, c)
  <2>1. CoreTyped /\ Sound' BY <1>3, ConfigFailsCloses, ClosingKeeps
  <2>2. StoresTyped BY <1>3 DEF ConfigFails, StoresTyped, TypeOK, history
  <2>3. CallsTyped /\ ahead' \in [Calls -> SUBSET Calls]
    BY <1>3 DEF ConfigFails, CallsTyped, TypeOK
  <2> QED BY <2>1, <2>2, <2>3, TypedTogether
<1> QED BY <1>1, <1>2, <1>3

LEMMA SpawnStep ==
    ASSUME TypeOK, Sound, NEW k \in Calls,
           \/ Resolve(k) \/ BackoffEnds(k) \/ Install(k) \/ ResumeNotFound(k) \/ StartupFails(k)
    PROVE  TypeOK' /\ Sound'
<1>1. CASE Resolve(k)
  <2>1. PICK r \in CallRecords : /\ store' = [store EXCEPT ![call[k].chat] = r.id]
                                 /\ Proceeds(k, r)
    BY <1>1, ResolveProceeds
  <2>2. CoreTyped /\ Sound' /\ CallsTyped /\ ahead' \in [Calls -> SUBSET Calls]
    BY <2>1, ProceedKeeps
  <2>3. r.id \in Ids \cup {None} BY <2>1, CallFields
  <2>4. StoresTyped BY <1>1, <2>1, <2>3, ResolveProceeds DEF StoresTyped, TypeOK
  <2> QED BY <2>2, <2>4, TypedTogether
<1>2. CASE BackoffEnds(k)
  <2>1. CoreTyped /\ Sound' /\ CallsTyped /\ ahead' \in [Calls -> SUBSET Calls]
    BY <1>2, BackoffProceeds, ProceedKeeps
  <2>2. StoresTyped BY <1>2, BackoffProceeds DEF StoresTyped, TypeOK
  <2> QED BY <2>1, <2>2, TypedTogether
<1>3. CASE Install(k)
  <2>1. PICK id \in Ids : /\ Installs(k, id)
                          /\ store' = [store EXCEPT ![call[k].chat] = id]
    BY <1>3, InstallDoes
  <2>2. CoreTyped /\ Sound' BY <2>1, InstallKeeps
  <2>3. restarts' \in [Chats -> Nat] BY <1>3 DEF Install, TypeOK
  <2>4. StoresTyped BY <1>3, <2>1, <2>3 DEF Install, StoresTyped, TypeOK
  <2> QED BY <1>3, <2>2, <2>4, InstallDoes, TypedTogether
<1>4. CASE ResumeNotFound(k)
  <2>1. CoreTyped /\ Sound' BY <1>4, ResumeNotFoundDoes, HurtKeeps, StartingKeeps
  <2>2. StoresTyped BY <1>4 DEF ResumeNotFound, StoresTyped, TypeOK, history
  <2> QED BY <1>4, <2>1, <2>2, ResumeNotFoundDoes, TypedTogether
<1>5. CASE StartupFails(k)
  <2>1. CoreTyped /\ Sound' BY <1>5, StartupHurts, HurtKeeps
  <2>2. restarts' \in [Chats -> Nat]
    <3>1. call[k].chat \in Chats BY <1>5, StartupHurts, CallFields
    <3>2. restarts[call[k].chat] + 1 \in Nat BY <3>1 DEF TypeOK
    <3>3. restarts' = [restarts EXCEPT ![call[k].chat] = restarts[call[k].chat] + 1]
      BY <1>5 DEF StartupFails
    <3> QED BY <3>2, <3>3 DEF TypeOK
  <2>3. StoresTyped BY <1>5, <2>2 DEF StartupFails, StoresTyped, TypeOK, history
  <2> QED BY <1>5, <2>1, <2>3, StartupHurts, TypedTogether
<1> QED BY <1>1, <1>2, <1>3, <1>4, <1>5

LEMMA TurnStep ==
    ASSUME TypeOK, Sound, NEW k \in Calls,
           \/ StartTurn(k) \/ PromptFails(k) \/ GetResult(k) \/ StreamEnds(k)
           \/ ActivityTimeout(k)
    PROVE  TypeOK' /\ Sound'
<1>1. CASE StartTurn(k) \/ PromptFails(k) \/ GetResult(k) \/ StreamEnds(k)
  <2>1. CoreTyped /\ Sound' BY <1>1, TurnStays, ClosingKeeps
  <2>2. StoresTyped
    <3>1. CASE StartTurn(k)
      <4>1. call[k].pc = "queued" /\ Usable(call[k].child)
            /\ store' = [store EXCEPT ![call[k].chat] = children[call[k].child].id]
        BY <3>1 DEF StartTurn
      <4>2. call[k].child \in Children /\ children[call[k].child].state = "live"
        BY <4>1, ChildOfCall DEF Holding, Usable, Exited
      <4>3. children[call[k].child].id \in Ids \cup {None}
        BY <4>2, ChildKinds, LiveFields DEF TypeOK, ChildRecords
      <4> QED BY <3>1, <4>1, <4>3 DEF StartTurn, StoresTyped, TypeOK, history
    <3>2. CASE PromptFails(k) \/ GetResult(k) \/ StreamEnds(k)
      BY <3>2 DEF PromptFails, GetResult, StreamEnds, StoresTyped, TypeOK, history
    <3> QED BY <1>1, <3>1, <3>2
  <2> QED BY <1>1, <2>1, <2>2, TurnStays, TypedTogether
<1>2. CASE ActivityTimeout(k)
  <2>1. CoreTyped /\ Sound' BY <1>2, ActivityHurts, HurtKeeps
  <2>2. StoresTyped BY <1>2 DEF ActivityTimeout, StoresTyped, TypeOK, history
  <2>3. CallsTyped /\ ahead' \in [Calls -> SUBSET Calls]
    BY <1>2 DEF ActivityTimeout, CallsTyped, TypeOK
  <2> QED BY <2>1, <2>2, <2>3, TypedTogether
<1> QED BY <1>1, <1>2

LEMMA ExitStep ==
    ASSUME TypeOK, Sound, NEW p \in Children, ChildExits(p)
    PROVE  TypeOK' /\ Sound'
<1>1. CoreTyped /\ Sound' BY ExitHurts, HurtKeeps
<1>2. restarts' \in [Chats -> Nat]
  <2>1. children[p].chat \in Chats
    BY ChildKinds, LiveFields DEF ChildExits, TypeOK, ChildRecords
  <2>2. PICK crash \in {0, 1} :
           \/ restarts' = [restarts EXCEPT ![children[p].chat] = restarts[children[p].chat] + crash]
           \/ restarts' = restarts
    BY DEF ChildExits
  <2>3. restarts[children[p].chat] + crash \in Nat BY <2>1 DEF TypeOK
  <2> QED BY <2>2, <2>3 DEF TypeOK
<1>3. StoresTyped BY <1>2 DEF ChildExits, StoresTyped, TypeOK, history
<1>4. CallsTyped /\ ahead' \in [Calls -> SUBSET Calls] BY DEF ChildExits, CallsTyped, TypeOK
<1> QED BY <1>1, <1>3, <1>4, TypedTogether

LEMMA SoundInit == Init => TypeOK /\ Sound
<1> SUFFICES ASSUME Init PROVE TypeOK /\ Sound OBVIOUS
<1>1. TypeOK
  <2>1. children \in [Children -> ChildRecords] BY DEF Init, ChildRecords
  <2>2. call \in [Calls -> CallRecords \cup {NoCall}] BY DEF Init
  <2>3. /\ active \in [Chats -> Children \cup {None}] /\ store \in [Chats -> Ids \cup {None}]
        /\ ahead \in [Calls -> SUBSET Calls] /\ restarts \in [Chats -> Nat]
    BY DEF Init
  <2>4. born \in 0 .. MaxChildren /\ forgotten \in [Chats -> 0 .. MaxChildren]
    BY BoundsAssumption DEF Init
  <2> QED BY <2>1, <2>2, <2>3, <2>4 DEF Init, TypeOK, ChildRecords
<1>2. Sessions = {} BY DEF Init, Sessions
<1>3. GaugeCountsSessions BY <1>2, FS_EmptySet DEF Init, GaugeCountsSessions
<1>4. /\ \A p \in Children : children[p].state = "unborn"
      /\ \A k \in Calls : call[k].pc = "idle"
  BY DEF Init, Unborn, NoCall
<1>5. Born BY <1>4 DEF Born, Init, Children
<1> QED BY <1>1, <1>2, <1>3, <1>4, <1>5
    DEF Init, Sound, Mapped, Held, Starting, Resuming, Replaced, LiveChildrenAreOwned, Holding,
        Timers, Armed

LEMMA SoundStep == TypeOK /\ Sound /\ [Next]_vars => TypeOK' /\ Sound'
<1> SUFFICES ASSUME TypeOK, Sound, [Next]_vars PROVE TypeOK' /\ Sound' OBVIOUS
<1>1. ASSUME NEW c \in Chats, Reconnect(c) \/ Clean(c) PROVE TypeOK' /\ Sound'
  BY <1>1, ChatStep
<1>2. ASSUME NEW p \in Children, IdleTimerFires(p) \/ ChildExits(p) PROVE TypeOK' /\ Sound'
  BY <1>2, TimerStep, ExitStep
<1>3. CASE CloseAll BY <1>3, CloseAllStep
<1>4. ASSUME NEW k \in Calls, NEW c \in Chats, Reuse(k, c) \/ Create(k, c) \/ ConfigFails(k, c)
      PROVE  TypeOK' /\ Sound'
  BY <1>4, BeginStep
<1>5. ASSUME NEW k \in Calls,
             \/ Resolve(k) \/ BackoffEnds(k) \/ Install(k) \/ ResumeNotFound(k) \/ StartupFails(k)
      PROVE  TypeOK' /\ Sound'
  BY <1>5, SpawnStep
<1>6. ASSUME NEW k \in Calls, \/ StartTurn(k) \/ PromptFails(k) \/ GetResult(k) \/ StreamEnds(k)
                              \/ ActivityTimeout(k)
      PROVE  TypeOK' /\ Sound'
  BY <1>6, TurnStep
<1>7. CASE UNCHANGED vars
  BY <1>7 DEF vars, history, TypeOK, Sound, Born, Mapped, Held, Starting, Resuming, Replaced,
              GaugeCountsSessions, LiveChildrenAreOwned, Timers, Armed, Holding, Live, Sessions
<1> QED BY <1>1, <1>2, <1>3, <1>4, <1>5, <1>6, <1>7 DEF Next

\* The map, the subprocesses, the gauge and the resumed conversations agree in
\* every reachable state: what getOrCreateSession and closeSession rely on.
THEOREM SoundAlways == Spec => [](TypeOK /\ Sound)
  BY SoundInit, SoundStep, PTL DEF Spec

\* Every reachable state of the session manager is well typed.
THEOREM TypeCorrect == Spec => []TypeOK
  BY SoundAlways, PTL

\* For any number of chats, calls and processes, what is in the map is alive, and
\* will be closed by its idle timer at the latest.
THEOREM SessionsAreAlive == Spec => []ActiveIsAlive
<1>1. TypeOK /\ Sound => ActiveIsAlive
  BY DEF Sound, Mapped, Starting, ActiveIsAlive, Live, Exited, Sessions, TypeOK
<1> QED BY <1>1, SoundAlways, PTL

\* However sessions end and begin anew, an idle timer that is still armed is that of
\* the session its chat has, or of one overwritten in the map.
THEOREM TimersEndWithSessions == Spec => []TimersHaveTheirSession
<1>1. TypeOK /\ Sound /\ ActiveIsAlive => TimersHaveTheirSession
  BY ChildKinds DEF Sound, Timers, Armed, TimersHaveTheirSession, TypeOK, ChildRecords
<1> QED BY <1>1, SoundAlways, SessionsAreAlive, PTL

\* No process is left running unattended.
THEOREM NoProcessUnattended == Spec => []LiveChildrenAreOwned
<1>1. Sound => LiveChildrenAreOwned BY DEF Sound
<1> QED BY <1>1, SoundAlways, PTL

\* The gauge is off by exactly the sessions that were overwritten in the map.
THEOREM GaugeCounts == Spec => []GaugeCountsSessions
<1>1. Sound => GaugeCountsSessions BY DEF Sound
<1> QED BY <1>1, SoundAlways, PTL

-----------------------------------------------------------------------------
(* The limit on sessions.                                                  *)

Spawners == {k \in Calls : Spawning(k)}

LEMMA SpawnerSets ==
    /\ IsFiniteSet(Calls) /\ Cardinality(Calls) \in Nat
    /\ IsFiniteSet(Spawners) /\ Cardinality(Spawners) \in Nat
    /\ Cardinality(Spawners) <= Cardinality(Calls)
<1>1. Spawners \in SUBSET Calls BY DEF Spawners
<1> QED BY <1>1, BoundsAssumption, FS_Subset, FS_CardinalityType

LEMMA OneMore ==
    ASSUME NEW S, NEW x, IsFiniteSet(S)
    PROVE  /\ IsFiniteSet(S \cup {x}) /\ Cardinality(S \cup {x}) \in Nat
           /\ Cardinality(S \cup {x}) <= Cardinality(S) + 1
<1>1. Cardinality(S) \in Nat BY FS_CardinalityType
<1>2. IsFiniteSet(S \cup {x}) /\ Cardinality(S \cup {x}) \in {Cardinality(S), Cardinality(S) + 1}
  BY FS_AddElement
<1> QED BY <1>1, <1>2

LEMMA FewerAreBounded ==
    ASSUME TypeOK, SessionsStayBounded, Sessions' \subseteq Sessions, Spawners' \subseteq Spawners
    PROVE  SessionsStayBounded'
<1>1. Cardinality(Sessions') <= Cardinality(Sessions) /\ Cardinality(Sessions') \in Nat
  BY SessionSets, FS_Subset, FS_CardinalityType
<1>2. Cardinality(Spawners') <= Cardinality(Spawners) /\ Cardinality(Spawners') \in Nat
  BY SpawnerSets, FS_Subset, FS_CardinalityType
<1> QED BY <1>1, <1>2, SessionSets, SpawnerSets, BoundsAssumption
    DEF SessionsStayBounded, Spawners

LEMMA CreateIsBounded ==
    ASSUME TypeOK, Sound, SessionsStayBounded, NEW k \in Calls, NEW c \in Chats, Create(k, c)
    PROVE  SessionsStayBounded'
<1> DEFINE others == Sessions \ {c}
<1>1. PICK V \in Victims(c) : V \subseteq Sessions /\ Closes((V \cup {c}) \cap Sessions)
  BY CreateCloses
<1>2. Sessions' = others \ V BY <1>1 DEF Closes, Sessions, Without
<1>3. /\ IsFiniteSet(others) /\ Cardinality(others) \in Nat
      /\ Cardinality(others) <= Cardinality(Sessions)
  BY SessionSets, FS_Subset, FS_CardinalityType
<1>4. /\ Cardinality(Spawners') \in Nat /\ Cardinality(Spawners') <= Cardinality(Calls)
      /\ Cardinality(Spawners') <= Cardinality(Spawners) + 1
  <2>1. Spawners' \subseteq Spawners \cup {k} BY CreateCloses DEF Spawners, Spawning
  <2>2. Cardinality(Spawners \cup {k}) <= Cardinality(Spawners) + 1
    BY SpawnerSets, OneMore
  <2>3. /\ IsFiniteSet(Spawners \cup {k}) /\ Cardinality(Spawners \cup {k}) \in Nat
    BY SpawnerSets, OneMore
  <2>4. /\ Cardinality(Spawners') <= Cardinality(Spawners \cup {k})
        /\ IsFiniteSet(Spawners') /\ Cardinality(Spawners') \in Nat
    BY <2>1, <2>3, FS_Subset, FS_CardinalityType
  <2>5. Spawners' \in SUBSET Calls BY DEF Spawners
  <2>6. Cardinality(Spawners') <= Cardinality(Calls) BY <2>5, SpawnerSets, FS_Subset
  <2> QED BY <2>2, <2>3, <2>4, <2>6, SpawnerSets
<1>5. CASE Cardinality(others) < MaxSessions
  <2>1. Sessions' = others BY <1>1, <1>2, <1>5 DEF Victims
  <2> QED BY <1>3, <1>4, <1>5, <2>1, SpawnerSets, BoundsAssumption
      DEF SessionsStayBounded, Spawners
<1>6. CASE ~(Cardinality(others) < MaxSessions)
  <2>1. PICK v \in others : V = {v} BY <1>1, <1>6 DEF Victims
  <2>2. Cardinality(Sessions') = Cardinality(others) - 1 BY <1>2, <1>3, <2>1, FS_RemoveElement
  <2> QED BY <1>3, <1>4, <2>2, SessionSets, SpawnerSets, BoundsAssumption
      DEF SessionsStayBounded, Spawners
<1> QED BY <1>5, <1>6

LEMMA InstallIsBounded ==
    ASSUME TypeOK, Sound, SessionsStayBounded, NEW k \in Calls, Install(k)
    PROVE  SessionsStayBounded'
<1>1. PICK id \in Ids : Installs(k, id) BY InstallDoes
<1>2. Sessions' \subseteq Sessions \cup {call[k].chat} BY <1>1 DEF Installs, Sessions, TypeOK
<1>3. Cardinality(Sessions') \in Nat /\ Cardinality(Sessions') <= Cardinality(Sessions) + 1
  <2>1. /\ IsFiniteSet(Sessions \cup {call[k].chat})
        /\ Cardinality(Sessions \cup {call[k].chat}) <= Cardinality(Sessions) + 1
        /\ Cardinality(Sessions \cup {call[k].chat}) \in Nat
    BY SessionSets, OneMore
  <2>2. /\ IsFiniteSet(Sessions')
        /\ Cardinality(Sessions') <= Cardinality(Sessions \cup {call[k].chat})
        /\ Cardinality(Sessions') \in Nat
    BY <1>2, <2>1, FS_Subset, FS_CardinalityType
  <2> QED BY <2>1, <2>2, SessionSets
<1>4. k \in Spawners /\ Spawners' = Spawners \ {k}
  BY <1>1 DEF Installs, Spawners, Spawning
<1>5. Cardinality(Spawners') = Cardinality(Spawners) - 1 BY <1>4, SpawnerSets, FS_RemoveElement
<1> QED BY <1>3, <1>5, SessionSets, SpawnerSets, BoundsAssumption
    DEF SessionsStayBounded, Spawners

LEMMA FewerSessions ==
    ASSUME TypeOK, \/ \E G : Closes(G)
                   \/ \E k \in Calls : Starts(k)
                   \/ \E p \in Children : Hurts(p)
    PROVE  Sessions' \subseteq Sessions
  BY DEF Closes, Starts, Hurts, Sessions, Without

LEMMA OtherIsBounded ==
    ASSUME TypeOK, Sound, SessionsStayBounded, Next,
           ~\E k \in Calls : Install(k) \/ \E c \in Chats : Create(k, c)
    PROVE  SessionsStayBounded'
<1> USE DEF Spawners, Spawning
<1>1. ASSUME NEW c \in Chats, Reconnect(c) \/ Clean(c) PROVE SessionsStayBounded'
  <2>1. \A k \in Calls : call'[k].pc = call[k].pc BY <1>1, ClearingCalls DEF Reconnect, Clean
  <2> QED BY <1>1, <2>1, ReconnectCloses, FewerSessions, FewerAreBounded
<1>2. ASSUME NEW p \in Children, IdleTimerFires(p) PROVE SessionsStayBounded'
  <2>1. call' = call BY <1>2 DEF IdleTimerFires
  <2> QED BY <1>2, <2>1, IdleTimerCloses, FewerSessions, FewerAreBounded
<1>3. ASSUME NEW p \in Children, ChildExits(p) PROVE SessionsStayBounded'
  BY <1>3, ExitHurts, FewerSessions, FewerAreBounded
<1>4. CASE CloseAll
  <2>1. call' = call BY <1>4 DEF CloseAll
  <2> QED BY <1>4, <2>1, CloseAllCloses, FewerSessions, FewerAreBounded
<1>5. ASSUME NEW k \in Calls, NEW c \in Chats, Reuse(k, c) PROVE SessionsStayBounded'
  <2>1. Spawners' \subseteq Spawners BY <1>5, ReuseStays
  <2> QED BY <1>5, <2>1, ReuseStays, FewerSessions, FewerAreBounded
<1>6. ASSUME NEW k \in Calls, NEW c \in Chats, ConfigFails(k, c) PROVE SessionsStayBounded'
  <2>1. call' = call BY <1>6 DEF ConfigFails
  <2> QED BY <1>6, <2>1, ConfigFailsCloses, FewerSessions, FewerAreBounded
<1>7. ASSUME NEW k \in Calls, Resolve(k) \/ BackoffEnds(k) PROVE SessionsStayBounded'
  <2>1. PICK r : Proceeds(k, r) BY <1>7, ResolveProceeds, BackoffProceeds
  <2>2. call[k].pc \in {"evicting", "backoff"} BY <1>7 DEF Resolve, BackoffEnds
  <2>3. Spawners' \subseteq Spawners BY <2>1, <2>2 DEF Proceeds
  <2>4. Sessions' \subseteq Sessions BY <2>1, FewerSessions DEF Proceeds
  <2> QED BY <2>3, <2>4, FewerAreBounded
<1>8. ASSUME NEW k \in Calls, ResumeNotFound(k) PROVE SessionsStayBounded'
  <2>1. Spawners' \subseteq Spawners BY <1>8, ResumeNotFoundDoes
  <2> QED BY <1>8, <2>1, ResumeNotFoundDoes, FewerSessions, FewerAreBounded
<1>9. ASSUME NEW k \in Calls, StartupFails(k) PROVE SessionsStayBounded'
  <2>1. Spawners' \subseteq Spawners BY <1>9, StartupHurts DEF NoCall
  <2> QED BY <1>9, <2>1, StartupHurts, FewerSessions, FewerAreBounded
<1>10. ASSUME NEW k \in Calls, StartTurn(k) \/ PromptFails(k) \/ GetResult(k) \/ StreamEnds(k)
       PROVE  SessionsStayBounded'
  <2>1. Spawners' \subseteq Spawners BY <1>10, TurnStays DEF NoCall
  <2> QED BY <1>10, <2>1, TurnStays, FewerSessions, FewerAreBounded
<1>11. ASSUME NEW k \in Calls, ActivityTimeout(k) PROVE SessionsStayBounded'
  <2>1. call' = call BY <1>11 DEF ActivityTimeout
  <2> QED BY <1>11, <2>1, ActivityHurts, FewerSessions, FewerAreBounded
<1> QED BY <1>1, <1>2, <1>3, <1>4, <1>5, <1>6, <1>7, <1>8, <1>9, <1>10, <1>11 DEF Next

\* However many spawns pass evictIfNeeded together, the sessions exceed the limit by
\* no more than the other calls in progress.
THEOREM LimitIsNearlyKept == Spec => []SessionsStayBounded
<1>1. Init => SessionsStayBounded
  <2> SUFFICES ASSUME Init PROVE SessionsStayBounded OBVIOUS
  <2>1. Sessions = {} /\ Spawners = {} BY DEF Init, Sessions, Spawners, Spawning, NoCall
  <2> QED BY <2>1, FS_EmptySet, SpawnerSets, BoundsAssumption DEF SessionsStayBounded, Spawners
<1>2. TypeOK /\ Sound /\ SessionsStayBounded /\ [Next]_vars => SessionsStayBounded'
  <2> SUFFICES ASSUME TypeOK, Sound, SessionsStayBounded, [Next]_vars
               PROVE  SessionsStayBounded'
    OBVIOUS
  <2>1. CASE UNCHANGED vars
    BY <2>1, FewerAreBounded DEF vars, Sessions, Spawners, Spawning
  <2>2. CASE Next BY <2>2, CreateIsBounded, InstallIsBounded, OtherIsBounded
  <2> QED BY <2>1, <2>2
<1> QED BY <1>1, <1>2, SoundAlways, PTL DEF Spec

-----------------------------------------------------------------------------
(* Who spawns in a chat that was not cleared meanwhile.                    *)

Open(k) == call[k].pc # "idle"

ClearedSpawns == \A k \in Calls : Spawning(k) /\ call[k].cleared => call[k].chat \in disturbed

OneOpenCall ==
    \A j, k \in Calls :
        /\ Open(j) /\ ~call[j].cleared
        /\ Open(k) /\ ~call[k].cleared
        /\ call[j].chat = call[k].chat
        => j = k

SpawnsAlone ==
    \A k \in Calls : Spawning(k) /\ active[call[k].chat] # None => call[k].chat \in disturbed

ReplacedByTwo == \A p \in overwritten : children[p].chat \in disturbed

Traffic == ClearedSpawns /\ OneOpenCall /\ SpawnsAlone /\ ReplacedByTwo

\* Processes stay with their chats.
ChatsStay ==
    /\ born <= born' /\ born \in Nat /\ born' \in Nat
    /\ \A p \in 1 .. born : children'[p].chat = children[p].chat

LEMMA ChatsOfProcesses ==
    ASSUME TypeOK, Sound, \/ \E G : Closes(G)
                          \/ \E k \in Calls : Starts(k)
                          \/ \E k \in Calls, id \in Ids : Installs(k, id)
                          \/ \E p \in Children : Hurts(p)
    PROVE  ChatsStay
<1>1. \A p \in 1 .. born : p \in Children /\ children[p].state # "unborn"
  BY BoundsAssumption DEF Sound, Born, TypeOK, Children
<1>2. born \in Nat BY DEF TypeOK
<1>3. ASSUME NEW G, Closes(G) PROVE ChatsStay BY <1>1, <1>2, <1>3 DEF Closes, ChatsStay
<1>4. ASSUME NEW k \in Calls, Starts(k) PROVE ChatsStay
  <2>1. \A p \in 1 .. born : p \in Children \ {born + 1} BY <1>1, <1>2
  <2>2. \A p \in 1 .. born : children'[p].chat = children[p].chat BY <1>4, <2>1 DEF Starts
  <2> QED BY <1>2, <1>4, <2>2 DEF Starts, ChatsStay
<1>5. ASSUME NEW k \in Calls, NEW id \in Ids, Installs(k, id) PROVE ChatsStay
  <2> DEFINE p == call[k].child
  <2>1. /\ p \in Children /\ Live(p)
        /\ children' = [children EXCEPT ![p].id = id, ![p].timer = TRUE]
    BY <1>5, ChildOfCall DEF Installs, Holding, Sound, Starting
  <2>2. children[p] \in LiveChildren BY <2>1, ChildKinds DEF TypeOK, ChildRecords, Live
  <2>3. children'[p] = [children[p] EXCEPT !.id = id, !.timer = TRUE] BY <2>1 DEF TypeOK
  <2>4. children'[p].chat = children[p].chat
    <3>1. [children[p] EXCEPT !.id = id, !.timer = TRUE].chat = children[p].chat
      BY <2>2 DEF LiveChildren
    <3> QED BY <2>3, <3>1
  <2>5. \A q \in Children \ {p} : children'[q] = children[q] BY <2>1 DEF TypeOK
  <2>6. \A q \in 1 .. born : children'[q].chat = children[q].chat
    <3> HIDE DEF p
    <3> QED BY <1>1, <2>4, <2>5
  <2>7. born' = born BY <1>5 DEF Installs
  <2> QED BY <1>2, <2>6, <2>7 DEF ChatsStay
<1>6. ASSUME NEW p \in Children, Hurts(p) PROVE ChatsStay
  BY <1>1, <1>2, <1>6 DEF Hurts, ChatsStay
<1> QED BY <1>3, <1>4, <1>5, <1>6

\* The calls of a step that begins none and clears none.
CallsGoOn ==
    \A k \in Calls :
        /\ Open(k)' => /\ Open(k) /\ call'[k].chat = call[k].chat
                       /\ call'[k].cleared = call[k].cleared
        /\ Spawning(k)' => Spawning(k)

LEMMA TrafficGoesOn ==
    ASSUME TypeOK, Sound, Traffic, ChatsStay, CallsGoOn, Sessions' \subseteq Sessions,
           UNCHANGED <<overwritten, disturbed>>
    PROVE  Traffic'
<1> USE DEF Traffic
<1>1. \A k \in Calls : Spawning(k) => Open(k) BY DEF Spawning, Open
<1>2. \A k \in Calls : Open(k) => call[k].chat \in Chats
  BY CallKinds, CallFields DEF Open, TypeOK
<1>3. ClearedSpawns' BY DEF ClearedSpawns, CallsGoOn, Spawning, Open
<1>4. OneOpenCall' BY DEF OneOpenCall, CallsGoOn
<1>5. SpawnsAlone'
  <2>1. ASSUME NEW k \in Calls, Spawning(k)', active'[call'[k].chat] # None
        PROVE  call'[k].chat \in disturbed'
    <3>1. Spawning(k) /\ Open(k) /\ call'[k].chat = call[k].chat
      BY <2>1 DEF CallsGoOn, Spawning, Open
    <3>2. call[k].chat \in Sessions BY <1>2, <2>1, <3>1 DEF Sessions
    <3> QED BY <3>1, <3>2 DEF SpawnsAlone, Sessions
  <2> QED BY <2>1 DEF SpawnsAlone
<1>6. ReplacedByTwo' BY DEF ReplacedByTwo, ChatsStay, Sound, Replaced
<1> QED BY <1>3, <1>4, <1>5, <1>6

LEMMA TrafficCleared ==
    ASSUME TypeOK, Sound, Traffic, NEW c \in Chats, Reconnect(c) \/ Clean(c)
    PROVE  Traffic' /\ disturbed \subseteq disturbed'
           /\ (c \notin disturbed' => \A k \in CallsOf(c) : ~Spawning(k))
<1> USE DEF Traffic
<1>1. /\ ClearQueue(c) /\ overwritten' = overwritten BY DEF Reconnect, Clean
<1>2. /\ \A k \in Calls : call'[k].pc = call[k].pc
      /\ \A k \in Calls : Open(k) =>
            /\ call'[k].chat = call[k].chat
            /\ call[k].chat = c => call'[k].cleared
            /\ call[k].chat # c => call'[k] = call[k]
  BY <1>1, ClearingCalls DEF Open, NoCall
<1>3. /\ disturbed \subseteq disturbed'
      /\ \A k \in CallsOf(c) : Spawning(k) => c \in disturbed'
  BY <1>1 DEF ClearQueue
<1>4. \A k \in Calls : Spawning(k) => Open(k) BY DEF Spawning, Open
<1>5. \A k \in Calls : Open(k) /\ call[k].chat = c => k \in CallsOf(c)
  BY DEF Open, CallsOf, NoCall
<1>6. \A k \in Calls : (Spawning(k)' <=> Spawning(k)) /\ (Open(k)' <=> Open(k))
  BY <1>2 DEF Spawning, Open
<1>7. ClearedSpawns' BY <1>2, <1>3, <1>4, <1>5, <1>6 DEF ClearedSpawns
<1>8. OneOpenCall' BY <1>2, <1>6 DEF OneOpenCall
<1>9. SpawnsAlone'
  <2>1. \A d \in Chats : active'[d] # None => active[d] # None
    BY DEF Reconnect, Clean, CloseSessions, Without
  <2>2. \A k \in Calls : Open(k) => call[k].chat \in Chats
    BY CallKinds, CallFields DEF Open, TypeOK
  <2> QED BY <1>2, <1>3, <1>4, <1>6, <2>1, <2>2 DEF SpawnsAlone
<1>10. ReplacedByTwo'
  <2>1. ChatsStay BY ReconnectCloses, ChatsOfProcesses
  <2> QED BY <1>1, <1>3, <2>1 DEF ReplacedByTwo, ChatsStay, Sound, Replaced
<1> QED BY <1>3, <1>7, <1>8, <1>9, <1>10

LEMMA TrafficBegins ==
    ASSUME TypeOK, Sound, Traffic, NEW k \in Calls, NEW c \in Chats,
           Reuse(k, c) \/ Create(k, c)
    PROVE  Traffic'
<1> USE DEF Traffic
<1>1. /\ \A j \in Calls \ {k} : call'[j] = call[j]
      /\ call'[k].chat = c /\ ~call'[k].cleared
      /\ call'[k].pc \in {"queued", "evicting"}
      /\ call'[k].pc = "evicting" => active'[c] = None
      /\ UNCHANGED <<overwritten, disturbed>>
  <2>1. CASE Reuse(k, c) BY <2>1, ReuseStays DEF Reuse, history
  <2>2. CASE Create(k, c)
    <3>1. active'[c] = None BY <2>2 DEF Create, Without, Sessions, TypeOK
    <3> QED BY <2>2, <3>1, CreateCloses DEF Create, history
  <2> QED BY <2>1, <2>2
<1>2. \A d \in Chats : active'[d] # None => active[d] # None
  BY DEF Reuse, Create, Without
<1>3. ChatsStay BY ReuseStays, CreateCloses, ChatsOfProcesses
<1>4. \A j \in Calls : Open(j) /\ call[j].chat = c => call[j].cleared
  <2>1. \A j \in CallsOf(c) : call[j].cleared
    BY DEF Reuse, Create, NeedsSpawn, Begins
  <2> QED BY <2>1 DEF CallsOf, Open, NoCall
<1>5. ClearedSpawns' BY <1>1 DEF ClearedSpawns, Spawning
<1>6. OneOpenCall' BY <1>1, <1>4 DEF OneOpenCall, Open
<1>7. SpawnsAlone'
  <2>1. \A j \in Calls : Open(j) => call[j].chat \in Chats
    BY CallKinds, CallFields DEF Open, TypeOK
  <2> QED BY <1>1, <1>2, <2>1 DEF SpawnsAlone, Spawning, Open
<1>8. ReplacedByTwo' BY <1>1, <1>3 DEF ReplacedByTwo, ChatsStay, Sound, Replaced
<1> QED BY <1>5, <1>6, <1>7, <1>8

LEMMA TrafficInstalls ==
    ASSUME TypeOK, Sound, Traffic, NEW k \in Calls, Install(k)
    PROVE  Traffic' /\ disturbed' = disturbed
<1> USE DEF Traffic
<1> DEFINE c == call[k].chat
<1>1. PICK id \in Ids : Installs(k, id) BY InstallDoes
<1>2. /\ \A j \in Calls \ {k} : call'[j] = call[j]
      /\ call'[k].pc = "queued" /\ call'[k].chat = c /\ call'[k].cleared = call[k].cleared
      /\ Spawning(k) /\ disturbed' = disturbed
      /\ overwritten' = IF active[c] # None THEN overwritten \cup {active[c]} ELSE overwritten
  BY <1>1, InstallDoes DEF Installs, Spawning, Install
<1>3. Open(k) /\ c \in Chats BY <1>2, CallKinds, CallFields DEF Spawning, Open, TypeOK
<1>4. ChatsStay BY <1>1, ChatsOfProcesses
<1>5. ClearedSpawns' BY <1>2 DEF ClearedSpawns, Spawning
<1>6. OneOpenCall' BY <1>2, <1>3 DEF OneOpenCall, Open
<1>7. SpawnsAlone'
  <2>1. ASSUME NEW j \in Calls, Spawning(j)', active'[call'[j].chat] # None
        PROVE  call'[j].chat \in disturbed
    <3>1. j # k /\ call'[j] = call[j] /\ Spawning(j) BY <1>2, <2>1 DEF Spawning
    <3>2. Open(j) BY <3>1 DEF Spawning, Open
    <3>3. CASE call[j].chat = c
      BY <1>2, <1>3, <3>1, <3>2, <3>3 DEF ClearedSpawns, OneOpenCall
    <3>4. CASE call[j].chat # c
      <4>1. call[j].chat \in Chats BY <3>2, CallKinds, CallFields DEF Open, TypeOK
      <4>2. active'[call[j].chat] = active[call[j].chat]
        BY <1>1, <3>4, <4>1 DEF Installs, TypeOK
      <4> QED BY <2>1, <3>1, <4>2 DEF SpawnsAlone
    <3> QED BY <3>3, <3>4
  <2> QED BY <1>2, <2>1 DEF SpawnsAlone
<1>8. ReplacedByTwo'
  <2>1. ASSUME active[c] # None
        PROVE  active[c] \in 1 .. born /\ children[active[c]].chat = c /\ c \in disturbed
    <3>1. c \in Sessions /\ active[c] \in Children BY <1>3, <2>1 DEF Sessions, TypeOK
    <3>2. Live(active[c]) /\ children[active[c]].chat = c BY <3>1 DEF Sound, Mapped
    <3>3. active[c] \in 1 .. born
      BY <3>1, <3>2, BoundsAssumption DEF Sound, Born, Live, Children, TypeOK
    <3> QED BY <1>2, <2>1, <3>2, <3>3 DEF SpawnsAlone
  <2> QED BY <1>2, <1>4, <2>1 DEF ReplacedByTwo, ChatsStay, Sound, Replaced
<1> QED BY <1>2, <1>5, <1>6, <1>7, <1>8

LEMMA TrafficStep ==
    TypeOK /\ Sound /\ Traffic /\ [Next]_vars => Traffic' /\ disturbed \subseteq disturbed'
<1> SUFFICES ASSUME TypeOK, Sound, Traffic, [Next]_vars
             PROVE  Traffic' /\ disturbed \subseteq disturbed'
  OBVIOUS
<1>1. ASSUME NEW c \in Chats, Reconnect(c) \/ Clean(c)
      PROVE  Traffic' /\ disturbed \subseteq disturbed'
  BY <1>1, TrafficCleared
<1>2. ASSUME NEW k \in Calls, NEW c \in Chats, Reuse(k, c) \/ Create(k, c)
      PROVE  Traffic' /\ disturbed \subseteq disturbed'
  BY <1>2, TrafficBegins DEF Reuse, Create, history
<1>3. ASSUME NEW k \in Calls, Install(k) PROVE Traffic' /\ disturbed \subseteq disturbed'
  BY <1>3, TrafficInstalls
<1>4. ASSUME ChatsStay, CallsGoOn, Sessions' \subseteq Sessions,
             UNCHANGED <<overwritten, disturbed>>
      PROVE  Traffic' /\ disturbed \subseteq disturbed'
  BY <1>4, TrafficGoesOn
<1>5. UNCHANGED call => CallsGoOn BY DEF CallsGoOn, Open, Spawning
<1>6. ASSUME NEW p \in Children, IdleTimerFires(p)
      PROVE  Traffic' /\ disturbed \subseteq disturbed'
  <2>1. ChatsStay /\ Sessions' \subseteq Sessions
    BY <1>6, IdleTimerCloses, ChatsOfProcesses, FewerSessions
  <2> QED BY <1>4, <1>5, <1>6, <2>1 DEF IdleTimerFires, history
<1>7. ASSUME NEW p \in Children, ChildExits(p)
      PROVE  Traffic' /\ disturbed \subseteq disturbed'
  <2>1. ChatsStay /\ Sessions' \subseteq Sessions
    BY <1>7, ExitHurts, ChatsOfProcesses, FewerSessions
  <2> QED BY <1>4, <1>5, <1>7, <2>1 DEF ChildExits, history
<1>8. CASE CloseAll
  <2>1. ChatsStay /\ Sessions' \subseteq Sessions
    BY <1>8, CloseAllCloses, ChatsOfProcesses, FewerSessions
  <2> QED BY <1>4, <1>5, <1>8, <2>1 DEF CloseAll, history
<1>9. ASSUME NEW k \in Calls, NEW c \in Chats, ConfigFails(k, c)
      PROVE  Traffic' /\ disturbed \subseteq disturbed'
  <2>1. ChatsStay /\ Sessions' \subseteq Sessions
    BY <1>9, ConfigFailsCloses, ChatsOfProcesses, FewerSessions
  <2> QED BY <1>4, <1>5, <1>9, <2>1 DEF ConfigFails, history
<1>10. ASSUME NEW k \in Calls, Resolve(k) \/ BackoffEnds(k)
       PROVE  Traffic' /\ disturbed \subseteq disturbed'
  <2>1. PICK r : /\ Proceeds(k, r) /\ r.chat = call[k].chat /\ r.cleared = call[k].cleared
                 /\ UNCHANGED <<overwritten, disturbed>>
    BY <1>10, ResolveProceeds, BackoffProceeds
  <2>2. ChatsStay /\ Sessions' \subseteq Sessions
    BY <2>1, ChatsOfProcesses, FewerSessions DEF Proceeds
  <2>3. Spawning(k) /\ Open(k) BY <1>10 DEF Resolve, BackoffEnds, Spawning, Open
  <2>4. CallsGoOn BY <2>1, <2>3 DEF CallsGoOn, Proceeds, Starts, Open, Spawning, NoCall
  <2> QED BY <1>4, <2>1, <2>2, <2>4
<1>11. ASSUME NEW k \in Calls, ResumeNotFound(k)
       PROVE  Traffic' /\ disturbed \subseteq disturbed'
  <2>1. ChatsStay /\ Sessions' \subseteq Sessions
    BY <1>11, ResumeNotFoundDoes, ChatsOfProcesses, FewerSessions
  <2>2. CallsGoOn
    BY <1>11, ResumeNotFoundDoes DEF CallsGoOn, Starts, Open, Spawning, NoCall
  <2> QED BY <1>4, <1>11, <2>1, <2>2 DEF ResumeNotFound, history
<1>12. ASSUME NEW k \in Calls, StartupFails(k)
       PROVE  Traffic' /\ disturbed \subseteq disturbed'
  <2>1. ChatsStay /\ Sessions' \subseteq Sessions
    BY <1>12, StartupHurts, ChatsOfProcesses, FewerSessions
  <2>2. CallsGoOn BY <1>12, StartupHurts DEF CallsGoOn, Open, Spawning, NoCall
  <2> QED BY <1>4, <1>12, <2>1, <2>2 DEF StartupFails, history
<1>13. ASSUME NEW k \in Calls, StartTurn(k) \/ PromptFails(k) \/ GetResult(k) \/ StreamEnds(k)
       PROVE  Traffic' /\ disturbed \subseteq disturbed'
  <2>1. ChatsStay /\ Sessions' \subseteq Sessions
    BY <1>13, TurnStays, ChatsOfProcesses, FewerSessions
  <2>2. CallsGoOn BY <1>13, TurnStays DEF CallsGoOn, Open, Spawning, NoCall
  <2>3. UNCHANGED <<overwritten, disturbed>>
    BY <1>13 DEF StartTurn, PromptFails, GetResult, StreamEnds, history
  <2> QED BY <1>4, <2>1, <2>2, <2>3
<1>14. ASSUME NEW k \in Calls, ActivityTimeout(k)
       PROVE  Traffic' /\ disturbed \subseteq disturbed'
  <2>1. ChatsStay /\ Sessions' \subseteq Sessions
    BY <1>14, ActivityHurts, ChatsOfProcesses, FewerSessions
  <2> QED BY <1>4, <1>5, <1>14, <2>1 DEF ActivityTimeout, history
<1>15. CASE UNCHANGED vars
  BY <1>15 DEF vars, history, Traffic, ClearedSpawns, OneOpenCall, SpawnsAlone, ReplacedByTwo,
              Open, Spawning
<1> QED BY <1>1, <1>2, <1>3, <1>6, <1>7, <1>8, <1>9, <1>10, <1>11, <1>12, <1>13, <1>14, <1>15
        DEF Next

-----------------------------------------------------------------------------
(* Which conversations a chat can come back to.                            *)

\* The conversation with this id was begun by a process of the chat
Of(id, c) == FirstChild(id) \in 1 .. born /\ children[FirstChild(id)].chat = c

\* and, unless the chat was cleared while it spawned, after it was last cleaned.
Fresh(id, c) == Of(id, c) /\ (c \notin disturbed => FirstChild(id) > forgotten[c])

ForgottenIsPast == \A c \in Chats : forgotten[c] <= born

StoreFresh == \A c \in Chats : store[c] # None => Fresh(store[c], c)

SessionsFresh ==
    \A c \in Sessions : Fresh(children[active[c]].conv, c) /\ Fresh(children[active[c]].id, c)

ResumesFresh ==
    \A k \in Calls :
        call[k].pc \in {"backoff", "starting"} /\ call[k].resume => Fresh(call[k].id, call[k].chat)

StartsFresh ==
    \A k \in Calls : call[k].pc = "starting" =>
        /\ Fresh(call[k].child, call[k].chat)
        /\ Fresh(children[call[k].child].conv, call[k].chat)

ConversationsOfChats ==
    \A p \in Children : Live(p) =>
        /\ Of(children[p].conv, children[p].chat)
        /\ children[p].id # None => Of(children[p].id, children[p].chat)

Memory ==
    /\ ForgottenIsPast /\ StoreFresh /\ SessionsFresh /\ ResumesFresh /\ StartsFresh
    /\ ConversationsOfChats /\ StoreIsCurrent

LEMMA ChildIsItself == \A p \in Children : FirstChild(p) = p /\ FirstChild(LocalId(p)) = p
  BY BoundsAssumption DEF FirstChild, KnownToPi, LocalId, Children

\* What most steps do to it: ids come from where they were, and a new process begins
\* its own conversation or a fresh one.
MemoryMoves ==
    /\ ChatsStay /\ forgotten' = forgotten /\ disturbed \subseteq disturbed'
    /\ \A c \in Chats : store'[c] # None => Fresh(store'[c], c)
    /\ \A c \in Sessions' :
          /\ c \in Sessions /\ active'[c] = active[c]
          /\ children'[active[c]].conv = children[active[c]].conv
          /\ children'[active[c]].id = children[active[c]].id
          /\ c \notin disturbed' => store'[c] = store[c]
    /\ \A k \in Calls :
          call'[k].pc \in {"backoff", "starting"} /\ call'[k].resume =>
              call'[k].chat \in Chats /\ Fresh(call'[k].id, call'[k].chat)
    /\ \A k \in Calls : call'[k].pc = "starting" =>
          \/ /\ call[k].pc = "starting" /\ call'[k].chat = call[k].chat
             /\ call'[k].child = call[k].child /\ call[k].chat \in Chats
             /\ children'[call[k].child].conv = children[call[k].child].conv
          \/ /\ call'[k].child = born + 1 /\ born' = born + 1 /\ born + 1 \in Children
             /\ call'[k].chat \in Chats /\ children'[born + 1].chat = call'[k].chat
             /\ \/ children'[born + 1].conv = born + 1
                \/ Fresh(children'[born + 1].conv, call'[k].chat)
    /\ \A p \in Children : Live(p)' =>
          \/ /\ Live(p) /\ children'[p].conv = children[p].conv
             /\ children'[p].chat = children[p].chat /\ children'[p].id = children[p].id
          \/ /\ p = born + 1 /\ born' = born + 1 /\ children'[p].id = None
             /\ \/ children'[p].conv = p
                \/ Of(children'[p].conv, children'[p].chat)

LEMMA MemoryMoved ==
    ASSUME TypeOK, Sound, Memory, MemoryMoves
    PROVE  Memory'
<1> USE DEF Memory
<1>1. \A id, c : Of(id, c) =>
         FirstChild(id) \in 1 .. born' /\ children'[FirstChild(id)].chat = c
  BY DEF MemoryMoves, ChatsStay, Of
<1>2. \A id : \A c \in Chats : Fresh(id, c) =>
         /\ FirstChild(id) \in 1 .. born' /\ children'[FirstChild(id)].chat = c
         /\ c \notin disturbed' => FirstChild(id) > forgotten'[c]
  BY <1>1 DEF MemoryMoves, Fresh
<1>3. ForgottenIsPast' BY DEF ForgottenIsPast, MemoryMoves, ChatsStay, TypeOK
<1>4. StoreFresh' BY <1>2 DEF StoreFresh, MemoryMoves, Fresh, Of
<1>5. SessionsFresh'
  <2>1. ASSUME NEW c \in Sessions'
        PROVE  /\ c \in Chats /\ active'[c] = active[c]
               /\ Fresh(children'[active'[c]].conv, c) /\ Fresh(children'[active'[c]].id, c)
    BY <2>1 DEF MemoryMoves, SessionsFresh, Sessions
  <2> QED BY <1>2, <2>1 DEF SessionsFresh, Fresh, Of
<1>6. ResumesFresh' BY <1>2 DEF ResumesFresh, MemoryMoves, Fresh, Of
<1> DEFINE FreshThen(id, c) ==
             /\ FirstChild(id) \in 1 .. born' /\ children'[FirstChild(id)].chat = c
             /\ c \notin disturbed' => FirstChild(id) > forgotten'[c]
<1>7. StartsFresh'
  <2>1. ASSUME NEW k \in Calls, call'[k].pc = "starting"
        PROVE  /\ FreshThen(call'[k].child, call'[k].chat)
               /\ FreshThen(children'[call'[k].child].conv, call'[k].chat)
    <3>1. CASE /\ call[k].pc = "starting" /\ call'[k].chat = call[k].chat
               /\ call'[k].child = call[k].child /\ call[k].chat \in Chats
               /\ children'[call[k].child].conv = children[call[k].child].conv
      <4>1. Fresh(call[k].child, call[k].chat) /\ Fresh(children[call[k].child].conv, call[k].chat)
        BY <3>1 DEF StartsFresh
      <4> QED BY <1>2, <3>1, <4>1
    <3>2. CASE /\ call'[k].child = born + 1 /\ born' = born + 1 /\ born + 1 \in Children
               /\ call'[k].chat \in Chats /\ children'[born + 1].chat = call'[k].chat
               /\ \/ children'[born + 1].conv = born + 1
                  \/ Fresh(children'[born + 1].conv, call'[k].chat)
      <4>1. FirstChild(born + 1) = born + 1 BY <3>2, ChildIsItself
      <4>2. /\ born + 1 \in 1 .. born' /\ forgotten'[call'[k].chat] = forgotten[call'[k].chat]
            /\ born + 1 > forgotten[call'[k].chat]
        BY <3>2 DEF ForgottenIsPast, TypeOK, MemoryMoves
      <4>3. FreshThen(born + 1, call'[k].chat) BY <3>2, <4>1, <4>2
      <4> QED BY <1>2, <3>2, <4>3
    <3> QED BY <2>1, <3>1, <3>2 DEF MemoryMoves
  <2> QED BY <2>1 DEF StartsFresh, Fresh, Of
<1>8. ConversationsOfChats'
  <2>1. ASSUME NEW p \in Children, Live(p)'
        PROVE  /\ FirstChild(children'[p].conv) \in 1 .. born'
               /\ children'[FirstChild(children'[p].conv)].chat = children'[p].chat
               /\ children'[p].id # None =>
                     /\ FirstChild(children'[p].id) \in 1 .. born'
                     /\ children'[FirstChild(children'[p].id)].chat = children'[p].chat
    <3>1. CASE /\ Live(p) /\ children'[p].conv = children[p].conv
               /\ children'[p].chat = children[p].chat /\ children'[p].id = children[p].id
      BY <1>1, <3>1 DEF ConversationsOfChats
    <3>2. CASE /\ p = born + 1 /\ born' = born + 1 /\ children'[p].id = None
               /\ \/ children'[p].conv = p
                  \/ Of(children'[p].conv, children'[p].chat)
      <4>1. FirstChild(p) = p BY ChildIsItself
      <4>2. p \in 1 .. born' BY <3>2 DEF TypeOK
      <4> QED BY <1>1, <3>2, <4>1, <4>2
    <3> QED BY <2>1, <3>1, <3>2 DEF MemoryMoves
  <2> QED BY <2>1 DEF ConversationsOfChats, Of
<1>9. StoreIsCurrent'
  <2>1. ASSUME NEW c \in Sessions', c \notin disturbed'
        PROVE  store'[c] = children'[active'[c]].id
    BY <2>1 DEF MemoryMoves, StoreIsCurrent
  <2> QED BY <2>1 DEF StoreIsCurrent
<1> QED BY <1>3, <1>4, <1>5, <1>6, <1>7, <1>8, <1>9

\* The calls that spawn in a step that starts no process.
SpawnsGoOn ==
    \A k \in Calls :
        /\ call'[k].pc = "starting" =>
              /\ call[k].pc = "starting"
              /\ call'[k].chat = call[k].chat /\ call'[k].child = call[k].child
        /\ call'[k].pc \in {"backoff", "starting"} =>
              \/ /\ call[k].pc \in {"backoff", "starting"} /\ call'[k].chat = call[k].chat
                 /\ call'[k].resume = call[k].resume /\ call'[k].id = call[k].id
              \/ /\ call'[k].chat \in Chats
                 /\ call'[k].resume => Fresh(call'[k].id, call'[k].chat)

StoreMoves ==
    /\ \A c \in Chats : store'[c] # None => Fresh(store'[c], c)
    /\ \A c \in Sessions' : c \notin disturbed' => store'[c] = store[c]

LEMMA ResumesMove ==
    ASSUME TypeOK, ResumesFresh, SpawnsGoOn, NEW k \in Calls,
           call'[k].pc \in {"backoff", "starting"}
    PROVE  /\ call'[k].chat \in Chats
           /\ call'[k].resume => Fresh(call'[k].id, call'[k].chat)
<1>1. CASE /\ call[k].pc \in {"backoff", "starting"} /\ call'[k].chat = call[k].chat
           /\ call'[k].resume = call[k].resume /\ call'[k].id = call[k].id
  <2>1. call[k].chat \in Chats BY <1>1, CallKinds, CallFields DEF TypeOK
  <2> QED BY <1>1, <2>1 DEF ResumesFresh
<1> QED BY <1>1 DEF SpawnsGoOn

LEMMA ClosingMoves ==
    ASSUME TypeOK, Sound, Memory, NEW G, Closes(G), SpawnsGoOn, StoreMoves,
           forgotten' = forgotten, disturbed \subseteq disturbed'
    PROVE  MemoryMoves
<1>1. ChatsStay BY ChatsOfProcesses
<1>2. ASSUME NEW c \in Sessions'
      PROVE  /\ c \in Sessions /\ active'[c] = active[c]
             /\ children'[active[c]].conv = children[active[c]].conv
             /\ children'[active[c]].id = children[active[c]].id
  <2>1. c \in Sessions /\ active'[c] = active[c] BY <1>2 DEF Closes, Sessions, Without
  <2>2. active[c] \in Children /\ Live(active[c]) BY <2>1 DEF Sound, Mapped, Sessions, TypeOK
  <2> QED BY <2>1, <2>2 DEF Closes
<1>3. ASSUME NEW k \in Calls, call'[k].pc = "starting"
      PROVE  /\ call[k].pc = "starting" /\ call'[k].chat = call[k].chat
             /\ call'[k].child = call[k].child /\ call[k].chat \in Chats
             /\ children'[call[k].child].conv = children[call[k].child].conv
  <2>1. /\ call[k].pc = "starting" /\ call'[k].chat = call[k].chat
        /\ call'[k].child = call[k].child
    BY <1>3 DEF SpawnsGoOn
  <2>2. call[k].child \in Children /\ Live(call[k].child) /\ call[k].chat \in Chats
    BY <2>1, ChildOfCall DEF Holding, Sound, Starting
  <2> QED BY <2>1, <2>2 DEF Closes
<1>4. ASSUME NEW p \in Children, Live(p)'
      PROVE  /\ Live(p) /\ children'[p].conv = children[p].conv
             /\ children'[p].chat = children[p].chat /\ children'[p].id = children[p].id
  <2>1. Live(p) BY <1>4 DEF Closes, Live
  <2> QED BY <2>1 DEF Closes, Live
<1>5. \A k \in Calls : call'[k].pc \in {"backoff", "starting"} =>
         call'[k].chat \in Chats /\ (call'[k].resume => Fresh(call'[k].id, call'[k].chat))
  BY ResumesMove DEF Memory
<1> QED BY <1>1, <1>2, <1>3, <1>4, <1>5 DEF MemoryMoves, StoreMoves

LEMMA HurtMoves ==
    ASSUME TypeOK, Sound, Memory, NEW p \in Children, Hurts(p), SpawnsGoOn, StoreMoves,
           forgotten' = forgotten, disturbed \subseteq disturbed'
    PROVE  MemoryMoves
<1>1. ChatsStay BY ChatsOfProcesses
<1>2. ASSUME NEW q \in Children, children'[q].state = "live"
      PROVE  /\ Live(q) /\ children'[q].conv = children[q].conv
             /\ children'[q].chat = children[q].chat /\ children'[q].id = children[q].id
  <2>1. CASE q = p BY <1>2, <2>1 DEF Hurts
  <2>2. CASE q # p
    <3>1. children'[q] = children[q] BY <2>2 DEF Hurts
    <3> QED BY <1>2, <3>1 DEF Live
  <2> QED BY <2>1, <2>2
<1>3. Sound' BY SoundHurt
<1>4. ASSUME NEW c \in Sessions'
      PROVE  /\ c \in Sessions /\ active'[c] = active[c]
             /\ children'[active[c]].conv = children[active[c]].conv
             /\ children'[active[c]].id = children[active[c]].id
  <2>1. c \in Sessions /\ active'[c] = active[c] BY <1>4 DEF Hurts, Sessions, Without
  <2>2. active[c] \in Children BY <2>1 DEF Sessions, TypeOK
  <2>3. children'[active'[c]].state = "live" BY <1>3, <1>4 DEF Sound, Mapped, Live
  <2> QED BY <1>2, <2>1, <2>2, <2>3
<1>5. ASSUME NEW k \in Calls, call'[k].pc = "starting"
      PROVE  /\ call[k].pc = "starting" /\ call'[k].chat = call[k].chat
             /\ call'[k].child = call[k].child /\ call[k].chat \in Chats
             /\ children'[call[k].child].conv = children[call[k].child].conv
  <2>1. /\ call[k].pc = "starting" /\ call'[k].chat = call[k].chat
        /\ call'[k].child = call[k].child
    BY <1>5 DEF SpawnsGoOn
  <2>2. call[k].child \in Children /\ call[k].chat \in Chats BY <2>1, ChildOfCall DEF Holding
  <2>3. children'[call'[k].child].state = "live" BY <1>3, <1>5 DEF Sound, Starting, Live
  <2> QED BY <1>2, <2>1, <2>2, <2>3
<1>6. \A k \in Calls : call'[k].pc \in {"backoff", "starting"} =>
         call'[k].chat \in Chats /\ (call'[k].resume => Fresh(call'[k].id, call'[k].chat))
  BY ResumesMove DEF Memory
<1> QED BY <1>1, <1>2, <1>4, <1>5, <1>6 DEF MemoryMoves, StoreMoves, Live

LEMMA StartMoves ==
    ASSUME TypeOK, Sound, Memory, NEW k \in Calls, Starts(k), StoreMoves,
           call'[k].resume => Fresh(call'[k].id, call[k].chat),
           \/ children'[born + 1].conv = born + 1
           \/ Fresh(children'[born + 1].conv, call[k].chat),
           forgotten' = forgotten, disturbed \subseteq disturbed'
    PROVE  MemoryMoves
<1>1. ChatsStay BY ChatsOfProcesses
<1>2. /\ born' = born + 1 /\ born + 1 \in Children /\ active' = active
      /\ call'[k].chat = call[k].chat /\ call'[k].child = born + 1
      /\ children'[born + 1].chat = call[k].chat /\ children'[born + 1].id = None
      /\ \A j \in Calls \ {k} : call'[j] = call[j]
  BY NextChild DEF Starts
<1>3. call[k].chat \in Chats BY CallKinds, CallFields DEF TypeOK, Starts
<1>4. Sound' BY SoundStarting
<1>5. ASSUME NEW p \in Children, p # born + 1, children'[p].state = "live"
      PROVE  children'[p] = children[p] /\ Live(p)
  BY <1>5 DEF Starts, Live
<1>6. ASSUME NEW c \in Sessions'
      PROVE  /\ c \in Sessions /\ active'[c] = active[c]
             /\ children'[active[c]].conv = children[active[c]].conv
             /\ children'[active[c]].id = children[active[c]].id
  <2>1. c \in Sessions /\ active[c] \in Children BY <1>2, <1>6 DEF Sessions, TypeOK
  <2>2. children'[active[c]].state = "live" BY <1>2, <1>4, <1>6 DEF Sound, Mapped, Live
  <2>3. active[c] # born + 1
    BY <1>2, <2>1 DEF Sound, Mapped, Born, Live, TypeOK
  <2> QED BY <1>2, <1>5, <2>1, <2>2, <2>3
<1>7. ASSUME NEW j \in Calls \ {k}, call'[j].pc = "starting"
      PROVE  /\ call[j].pc = "starting" /\ call'[j].chat = call[j].chat
             /\ call'[j].child = call[j].child /\ call[j].chat \in Chats
             /\ children'[call[j].child].conv = children[call[j].child].conv
  <2>1. call[j].pc = "starting" /\ call'[j] = call[j] BY <1>2, <1>7
  <2>2. call[j].child \in Children /\ call[j].chat \in Chats /\ call[j].child \in 1 .. born
    BY <2>1, ChildOfCall DEF Holding
  <2>3. children'[call[j].child].state = "live"
    BY <1>4, <1>7, <2>1 DEF Sound, Starting, Live
  <2>4. call[j].child # born + 1 BY <2>2 DEF TypeOK
  <2> QED BY <1>5, <2>1, <2>2, <2>3, <2>4
<1>8. ASSUME NEW j \in Calls \ {k}, call'[j].pc \in {"backoff", "starting"}, call'[j].resume
      PROVE  call'[j].chat \in Chats /\ Fresh(call'[j].id, call'[j].chat)
  <2>1. call[j].pc \in {"backoff", "starting"} /\ call[j].resume /\ call'[j] = call[j]
    BY <1>2, <1>8
  <2>2. call[j].chat \in Chats BY <2>1, CallKinds, CallFields DEF TypeOK
  <2> QED BY <2>1, <2>2 DEF Memory, ResumesFresh
<1>9. ASSUME NEW p \in Children, children'[p].state = "live"
      PROVE  \/ /\ Live(p) /\ children'[p].conv = children[p].conv
                /\ children'[p].chat = children[p].chat /\ children'[p].id = children[p].id
             \/ /\ p = born + 1 /\ born' = born + 1 /\ children'[p].id = None
                /\ \/ children'[p].conv = p
                   \/ Of(children'[p].conv, children'[p].chat)
  <2>1. CASE p = born + 1 BY <1>2, <2>1 DEF Fresh
  <2>2. CASE p # born + 1 BY <1>5, <1>9, <2>2
  <2> QED BY <2>1, <2>2
<1>10. \A j \in Calls : call'[j].pc \in {"backoff", "starting"} /\ call'[j].resume =>
          call'[j].chat \in Chats /\ Fresh(call'[j].id, call'[j].chat)
  BY <1>2, <1>3, <1>8
<1>11. \A j \in Calls : call'[j].pc = "starting" =>
          \/ /\ call[j].pc = "starting" /\ call'[j].chat = call[j].chat
             /\ call'[j].child = call[j].child /\ call[j].chat \in Chats
             /\ children'[call[j].child].conv = children[call[j].child].conv
          \/ /\ call'[j].child = born + 1 /\ born' = born + 1 /\ born + 1 \in Children
             /\ call'[j].chat \in Chats /\ children'[born + 1].chat = call'[j].chat
             /\ \/ children'[born + 1].conv = born + 1
                \/ Fresh(children'[born + 1].conv, call'[j].chat)
  BY <1>2, <1>3, <1>7
<1> QED BY <1>1, <1>6, <1>9, <1>10, <1>11 DEF MemoryMoves, StoreMoves, Live

-----------------------------------------------------------------------------
(* What the steps do to it.                                                *)

LEMMA PersistedMoves ==
    ASSUME TypeOK, Memory, NEW G, Closes(G), NEW C, C \cap Sessions \subseteq G,
           store' = Persisted(C)
    PROVE  StoreMoves
<1>1. Sessions' \cap G = {} BY DEF Closes, Sessions, Without
<1>2. ASSUME NEW c \in Chats
      PROVE  store'[c] = IF c \in C \cap Sessions THEN children[active[c]].id ELSE store[c]
  BY <1>2 DEF Persisted
<1>3. \A c \in Chats : store'[c] # None => Fresh(store'[c], c)
  BY <1>2 DEF Memory, StoreFresh, SessionsFresh
<1>4. \A c \in Sessions' : store'[c] = store[c] BY <1>1, <1>2 DEF Sessions
<1> QED BY <1>3, <1>4 DEF StoreMoves

LEMMA StoreUnmoved ==
    ASSUME Memory, store' = store
    PROVE  StoreMoves
  BY DEF Memory, StoreFresh, StoreMoves

LEMMA CallsUnmoved ==
    ASSUME call' = call
    PROVE  SpawnsGoOn
  BY DEF SpawnsGoOn

\* Call k is over, or goes on to its turn; the others are as they were.
LEMMA OneCallMoves ==
    ASSUME NEW k \in Calls, \A j \in Calls \ {k} : call'[j] = call[j],
           call'[k].pc \notin {"backoff", "starting"}
    PROVE  SpawnsGoOn
  BY DEF SpawnsGoOn

LEMMA ReconnectMemory ==
    ASSUME TypeOK, Sound, Traffic, Memory, NEW c \in Chats, Reconnect(c)
    PROVE  Memory'
<1>1. Closes({c} \cap Sessions) BY ReconnectCloses
<1>2. ClearQueue(c) /\ store' = Persisted({c}) /\ forgotten' = forgotten
  BY DEF Reconnect, CloseSessions
<1>3. SpawnsGoOn
  <2>1. /\ \A k \in Calls : call'[k].pc = call[k].pc
        /\ \A k \in Calls : call[k].pc # "idle" =>
              /\ call'[k].chat = call[k].chat /\ call'[k].child = call[k].child
              /\ call'[k].resume = call[k].resume /\ call'[k].id = call[k].id
    BY <1>2, ClearingCalls DEF NoCall
  <2> QED BY <2>1 DEF SpawnsGoOn
<1>4. StoreMoves BY <1>1, <1>2, PersistedMoves
<1>5. disturbed \subseteq disturbed' BY TrafficCleared
<1> QED BY <1>1, <1>2, <1>3, <1>4, <1>5, ClosingMoves, MemoryMoved

LEMMA TimerMemory ==
    ASSUME TypeOK, Sound, Memory, NEW p \in Children, IdleTimerFires(p)
    PROVE  Memory'
<1> DEFINE C == {children[p].chat}
<1>1. Closes(C \cap Sessions) BY IdleTimerCloses
<1>2. store' = Persisted(C) /\ UNCHANGED <<call, forgotten, disturbed>>
  BY DEF IdleTimerFires, history
<1>3. StoreMoves
  <2> HIDE DEF C
  <2> QED BY <1>1, <1>2, PersistedMoves
<1> QED BY <1>1, <1>2, <1>3, CallsUnmoved, ClosingMoves, MemoryMoved

LEMMA CloseAllMemory ==
    ASSUME TypeOK, Sound, Memory, CloseAll
    PROVE  Memory'
<1>1. Closes(Chats \cap Sessions) BY CloseAllCloses
<1>2. store' = Persisted(Chats) /\ UNCHANGED <<call, forgotten, disturbed>>
  BY DEF CloseAll, CloseSessions, history
<1>3. StoreMoves BY <1>1, <1>2, PersistedMoves
<1> QED BY <1>1, <1>2, <1>3, CallsUnmoved, ClosingMoves, MemoryMoved

LEMMA BeginMemory ==
    ASSUME TypeOK, Sound, Memory, NEW k \in Calls, NEW c \in Chats,
           Reuse(k, c) \/ Create(k, c) \/ ConfigFails(k, c)
    PROVE  Memory'
<1>1. forgotten' = forgotten /\ disturbed' = disturbed
  BY DEF Reuse, Create, ConfigFails, history
<1>2. CASE Reuse(k, c)
  <2>1. SpawnsGoOn BY <1>2, ReuseStays, OneCallMoves
  <2>2. StoreMoves BY <1>2, StoreUnmoved DEF Reuse
  <2> QED BY <1>1, <1>2, <2>1, <2>2, ReuseStays, ClosingMoves, MemoryMoved
<1>3. CASE Create(k, c)
  <2>1. SpawnsGoOn BY <1>3, CreateCloses, OneCallMoves
  <2>2. PICK V \in Victims(c) : /\ Closes((V \cup {c}) \cap Sessions)
                                /\ store' = Persisted(V)
    BY <1>3, CreateCloses
  <2>3. V \cap Sessions \subseteq (V \cup {c}) \cap Sessions OBVIOUS
  <2>4. StoreMoves BY <2>2, <2>3, PersistedMoves
  <2> QED BY <1>1, <2>1, <2>2, <2>4, ClosingMoves, MemoryMoved
<1>4. CASE ConfigFails(k, c)
  <2>1. call' = call /\ store' = store BY <1>4 DEF ConfigFails
  <2> QED BY <1>1, <1>4, <2>1, ConfigFailsCloses, CallsUnmoved, StoreUnmoved, ClosingMoves,
             MemoryMoved
<1> QED BY <1>2, <1>3, <1>4

\* The process of a queued call that can still be prompted is that of the session
\* in memory, unless the chat was cleared while it spawned.
LEMMA UsableIsMapped ==
    ASSUME TypeOK, Sound, Traffic, NEW k \in Calls, call[k].pc = "queued", Usable(call[k].child)
    PROVE  /\ call[k].chat \in Chats /\ call[k].child \in Children /\ Live(call[k].child)
           /\ children[call[k].child].chat = call[k].chat
           /\ call[k].chat \notin disturbed => active[call[k].chat] = call[k].child
<1> DEFINE p == call[k].child
           c == call[k].chat
<1>1. /\ p \in Children /\ c \in Chats /\ children[p].chat = c /\ p # None
      /\ children[p].state \in {"live", "dead"} /\ Holding(k)
  BY ChildOfCall DEF Holding
<1>2. Live(p) /\ ~children[p].killed BY <1>1 DEF Usable, Exited, Live
<1>3. \A j \in Calls : call[j].pc = "starting" => call[j].child # p
  BY <1>1 DEF Sound, Starting
<1>4. active[c] = p \/ p \in overwritten
  BY <1>1, <1>2, <1>3 DEF Sound, LiveChildrenAreOwned, Live
<1>5. p \in overwritten => c \in disturbed BY <1>1 DEF Traffic, ReplacedByTwo
<1> QED BY <1>1, <1>2, <1>4, <1>5

LEMMA TurnMemory ==
    ASSUME TypeOK, Sound, Traffic, Memory, NEW k \in Calls,
           \/ StartTurn(k) \/ PromptFails(k) \/ GetResult(k) \/ StreamEnds(k)
           \/ ActivityTimeout(k)
    PROVE  Memory'
<1>1. forgotten' = forgotten /\ disturbed' = disturbed
  BY DEF StartTurn, PromptFails, GetResult, StreamEnds, ActivityTimeout, history
<1>2. CASE StartTurn(k)
  <2> DEFINE p == call[k].child
             c == call[k].chat
  <2>1. /\ call[k].pc = "queued" /\ Usable(p)
        /\ store' = [store EXCEPT ![c] = children[p].id] /\ active' = active
    BY <1>2 DEF StartTurn
  <2>2. /\ c \in Chats /\ p \in Children /\ Live(p) /\ children[p].chat = c
        /\ c \notin disturbed => active[c] = p
    BY <2>1, UsableIsMapped
  <2>3. children[p].id # None => Of(children[p].id, c)
    BY <2>2 DEF Memory, ConversationsOfChats
  <2>4. c \notin disturbed => /\ Fresh(children[p].id, c) /\ store[c] = children[p].id
    <3>1. ASSUME c \notin disturbed PROVE c \in Sessions /\ active[c] = p
      BY <2>2, <3>1 DEF Sessions, None, Children
    <3> QED BY <3>1 DEF Memory, SessionsFresh, StoreIsCurrent
  <2>5. \A d \in Chats : store'[d] = IF d = c THEN children[p].id ELSE store[d]
    BY <2>1 DEF TypeOK
  <2>6. StoreMoves
    <3> HIDE DEF p, c
    <3>1. \A d \in Chats : store'[d] # None => Fresh(store'[d], d)
      BY <2>3, <2>4, <2>5 DEF Memory, StoreFresh, Fresh
    <3>2. \A d \in Sessions' : d \notin disturbed' => store'[d] = store[d]
      BY <1>1, <2>4, <2>5 DEF Sessions
    <3> QED BY <3>1, <3>2 DEF StoreMoves
  <2>7. SpawnsGoOn BY <1>2, TurnStays, OneCallMoves DEF NoCall
  <2> QED BY <1>1, <1>2, <2>6, <2>7, TurnStays, ClosingMoves, MemoryMoved
<1>3. CASE PromptFails(k) \/ GetResult(k) \/ StreamEnds(k)
  <2>1. store' = store BY <1>3 DEF PromptFails, GetResult, StreamEnds
  <2>2. SpawnsGoOn BY <1>3, TurnStays, OneCallMoves DEF NoCall
  <2> QED BY <1>1, <1>3, <2>1, <2>2, TurnStays, StoreUnmoved, ClosingMoves, MemoryMoved
<1>4. CASE ActivityTimeout(k)
  <2>1. store' = store /\ call' = call BY <1>4 DEF ActivityTimeout
  <2> QED BY <1>1, <1>4, <2>1, ActivityHurts, CallsUnmoved, StoreUnmoved, HurtMoves, MemoryMoved
<1> QED BY <1>2, <1>3, <1>4

LEMMA ExitMemory ==
    ASSUME TypeOK, Sound, Memory, NEW p \in Children, ChildExits(p)
    PROVE  Memory'
<1>1. UNCHANGED <<store, call, forgotten, disturbed>> BY DEF ChildExits, history
<1> QED BY <1>1, ExitHurts, CallsUnmoved, StoreUnmoved, HurtMoves, MemoryMoved

\* A call that spawns in a chat that has no session.
LEMMA SpawnMoves ==
    ASSUME TypeOK, Sound, Traffic, Memory, NEW k \in Calls, Spawning(k), active' = active,
           disturbed' = disturbed, forgotten' = forgotten,
           NEW id, store' = [store EXCEPT ![call[k].chat] = id],
           id # None => Fresh(id, call[k].chat)
    PROVE  StoreMoves
<1> DEFINE c == call[k].chat
<1>1. \A d \in Chats : store'[d] = IF d = c THEN id ELSE store[d] BY DEF TypeOK
<1>2. \A d \in Chats : store'[d] # None => Fresh(store'[d], d)
  BY <1>1 DEF Memory, StoreFresh
<1>3. Sessions' = Sessions BY DEF Sessions
<1>4. c \in Sessions => c \in disturbed BY DEF Traffic, SpawnsAlone, Sessions
<1>5. \A d \in Sessions' : d \notin disturbed' => store'[d] = store[d]
  BY <1>1, <1>3, <1>4 DEF Sessions
<1> QED BY <1>2, <1>5 DEF StoreMoves

LEMMA ProceedMemory ==
    ASSUME TypeOK, Sound, Memory, NEW k \in Calls, NEW r \in CallRecords, Proceeds(k, r),
           r.chat = call[k].chat, r.resume => Fresh(r.id, r.chat), StoreMoves,
           forgotten' = forgotten, disturbed' = disturbed
    PROVE  Memory'
<1>1. CASE /\ Closes({}) /\ \A j \in Calls \ {k} : call'[j] = call[j]
           /\ \/ call'[k] = NoCall
              \/ /\ call'[k].pc = "backoff" /\ call'[k].chat = r.chat
                 /\ call'[k].resume = r.resume /\ call'[k].id = r.id
  <2>1. CASE call'[k] = NoCall
    <3>1. SpawnsGoOn BY <1>1, <2>1, OneCallMoves DEF NoCall
    <3> QED BY <1>1, <3>1, ClosingMoves, MemoryMoved
  <2>2. CASE /\ call'[k].pc = "backoff" /\ call'[k].chat = r.chat
             /\ call'[k].resume = r.resume /\ call'[k].id = r.id
    <3>1. r.chat \in Chats BY CallFields
    <3>2. SpawnsGoOn BY <1>1, <2>2, <3>1 DEF SpawnsGoOn
    <3> QED BY <1>1, <3>2, ClosingMoves, MemoryMoved
  <2> QED BY <1>1, <2>1, <2>2
<1>2. CASE /\ Starts(k) /\ call'[k].resume = r.resume /\ call'[k].id = r.id
           /\ children'[born + 1].conv = IF r.resume THEN r.id ELSE born + 1
  <2>1. /\ call'[k].resume => Fresh(call'[k].id, call[k].chat)
        /\ \/ children'[born + 1].conv = born + 1
           \/ Fresh(children'[born + 1].conv, call[k].chat)
    BY <1>2
  <2> QED BY <1>2, <2>1, StartMoves, MemoryMoved
<1> QED BY <1>1, <1>2 DEF Proceeds

LEMMA ResolveMemory ==
    ASSUME TypeOK, Sound, Traffic, Memory, NEW k \in Calls, Resolve(k)
    PROVE  Memory'
<1>1. Spawning(k) BY DEF Resolve, Spawning
<1>2. UNCHANGED <<active, disturbed, forgotten>> /\ call[k] \in CallRecords BY ResolveProceeds
<1>3. PICK r \in CallRecords :
        /\ r.chat = call[k].chat
        /\ r.resume => store[call[k].chat] # None
        /\ r.id = IF r.resume THEN store[call[k].chat] ELSE None
        /\ store' = [store EXCEPT ![call[k].chat] = r.id]
        /\ Proceeds(k, r)
  BY ResolveProceeds
<1>4. call[k].chat \in Chats BY <1>2, CallFields
<1>5. r.resume => Fresh(r.id, r.chat) BY <1>3, <1>4 DEF Memory, StoreFresh
<1>6. r.id # None => Fresh(r.id, call[k].chat) BY <1>3, <1>5
<1>7. StoreMoves BY <1>1, <1>2, <1>3, <1>6, SpawnMoves
<1> QED BY <1>2, <1>3, <1>5, <1>7, ProceedMemory

LEMMA BackoffMemory ==
    ASSUME TypeOK, Sound, Memory, NEW k \in Calls, BackoffEnds(k)
    PROVE  Memory'
<1>1. /\ UNCHANGED <<store, disturbed, forgotten>> /\ call[k] \in CallRecords
      /\ Proceeds(k, call[k])
  BY BackoffProceeds
<1>2. call[k].resume => Fresh(call[k].id, call[k].chat)
  BY DEF BackoffEnds, Memory, ResumesFresh
<1> QED BY <1>1, <1>2, StoreUnmoved, ProceedMemory

LEMMA FailureMemory ==
    ASSUME TypeOK, Sound, Traffic, Memory, NEW k \in Calls,
           ResumeNotFound(k) \/ StartupFails(k)
    PROVE  Memory'
<1>1. forgotten' = forgotten /\ disturbed' = disturbed
  BY DEF ResumeNotFound, StartupFails, history
<1>2. CASE StartupFails(k)
  <2>1. store' = store BY <1>2 DEF StartupFails
  <2>2. SpawnsGoOn BY <1>2, StartupHurts, OneCallMoves DEF NoCall
  <2> QED BY <1>1, <1>2, <2>1, <2>2, StartupHurts, StoreUnmoved, HurtMoves, MemoryMoved
<1>3. CASE ResumeNotFound(k)
  <2>1. /\ Spawning(k) /\ active' = active /\ call[k].pc = "starting" /\ call[k].resume
        /\ store' = [store EXCEPT ![call[k].chat] = None]
    BY <1>3 DEF ResumeNotFound, Spawning
  <2>2. StoreMoves BY <1>1, <2>1, SpawnMoves
  <2>3. CASE Hurts(call[k].child) /\ call'[k] = NoCall
    <3>1. SpawnsGoOn BY <1>3, <2>3, ResumeNotFoundDoes, OneCallMoves DEF NoCall
    <3> QED BY <1>1, <1>3, <2>2, <2>3, <3>1, ResumeNotFoundDoes, HurtMoves, MemoryMoved
  <2>4. CASE /\ Starts(k) /\ call'[k].resume = call[k].resume /\ call'[k].id = call[k].id
             /\ children'[born + 1].conv = born + 1
    <3>1. Fresh(call[k].id, call[k].chat) BY <2>1 DEF Memory, ResumesFresh
    <3> QED BY <1>1, <2>2, <2>4, <3>1, StartMoves, MemoryMoved
  <2> QED BY <1>3, <2>3, <2>4, ResumeNotFoundDoes
<1> QED BY <1>2, <1>3

LEMMA InstallMemory ==
    ASSUME TypeOK, Sound, Memory, NEW k \in Calls, Install(k)
    PROVE  Memory'
<1> USE DEF Memory
<1> DEFINE p == call[k].child
           c == call[k].chat
<1>1. PICK id \in Ids :
        /\ Installs(k, id) /\ store' = [store EXCEPT ![c] = id]
        /\ id = children[p].conv \/ (call[k].resume /\ id = call[k].id) \/ id = LocalId(p)
  BY InstallDoes
<1>2. /\ call[k].pc = "starting" /\ p \in Children /\ c \in Chats /\ children[p].chat = c
      /\ Live(p) /\ \A d \in Chats : active[d] # p
      /\ \A j \in Calls \ {k} : call'[j] = call[j]
      /\ call'[k].pc = "queued" /\ active' = [active EXCEPT ![c] = p]
      /\ UNCHANGED <<born, disturbed, forgotten>>
  BY <1>1, ChildOfCall DEF Installs, Holding, Sound, Starting, Install
<1>3. Fresh(p, c) /\ Fresh(children[p].conv, c) BY <1>2 DEF StartsFresh
<1>4. Fresh(id, c)
  <2>1. id = LocalId(p) => Fresh(id, c) BY <1>2, <1>3, ChildIsItself DEF Fresh, Of
  <2>2. call[k].resume => Fresh(call[k].id, c) BY <1>2 DEF ResumesFresh
  <2> QED BY <1>1, <1>3, <2>1, <2>2
<1>5. /\ children'[p].conv = children[p].conv /\ children'[p].chat = c /\ children'[p].id = id
      /\ children'[p].state = "live"
  <2>1. children[p] \in LiveChildren BY <1>2, ChildKinds DEF TypeOK, ChildRecords, Live
  <2>2. children'[p] = [children[p] EXCEPT !.id = id, !.timer = TRUE]
    BY <1>1, <1>2 DEF Installs, TypeOK
  <2>3. LET s == [children[p] EXCEPT !.id = id, !.timer = TRUE]
        IN  s.conv = children[p].conv /\ s.chat = children[p].chat /\ s.id = id /\ s.state = "live"
    BY <2>1 DEF LiveChildren
  <2> QED BY <1>2, <2>2, <2>3
<1>6. \A q \in Children \ {p} : children'[q] = children[q] BY <1>1 DEF Installs, TypeOK
<1>7. ChatsStay BY <1>1, ChatsOfProcesses
<1> HIDE DEF p, c
<1>8. \A i, d : Of(i, d) =>
         FirstChild(i) \in 1 .. born' /\ children'[FirstChild(i)].chat = d
  BY <1>7 DEF ChatsStay, Of
<1> DEFINE FreshThen(i, d) ==
             /\ FirstChild(i) \in 1 .. born' /\ children'[FirstChild(i)].chat = d
             /\ d \notin disturbed' => FirstChild(i) > forgotten'[d]
<1>9. \A i, d : Fresh(i, d) => FreshThen(i, d) BY <1>2, <1>8 DEF Fresh
<1>10. ForgottenIsPast' BY <1>2 DEF ForgottenIsPast
<1>11. \A d \in Chats : /\ store'[d] = IF d = c THEN id ELSE store[d]
                        /\ active'[d] = IF d = c THEN p ELSE active[d]
  BY <1>1, <1>2 DEF TypeOK
<1>12. StoreFresh'
  <2>1. \A d \in Chats : store'[d] # None => FreshThen(store'[d], d)
    BY <1>4, <1>9, <1>11 DEF StoreFresh
  <2> QED BY <2>1 DEF StoreFresh, Fresh, Of
<1>13. ASSUME NEW d \in Sessions', d # c
       PROVE  /\ d \in Sessions /\ active'[d] = active[d] /\ active[d] \in Children \ {p}
              /\ children'[active[d]] = children[active[d]]
  <2>1. d \in Chats /\ active'[d] = active[d] BY <1>11, <1>13 DEF Sessions
  <2>2. d \in Sessions /\ active[d] # p BY <1>2, <1>13, <2>1 DEF Sessions
  <2>3. active[d] \in Children BY <2>2 DEF Sessions, TypeOK
  <2> QED BY <1>6, <2>1, <2>2, <2>3
<1>14. SessionsFresh'
  <2>1. ASSUME NEW d \in Sessions'
        PROVE  FreshThen(children'[active'[d]].conv, d) /\ FreshThen(children'[active'[d]].id, d)
    <3>1. CASE d = c BY <1>2, <1>3, <1>4, <1>5, <1>9, <1>11, <3>1
    <3>2. CASE d # c BY <1>9, <1>13, <3>2 DEF SessionsFresh
    <3> QED BY <3>1, <3>2
  <2> QED BY <2>1 DEF SessionsFresh, Fresh, Of
<1>15. ResumesFresh'
  <2>1. ASSUME NEW j \in Calls, call'[j].pc \in {"backoff", "starting"}, call'[j].resume
        PROVE  FreshThen(call'[j].id, call'[j].chat)
    <3>1. call'[j] = call[j] BY <1>2, <2>1
    <3> QED BY <1>9, <2>1, <3>1 DEF ResumesFresh
  <2> QED BY <2>1 DEF ResumesFresh, Fresh, Of
<1>16. StartsFresh'
  <2>1. ASSUME NEW j \in Calls, call'[j].pc = "starting"
        PROVE  /\ FreshThen(call'[j].child, call'[j].chat)
               /\ FreshThen(children'[call'[j].child].conv, call'[j].chat)
    <3>1. call'[j] = call[j] /\ j # k BY <1>2, <2>1
    <3>2. call[j].child \in Children /\ call[j].child # p
      BY <1>2, <2>1, <3>1, ChildOfCall DEF Holding, Sound, Starting, p
    <3>3. children'[call[j].child] = children[call[j].child] BY <1>6, <3>2
    <3> QED BY <1>9, <2>1, <3>1, <3>3 DEF StartsFresh
  <2> QED BY <2>1 DEF StartsFresh, Fresh, Of
<1>17. ConversationsOfChats'
  <2>1. ASSUME NEW q \in Children, children'[q].state = "live"
        PROVE  /\ FirstChild(children'[q].conv) \in 1 .. born'
               /\ children'[FirstChild(children'[q].conv)].chat = children'[q].chat
               /\ children'[q].id # None =>
                     /\ FirstChild(children'[q].id) \in 1 .. born'
                     /\ children'[FirstChild(children'[q].id)].chat = children'[q].chat
    <3>1. CASE q = p BY <1>3, <1>4, <1>5, <1>8, <3>1 DEF Fresh
    <3>2. CASE q # p
      <4>1. children'[q] = children[q] BY <1>6, <3>2
      <4> QED BY <1>8, <2>1, <4>1 DEF ConversationsOfChats, Live
    <3> QED BY <3>1, <3>2
  <2> QED BY <2>1 DEF ConversationsOfChats, Of, Live
<1>18. StoreIsCurrent'
  <2>1. ASSUME NEW d \in Sessions', d \notin disturbed'
        PROVE  store'[d] = children'[active'[d]].id
    <3>1. CASE d = c BY <1>2, <1>5, <1>11, <3>1
    <3>2. CASE d # c
      <4>1. d \in Chats /\ store'[d] = store[d] BY <1>11, <1>13, <3>2 DEF Sessions
      <4> QED BY <1>2, <1>13, <2>1, <3>2, <4>1 DEF StoreIsCurrent
    <3> QED BY <3>1, <3>2
  <2> QED BY <2>1 DEF StoreIsCurrent
<1> QED BY <1>10, <1>12, <1>14, <1>15, <1>16, <1>17, <1>18

LEMMA CleanMemory ==
    ASSUME TypeOK, Sound, Traffic, Memory, NEW c \in Chats, Clean(c)
    PROVE  Memory'
<1> USE DEF Memory
<1>1. /\ ClearQueue(c) /\ store' = [store EXCEPT ![c] = None]
      /\ forgotten' = [forgotten EXCEPT ![c] = born]
  BY DEF Clean, CloseSessions
<1>2. Closes({c} \cap Sessions) /\ ChatsStay BY ReconnectCloses, ChatsOfProcesses
<1>3. /\ disturbed \subseteq disturbed'
      /\ c \notin disturbed' => \A k \in CallsOf(c) : ~Spawning(k)
  BY TrafficCleared
<1>4. /\ born' = born /\ born \in Nat
      /\ \A d \in Chats : /\ store'[d] = IF d = c THEN None ELSE store[d]
                          /\ forgotten'[d] = IF d = c THEN born ELSE forgotten[d]
  BY <1>1, <1>2 DEF Closes, TypeOK
<1>5. /\ \A k \in Calls : call'[k].pc = call[k].pc
      /\ \A k \in Calls : call[k].pc # "idle" =>
            /\ call'[k].chat = call[k].chat /\ call'[k].child = call[k].child
            /\ call'[k].resume = call[k].resume /\ call'[k].id = call[k].id
  BY <1>1, ClearingCalls DEF NoCall
<1>6. \A id, d : Of(id, d) =>
         FirstChild(id) \in 1 .. born' /\ children'[FirstChild(id)].chat = d
  BY <1>2 DEF ChatsStay, Of
<1> DEFINE FreshThen(id, d) ==
             /\ FirstChild(id) \in 1 .. born' /\ children'[FirstChild(id)].chat = d
             /\ d \notin disturbed' => FirstChild(id) > forgotten'[d]
<1>7. \A id : \A d \in Chats : Fresh(id, d) /\ (d # c \/ c \in disturbed') => FreshThen(id, d)
  BY <1>3, <1>4, <1>6 DEF Fresh
<1>8. ForgottenIsPast' BY <1>4 DEF ForgottenIsPast
<1>9. StoreFresh'
  <2>1. \A d \in Chats : store'[d] # None => FreshThen(store'[d], d)
    BY <1>4, <1>7 DEF StoreFresh
  <2> QED BY <2>1 DEF StoreFresh, Fresh, Of
<1>10. ASSUME NEW d \in Sessions'
       PROVE  /\ d \in Sessions /\ d # c /\ active'[d] = active[d] /\ Live(active[d])
              /\ children'[active[d]].conv = children[active[d]].conv
              /\ children'[active[d]].id = children[active[d]].id
  <2>1. d \in Sessions /\ d # c /\ active'[d] = active[d]
    BY <1>2, <1>10 DEF Closes, Sessions, Without
  <2>2. active[d] \in Children /\ Live(active[d]) BY <2>1 DEF Sound, Mapped, Sessions, TypeOK
  <2> QED BY <1>2, <2>1, <2>2 DEF Closes
<1>11. SessionsFresh'
  <2>1. \A d \in Sessions' : /\ FreshThen(children'[active'[d]].conv, d)
                             /\ FreshThen(children'[active'[d]].id, d)
    BY <1>7, <1>10 DEF SessionsFresh, Sessions
  <2> QED BY <2>1 DEF SessionsFresh, Fresh, Of
<1>12. ASSUME NEW k \in Calls, call[k].pc \in {"backoff", "starting"}
       PROVE  /\ call[k].chat \in Chats /\ call'[k].chat = call[k].chat
              /\ call'[k].child = call[k].child
              /\ call'[k].resume = call[k].resume /\ call'[k].id = call[k].id
              /\ call[k].chat # c \/ c \in disturbed'
  <2>1. call[k].chat \in Chats BY <1>12, CallKinds, CallFields DEF TypeOK
  <2>2. call[k].chat = c => k \in CallsOf(c) /\ Spawning(k)
    BY <1>12 DEF CallsOf, Spawning, NoCall
  <2> QED BY <1>3, <1>5, <1>12, <2>1, <2>2
<1>13. ResumesFresh'
  <2>1. \A k \in Calls : call'[k].pc \in {"backoff", "starting"} /\ call'[k].resume =>
           FreshThen(call'[k].id, call'[k].chat)
    BY <1>5, <1>7, <1>12 DEF ResumesFresh
  <2> QED BY <2>1 DEF ResumesFresh, Fresh, Of
<1>14. StartsFresh'
  <2>1. ASSUME NEW k \in Calls, call'[k].pc = "starting"
        PROVE  /\ FreshThen(call'[k].child, call'[k].chat)
               /\ FreshThen(children'[call'[k].child].conv, call'[k].chat)
    <3>1. call[k].pc = "starting" BY <1>5, <2>1
    <3>2. call[k].child \in Children /\ Live(call[k].child)
      BY <3>1, ChildOfCall DEF Holding, Sound, Starting
    <3>3. children'[call[k].child].conv = children[call[k].child].conv
      BY <1>2, <3>2 DEF Closes
    <3> QED BY <1>7, <1>12, <3>1, <3>3 DEF StartsFresh
  <2> QED BY <2>1 DEF StartsFresh, Fresh, Of
<1>15. ConversationsOfChats'
  <2>1. ASSUME NEW p \in Children, children'[p].state = "live"
        PROVE  /\ Live(p) /\ children'[p].conv = children[p].conv
               /\ children'[p].chat = children[p].chat /\ children'[p].id = children[p].id
    <3>1. Live(p) BY <1>2, <2>1 DEF Closes, Live
    <3> QED BY <1>2, <3>1 DEF Closes, Live
  <2> QED BY <1>6, <2>1 DEF ConversationsOfChats, Of, Live
<1>16. StoreIsCurrent' BY <1>3, <1>4, <1>10 DEF StoreIsCurrent, Sessions
<1> QED BY <1>8, <1>9, <1>11, <1>13, <1>14, <1>15, <1>16

LEMMA MemoryStep ==
    ASSUME TypeOK, Sound, Traffic, Memory, [Next]_vars
    PROVE  Memory'
<1>1. ASSUME NEW c \in Chats, Reconnect(c) \/ Clean(c) PROVE Memory'
  BY <1>1, ReconnectMemory, CleanMemory
<1>2. ASSUME NEW p \in Children, IdleTimerFires(p) \/ ChildExits(p) PROVE Memory'
  BY <1>2, TimerMemory, ExitMemory
<1>3. CASE CloseAll BY <1>3, CloseAllMemory
<1>4. ASSUME NEW k \in Calls, NEW c \in Chats, Reuse(k, c) \/ Create(k, c) \/ ConfigFails(k, c)
      PROVE  Memory'
  BY <1>4, BeginMemory
<1>5. ASSUME NEW k \in Calls,
             \/ Resolve(k) \/ BackoffEnds(k) \/ Install(k) \/ ResumeNotFound(k) \/ StartupFails(k)
      PROVE  Memory'
  BY <1>5, ResolveMemory, BackoffMemory, InstallMemory, FailureMemory
<1>6. ASSUME NEW k \in Calls, \/ StartTurn(k) \/ PromptFails(k) \/ GetResult(k) \/ StreamEnds(k)
                              \/ ActivityTimeout(k)
      PROVE  Memory'
  BY <1>6, TurnMemory
<1>7. CASE UNCHANGED vars
  <2>1. UNCHANGED <<active, children, born, call, store, disturbed, forgotten>>
    BY <1>7 DEF vars, history
  <2> QED BY <2>1
      DEF Memory, ForgottenIsPast, StoreFresh, SessionsFresh, ResumesFresh, StartsFresh,
          ConversationsOfChats, StoreIsCurrent, Fresh, Of, Live, Sessions
<1> QED BY <1>1, <1>2, <1>3, <1>4, <1>5, <1>6, <1>7 DEF Next

LEMMA MemoryInit == Init => Traffic /\ Memory
<1> SUFFICES ASSUME Init PROVE Traffic /\ Memory OBVIOUS
<1>1. /\ \A k \in Calls : call[k].pc = "idle"
      /\ \A p \in Children : children[p].state = "unborn"
      /\ overwritten = {} /\ Sessions = {} /\ \A c \in Chats : store[c] = None
      /\ \A c \in Chats : forgotten[c] = 0 /\ born = 0
  BY DEF Init, NoCall, Unborn, Sessions
<1>2. Traffic
  BY <1>1 DEF Traffic, ClearedSpawns, OneOpenCall, SpawnsAlone, ReplacedByTwo, Open, Spawning
<1>3. ForgottenIsPast BY <1>1 DEF ForgottenIsPast
<1> QED BY <1>1, <1>2, <1>3
    DEF Memory, StoreFresh, SessionsFresh, ResumesFresh, StartsFresh, ConversationsOfChats,
        StoreIsCurrent, Live

\* At most one spawn of an undisturbed chat is under way, and every session id
\* stored, held or resumed names a conversation the chat may still continue.
THEOREM MemoryAlways == Spec => [](Traffic /\ Memory)
<1>1. TypeOK /\ Sound /\ Traffic /\ Memory /\ [Next]_vars => Traffic' /\ Memory'
  BY TrafficStep, MemoryStep
<1> QED BY <1>1, MemoryInit, SoundAlways, PTL DEF Spec

\* The store names the conversation of the session in memory, whatever the bot was
\* doing when it crashed.
THEOREM CrashResumesTheSession == Spec => []StoreIsCurrent
<1>1. Memory => StoreIsCurrent BY DEF Memory
<1> QED BY <1>1, MemoryAlways, PTL

\* Two processes never write to one Pi conversation.
THEOREM WritersAreAlone == Spec => []OneWriterPerConversation
<1>1. TypeOK /\ Sound /\ Traffic /\ Memory => OneWriterPerConversation
  <2> SUFFICES ASSUME TypeOK, Sound, Traffic, Memory, NEW p \in Children, NEW q \in Children,
                      p # q, Live(p), ~children[p].killed, Live(q), ~children[q].killed,
                      children[p].conv = children[q].conv, children[p].chat \notin disturbed
               PROVE  FALSE
    BY DEF OneWriterPerConversation, Live
  <2> DEFINE c == children[p].chat
  <2>1. children[q].chat = c BY DEF Memory, ConversationsOfChats, Of
  <2>2. c \in Chats
    BY ChildKinds, LiveFields DEF TypeOK, ChildRecords, Live
  <2>3. ASSUME NEW x \in Children, Live(x), ~children[x].killed, children[x].chat = c
        PROVE  \/ active[c] = x
               \/ \E k \in Calls : call[k].pc = "starting" /\ call[k].child = x /\ call[k].chat = c
    <3>1. x \notin overwritten BY <2>3 DEF Traffic, ReplacedByTwo
    <3>2. \A k \in Calls : call[k].pc = "starting" /\ call[k].child = x => call[k].chat = c
      BY <2>3 DEF Sound, Held, Holding
    <3> QED BY <2>3, <3>1, <3>2 DEF Sound, LiveChildrenAreOwned, Live
  <2>4. \A k \in Calls : call[k].pc = "starting" /\ call[k].chat = c =>
           /\ active[c] = None /\ ~call[k].cleared
    BY DEF Traffic, SpawnsAlone, ClearedSpawns, Spawning
  <2>5. \A j, k \in Calls : /\ call[j].pc = "starting" /\ call[j].chat = c
                            /\ call[k].pc = "starting" /\ call[k].chat = c
                            => j = k
    BY <2>4 DEF Traffic, OneOpenCall, Open
  <2>6. p # None /\ q # None BY DEF Children, None
  <2> QED BY <2>1, <2>3, <2>4, <2>5, <2>6
<1> QED BY <1>1, SoundAlways, MemoryAlways, PTL

\* After /clean nothing of the chat leads back to a conversation from before it.
THEOREM CleanedIsForgotten == Spec => []CleanForgets
<1>1. TypeOK /\ Sound /\ Memory => CleanForgets
  <2> SUFFICES ASSUME TypeOK, Sound, Memory, NEW c \in Chats \ disturbed
               PROVE  /\ store[c] # None => FirstChild(store[c]) > forgotten[c]
                      /\ c \in Sessions => children[active[c]].conv > forgotten[c]
                      /\ \A k \in CallsOf(c) :
                            call[k].pc \in {"backoff", "starting"} /\ call[k].resume
                            => FirstChild(call[k].id) > forgotten[c]
    BY DEF CleanForgets
  <2>1. store[c] # None => FirstChild(store[c]) > forgotten[c]
    BY DEF Memory, StoreFresh, Fresh
  <2>2. c \in Sessions => children[active[c]].conv > forgotten[c]
    <3> SUFFICES ASSUME c \in Sessions PROVE children[active[c]].conv > forgotten[c] OBVIOUS
    <3>1. FirstChild(children[active[c]].conv) > forgotten[c]
      BY DEF Memory, SessionsFresh, Fresh
    <3>2. active[c] \in Children /\ Live(active[c]) BY DEF Sound, Mapped, Sessions, TypeOK
    <3>3. children[active[c]].conv \in Ids
      BY <3>2, ChildKinds, LiveFields DEF TypeOK, ChildRecords, Live
    <3>4. \A id \in Ids : FirstChild(id) <= id
      BY BoundsAssumption DEF FirstChild, KnownToPi, Ids, Children
    <3>5. FirstChild(children[active[c]].conv) \in Int /\ forgotten[c] \in Int
      BY <3>3, BoundsAssumption DEF FirstChild, KnownToPi, Ids, Children, TypeOK
    <3> QED BY <3>1, <3>3, <3>4, <3>5 DEF Ids
  <2>3. \A k \in CallsOf(c) :
           call[k].pc \in {"backoff", "starting"} /\ call[k].resume
           => FirstChild(call[k].id) > forgotten[c]
    BY DEF Memory, ResumesFresh, Fresh, CallsOf
  <2> QED BY <2>1, <2>2, <2>3
<1> QED BY <1>1, SoundAlways, MemoryAlways, PTL

=============================================================================
