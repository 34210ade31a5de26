------------------------ MODULE CronDelivery_proofs ------------------------
(***************************************************************************)
(* Theorems about cron runs, their deliveries and the echoes of them, for  *)
(* any number of runs, chunks and crashes of the bot.                      *)
(***************************************************************************)
EXTENDS CronDelivery, SequenceTheorems, TLAPS

USE BoundsAssumption

LEMMA TypeInit == Init => TypeOK
PROOF BY DEF Init, TypeOK, Labels, NoParcel, Kinds, Nobody, NoFile

LEMMA MessageType ==
    ASSUME TypeOK, NEW r \in Runs, pc[r] = "sending", parcel[r].n >= 1
    PROVE  Message(r) \in Messages
PROOF BY DEF TypeOK, Message, Messages, Kinds

LEMMA PostType ==
    ASSUME TypeOK, NEW m \in Messages, Post(m)
    PROVE  said' \in [Runs -> Seq(1..MaxChunks)] /\ noted' \in [Runs -> SUBSET Kinds]
<1>1. m.run \in Runs /\ m.kind \in Kinds /\ m.n \in 1..MaxChunks
  BY DEF Messages
<1>2. Append(said[m.run], m.n) \in Seq(1..MaxChunks)
  BY <1>1, AppendProperties DEF TypeOK
<1>3. CASE m.kind = "output" BY <1>1, <1>2, <1>3 DEF Post, TypeOK
<1>4. CASE m.kind # "output"
  <2>1. noted[m.run] \union {m.kind} \in SUBSET Kinds BY <1>1 DEF TypeOK
  <2>2. said' = said /\ noted' = [noted EXCEPT ![m.run] = noted[m.run] \union {m.kind}]
    BY <1>4 DEF Post
  <2>3. said \in [Runs -> Seq(1..MaxChunks)] /\ noted \in [Runs -> SUBSET Kinds] BY DEF TypeOK
  <2> QED BY <1>1, <2>1, <2>2, <2>3
<1> QED BY <1>3, <1>4

Parcels == [kind : Kinds, n : 0..MaxChunks, step : {"none", "html", "plain", "echo"}]

LEMMA ParcelStep ==
    ASSUME NEW p \in Parcels, NEW step \in {"html", "plain", "echo"}
    PROVE  [p EXCEPT !.step = step] \in Parcels
PROOF BY DEF Parcels

\* What deliver.sh works on is a chunk of the output, or a note.
Numbered ==
    \A r \in Runs : pc[r] = "sending" =>
        /\ parcel[r].n >= 1
        /\ parcel[r].step \in {"html", "plain", "echo"}
        /\ parcel[r].kind = "output" => parcel[r].n <= total[r]

\* The steps of the run itself keep the types.
LEMMA RunType ==
    ASSUME TypeOK, Numbered, NEW r \in Runs,
           Begin(r) \/ LoadCronTask(r) \/ Work(r) \/ NotifyFailure(r) \/ HandleDeliveryFailure(r)
           \/ Delivered(r) \/ WriteSuccess(r) \/ WriteExit(r) \/ LogFails(r)
    PROVE  TypeOK' /\ Numbered'
<1> USE DEF TypeOK, Numbered, Labels, Kinds, Goto, Deliver, chat, results, bot, Nobody
<1>1. CASE Begin(r) BY <1>1 DEF Begin
<1>2. CASE LoadCronTask(r) BY <1>2 DEF LoadCronTask
<1>3. CASE Work(r)
  <2>1. ASSUME NEW k \in 1..MaxChunks, total' = [total EXCEPT ![r] = k], Deliver(r, "output")
        PROVE  TypeOK' /\ Numbered'
    BY <1>3, <2>1 DEF Work
  <2>2. CASE Goto(r, "success") /\ UNCHANGED <<total, parcel>> BY <1>3, <2>2 DEF Work
  <2>3. CASE Goto(r, "failed") /\ UNCHANGED <<total, parcel>> BY <1>3, <2>3 DEF Work
  <2> QED BY <1>3, <2>1, <2>2, <2>3 DEF Work
<1>4. CASE NotifyFailure(r) BY <1>4 DEF NotifyFailure
<1>5. CASE HandleDeliveryFailure(r)
  <2>1. CASE adminChatId
    <3>1. Deliver(r, "adminnote") BY <1>5, <2>1 DEF HandleDeliveryFailure
    <3>2. [kind |-> "adminnote", n |-> 1, step |-> "html"] \in Parcels BY DEF Parcels
    <3>3. parcel' \in [Runs -> Parcels] BY <3>1, <3>2 DEF Parcels
    <3>4. pc' \in [Runs -> Labels] BY <3>1
    <3>5. Numbered' BY <1>5, <3>1 DEF HandleDeliveryFailure
    <3> QED BY <1>5, <3>3, <3>4, <3>5 DEF HandleDeliveryFailure, Parcels
  <2>2. CASE ~adminChatId BY <1>5, <2>2 DEF HandleDeliveryFailure
  <2> QED BY <2>1, <2>2
<1>6. CASE Delivered(r) BY <1>6 DEF Delivered
<1>7. CASE WriteSuccess(r) BY <1>7 DEF WriteSuccess
<1>8. CASE WriteExit(r) BY <1>8 DEF WriteExit
<1>9. CASE LogFails(r) BY <1>9 DEF LogFails
<1> QED BY <1>1, <1>2, <1>3, <1>4, <1>5, <1>6, <1>7, <1>8, <1>9

\* So do the steps of deliver.sh and of what it sent.
LEMMA ScriptType ==
    ASSUME TypeOK, Numbered, NEW r \in Runs, Script(r) \/ Killed(r)
    PROVE  TypeOK' /\ Numbered'
<1>1. AtStep(r, {"html", "plain", "echo"}) => Message(r) \in Messages
  BY MessageType DEF Numbered, AtStep
<1>2. \A s \in UnderWay(r) : s \subseteq Messages
  BY <1>1 DEF UnderWay, AtStep, TypeOK
<1> USE DEF TypeOK, Numbered, Labels, Kinds, Goto, Fails, AtStep, chat, results, bot
<1>3. CASE Accepted(r)
  <2>1. Post(Message(r)) BY <1>3 DEF Accepted
  <2>2. said' \in [Runs -> Seq(1..MaxChunks)] /\ noted' \in [Runs -> SUBSET Kinds]
    BY <1>1, <1>3, <2>1, PostType DEF Accepted
  <2> QED BY <1>3, <2>2 DEF Accepted
<1>4. CASE AnswerLost(r)
  <2>1. said' \in [Runs -> Seq(1..MaxChunks)] /\ noted' \in [Runs -> SUBSET Kinds]
    BY <1>1, <1>4, PostType DEF AnswerLost
  <2> QED BY <1>4, <2>1 DEF AnswerLost
<1>5. CASE Refused(r)
  <2>1. CASE parcel[r].step = "html"
    <3>1. parcel' = [parcel EXCEPT ![r].step = "plain"] /\ UNCHANGED <<pc, total, unheard>>
      BY <1>5, <2>1 DEF Refused
    <3>2. [parcel[r] EXCEPT !.step = "plain"] \in Parcels BY ParcelStep DEF Parcels
    <3>4. parcel' \in [Runs -> Parcels] BY <3>1, <3>2 DEF Parcels
    <3>3. Numbered' BY <3>1
    <3> QED BY <1>5, <3>1, <3>4, <3>3 DEF Refused, Parcels
  <2>2. CASE parcel[r].step # "html" BY <1>5, <2>2 DEF Refused
  <2> QED BY <2>1, <2>2
<1>6. CASE DeliverTimeout(r) BY <1>2, <1>6 DEF DeliverTimeout
<1>7. CASE WriteEcho(r)
  <2>1. spool' \subseteq Files BY <1>1, <1>7 DEF WriteEcho, Files
  <2>2. handling' \in spool' \union {NoFile} BY <1>7 DEF WriteEcho
  <2>3. CASE LastChunk(r) BY <1>7, <2>1, <2>2, <2>3 DEF WriteEcho
  <2>4. CASE ~LastChunk(r)
    <3>1. /\ parcel[r].kind = "output" /\ parcel[r].n + 1 <= total[r]
          /\ total[r] \in 0..MaxChunks /\ parcel[r].n \in 0..MaxChunks
      BY <1>7, <2>4 DEF WriteEcho, LastChunk
    <3>2. parcel[r].n + 1 \in 0..MaxChunks BY <3>1
    <3>3. parcel' = [parcel EXCEPT ![r] = [kind |-> "output", n |-> parcel[r].n + 1,
                                           step |-> "html"]]
      BY <1>7, <2>4, <3>1 DEF WriteEcho
    <3>4. parcel' \in [Runs -> Parcels] BY <3>2, <3>3 DEF Parcels
    <3>5. Numbered' BY <1>7, <2>4, <3>1, <3>3 DEF WriteEcho
    <3> QED BY <1>7, <2>1, <2>2, <2>4, <3>4, <3>5 DEF WriteEcho, Parcels
  <2> QED BY <2>3, <2>4
<1>8. CASE Killed(r) BY <1>2, <1>8 DEF Killed
<1> QED BY <1>3, <1>4, <1>5, <1>6, <1>7, <1>8 DEF Script

\* And the steps of Telegram and of the bot.
LEMMA BotType ==
    ASSUME TypeOK, Numbered,
           (\E m \in landing : Lands(m)) \/ Watcher \/ BotCrashes \/ BotStarts
    PROVE  TypeOK' /\ Numbered'
<1> USE DEF TypeOK, Numbered, chat, results, bot
<1>1. ASSUME NEW m \in landing, Lands(m) PROVE TypeOK' /\ Numbered'
  <2>1. said' \in [Runs -> Seq(1..MaxChunks)] /\ noted' \in [Runs -> SUBSET Kinds]
    BY <1>1, PostType DEF Lands
  <2> QED BY <1>1, <2>1 DEF Lands
<1>2. \A f \in spool : f[1] \in Messages BY DEF Files
<1>3. ASSUME NEW f \in spool,
             HandleFile(f) \/ DiscardMalformed(f) \/ DeleteFile(f) \/ DeleteFails(f)
      PROVE  TypeOK' /\ Numbered'
  <2>1. CASE HandleFile(f) BY <1>2, <2>1 DEF HandleFile, Steer
  <2>2. CASE DiscardMalformed(f) BY <2>2 DEF DiscardMalformed
  <2>3. CASE DeleteFile(f) BY <2>3 DEF DeleteFile
  <2>4. CASE DeleteFails(f) BY <1>2, <2>4 DEF DeleteFails
  <2> QED BY <1>3, <2>1, <2>2, <2>3, <2>4
<1>4. CASE BotCrashes
  <2>1. handling # NoFile => handling[1] \in Messages BY <1>2
  <2>2. spoilt' \subseteq Messages BY <1>4, <2>1 DEF BotCrashes
  <2>3. crashes' \in 0..MaxCrashes BY <1>4 DEF BotCrashes
  <2>4. up' \in BOOLEAN /\ handling' \in spool' \union {NoFile} BY <1>4 DEF BotCrashes
  <2> QED BY <1>4, <2>2, <2>3, <2>4 DEF BotCrashes
<1>5. CASE BotStarts BY <1>5 DEF BotStarts
<1> QED BY <1>1, <1>3, <1>4, <1>5 DEF Watcher, Take, Delete

LEMMA TypeStep == TypeOK /\ Numbered /\ [Next]_vars => TypeOK' /\ Numbered'
<1> SUFFICES ASSUME TypeOK, Numbered, [Next]_vars PROVE TypeOK' /\ Numbered'
  OBVIOUS
<1>1. CASE UNCHANGED vars
  BY <1>1 DEF vars, chat, results, bot, TypeOK, Numbered
<1>2. ASSUME NEW r \in Runs, Begin(r) \/ Run(r) \/ LogFails(r) \/ Killed(r)
      PROVE  TypeOK' /\ Numbered'
  BY <1>2, RunType, ScriptType DEF Run
<1> QED BY <1>1, <1>2, BotType DEF Next

\* Every reachable state of the deliveries is well typed.
THEOREM TypeCorrect == Spec => []TypeOK
<1>1. Init => TypeOK /\ Numbered BY TypeInit DEF Init, Numbered
<1> QED BY <1>1, TypeStep, PTL DEF Spec

-----------------------------------------------------------------------------
(* Every step belongs to one run, or to the bot. *)

Moves(r) ==
    \/ Begin(r) \/ Run(r) \/ LogFails(r) \/ Killed(r)
    \/ \E m \in landing : m.run = r /\ Lands(m)

BotMoves == Watcher \/ BotCrashes \/ BotStarts

LEMMA NextMoves ==
    ASSUME TypeOK, Next
    PROVE  (\E r \in Runs : Moves(r)) \/ BotMoves
<1>1. \A m \in landing : m.run \in Runs BY DEF TypeOK, Messages
<1> QED BY <1>1 DEF Next, Moves, BotMoves

\* A step of one run changes nothing of another.
LEMMA OthersKeep ==
    ASSUME TypeOK, NEW r \in Runs, NEW q \in Runs, q # r, Moves(r)
    PROVE  /\ pc'[q] = pc[q] /\ total'[q] = total[q] /\ parcel'[q] = parcel[q]
           /\ said'[q] = said[q] /\ noted'[q] = noted[q]
           /\ (q \in loaded' <=> q \in loaded) /\ (q \in unheard' <=> q \in unheard)
           /\ \A m : m.run = q => (m \in landing' <=> m \in landing)
           /\ adminChatId' = adminChatId
<1> USE DEF TypeOK, Goto, Deliver, chat, results, bot, Message, UnderWay, Post, Fails
<1>1. CASE Begin(r) BY <1>1 DEF Begin
<1>2. CASE LoadCronTask(r) BY <1>2 DEF LoadCronTask
<1>3. CASE Work(r) BY <1>3 DEF Work
<1>4. CASE NotifyFailure(r) BY <1>4 DEF NotifyFailure
<1>5. CASE HandleDeliveryFailure(r) BY <1>5 DEF HandleDeliveryFailure
<1>6. CASE Delivered(r) \/ WriteSuccess(r) \/ WriteExit(r)
  BY <1>6 DEF Delivered, WriteSuccess, WriteExit
<1>7. CASE LogFails(r) BY <1>7 DEF LogFails
<1>8. CASE Killed(r) BY <1>8 DEF Killed
<1>9. CASE Accepted(r) BY <1>9 DEF Accepted
<1>10. CASE AnswerLost(r) BY <1>10 DEF AnswerLost
<1>11. CASE Refused(r) BY <1>11 DEF Refused
<1>12. CASE DeliverTimeout(r) BY <1>12 DEF DeliverTimeout
<1>13. CASE WriteEcho(r) BY <1>13 DEF WriteEcho
<1>14. ASSUME NEW n \in landing, n.run = r, Lands(n)
       PROVE  /\ pc'[q] = pc[q] /\ total'[q] = total[q] /\ parcel'[q] = parcel[q]
              /\ said'[q] = said[q] /\ noted'[q] = noted[q]
              /\ (q \in loaded' <=> q \in loaded) /\ (q \in unheard' <=> q \in unheard)
              /\ \A m : m.run = q => (m \in landing' <=> m \in landing)
              /\ adminChatId' = adminChatId
  BY <1>14 DEF Lands
<1> QED BY <1>1, <1>2, <1>3, <1>4, <1>5, <1>6, <1>7, <1>8, <1>9, <1>10, <1>11, <1>12, <1>13,
           <1>14 DEF Moves, Run, Script

LEMMA BotKeeps ==
    ASSUME BotMoves
    PROVE  UNCHANGED <<adminChatId, pc, total, parcel, chat, results, loaded, unheard>>
PROOF BY DEF BotMoves, Watcher, Take, Delete, HandleFile, DeleteFile, DeleteFails,
             DiscardMalformed, BotCrashes, BotStarts, chat, results, bot

-----------------------------------------------------------------------------
(* What a run has said, and what may still land, follow from its place. *)

InOrder(r) == \A i \in DOMAIN said[r] : said[r][i] = i

SendsOutput(r) == pc[r] = "sending" /\ parcel[r].kind = "output"

NoOutputLands(r) == \A m \in landing : m.run = r => m.kind # "output"

Settled(r) == Complete(r) /\ NoOutputLands(r)

\* Before its work a run has said nothing; while it sends an output, all the
\* earlier chunks were said; a request for a chunk that outlived its sender is
\* for the next one; and a run that claims success has said everything.
Said(r) ==
    /\ pc[r] \in {"idle", "start", "loaded"} => said[r] = <<>> /\ total[r] = 0
    /\ pc[r] \in {"idle", "start", "loaded", "failed", "delivered", "success", "exit0"} =>
          NoOutputLands(r)
    /\ InOrder(r)
    /\ SendsOutput(r) =>
          /\ NoOutputLands(r)
          /\ Len(said[r]) = IF parcel[r].step = "echo" THEN parcel[r].n ELSE parcel[r].n - 1
    /\ \A m \in landing : m.run = r /\ m.kind = "output" => m.n = Len(said[r]) + 1
    /\ pc[r] \in {"delivered", "success", "exit0"} => Complete(r)

SaidInv == \A r \in Runs : Said(r)

LEMMA SaysNext ==
    ASSUME TypeOK, NEW m \in Messages, m.kind = "output", Post(m),
           InOrder(m.run), m.n = Len(said[m.run]) + 1
    PROVE  /\ InOrder(m.run)' /\ Len(said'[m.run]) = m.n
           /\ \A i \in DOMAIN said[m.run] : i \in DOMAIN said'[m.run]
           /\ m.n \in DOMAIN said'[m.run]
<1> DEFINE s == said[m.run]
<1>1. m.run \in Runs /\ m.n \in 1..MaxChunks /\ s \in Seq(1..MaxChunks)
  BY DEF Messages, TypeOK
<1>2. said'[m.run] = Append(s, m.n) BY <1>1 DEF Post, TypeOK
<1>3. /\ Len(Append(s, m.n)) = m.n
      /\ DOMAIN Append(s, m.n) = 1..m.n /\ DOMAIN s = 1..Len(s)
      /\ \A i \in 1..Len(s) : Append(s, m.n)[i] = s[i]
      /\ Append(s, m.n)[Len(s) + 1] = m.n
  BY <1>1, AppendProperties, LenProperties
<1>4. Len(s) \in Nat BY <1>1, LenProperties
<1>5. \A i \in 1..m.n : Append(s, m.n)[i] = i BY <1>1, <1>3, <1>4 DEF InOrder
<1> QED BY <1>1, <1>2, <1>3, <1>4, <1>5 DEF InOrder

LEMMA MessageFields ==
    ASSUME NEW r
    PROVE  Message(r).run = r /\ Message(r).kind = parcel[r].kind /\ Message(r).n = parcel[r].n
PROOF BY DEF Message

LEMMA SameMessage ==
    ASSUME NEW k \in Messages, NEW m \in Messages,
           k.run = m.run, k.kind = m.kind, k.n = m.n
    PROVE  k = m
PROOF BY DEF Messages

\* The steps that say nothing.
LEMMA QuietSaid ==
    ASSUME TypeOK, Numbered, NEW r \in Runs, Said(r),
           Begin(r) \/ LoadCronTask(r) \/ Work(r) \/ NotifyFailure(r) \/ HandleDeliveryFailure(r)
           \/ Delivered(r) \/ WriteSuccess(r) \/ WriteExit(r) \/ LogFails(r) \/ Refused(r)
           \/ WriteEcho(r)
    PROVE  Said(r)'
<1> USE DEF TypeOK, Said, InOrder, SendsOutput, NoOutputLands, Complete, Goto, Deliver, chat,
            results, bot
<1>1. CASE Begin(r) BY <1>1 DEF Begin
<1>2. CASE LoadCronTask(r) BY <1>2 DEF LoadCronTask
<1>3. CASE Work(r)
  <2>1. CASE pc'[r] = "sending"
    BY <1>3, <2>1 DEF Work
  <2>2. CASE pc'[r] # "sending"
    BY <1>3, <2>2 DEF Work
  <2> QED BY <2>1, <2>2
<1>4. CASE NotifyFailure(r) BY <1>4 DEF NotifyFailure
<1>5. CASE HandleDeliveryFailure(r)
  <2>1. CASE adminChatId BY <1>5, <2>1 DEF HandleDeliveryFailure
  <2>2. CASE ~adminChatId BY <1>5, <2>2 DEF HandleDeliveryFailure
  <2> QED BY <2>1, <2>2
<1>6. CASE Delivered(r) BY <1>6 DEF Delivered
<1>7. CASE WriteSuccess(r) BY <1>7 DEF WriteSuccess
<1>8. CASE WriteExit(r) BY <1>8 DEF WriteExit
<1>9. CASE LogFails(r) BY <1>9 DEF LogFails
<1>10. CASE Refused(r)
  <2>1. CASE parcel[r].step = "html"
    <3>1. parcel' = [parcel EXCEPT ![r].step = "plain"] /\ UNCHANGED <<pc, total, said, landing>>
      BY <1>10, <2>1 DEF Refused
    <3>2. /\ parcel'[r].kind = parcel[r].kind /\ parcel'[r].n = parcel[r].n
          /\ parcel'[r].step = "plain"
      BY <3>1
    <3> QED BY <2>1, <3>1, <3>2
  <2>2. CASE parcel[r].step # "html" BY <1>10, <2>2 DEF Refused, AtStep, Fails
  <2> QED BY <2>1, <2>2
<1>11. CASE WriteEcho(r)
  <2>1. CASE LastChunk(r) BY <1>11, <2>1 DEF WriteEcho, LastChunk, AtStep
  <2>2. CASE ~LastChunk(r) BY <1>11, <2>2 DEF WriteEcho, LastChunk, AtStep
  <2> QED BY <2>1, <2>2
<1> QED BY <1>1, <1>2, <1>3, <1>4, <1>5, <1>6, <1>7, <1>8, <1>9, <1>10, <1>11

\* The steps that post a message, or leave one that may land.
LEMMA PostingSaid ==
    ASSUME TypeOK, Numbered, NEW r \in Runs, Said(r),
           Accepted(r) \/ AnswerLost(r) \/ DeliverTimeout(r) \/ Killed(r)
    PROVE  Said(r)'
<1>1. AtStep(r, {"html", "plain", "echo"}) => Message(r) \in Messages
  BY MessageType DEF Numbered, AtStep
<1>2. CASE Accepted(r) \/ AnswerLost(r)
  <2>1. AtStep(r, {"html", "plain"}) /\ landing' = landing /\ total' = total
    BY <1>2 DEF Accepted, AnswerLost
  <2>2. Message(r) \in Messages BY <1>1, <2>1 DEF AtStep
  <2>3. CASE Post(Message(r)) /\ parcel[r].kind = "output"
    <3>1. Len(said[r]) = parcel[r].n - 1 /\ NoOutputLands(r) /\ InOrder(r)
      BY <2>1, <2>3 DEF Said, SendsOutput, AtStep
    <3>2. parcel[r].n \in Nat BY DEF TypeOK
    <3>3. parcel[r].n = Len(said[r]) + 1
      BY <3>1, <3>2, LenProperties DEF TypeOK
    <3>4. InOrder(r)' /\ Len(said'[r]) = parcel[r].n
      BY <2>2, <2>3, <3>1, <3>3, SaysNext, MessageFields
    <3>5. NoOutputLands(r)' BY <2>1, <3>1 DEF NoOutputLands
    <3>6. CASE Accepted(r)
      <4>1. pc'[r] = "sending" /\ parcel'[r].n = parcel[r].n /\ parcel'[r].step = "echo"
        BY <2>1, <3>6 DEF Accepted, AtStep, TypeOK
      <4> QED BY <3>4, <3>5, <4>1 DEF Said, SendsOutput, NoOutputLands
    <3>7. CASE AnswerLost(r)
      <4>1. pc'[r] = "undelivered"
        BY <2>3, <3>7 DEF AnswerLost, Fails, Goto, TypeOK
      <4> QED BY <3>4, <3>5, <4>1 DEF Said, SendsOutput, NoOutputLands
    <3> QED BY <1>2, <3>6, <3>7
  <2>4. CASE said' = said
    BY <1>2, <2>1, <2>4 DEF Accepted, AnswerLost, Fails, Goto, TypeOK, Said, InOrder, AtStep,
                            SendsOutput, NoOutputLands, Complete, Post, Message
  <2>5. Post(Message(r)) \/ said' = said BY <1>2 DEF Accepted, AnswerLost
  <2>6. Post(Message(r)) => parcel[r].kind = "output" \/ said' = said
    BY MessageFields DEF Post
  <2> QED BY <2>3, <2>4, <2>5, <2>6
<1>3. CASE DeliverTimeout(r) \/ Killed(r)
  <2>1. /\ said' = said /\ total' = total
        /\ pc'[r] \in {"exit1", "undelivered", "killed"}
        /\ landing' \in UnderWay(r)
    BY <1>3 DEF DeliverTimeout, Killed, Fails, Goto, TypeOK
  <2>2. \A m \in landing' : m \in landing \/ (m = Message(r) /\ AtStep(r, {"html", "plain"}))
    <3>1. CASE AtStep(r, {"html", "plain"})
      <4>1. landing' \in {landing, landing \union {Message(r)}} BY <2>1, <3>1 DEF UnderWay
      <4> QED BY <3>1, <4>1
    <3>2. CASE ~AtStep(r, {"html", "plain"})
      <4>1. landing' \in {landing} BY <2>1, <3>2 DEF UnderWay
      <4>2. landing' = landing BY <4>1
      <4> QED BY <4>2
    <3> QED BY <3>1, <3>2
  <2>3. \A m \in landing' : m.run = r /\ m.kind = "output" => m.n = Len(said[r]) + 1
    <3>1. parcel[r].n \in Nat /\ Len(said[r]) \in Nat BY LenProperties DEF TypeOK
    <3>2. AtStep(r, {"html", "plain"}) /\ parcel[r].kind = "output"
            => parcel[r].n = Len(said[r]) + 1
      BY <3>1 DEF Said, SendsOutput, AtStep
    <3> QED BY <2>2, <3>2, MessageFields DEF Said
  <2> QED BY <2>1, <2>3 DEF Said, InOrder, SendsOutput
<1> QED BY <1>2, <1>3

\* A request lands after its sender ended.
LEMMA LandsSaid ==
    ASSUME TypeOK, NEW m \in landing, Said(m.run), Lands(m)
    PROVE  Said(m.run)'
<1> DEFINE r == m.run
<1>1. m \in Messages /\ r \in Runs BY DEF TypeOK, Messages
<1>2. UNCHANGED <<pc, parcel, total>> /\ landing' = landing \ {m} /\ Post(m) BY DEF Lands
<1>3. CASE m.kind = "output"
  <2>1. m.n = Len(said[r]) + 1 /\ InOrder(r) BY <1>3 DEF Said
  <2>2. InOrder(r)' BY <1>1, <1>2, <1>3, <2>1, SaysNext
  <2>3. pc[r] \notin {"idle", "start", "loaded", "failed", "delivered", "success", "exit0"}
    BY <1>3 DEF Said, NoOutputLands
  <2>4. ~SendsOutput(r) BY <1>3 DEF Said, NoOutputLands
  <2>5. \A k \in landing' : ~(k.run = r /\ k.kind = "output")
    <3> SUFFICES ASSUME NEW k \in landing', k.run = r, k.kind = "output" PROVE FALSE
      OBVIOUS
    <3>1. k.n = m.n BY <1>2, <2>1 DEF Said
    <3>2. k \in Messages BY <1>2 DEF TypeOK
    <3>3. k = m BY <1>1, <1>3, <3>1, <3>2, SameMessage
    <3> QED BY <1>2, <3>3
  <2> QED BY <1>2, <2>2, <2>3, <2>4, <2>5 DEF Said, SendsOutput
<1>4. CASE m.kind # "output"
  <2>1. said' = said BY <1>2, <1>4 DEF Post
  <2> QED BY <1>2, <2>1 DEF Said, InOrder, SendsOutput, NoOutputLands, Complete
<1> QED BY <1>3, <1>4

LEMMA SaidStep == TypeOK /\ Numbered /\ SaidInv /\ [Next]_vars => SaidInv'
<1> SUFFICES ASSUME TypeOK, Numbered, SaidInv, [Next]_vars, NEW q \in Runs PROVE Said(q)'
  BY DEF SaidInv
<1> USE DEF SaidInv
<1>1. CASE UNCHANGED vars \/ BotMoves
  <2>1. UNCHANGED <<pc, total, parcel, said, landing>>
    BY <1>1, BotKeeps DEF vars, chat
  <2> QED BY <2>1 DEF Said, InOrder, SendsOutput, NoOutputLands, Complete
<1>2. ASSUME NEW r \in Runs, Moves(r) PROVE Said(q)'
  <2>1. CASE q # r
    BY <1>2, <2>1, OthersKeep DEF Said, InOrder, SendsOutput, NoOutputLands, Complete
  <2>2. CASE q = r
    BY <1>2, <2>2, QuietSaid, PostingSaid, LandsSaid DEF Moves, Run, Script
  <2> QED BY <2>1, <2>2
<1> QED BY <1>1, <1>2, NextMoves

LEMMA SaidStarts == Init => SaidInv
<1> SUFFICES ASSUME Init, NEW r \in Runs PROVE Said(r)
  BY DEF SaidInv
<1>1. pc[r] = "idle" /\ said[r] = <<>> /\ total[r] = 0 /\ landing = {} BY DEF Init
<1>2. \A i \in DOMAIN said[r] : FALSE BY <1>1
<1> QED BY <1>1, <1>2 DEF Said, InOrder, SendsOutput, NoOutputLands

\* Chunks reach the chat in order and once.
THEOREM InOrderAlways == Spec => []ChunksInOrder
<1>1. SaidInv => ChunksInOrder BY DEF SaidInv, Said, InOrder, ChunksInOrder
<1>2. Init => Numbered BY DEF Init, Numbered
<1> QED BY <1>1, <1>2, TypeInit, TypeStep, SaidStarts, SaidStep, PTL DEF Spec

-----------------------------------------------------------------------------
(* The metrics. *)

\* What a metric says of a run stays true: nothing of that run moves any more
\* but its end.
MetricsOf(q) ==
    /\ successProm = q => Settled(q) /\ pc[q] \in {"exit0", "done", "killed"}
    /\ exitProm # Nobody /\ exitProm.run = q =>
          /\ pc[q] = "done"
          /\ exitProm.code = 0 => Settled(q)
          /\ exitProm.code = 1 => successProm # q

Metrics == \A q \in Runs : MetricsOf(q)

LEMMA SettledStays ==
    ASSUME TypeOK, NEW r \in Runs, NEW q \in Runs, Moves(r),
           pc[q] \in {"exit0", "done", "killed"}
    PROVE  /\ pc'[q] \in {"exit0", "done", "killed"}
           /\ pc[q] = "done" => pc'[q] = "done"
           /\ Settled(q) => Settled(q)'
<1>1. CASE q # r
  BY <1>1, OthersKeep DEF Settled, NoOutputLands, Complete
<1>2. CASE q = r /\ ~\E m \in landing : m.run = r /\ Lands(m)
  <2>1. WriteExit(r) \/ Killed(r)
    BY <1>2 DEF Moves, Run, Script, Begin, LoadCronTask, Work, NotifyFailure, LogFails,
                HandleDeliveryFailure, Delivered, WriteSuccess, Accepted, AnswerLost, Refused,
                DeliverTimeout, WriteEcho, AtStep
  <2>2. CASE WriteExit(r)
    BY <1>2, <2>2 DEF WriteExit, Goto, TypeOK, chat, Settled, NoOutputLands, Complete
  <2>3. CASE Killed(r)
    <3>1. landing' \in {landing} BY <1>2, <2>3 DEF Killed, UnderWay, AtStep
    <3>2. landing' = landing BY <3>1
    <3> QED BY <1>2, <2>3, <3>2 DEF Killed, Goto, TypeOK, Active, Ended, Settled, NoOutputLands,
                                    Complete
  <2> QED BY <2>1, <2>2, <2>3
<1>3. ASSUME q = r, NEW m \in landing, m.run = r, Lands(m)
      PROVE  /\ pc'[q] \in {"exit0", "done", "killed"}
             /\ pc[q] = "done" => pc'[q] = "done"
             /\ Settled(q) => Settled(q)'
  BY <1>3 DEF Lands, Post, Settled, NoOutputLands, Complete
<1> QED BY <1>1, <1>2, <1>3

LEMMA PromsKept ==
    ASSUME NEW r \in Runs, Moves(r), ~WriteSuccess(r), ~WriteExit(r)
    PROVE  UNCHANGED results
PROOF BY DEF Moves, Run, Script, Begin, LoadCronTask, Work, NotifyFailure, LogFails, Killed,
             HandleDeliveryFailure, Delivered, Accepted, AnswerLost, Refused,
             DeliverTimeout, WriteEcho, Lands, results

LEMMA MetricsStep ==
    TypeOK /\ Numbered /\ SaidInv /\ Metrics /\ [Next]_vars => Metrics'
<1> SUFFICES ASSUME TypeOK, SaidInv, Metrics, [Next]_vars, NEW q \in Runs PROVE MetricsOf(q)'
  BY DEF Metrics
<1> USE DEF MetricsOf
<1>1. MetricsOf(q) BY DEF Metrics
<1>2. CASE UNCHANGED vars \/ BotMoves
  <2>1. UNCHANGED <<pc, total, said, landing, successProm, exitProm>>
    BY <1>2, BotKeeps DEF vars, chat, results
  <2> QED BY <1>1, <2>1 DEF Settled, NoOutputLands, Complete
<1>3. ASSUME NEW r \in Runs, Moves(r) PROVE MetricsOf(q)'
  <2>1. /\ successProm = q => Settled(q)' /\ pc'[q] \in {"exit0", "done", "killed"}
        /\ exitProm # Nobody /\ exitProm.run = q =>
              pc'[q] = "done" /\ (exitProm.code = 0 => Settled(q)')
    BY <1>1, <1>3, SettledStays
  <2>2. CASE WriteSuccess(r)
    <3>1. Settled(r) /\ pc[r] = "success" BY <2>2 DEF WriteSuccess, SaidInv, Said, Settled
    <3>2. Settled(r)' /\ pc'[r] = "exit0" /\ exitProm' = exitProm
      BY <2>2, <3>1 DEF WriteSuccess, Goto, TypeOK, chat, Settled, NoOutputLands, Complete
    <3>3. successProm' = r \/ successProm' = successProm BY <2>2 DEF WriteSuccess
    <3>4. exitProm # Nobody => exitProm.run # r BY <3>1 DEF Metrics
    <3> QED BY <1>1, <2>1, <3>2, <3>3, <3>4
  <2>3. CASE WriteExit(r)
    <3>1. pc'[r] = "done" /\ successProm' = successProm BY <2>3 DEF WriteExit, Goto, TypeOK
    <3>2. pc[r] = "exit0" => Settled(r)'
      BY <2>3 DEF WriteExit, chat, SaidInv, Said, Settled, NoOutputLands, Complete
    <3>3. pc[r] = "exit1" => successProm # r BY DEF Metrics
    <3>4. \/ exitProm' = exitProm
          \/ exitProm' = [run |-> r, code |-> IF pc[r] = "exit0" THEN 0 ELSE 1]
      BY <2>3 DEF WriteExit
    <3>5. CASE exitProm' = exitProm BY <1>1, <2>1, <3>1, <3>5
    <3>6. CASE exitProm' = [run |-> r, code |-> IF pc[r] = "exit0" THEN 0 ELSE 1]
      <4>1. exitProm'.run = r /\ exitProm'.code = IF pc[r] = "exit0" THEN 0 ELSE 1 BY <3>6
      <4>2. pc[r] = "exit0" \/ pc[r] = "exit1" BY <2>3 DEF WriteExit
      <4>3. exitProm'.code = 0 => pc[r] = "exit0" BY <4>1
      <4>4. exitProm'.code = 1 => pc[r] = "exit1" BY <4>1, <4>2
      <4> QED BY <2>1, <3>1, <3>2, <3>3, <4>1, <4>3, <4>4
    <3> QED BY <3>4, <3>5, <3>6
  <2>4. CASE ~WriteSuccess(r) /\ ~WriteExit(r)
    <3>1. UNCHANGED <<successProm, exitProm>> BY <1>3, <2>4, PromsKept DEF results
    <3> QED BY <1>1, <2>1, <3>1
  <2> QED BY <2>2, <2>3, <2>4
<1> QED BY <1>2, <1>3, NextMoves

\* What the metrics call a success was said in full.
THEOREM SuccessIsSaid == Spec => []SuccessMeansSaid
<1>1. TypeOK /\ Metrics => SuccessMeansSaid
  BY DEF TypeOK, Metrics, MetricsOf, SuccessMeansSaid, Settled
<1>2. Init => Numbered /\ Metrics BY DEF Init, Numbered, Metrics, MetricsOf, Nobody
<1> QED BY <1>1, <1>2, TypeInit, TypeStep, SaidStarts, SaidStep, MetricsStep, PTL DEF Spec

-----------------------------------------------------------------------------
(* Failures. *)

Told(r) ==
    /\ pc[r] \in {"idle", "start"} => r \notin loaded
    /\ AtStep(r, {"echo"}) /\ parcel[r].kind # "output" => parcel[r].kind \in noted[r]
    /\ pc[r] = "exit1" /\ r \in loaded => noted[r] # {} \/ ~adminChatId \/ r \in unheard

ToldInv == \A r \in Runs : Told(r)

LEMMA ToldOwnStep ==
    ASSUME TypeOK, Numbered, NEW r \in Runs, Told(r), Moves(r)
    PROVE  Told(r)'
<1> USE DEF TypeOK, Told, AtStep, Goto, Deliver, chat, results, bot
<1>1. CASE Begin(r) BY <1>1 DEF Begin
<1>2. CASE LoadCronTask(r) BY <1>2 DEF LoadCronTask
<1>3. CASE Work(r) BY <1>3 DEF Work
<1>4. CASE NotifyFailure(r) BY <1>4 DEF NotifyFailure
<1>5. CASE HandleDeliveryFailure(r)
  <2>1. CASE adminChatId BY <1>5, <2>1 DEF HandleDeliveryFailure
  <2>2. CASE ~adminChatId BY <1>5, <2>2 DEF HandleDeliveryFailure
  <2> QED BY <2>1, <2>2
<1>6. CASE Delivered(r) \/ WriteSuccess(r) \/ WriteExit(r)
  BY <1>6 DEF Delivered, WriteSuccess, WriteExit
<1>7. CASE LogFails(r) BY <1>7 DEF LogFails
<1>8. CASE Killed(r) BY <1>8 DEF Killed
<1>9. CASE Accepted(r)
  <2>1. /\ pc' = pc /\ loaded' = loaded /\ pc[r] = "sending"
        /\ parcel'[r].kind = parcel[r].kind
    BY <1>9 DEF Accepted
  <2>2. parcel[r].kind # "output" => parcel[r].kind \in noted'[r]
    BY <1>9 DEF Accepted, Post, Message
  <2> QED BY <2>1, <2>2
<1>10. CASE AnswerLost(r) \/ DeliverTimeout(r)
  BY <1>10 DEF AnswerLost, DeliverTimeout, Fails
<1>11. CASE Refused(r)
  <2>1. CASE parcel[r].step = "html"
    <3>1. parcel' = [parcel EXCEPT ![r].step = "plain"] /\ UNCHANGED pc /\ pc[r] = "sending"
      BY <1>11, <2>1 DEF Refused
    <3>2. parcel'[r].step = "plain" BY <3>1
    <3> QED BY <3>1, <3>2
  <2>2. CASE parcel[r].step # "html" BY <1>11, <2>2 DEF Refused, Fails
  <2> QED BY <2>1, <2>2
<1>12. CASE WriteEcho(r)
  <2>1. CASE LastChunk(r) BY <1>12, <2>1 DEF WriteEcho
  <2>2. CASE ~LastChunk(r) BY <1>12, <2>2 DEF WriteEcho, LastChunk
  <2> QED BY <2>1, <2>2
<1>13. ASSUME NEW m \in landing, m.run = r, Lands(m) PROVE Told(r)'
  <2>1. UNCHANGED <<adminChatId, pc, parcel, loaded, unheard>> /\ noted[r] \subseteq noted'[r]
    BY <1>13 DEF Lands, Post
  <2> QED BY <2>1
<1> QED BY <1>1, <1>2, <1>3, <1>4, <1>5, <1>6, <1>7, <1>8, <1>9, <1>10, <1>11, <1>12, <1>13
        DEF Moves, Run, Script

LEMMA ToldStep == TypeOK /\ Numbered /\ ToldInv /\ [Next]_vars => ToldInv'
<1> SUFFICES ASSUME TypeOK, Numbered, ToldInv, [Next]_vars, NEW q \in Runs PROVE Told(q)'
  BY DEF ToldInv
<1> USE DEF ToldInv
<1>1. CASE UNCHANGED vars \/ BotMoves
  <2>1. UNCHANGED <<adminChatId, pc, parcel, noted, loaded, unheard>>
    BY <1>1, BotKeeps DEF vars, chat
  <2> QED BY <2>1 DEF Told, AtStep
<1>2. ASSUME NEW r \in Runs, Moves(r) PROVE Told(q)'
  <2>1. CASE q # r BY <1>2, <2>1, OthersKeep DEF Told, AtStep
  <2>2. CASE q = r BY <1>2, <2>2, ToldOwnStep
  <2> QED BY <2>1, <2>2
<1> QED BY <1>1, <1>2, NextMoves

\* Somebody is told of every failure after the task was loaded, if there is
\* somebody who can be reached.
THEOREM SomebodyIsTold == Spec => []FailuresAreTold
<1>1. ToldInv => FailuresAreTold BY DEF ToldInv, Told, FailuresAreTold
<1>2. Init => Numbered /\ ToldInv BY DEF Init, Numbered, ToldInv, Told, AtStep
<1> QED BY <1>1, <1>2, TypeInit, TypeStep, ToldStep, PTL DEF Spec

-----------------------------------------------------------------------------
(* Echoes. *)

\* A message is echoed when its run is through with it, and not again.
EchoedOf(m) ==
    /\ Posted(m)
    /\ pc[m.run] \notin {"idle", "start", "loaded", "failed"}
    /\ m.kind = "output" /\ pc[m.run] = "sending" =>
          \/ parcel[m.run].kind = "adminnote"
          \/ parcel[m.run].kind = "output" /\ m.n < parcel[m.run].n
    /\ m.kind # "output" => pc[m.run] \in {"exit1", "done", "aborted", "killed"}

Echoes ==
    /\ \A m \in steered : EchoedOf(m)
    /\ \A f \in spool : EchoedOf(f[1])

\* One file at most stands for a message, and of a message that was steered a
\* file is left only if it is being handled or could not be deleted.
Singles ==
    /\ \A f, g \in spool : f[1] = g[1] => f = g
    /\ \A f \in spool : f[1] \in steered => f[1] \in spoilt \/ handling = f
    /\ repeated \subseteq spoilt

LEMMA PostGrows ==
    ASSUME TypeOK, NEW k \in Messages, NEW m \in Messages, Post(k), Posted(m)
    PROVE  Posted(m)'
<1> USE DEF Posted, Post, TypeOK, Messages
<1>1. CASE m.kind = "output" /\ k.kind = "output" /\ k.run = m.run
  <2>1. PICK i \in DOMAIN said[m.run] : said[m.run][i] = m.n BY <1>1
  <2>2. said[m.run] \in Seq(1..MaxChunks) /\ k.n \in 1..MaxChunks OBVIOUS
  <2>3. said'[m.run] = Append(said[m.run], k.n) BY <1>1
  <2>4. i \in DOMAIN said'[m.run] /\ said'[m.run][i] = m.n
    BY <2>1, <2>2, <2>3, AppendProperties, LenProperties
  <2> QED BY <1>1, <2>4
<1>2. CASE m.kind = "output" /\ ~(k.kind = "output" /\ k.run = m.run)
  <2>1. said'[m.run] = said[m.run] BY <1>2
  <2> QED BY <1>2, <2>1
<1>3. CASE m.kind # "output"
  <2>1. noted[m.run] \subseteq noted'[m.run]
    <3>1. CASE k.kind = "output" BY <3>1
    <3>2. CASE k.kind # "output"
      <4>1. noted' = [noted EXCEPT ![k.run] = @ \union {k.kind}] BY <3>2
      <4> QED BY <4>1
    <3> QED BY <3>1, <3>2
  <2> QED BY <1>3, <2>1
<1> QED BY <1>1, <1>2, <1>3

LEMMA PostedStays ==
    ASSUME TypeOK, Numbered, NEW r \in Runs, Moves(r), NEW m \in Messages, Posted(m)
    PROVE  Posted(m)'
<1>1. UNCHANGED <<said, noted>> \/ \E k \in Messages : Post(k)
  <2>1. ASSUME NEW k \in landing, Lands(k)
        PROVE  UNCHANGED <<said, noted>> \/ \E n \in Messages : Post(n)
    BY <2>1 DEF Lands, TypeOK
  <2>2. AtStep(r, {"html", "plain"}) => Message(r) \in Messages
    BY MessageType DEF Numbered, AtStep
  <2>3. CASE Accepted(r) \/ AnswerLost(r) BY <2>2, <2>3 DEF Accepted, AnswerLost
  <2> QED BY <2>1, <2>3 DEF Moves, Run, Script, Begin, LoadCronTask, Work, NotifyFailure,
            LogFails, Killed, HandleDeliveryFailure, Delivered, WriteSuccess, WriteExit, Refused,
            DeliverTimeout, WriteEcho, chat
<1>2. CASE UNCHANGED <<said, noted>> BY <1>2 DEF Posted
<1> QED BY <1>1, <1>2, PostGrows

\* Where the run of an echoed message may go.
LEMMA EchoedPlace ==
    ASSUME TypeOK, Numbered, NEW r \in Runs, Moves(r), NEW m \in Messages, m.run = r,
           EchoedOf(m)
    PROVE  /\ pc'[r] \notin {"idle", "start", "loaded", "failed"}
           /\ m.kind = "output" /\ pc'[r] = "sending" =>
                 \/ parcel'[r].kind = "adminnote"
                 \/ parcel'[r].kind = "output" /\ m.n < parcel'[r].n
           /\ m.kind # "output" => pc'[r] \in {"exit1", "done", "aborted", "killed"}
<1> USE DEF TypeOK, EchoedOf, Goto, Deliver, AtStep
<1>1. CASE Begin(r) \/ LoadCronTask(r) \/ Work(r) \/ NotifyFailure(r)
  BY <1>1 DEF Begin, LoadCronTask, Work, NotifyFailure
<1>2. CASE HandleDeliveryFailure(r)
  <2>1. CASE adminChatId BY <1>2, <2>1 DEF HandleDeliveryFailure
  <2>2. CASE ~adminChatId BY <1>2, <2>2 DEF HandleDeliveryFailure
  <2> QED BY <2>1, <2>2
<1>3. CASE Delivered(r) \/ WriteSuccess(r) \/ WriteExit(r)
  BY <1>3 DEF Delivered, WriteSuccess, WriteExit
<1>4. CASE LogFails(r) BY <1>4 DEF LogFails
<1>5. CASE Killed(r) BY <1>5 DEF Killed, Active, Ended
<1>6. CASE Accepted(r)
  <2>1. /\ pc' = pc /\ parcel' = [parcel EXCEPT ![r].step = "echo"] BY <1>6 DEF Accepted
  <2>2. parcel'[r].kind = parcel[r].kind /\ parcel'[r].n = parcel[r].n BY <2>1
  <2> QED BY <2>1, <2>2
<1>7. CASE AnswerLost(r) \/ DeliverTimeout(r)
  BY <1>7 DEF AnswerLost, DeliverTimeout, Fails
<1>8. CASE Refused(r)
  <2>1. CASE parcel[r].step = "html"
    <3>1. pc' = pc /\ parcel' = [parcel EXCEPT ![r].step = "plain"] BY <1>8, <2>1 DEF Refused
    <3>2. parcel'[r].kind = parcel[r].kind /\ parcel'[r].n = parcel[r].n BY <3>1
    <3> QED BY <3>1, <3>2
  <2>2. CASE parcel[r].step # "html" BY <1>8, <2>2 DEF Refused, Fails
  <2> QED BY <2>1, <2>2
<1>9. CASE WriteEcho(r)
  <2>1. CASE LastChunk(r) BY <1>9, <2>1 DEF WriteEcho
  <2>2. CASE ~LastChunk(r)
    <3>1. m.n \in Nat /\ parcel[r].n \in Nat BY DEF Messages
    <3>2. /\ pc' = pc /\ pc[r] = "sending"
          /\ parcel'[r].kind = parcel[r].kind /\ parcel'[r].n = parcel[r].n + 1
      BY <1>9, <2>2 DEF WriteEcho
    <3> QED BY <3>1, <3>2
  <2> QED BY <2>1, <2>2
<1>10. ASSUME NEW k \in landing, Lands(k) PROVE UNCHANGED <<pc, parcel>> BY <1>10 DEF Lands
<1> QED BY <1>1, <1>2, <1>3, <1>4, <1>5, <1>6, <1>7, <1>8, <1>9, <1>10 DEF Moves, Run, Script

LEMMA EchoedStays ==
    ASSUME TypeOK, Numbered, NEW r \in Runs, Moves(r), NEW m \in Messages, EchoedOf(m)
    PROVE  EchoedOf(m)'
<1>1. Posted(m)' BY PostedStays DEF EchoedOf
<1>2. CASE m.run # r
  <2>1. m.run \in Runs BY DEF Messages
  <2> QED BY <1>1, <1>2, <2>1, OthersKeep DEF EchoedOf
<1>3. CASE m.run = r BY <1>1, <1>3, EchoedPlace DEF EchoedOf
<1> QED BY <1>2, <1>3

\* A message joins the spool when it was posted and before it was echoed.
LEMMA EchoJoins ==
    ASSUME TypeOK, Numbered, SaidInv, ToldInv, NEW r \in Runs, WriteEcho(r)
    PROVE  /\ Message(r) \in Messages
           /\ ~EchoedOf(Message(r))
           /\ \A m \in Messages : m = Message(r) => EchoedOf(m)'
<1> USE DEF AtStep
<1>1. /\ pc[r] = "sending" /\ parcel[r].step = "echo" /\ parcel[r].n \in Nat
      /\ parcel[r].n >= 1 /\ said' = said /\ noted' = noted
  BY DEF WriteEcho, Numbered, TypeOK, chat
<1>2. Message(r) \in Messages BY <1>1, MessageType
<1>3. ~EchoedOf(Message(r))
  BY <1>1, MessageFields DEF EchoedOf
<1>4. ASSUME NEW m \in Messages, m = Message(r) PROVE EchoedOf(m)'
  <2>1. m.run = r /\ m.kind = parcel[r].kind /\ m.n = parcel[r].n BY <1>4, MessageFields
  <2>2. Posted(m)'
    <3>1. CASE m.kind = "output"
      <4>1. Len(said[r]) = m.n /\ InOrder(r)
        BY <1>1, <2>1, <3>1 DEF SaidInv, Said, SendsOutput
      <4>2. said[r] \in Seq(1..MaxChunks) BY DEF TypeOK
      <4>3. m.n \in DOMAIN said[r] BY <1>1, <2>1, <4>1, <4>2, LenProperties
      <4>4. said[r][m.n] = m.n BY <4>1, <4>3 DEF InOrder
      <4> QED BY <1>1, <2>1, <3>1, <4>3, <4>4 DEF Posted
    <3>2. CASE m.kind # "output"
      BY <1>1, <2>1, <3>2 DEF Posted, ToldInv, Told
    <3> QED BY <3>1, <3>2
  <2>3. CASE LastChunk(r)
    <3>1. pc'[r] = IF parcel[r].kind = "output" THEN "delivered" ELSE "exit1"
      BY <2>3 DEF WriteEcho, Goto, TypeOK
    <3> QED BY <2>1, <2>2, <3>1 DEF EchoedOf
  <2>4. CASE ~LastChunk(r)
    <3>1. /\ pc' = pc /\ parcel[r].kind = "output"
          /\ parcel' = [parcel EXCEPT ![r].n = @ + 1, ![r].step = "html"]
      BY <2>4 DEF WriteEcho, LastChunk
    <3>2. parcel'[r].kind = "output" /\ parcel'[r].n = parcel[r].n + 1
      BY <3>1 DEF TypeOK
    <3> QED BY <1>1, <2>1, <2>2, <3>1, <3>2 DEF EchoedOf
  <2> QED BY <2>3, <2>4
<1> QED BY <1>2, <1>3, <1>4

LEMMA SpoolGrows ==
    ASSUME NEW r \in Runs, Moves(r)
    PROVE  /\ UNCHANGED <<handling, steered, repeated, spoilt>>
           /\ \/ spool' = spool
              \/ WriteEcho(r) /\ \E whole \in BOOLEAN :
                                    spool' = spool \union {<<Message(r), whole>>}
<1>1. CASE WriteEcho(r) BY <1>1 DEF WriteEcho, bot
<1> QED BY <1>1 DEF Moves, Run, Script, Begin, LoadCronTask, Work, NotifyFailure,
          LogFails, Killed, HandleDeliveryFailure, Delivered, WriteSuccess, WriteExit, Refused,
          Accepted, AnswerLost, DeliverTimeout, Lands, bot

\* What the bot does with the files.
LEMMA BotSingles ==
    ASSUME TypeOK, Echoes, Singles, BotMoves
    PROVE  /\ Singles' /\ spool' \subseteq spool
           /\ \A m \in steered' : m \in steered \/ \E f \in spool : m = f[1]
<1> USE DEF Singles, TypeOK, bot
<1>1. ASSUME NEW f \in spool, HandleFile(f)
      PROVE  /\ Singles' /\ spool' \subseteq spool
             /\ \A m \in steered' : m \in steered \/ \E g \in spool : m = g[1]
  <2>1. spool' = spool /\ spoilt' = spoilt /\ handling = NoFile /\ handling' = f
    BY <1>1 DEF HandleFile
  <2>2. ASSUME NEW g \in spool PROVE g # NoFile
    <3>1. PICK m \in Messages, whole \in BOOLEAN : g = <<m, whole>> BY DEF Files
    <3>2. Len(g) = 2 BY <3>1
    <3>3. Len(NoFile) = 0 BY DEF NoFile
    <3> QED BY <3>2, <3>3
  <2>3. \A g \in spool : g[1] \in steered => g[1] \in spoilt BY <2>1, <2>2
  <2>4. CASE UNCHANGED <<steered, repeated>> BY <2>1, <2>3, <2>4
  <2>5. CASE Steer(f[1])
    <3>1. steered' = steered \union {f[1]} BY <2>5 DEF Steer
    <3>2. repeated' \subseteq spoilt
      <4>1. CASE f[1] \in steered
        <5>1. repeated' = repeated \union {f[1]} BY <2>5, <4>1 DEF Steer
        <5> QED BY <2>3, <4>1, <5>1
      <4>2. CASE f[1] \notin steered BY <2>5, <4>2 DEF Steer
      <4> QED BY <4>1, <4>2
    <3>3. ASSUME NEW g \in spool, g[1] \in steered' PROVE g[1] \in spoilt \/ handling' = g
      BY <2>1, <2>3, <3>1, <3>3
    <3> QED BY <2>1, <3>1, <3>2, <3>3
  <2> QED BY <1>1, <2>4, <2>5 DEF HandleFile
<1>2. ASSUME NEW f \in spool, DiscardMalformed(f)
      PROVE  Singles' /\ spool' \subseteq spool /\ steered' = steered
  BY <1>2 DEF DiscardMalformed
<1>3. ASSUME NEW f \in spool, DeleteFile(f)
      PROVE  Singles' /\ spool' \subseteq spool /\ steered' = steered
  BY <1>3 DEF DeleteFile
<1>4. ASSUME NEW f \in spool, DeleteFails(f)
      PROVE  Singles' /\ spool' \subseteq spool /\ steered' = steered
  BY <1>4 DEF DeleteFails
<1>5. CASE BotCrashes BY <1>5 DEF BotCrashes
<1>6. CASE BotStarts BY <1>6 DEF BotStarts
<1> QED BY <1>1, <1>2, <1>3, <1>4, <1>5, <1>6 DEF BotMoves, Watcher, Take, Delete

LEMMA EchoesStep ==
    TypeOK /\ Numbered /\ SaidInv /\ ToldInv /\ Echoes /\ Singles /\ [Next]_vars
        => Echoes' /\ Singles'
<1> SUFFICES ASSUME TypeOK, Numbered, SaidInv, ToldInv, Echoes, Singles, [Next]_vars
             PROVE  Echoes' /\ Singles'
  OBVIOUS
<1>1. CASE UNCHANGED vars
  BY <1>1 DEF vars, chat, bot, Echoes, Singles, EchoedOf, Posted
<1>2. CASE BotMoves
  <2>1. UNCHANGED <<pc, parcel, said, noted>> BY <1>2, BotKeeps DEF chat
  <2>2. ASSUME NEW m, EchoedOf(m) PROVE EchoedOf(m)' BY <2>1, <2>2 DEF EchoedOf, Posted
  <2> QED BY <1>2, <2>2, BotSingles DEF Echoes
<1>3. ASSUME NEW r \in Runs, Moves(r) PROVE Echoes' /\ Singles'
  <2>1. /\ \A m \in steered : m \in Messages /\ EchoedOf(m)
        /\ \A f \in spool : f[1] \in Messages /\ EchoedOf(f[1])
    BY DEF Echoes, TypeOK, Files
  <2>2. \A m \in Messages : EchoedOf(m) => EchoedOf(m)' BY <1>3, EchoedStays
  <2>3. CASE spool' = spool
    BY <1>3, <2>1, <2>2, <2>3, SpoolGrows DEF Echoes, Singles
  <2>4. ASSUME WriteEcho(r), NEW whole \in BOOLEAN,
               spool' = spool \union {<<Message(r), whole>>}
        PROVE  Echoes' /\ Singles'
    <3>1. UNCHANGED <<handling, steered, repeated, spoilt>> BY <1>3, SpoolGrows
    <3>2. \A f \in spool : f[1] # Message(r) BY <2>1, <2>4, EchoJoins
    <3>3. Message(r) \notin steered BY <2>1, <2>4, EchoJoins
    <3>4. PICK m \in Messages : m = Message(r) BY <2>4, EchoJoins
    <3>5. EchoedOf(m)' BY <2>4, <3>4, EchoJoins
    <3>6. spool' = spool \union {<<m, whole>>} BY <2>4, <3>4
    <3>7. <<m, whole>>[1] = m OBVIOUS
    <3>8. Echoes'
      BY <2>1, <2>2, <3>1, <3>5, <3>6, <3>7 DEF Echoes
    <3>9. Singles'
      BY <3>1, <3>2, <3>3, <3>4, <3>6, <3>7 DEF Singles
    <3> QED BY <3>8, <3>9
  <2> QED BY <1>3, <2>3, <2>4, SpoolGrows
<1> QED BY <1>1, <1>2, <1>3, NextMoves

\* Only what was posted is told to a turn, and nothing twice unless its file
\* could not be deleted.
THEOREM EchoedOnce == Spec => []EchoesComeOnce
<1>1. Echoes /\ Singles => EchoesComeOnce BY DEF Echoes, Singles, EchoedOf, EchoesComeOnce
<1>2. Init => Numbered /\ ToldInv /\ Echoes /\ Singles
  BY DEF Init, Numbered, ToldInv, Told, AtStep, Echoes, Singles
<1> QED BY <1>1, <1>2, TypeInit, TypeStep, SaidStarts, SaidStep, ToldStep, EchoesStep, PTL
        DEF Spec
=============================================================================
