------------------------ MODULE ChatPlatforms_proofs ------------------------
(***************************************************************************)
(* Proofs about the routing of updates on both platforms, for every        *)
(* configuration that can be loaded, every set of chats and topics and     *)
(* every size of the caches: where messages and reactions go, what the     *)
(* bindings of the files mean, and how long Discord attachments live.      *)
(***************************************************************************)
EXTENDS ChatPlatforms, SequenceTheorems, WellFoundedInduction, TLAPS

\* Both copies of the thread cache tell the truth about the messages they know.
Truthful ==
    /\ \A m \in DOMAIN threads : Sent(m) /\ threads[m] = TopicOf(m)
    /\ \A m \in DOMAIN disk.threads : Sent(m) /\ disk.threads[m] = TopicOf(m)

AgentsFollowKeys ==
    \A h \in handed : h.agent = ResolveBinding(h.key[1], config.bindings, h.key[2]).agent

RoutingInv == TypeOK /\ Truthful /\ ReactionsFindTheirTopic /\ AgentsFollowKeys

-----------------------------------------------------------------------------
\* The parts of a step

LEMMA PostKeeps ==
    ASSUME TypeOK, NEW c \in Chats, NEW topic \in Topics \cup {None},
           Post(c, topic) \/ UNCHANGED posted
    PROVE  /\ posted' \in [Chats -> Seq(Topics \cup {None})]
           /\ \A m : Sent(m) => Sent(m)' /\ TopicOf(m)' = TopicOf(m)
           /\ Post(c, topic) =>
                \A n : n = Len(posted[c]) + 1 => Sent(<<c, n>>)' /\ TopicOf(<<c, n>>)' = topic
<1> DEFINE T == Topics \cup {None}
<1>1. CASE UNCHANGED posted
  <2>1. ~Post(c, topic)
    <3>1. posted[c] \in Seq(T) BY DEF TypeOK
    <3>2. Len(Append(posted[c], topic)) # Len(posted[c]) BY <3>1
    <3> QED BY <1>1, <3>1, <3>2 DEF Post, TypeOK
  <2> QED BY <1>1, <2>1 DEF TypeOK, Sent, TopicOf
<1>2. CASE Post(c, topic)
  <2>1. posted[c] \in Seq(T) BY DEF TypeOK
  <2>2. posted' = [posted EXCEPT ![c] = Append(posted[c], topic)] BY <1>2 DEF Post
  <2>3. posted' \in [Chats -> Seq(T)] BY <2>1, <2>2 DEF TypeOK
  <2>4. posted'[c] = Append(posted[c], topic) BY <2>2 DEF TypeOK
  <2>5. /\ Len(posted'[c]) = Len(posted[c]) + 1
        /\ posted'[c][Len(posted[c]) + 1] = topic
        /\ \A i \in 1..Len(posted[c]) : posted'[c][i] = posted[c][i]
    BY <2>1, <2>4
  <2>6. \A d \in Chats : d # c => posted'[d] = posted[d] BY <2>2 DEF TypeOK
  <2>7. DOMAIN posted[c] = 1..Len(posted[c]) /\ DOMAIN posted'[c] = 1..Len(posted'[c])
        /\ Len(posted[c]) \in Nat
    BY <2>1, <2>3
  <2>8. ASSUME NEW m, Sent(m) PROVE Sent(m)' /\ TopicOf(m)' = TopicOf(m)
    <3>1. CASE m[1] = c BY <2>8, <2>5, <2>7, <3>1 DEF Sent, TopicOf
    <3>2. CASE m[1] # c BY <2>8, <2>6, <3>2 DEF Sent, TopicOf
    <3> QED BY <3>1, <3>2
  <2>9. ASSUME NEW n, n = Len(posted[c]) + 1
        PROVE  Sent(<<c, n>>)' /\ TopicOf(<<c, n>>)' = topic
    <3>1. n \in Nat /\ n \in DOMAIN posted'[c] /\ posted'[c][n] = topic
      BY <2>5, <2>7, <2>9
    <3> QED BY <3>1 DEF Sent, TopicOf
  <2> QED BY <2>3, <2>8, <2>9
<1> QED BY <1>1, <1>2

LEMMA SetThreadKeeps ==
    ASSUME NEW m, NEW topic, SetThread(m, topic), newest # None => newest \in DOMAIN threads
    PROVE  /\ \A k \in DOMAIN threads' : \/ k \in DOMAIN threads /\ threads'[k] = threads[k]
                                         \/ k = m /\ threads'[k] = topic
           /\ newest' # None => newest' \in DOMAIN threads'
<1>1. CASE topic = None BY <1>1 DEF SetThread
<1>2. CASE topic # None
  <2> DEFINE kept == IF Cardinality(DOMAIN threads) >= MaxSize THEN <<>> ELSE threads
  <2>1. /\ threads' = [k \in DOMAIN kept \cup {m} |-> IF k = m THEN topic ELSE kept[k]]
        /\ newest' = m
    BY <1>2 DEF SetThread
  <2>2. DOMAIN threads' = DOMAIN kept \cup {m} BY <2>1
  <2>3. \A k \in DOMAIN kept : k \in DOMAIN threads /\ kept[k] = threads[k] OBVIOUS
  <2> QED BY <2>1, <2>2, <2>3
<1> QED BY <1>1, <1>2

\* The update a handler looks at names a message that was sent.
LEMMA UpdateIsSent ==
    ASSUME TypeOK, NEW whats, Handles(whats)
    PROVE  /\ Sent(Update.msg)
           /\ Update.msg[1] \in Chats /\ TopicOf(Update.msg) \in Topics \cup {None}
<1>1. done + 1 \in DOMAIN inbox
  <2>1. done \in Nat /\ batch \in Nat /\ done < batch /\ batch <= Len(inbox) /\ Len(inbox) \in Nat
    BY DEF TypeOK, Handles
  <2>2. DOMAIN inbox = 1..Len(inbox) BY DEF TypeOK
  <2> QED BY <2>1, <2>2
<1>2. Sent(Update.msg) BY <1>1 DEF TypeOK, Update
<1>3. Update.msg[1] \in Chats BY <1>2 DEF Sent
<1>4. posted[Update.msg[1]] \in Seq(Topics \cup {None}) BY <1>3 DEF TypeOK
<1>5. TopicOf(Update.msg) \in Topics \cup {None} BY <1>2, <1>4, ElementOfSeq DEF Sent, TopicOf
<1> QED BY <1>2, <1>3, <1>5

LEMMA SentHasTopic ==
    ASSUME TypeOK, NEW m, Sent(m)
    PROVE  m[1] \in Chats /\ TopicOf(m) \in Topics \cup {None}
<1>1. m[1] \in Chats BY DEF Sent
<1>2. posted[m[1]] \in Seq(Topics \cup {None}) BY <1>1 DEF TypeOK
<1> QED BY <1>1, <1>2, ElementOfSeq DEF Sent, TopicOf

\* What is handed over keeps the properties of all that is handed.
LEMMA HandKeeps ==
    ASSUME RoutingInv, NEW what, NEW m, NEW topic, Sent(m), Hand(what, m, topic),
           config' = config,
           topic = TopicOf(m) \/ (what = "reaction" /\ topic = None)
    PROVE  /\ \A h \in handed' : h.key \in Conversations
           /\ \A h \in handed' : \/ h.key = h.place
                                 \/ h.what = "reaction" /\ h.key = <<h.place[1], None>>
           /\ AgentsFollowKeys'
<1> DEFINE new == [what |-> what, key |-> <<m[1], topic>>, place |-> <<m[1], TopicOf(m)>>,
                   agent |-> ResolveBinding(m[1], config.bindings, topic).agent]
<1>1. handed' = handed \cup {new} BY DEF Hand, SessionKey
<1>2. TypeOK BY DEF RoutingInv
<1>3. m[1] \in Chats /\ TopicOf(m) \in Topics \cup {None} BY <1>2, SentHasTopic
<1>4. new.key \in Conversations BY <1>3 DEF Conversations
<1>5. new.key = new.place \/ (new.what = "reaction" /\ new.key = <<new.place[1], None>>)
  OBVIOUS
<1>6. new.agent = ResolveBinding(new.key[1], config.bindings, new.key[2]).agent OBVIOUS
<1>7. \A h \in handed' : h.key \in Conversations BY <1>1, <1>2, <1>4 DEF TypeOK
<1>8. \A h \in handed' : h.key = h.place \/ (h.what = "reaction" /\ h.key = <<h.place[1], None>>)
  BY <1>1, <1>5 DEF RoutingInv, ReactionsFindTheirTopic
<1>9. \A h \in handed' : h.agent = ResolveBinding(h.key[1], config.bindings, h.key[2]).agent
  <2>1. \A h \in handed : h.agent = ResolveBinding(h.key[1], config.bindings, h.key[2]).agent
    BY DEF RoutingInv, AgentsFollowKeys
  <2> QED BY <1>1, <1>6, <2>1
<1>10. AgentsFollowKeys' BY <1>9 DEF AgentsFollowKeys
<1> QED BY <1>7, <1>8, <1>10

-----------------------------------------------------------------------------
\* Messages are only added.
Grown == \A m : Sent(m) => Sent(m)' /\ TopicOf(m)' = TopicOf(m)

LEMMA GrownKeeps ==
    ASSUME RoutingInv, Grown
    PROVE  /\ UNCHANGED inbox => \A i \in DOMAIN inbox' : Sent(inbox[i].msg)'
           /\ UNCHANGED voice => voice' = None \/ Sent(voice)'
           /\ sending' \subseteq sending => \A m \in sending' : Sent(m)'
           /\ UNCHANGED threads => \A m \in DOMAIN threads' : Sent(m)' /\ threads'[m] = TopicOf(m)'
           /\ UNCHANGED disk =>
                \A m \in DOMAIN disk'.threads : Sent(m)' /\ disk'.threads[m] = TopicOf(m)'
<1>1. ASSUME UNCHANGED inbox PROVE \A i \in DOMAIN inbox' : Sent(inbox[i].msg)'
  <2> SUFFICES ASSUME NEW i \in DOMAIN inbox PROVE Sent(inbox[i].msg)'
    BY <1>1
  <2>1. PICK m : m = inbox[i].msg OBVIOUS
  <2>2. Sent(m)' BY <2>1 DEF RoutingInv, TypeOK, Grown
  <2> QED BY <1>1, <2>1, <2>2 DEF Sent
<1>2. ASSUME UNCHANGED voice PROVE voice' = None \/ Sent(voice)'
  <2>1. PICK m : m = voice OBVIOUS
  <2>2. m = None \/ Sent(m)' BY <2>1 DEF RoutingInv, TypeOK, Grown
  <2> QED BY <1>2, <2>1, <2>2 DEF Sent
<1>3. ASSUME UNCHANGED threads
      PROVE  \A m \in DOMAIN threads' : Sent(m)' /\ threads'[m] = TopicOf(m)'
  BY <1>3 DEF RoutingInv, Truthful, Grown
<1>4. ASSUME UNCHANGED disk
      PROVE  \A m \in DOMAIN disk'.threads : Sent(m)' /\ disk'.threads[m] = TopicOf(m)'
  BY <1>4 DEF RoutingInv, Truthful, Grown
<1>5. ASSUME sending' \subseteq sending PROVE \A m \in sending' : Sent(m)'
  BY <1>5 DEF RoutingInv, TypeOK, Grown
<1> QED BY <1>1, <1>2, <1>3, <1>4, <1>5

LEMMA PostGrows ==
    ASSUME RoutingInv, NEW c \in Chats, NEW topic \in Topics \cup {None},
           Post(c, topic) \/ UNCHANGED posted
    PROVE  Grown /\ posted' \in [Chats -> Seq(Topics \cup {None})]
BY PostKeeps DEF Grown, RoutingInv

LEMMA SameGrows == ASSUME UNCHANGED posted PROVE Grown
BY DEF Grown, Sent, TopicOf

\* A fetch or a stop takes updates from the front of the inbox only.
LEMMA DropKeeps ==
    ASSUME RoutingInv, UNCHANGED posted, NEW n \in Nat, inbox' = DropFirst(inbox, n)
    PROVE  /\ inbox' \in Seq(Updates) /\ Len(inbox') \in Nat
           /\ Len(inbox') = IF n + 1 <= Len(inbox) THEN Len(inbox) - n ELSE 0
           /\ \A i \in DOMAIN inbox' : Sent(inbox[i].msg)'
<1>1. inbox \in Seq(Updates) BY DEF RoutingInv, TypeOK
<1>2. inbox' = SubSeq(inbox, n + 1, Len(inbox)) BY DEF DropFirst
<1>3. Len(inbox) \in Nat /\ DOMAIN inbox = 1..Len(inbox) BY <1>1
<1>4. \A i \in (n + 1)..Len(inbox) : inbox[i] \in Updates
  BY <1>1, <1>3, ElementOfSeq
<1>5. /\ inbox' \in Seq(Updates)
      /\ Len(inbox') = IF n + 1 <= Len(inbox) THEN Len(inbox) - n ELSE 0
      /\ \A i \in 1..Len(inbox') : inbox'[i] = inbox[n + i]
  BY <1>1, <1>2, <1>3, <1>4, SubSeqProperties, Z3
<1>6. ASSUME NEW i \in DOMAIN inbox' PROVE Sent(inbox[i].msg)'
  <2>1. i \in 1..Len(inbox') /\ inbox'[i] = inbox[n + i] BY <1>5, <1>6
  <2>2. n + i \in DOMAIN inbox
    <3> DEFINE L == Len(inbox)
               K == Len(inbox')
    <3>1. L \in Nat /\ K = (IF n + 1 <= L THEN L - n ELSE 0) /\ i \in 1..K BY <1>3, <1>5, <2>1
    <3> HIDE DEF L, K
    <3>2. n + i \in 1..L BY <3>1, SMT
    <3> QED BY <1>3, <3>2 DEF L
  <2>3. PICK m : m = inbox[n + i].msg OBVIOUS
  <2>4. Sent(m) BY <2>2, <2>3 DEF RoutingInv, TypeOK
  <2>5. Sent(m)' BY <2>4, SameGrows DEF Grown
  <2> QED BY <2>1, <2>3, <2>5 DEF Sent
<1>7. Len(inbox') \in Nat BY <1>5
<1> QED BY <1>5, <1>6, <1>7

LEMMA ArrivesKeeps ==
    ASSUME RoutingInv, Grown, NEW what \in Kinds \cup {"reaction"}, NEW m, Sent(m)',
           Arrives([what |-> what, msg |-> m])
    PROVE  /\ inbox' \in Seq(Updates)
           /\ batch \in 0..Len(inbox')
           /\ \A i \in DOMAIN inbox' : Sent(inbox[i].msg)'
<1> DEFINE u == [what |-> what, msg |-> m]
<1>1. u \in Updates BY DEF Updates, Sent
<1>2. inbox \in Seq(Updates) /\ batch \in 0..Len(inbox) BY DEF RoutingInv, TypeOK
<1>3. inbox' = Append(inbox, u) BY DEF Arrives
<1>4. /\ inbox' \in Seq(Updates) /\ Len(inbox') = Len(inbox) + 1 /\ Len(inbox) \in Nat
      /\ inbox'[Len(inbox) + 1] = u
      /\ \A i \in 1..Len(inbox) : inbox'[i] = inbox[i]
      /\ DOMAIN inbox' = 1..(Len(inbox) + 1) /\ DOMAIN inbox = 1..Len(inbox)
  <2> HIDE DEF u
  <2> QED BY <1>1, <1>2, <1>3
<1>5. batch \in 0..Len(inbox') BY <1>2, <1>4
<1>6. ASSUME NEW i \in DOMAIN inbox' PROVE Sent(inbox[i].msg)'
  <2>1. PICK k : k = inbox'[i].msg OBVIOUS
  <2>2. CASE i = Len(inbox) + 1
    <3>1. k = m BY <1>4, <2>1, <2>2
    <3> QED BY <2>1, <3>1 DEF Sent
  <2>3. CASE i # Len(inbox) + 1
    <3>1. i \in DOMAIN inbox /\ k = inbox[i].msg BY <1>4, <1>6, <2>1, <2>3
    <3>2. Sent(k) BY <3>1 DEF RoutingInv, TypeOK
    <3>3. Sent(k)' BY <3>2 DEF Grown
    <3> QED BY <2>1, <3>3 DEF Sent
  <2> QED BY <2>2, <2>3
<1> QED BY <1>4, <1>5, <1>6

LEMMA SetThreadTruth ==
    ASSUME RoutingInv, Grown, NEW m, NEW topic, SetThread(m, topic), Sent(m)', topic = TopicOf(m)'
    PROVE  /\ \A k \in DOMAIN threads' : Sent(k)' /\ threads'[k] = TopicOf(k)'
           /\ newest' # None => newest' \in DOMAIN threads'
<1>1. newest # None => newest \in DOMAIN threads
  BY DEF RoutingInv, ReactionsFindTheirTopic
<1>2. /\ \A k \in DOMAIN threads' : \/ k \in DOMAIN threads /\ threads'[k] = threads[k]
                                    \/ k = m /\ threads'[k] = topic
      /\ newest' # None => newest' \in DOMAIN threads'
  BY <1>1, SetThreadKeeps
<1>3. ASSUME NEW k \in DOMAIN threads' PROVE Sent(k)' /\ threads'[k] = TopicOf(k)'
  <2>1. CASE k = m /\ threads'[k] = topic BY <2>1
  <2>2. CASE k \in DOMAIN threads /\ threads'[k] = threads[k]
    <3>1. Sent(k) /\ threads[k] = TopicOf(k) BY <2>2 DEF RoutingInv, Truthful
    <3>2. Sent(k)' /\ TopicOf(k)' = TopicOf(k) BY <3>1 DEF Grown
    <3> QED BY <2>2, <3>1, <3>2
  <2> QED BY <1>2, <1>3, <2>1, <2>2
<1> QED BY <1>2, <1>3

-----------------------------------------------------------------------------
\* The steps

\* The variables only a handler or an answer changes stay.
Aside == UNCHANGED <<config, sending, up, voice, caches, disk, handed>>

LEMMA AsideKeeps ==
    ASSUME RoutingInv, Grown, Aside
    PROVE  /\ up' \in {"down", "up", "stopping", "saved"}
           /\ voice' = None \/ Sent(voice)'
           /\ \A m \in sending' : Sent(m)'
           /\ \A h \in handed' : h.key \in Conversations
           /\ Truthful' /\ ReactionsFindTheirTopic' /\ AgentsFollowKeys'
<1> USE DEF Aside, caches
<1>1. up' \in {"down", "up", "stopping", "saved"} /\ \A h \in handed' : h.key \in Conversations
  BY DEF RoutingInv, TypeOK
<1>2. (voice' = None \/ Sent(voice)') /\ \A m \in sending' : Sent(m)' BY GrownKeeps
<1>3. Truthful' BY GrownKeeps DEF Truthful
<1>4. ReactionsFindTheirTopic' BY DEF RoutingInv, ReactionsFindTheirTopic
<1>5. AgentsFollowKeys' BY DEF RoutingInv, AgentsFollowKeys
<1> QED BY <1>1, <1>2, <1>3, <1>4, <1>5

LEMMA UserSteps ==
    ASSUME RoutingInv,
           \/ \E place \in Busy, kind \in Kinds : UserPosts(place[1], place[2], kind)
           \/ \E m \in Posted : UserReacts(m)
    PROVE  RoutingInv'
<1> DEFINE T == Topics \cup {None}
<1>1. CASE \E place \in Busy, kind \in Kinds : UserPosts(place[1], place[2], kind)
  <2>1. PICK place \in Busy, kind \in Kinds : UserPosts(place[1], place[2], kind) BY <1>1
  <2>2. PICK c, topic : c = place[1] /\ topic = place[2] OBVIOUS
  <2>3. c \in Chats /\ topic \in T BY <2>1, <2>2, RoutingAssumption
  <2>4. UserPosts(c, topic, kind) BY <2>1, <2>2
  <2>5. Grown /\ posted' \in [Chats -> Seq(T)]
    BY <2>3, <2>4, PostGrows DEF UserPosts
  <2>6. PICK n : n = Len(posted[c]) + 1 OBVIOUS
  <2>7. Sent(<<c, n>>)' BY <2>3, <2>4, <2>6, PostKeeps DEF UserPosts, RoutingInv
  <2>8. Arrives([what |-> kind, msg |-> <<c, n>>]) BY <2>4, <2>6 DEF UserPosts
  <2>9. /\ inbox' \in Seq(Updates) /\ batch \in 0..Len(inbox')
        /\ \A i \in DOMAIN inbox' : Sent(inbox[i].msg)'
    BY <2>1, <2>5, <2>7, <2>8, ArrivesKeeps
  <2>10. Aside /\ UNCHANGED <<batch, done>> BY <2>4 DEF UserPosts, Aside
  <2>11. TypeOK' BY <2>5, <2>9, <2>10, AsideKeeps DEF TypeOK, RoutingInv
  <2> QED BY <2>5, <2>10, <2>11, AsideKeeps DEF RoutingInv
<1>2. CASE \E m \in Posted : UserReacts(m)
  <2>1. PICK m \in Posted : UserReacts(m) BY <1>2
  <2>2. Grown /\ posted' = posted BY <2>1, SameGrows DEF UserReacts
  <2>3. Sent(m)
    <3>1. m \in Messages /\ m[2] <= Len(posted[m[1]]) BY DEF Posted
    <3>2. m[1] \in Chats /\ m[2] \in 1..MaxPosts /\ m \in Chats \X Nat
      BY <3>1, RoutingAssumption DEF Messages
    <3>3. posted[m[1]] \in Seq(T) BY <3>2 DEF RoutingInv, TypeOK
    <3>4. m[2] \in DOMAIN posted[m[1]] BY <3>1, <3>2, <3>3
    <3> QED BY <3>2, <3>4 DEF Sent
  <2>4. Sent(m)' BY <2>2, <2>3 DEF Grown
  <2>5. Arrives([what |-> "reaction", msg |-> m]) BY <2>1 DEF UserReacts
  <2>6. /\ inbox' \in Seq(Updates) /\ batch \in 0..Len(inbox')
        /\ \A i \in DOMAIN inbox' : Sent(inbox[i].msg)'
    BY <2>2, <2>4, <2>5, ArrivesKeeps
  <2>7. Aside /\ UNCHANGED <<batch, done>> BY <2>1 DEF UserReacts, Aside
  <2>8. TypeOK' BY <2>2, <2>6, <2>7, AsideKeeps DEF TypeOK, RoutingInv
  <2> QED BY <2>2, <2>7, <2>8, AsideKeeps DEF RoutingInv
<1> QED BY <1>1, <1>2

LEMMA FetchStep ==
    ASSUME RoutingInv, Fetch
    PROVE  RoutingInv'
<1>1. Grown /\ UNCHANGED posted BY SameGrows DEF Fetch
<1>2. PICK n : n = done OBVIOUS
<1>3. n \in Nat /\ inbox' = DropFirst(inbox, n) BY <1>2 DEF Fetch, RoutingInv, TypeOK
<1>4. /\ inbox' \in Seq(Updates) /\ Len(inbox') \in Nat
      /\ \A i \in DOMAIN inbox' : Sent(inbox[i].msg)'
  BY <1>1, <1>3, DropKeeps
<1>5. Aside /\ batch' = Len(inbox') /\ done' = 0 BY DEF Fetch, Aside
<1>6. batch' \in 0..Len(inbox') /\ done' \in 0..batch' BY <1>4, <1>5
<1>7. TypeOK' BY <1>1, <1>4, <1>5, <1>6, AsideKeeps DEF TypeOK, RoutingInv
<1> QED BY <1>1, <1>5, <1>7, AsideKeeps DEF RoutingInv

\* What a handler leaves alone, and how far it moves the count.
HandlerFrame ==
    /\ UNCHANGED <<config, inbox, batch, sending, up, disk>>
    /\ done < batch /\ done' \in {done, done + 1}

LEMMA FrameKeeps ==
    ASSUME RoutingInv, Grown, HandlerFrame
    PROVE  /\ inbox' \in Seq(Updates)
           /\ batch' \in 0..Len(inbox') /\ done' \in 0..batch'
           /\ up' \in {"down", "up", "stopping", "saved"}
           /\ \A m \in sending' : Sent(m)'
           /\ \A i \in DOMAIN inbox' : Sent(inbox[i].msg)'
           /\ \A m \in DOMAIN disk'.threads : Sent(m)' /\ disk'.threads[m] = TopicOf(m)'
<1> USE DEF HandlerFrame
<1>1. /\ inbox' \in Seq(Updates) /\ batch' \in 0..Len(inbox')
      /\ up' \in {"down", "up", "stopping", "saved"} /\ done \in 0..batch
  BY DEF RoutingInv, TypeOK
<1>2. done' \in 0..batch'
  <2>1. Len(inbox) \in Nat /\ batch \in 0..Len(inbox) BY DEF RoutingInv, TypeOK
  <2> QED BY <1>1, <2>1
<1>3. /\ \A i \in DOMAIN inbox' : Sent(inbox[i].msg)'
      /\ \A m \in sending' : Sent(m)'
      /\ \A m \in DOMAIN disk'.threads : Sent(m)' /\ disk'.threads[m] = TopicOf(m)'
  BY GrownKeeps
<1> QED BY <1>1, <1>2, <1>3

\* What a handler adds to the thread cache is true.
LEMMA SeeKeeps ==
    ASSUME RoutingInv, Grown, NEW whats, Handles(whats), See(Update)
    PROVE  /\ \A k \in DOMAIN threads' : Sent(k)' /\ threads'[k] = TopicOf(k)'
           /\ newest' # None => newest' \in DOMAIN threads'
<1>1. PICK m : m = Update.msg OBVIOUS
<1>2. PICK topic : topic = TopicOf(m) OBVIOUS
<1>3. Sent(m) BY <1>1, UpdateIsSent DEF RoutingInv
<1>4. Sent(m)' /\ topic = TopicOf(m)' BY <1>2, <1>3 DEF Grown
<1>5. SetThread(m, topic) BY <1>1, <1>2 DEF See
<1> QED BY <1>4, <1>5, SetThreadTruth

LEMMA RejectStep ==
    ASSUME RoutingInv, RejectUnauthorized
    PROVE  RoutingInv'
<1>1. Grown /\ UNCHANGED posted BY SameGrows DEF RejectUnauthorized
<1>2. Aside BY DEF RejectUnauthorized, Aside
<1>3. HandlerFrame BY DEF RejectUnauthorized, HandlerFrame, Handles
<1>4. TypeOK' BY <1>1, <1>2, <1>3, AsideKeeps, FrameKeeps DEF TypeOK, RoutingInv
<1> QED BY <1>1, <1>2, <1>4, AsideKeeps DEF RoutingInv

LEMMA IgnoreStep ==
    ASSUME RoutingInv, IgnoreMessage
    PROVE  RoutingInv'
<1>1. Grown /\ UNCHANGED posted BY SameGrows DEF IgnoreMessage
<1>2. HandlerFrame BY DEF IgnoreMessage, HandlerFrame, Handles
<1>3. /\ \A k \in DOMAIN threads' : Sent(k)' /\ threads'[k] = TopicOf(k)'
      /\ newest' # None => newest' \in DOMAIN threads'
  BY <1>1, SeeKeeps DEF IgnoreMessage
<1>4. voice' = None /\ handed' = handed /\ config' = config
  BY DEF IgnoreMessage, Handles
<1>5. TypeOK' BY <1>1, <1>2, <1>4, FrameKeeps DEF TypeOK, RoutingInv
<1>6. Truthful' BY <1>1, <1>2, <1>3, FrameKeeps DEF Truthful
<1>7. ReactionsFindTheirTopic' BY <1>3, <1>4 DEF ReactionsFindTheirTopic, RoutingInv
<1>8. AgentsFollowKeys' BY <1>4 DEF AgentsFollowKeys, RoutingInv
<1> QED BY <1>5, <1>6, <1>7, <1>8 DEF RoutingInv

LEMMA HandleStep ==
    ASSUME RoutingInv, HandleMessage
    PROVE  RoutingInv'
<1>1. PICK m : m = Update.msg OBVIOUS
<1>2. PICK topic : topic = TopicOf(m) OBVIOUS
<1>3. Handles(Kinds) /\ See(Update) /\ UNCHANGED <<config, inbox, batch, sending, up, disk>>
  BY DEF HandleMessage
<1>4. Sent(m) /\ m[1] \in Chats /\ topic \in Topics \cup {None}
  BY <1>1, <1>2, <1>3, UpdateIsSent DEF RoutingInv
<1>5. /\ \/ Hand("prompt", m, topic) \/ Hand("command", m, topic) \/ UNCHANGED handed
      /\ Post(m[1], topic) \/ UNCHANGED posted
      /\ done' = done + 1
      /\ UNCHANGED voice \/ voice' = m
  BY <1>1, <1>2, Zenon DEF HandleMessage, Notice
<1>6. Grown /\ posted' \in [Chats -> Seq(Topics \cup {None})] BY <1>4, <1>5, PostGrows
<1>7. HandlerFrame BY <1>3, <1>5 DEF HandlerFrame, Handles
<1>8. /\ \A k \in DOMAIN threads' : Sent(k)' /\ threads'[k] = TopicOf(k)'
      /\ newest' # None => newest' \in DOMAIN threads'
  BY <1>3, <1>6, SeeKeeps
<1>9. /\ \A h \in handed' : h.key \in Conversations
      /\ \A h \in handed' : \/ h.key = h.place
                            \/ h.what = "reaction" /\ h.key = <<h.place[1], None>>
      /\ AgentsFollowKeys'
  <2>1. CASE Hand("prompt", m, topic) BY <1>2, <1>3, <1>4, <2>1, HandKeeps
  <2>2. CASE Hand("command", m, topic) BY <1>2, <1>3, <1>4, <2>2, HandKeeps
  <2>3. CASE UNCHANGED handed
    BY <1>3, <2>3 DEF RoutingInv, TypeOK, ReactionsFindTheirTopic, AgentsFollowKeys
  <2> QED BY <1>5, <2>1, <2>2, <2>3
<1>10. voice' = None \/ Sent(voice)'
  <2>1. CASE UNCHANGED voice BY <1>6, <2>1, GrownKeeps
  <2>2. CASE voice' = m
    <3>1. Sent(m)' BY <1>4, <1>6 DEF Grown
    <3> QED BY <2>2, <3>1 DEF Sent
  <2> QED BY <1>5, <2>1, <2>2
<1>11. TypeOK' BY <1>6, <1>7, <1>9, <1>10, FrameKeeps DEF TypeOK
<1>12. Truthful' BY <1>6, <1>7, <1>8, FrameKeeps DEF Truthful
<1>13. ReactionsFindTheirTopic' BY <1>8, <1>9 DEF ReactionsFindTheirTopic
<1> QED BY <1>9, <1>11, <1>12, <1>13 DEF RoutingInv

LEMMA VoiceStep ==
    ASSUME RoutingInv, Transcribed \/ TranscriptionFails
    PROVE  RoutingInv'
<1>1. PICK m : m = voice OBVIOUS
<1>2. PICK topic : topic = TopicOf(m) OBVIOUS
<1>3. VoiceEnds BY DEF Transcribed, TranscriptionFails
<1>4. /\ Post(m[1], topic) \/ UNCHANGED posted
      /\ UNCHANGED <<config, inbox, batch, done, sending, up, threads, newest, disk>>
      /\ voice' = None
  BY <1>1, <1>2, <1>3 DEF VoiceEnds, Notice
<1>5. Sent(m) /\ m[1] \in Chats /\ topic \in Topics \cup {None}
  BY <1>1, <1>2, <1>3, SentHasTopic DEF RoutingInv, TypeOK, VoiceEnds
<1>6. Grown /\ posted' \in [Chats -> Seq(Topics \cup {None})] BY <1>4, <1>5, PostGrows
<1>7. done' \in 0..batch' BY <1>4 DEF RoutingInv, TypeOK
<1>8. Hand("prompt", m, topic) \/ UNCHANGED handed
  BY <1>1, <1>2 DEF Transcribed, TranscriptionFails
<1>9. /\ \A h \in handed' : h.key \in Conversations
      /\ \A h \in handed' : \/ h.key = h.place
                            \/ h.what = "reaction" /\ h.key = <<h.place[1], None>>
      /\ AgentsFollowKeys'
  <2>1. CASE Hand("prompt", m, topic) BY <1>2, <1>4, <1>5, <2>1, HandKeeps
  <2>2. CASE UNCHANGED handed
    BY <1>4, <2>2 DEF RoutingInv, TypeOK, ReactionsFindTheirTopic, AgentsFollowKeys
  <2> QED BY <1>8, <2>1, <2>2
<1>10. /\ \A i \in DOMAIN inbox' : Sent(inbox[i].msg)'
       /\ \A k \in sending' : Sent(k)'
       /\ \A k \in DOMAIN threads' : Sent(k)' /\ threads'[k] = TopicOf(k)'
       /\ \A k \in DOMAIN disk'.threads : Sent(k)' /\ disk'.threads[k] = TopicOf(k)'
  BY <1>4, <1>6, GrownKeeps
<1>11. TypeOK' BY <1>4, <1>6, <1>7, <1>9, <1>10 DEF TypeOK, RoutingInv
<1>12. Truthful' BY <1>10 DEF Truthful
<1>13. ReactionsFindTheirTopic'
  BY <1>4, <1>9 DEF ReactionsFindTheirTopic, RoutingInv
<1> QED BY <1>9, <1>11, <1>12, <1>13 DEF RoutingInv

LEMMA ReactionStep ==
    ASSUME RoutingInv, HandleReaction
    PROVE  RoutingInv'
<1>1. PICK m : m = Update.msg OBVIOUS
<1>2. PICK topic : topic = GetThread(m) OBVIOUS
<1>3. /\ Handles({"reaction"}) /\ done' = done + 1
      /\ UNCHANGED <<config, posted, inbox, batch, sending, up, voice, caches, disk>>
      /\ Hand("reaction", m, topic) \/ UNCHANGED handed
  BY <1>1, <1>2 DEF HandleReaction
<1>4. Sent(m) BY <1>1, <1>3, UpdateIsSent DEF RoutingInv
<1>5. topic = TopicOf(m) \/ topic = None
  BY <1>2 DEF GetThread, RoutingInv, Truthful
<1>6. Grown BY <1>3, SameGrows
<1>7. /\ \A h \in handed' : h.key \in Conversations
      /\ \A h \in handed' : \/ h.key = h.place
                            \/ h.what = "reaction" /\ h.key = <<h.place[1], None>>
      /\ AgentsFollowKeys'
  <2>1. CASE Hand("reaction", m, topic) BY <1>3, <1>4, <1>5, <2>1, HandKeeps
  <2>2. CASE UNCHANGED handed
    BY <1>3, <2>2 DEF RoutingInv, TypeOK, ReactionsFindTheirTopic, AgentsFollowKeys
  <2> QED BY <1>3, <2>1, <2>2
<1>8. HandlerFrame BY <1>3 DEF HandlerFrame, Handles
<1>9. /\ voice' = None \/ Sent(voice)'
      /\ \A k \in DOMAIN threads' : Sent(k)' /\ threads'[k] = TopicOf(k)'
  BY <1>3, <1>6, GrownKeeps DEF caches
<1>10. TypeOK' BY <1>3, <1>6, <1>7, <1>8, <1>9, FrameKeeps DEF TypeOK, RoutingInv
<1>11. Truthful' BY <1>6, <1>8, <1>9, FrameKeeps DEF Truthful
<1>12. ReactionsFindTheirTopic'
  BY <1>3, <1>7 DEF ReactionsFindTheirTopic, RoutingInv, caches
<1> QED BY <1>7, <1>10, <1>11, <1>12 DEF RoutingInv

LEMMA AnswerStep ==
    ASSUME RoutingInv, BotPosts
    PROVE  RoutingInv'
<1>1. PICK h \in handed :
          /\ Post(h.key[1], h.key[2])
          /\ sending' = sending \cup {<<h.key[1], Len(posted[h.key[1]]) + 1>>}
          /\ UNCHANGED <<config, inbox, batch, done, up, voice, caches, disk, handed>>
  BY DEF BotPosts
<1>2. PICK c, topic, n : c = h.key[1] /\ topic = h.key[2] /\ n = Len(posted[c]) + 1 OBVIOUS
<1>3. c \in Chats /\ topic \in Topics \cup {None}
  BY <1>2 DEF RoutingInv, TypeOK, Conversations
<1>4. Post(c, topic) /\ sending' = sending \cup {<<c, n>>} BY <1>1, <1>2
<1>5. Grown /\ posted' \in [Chats -> Seq(Topics \cup {None})] BY <1>3, <1>4, PostGrows
<1>6. Sent(<<c, n>>)' BY <1>2, <1>3, <1>4, PostKeeps DEF RoutingInv
<1>7. \A m \in sending' : Sent(m)' BY <1>4, <1>5, <1>6 DEF RoutingInv, TypeOK, Grown
<1>8. /\ \A i \in DOMAIN inbox' : Sent(inbox[i].msg)'
      /\ voice' = None \/ Sent(voice)'
      /\ \A k \in DOMAIN threads' : Sent(k)' /\ threads'[k] = TopicOf(k)'
      /\ \A k \in DOMAIN disk'.threads : Sent(k)' /\ disk'.threads[k] = TopicOf(k)'
  BY <1>1, <1>5, GrownKeeps DEF caches
<1>9. TypeOK' BY <1>1, <1>5, <1>7, <1>8 DEF TypeOK, RoutingInv
<1>10. Truthful' BY <1>8 DEF Truthful
<1>11. ReactionsFindTheirTopic' BY <1>1 DEF ReactionsFindTheirTopic, RoutingInv, caches
<1>12. AgentsFollowKeys' BY <1>1 DEF AgentsFollowKeys, RoutingInv
<1> QED BY <1>9, <1>10, <1>11, <1>12 DEF RoutingInv

LEMMA ConfirmStep ==
    ASSUME RoutingInv, NEW m \in sending, PostConfirmed(m)
    PROVE  RoutingInv'
<1>1. /\ sending' \subseteq sending /\ SetThread(m, TopicOf(m))
      /\ UNCHANGED <<config, posted, inbox, batch, done, up, voice, disk, handed>>
  BY DEF PostConfirmed
<1>2. Grown BY <1>1, SameGrows
<1>3. PICK topic : topic = TopicOf(m) OBVIOUS
<1>4. Sent(m)' /\ topic = TopicOf(m)' BY <1>2, <1>3 DEF RoutingInv, TypeOK, Grown
<1>5. /\ \A k \in DOMAIN threads' : Sent(k)' /\ threads'[k] = TopicOf(k)'
      /\ newest' # None => newest' \in DOMAIN threads'
  BY <1>1, <1>2, <1>3, <1>4, SetThreadTruth
<1>6. /\ \A i \in DOMAIN inbox' : Sent(inbox[i].msg)'
      /\ voice' = None \/ Sent(voice)'
      /\ \A k \in sending' : Sent(k)'
      /\ \A k \in DOMAIN disk'.threads : Sent(k)' /\ disk'.threads[k] = TopicOf(k)'
  BY <1>1, <1>2, GrownKeeps
<1>7. TypeOK' BY <1>1, <1>6 DEF TypeOK, RoutingInv
<1>8. Truthful' BY <1>5, <1>6 DEF Truthful
<1>9. ReactionsFindTheirTopic' BY <1>1, <1>5 DEF ReactionsFindTheirTopic, RoutingInv
<1>10. AgentsFollowKeys' BY <1>1 DEF AgentsFollowKeys, RoutingInv
<1> QED BY <1>7, <1>8, <1>9, <1>10 DEF RoutingInv

LEMMA StopStep ==
    ASSUME RoutingInv, Shutdown
    PROVE  RoutingInv'
<1>1. Grown /\ UNCHANGED posted BY SameGrows DEF Shutdown
<1>2. PICK n : n = done OBVIOUS
<1>3. n \in Nat /\ inbox' = DropFirst(inbox, n)
  BY <1>2 DEF Shutdown, RoutingInv, TypeOK
<1>4. /\ inbox' \in Seq(Updates) /\ Len(inbox') \in Nat
      /\ Len(inbox') = IF n + 1 <= Len(inbox) THEN Len(inbox) - n ELSE 0
      /\ \A i \in DOMAIN inbox' : Sent(inbox[i].msg)'
  BY <1>1, <1>3, DropKeeps
<1>5. /\ voice' = None \/ Sent(voice)'
      /\ \A k \in sending' : Sent(k)'
      /\ \A k \in DOMAIN threads' : Sent(k)' /\ threads'[k] = TopicOf(k)'
      /\ \A k \in DOMAIN disk'.threads : Sent(k)' /\ disk'.threads[k] = TopicOf(k)'
  BY <1>1, GrownKeeps DEF Shutdown, caches
<1>6. /\ up' = "stopping" /\ batch' = batch - n /\ done' = 0
      /\ UNCHANGED <<config, caches, handed>>
  BY <1>2 DEF Shutdown
<1>7. batch' \in 0..Len(inbox') /\ done' \in 0..batch'
  <2>1. n \in 0..batch /\ batch \in 0..Len(inbox) /\ Len(inbox) \in Nat
    BY <1>2 DEF RoutingInv, TypeOK
  <2> QED BY <1>4, <1>6, <2>1
<1>8. TypeOK' BY <1>1, <1>4, <1>5, <1>6, <1>7 DEF TypeOK, RoutingInv
<1>9. Truthful' BY <1>5 DEF Truthful
<1>10. ReactionsFindTheirTopic'
  BY <1>6 DEF ReactionsFindTheirTopic, RoutingInv, caches
<1>11. AgentsFollowKeys' BY <1>6 DEF AgentsFollowKeys, RoutingInv
<1> QED BY <1>8, <1>9, <1>10, <1>11 DEF RoutingInv

LEMMA SaveStep ==
    ASSUME RoutingInv, Save
    PROVE  RoutingInv'
<1>1. Grown BY SameGrows DEF Save, telegram
<1>2. /\ up' = "saved"
      /\ UNCHANGED <<config, posted, inbox, batch, done, sending, voice, threads, newest, handed>>
  BY DEF Save, telegram, caches
<1>3. disk'.threads = threads \/ disk'.threads = disk.threads BY DEF Save
<1>4. /\ voice' = None \/ Sent(voice)'
      /\ \A i \in DOMAIN inbox' : Sent(inbox[i].msg)'
      /\ \A k \in sending' : Sent(k)'
      /\ \A k \in DOMAIN threads' : Sent(k)' /\ threads'[k] = TopicOf(k)'
  BY <1>1, <1>2, GrownKeeps
<1>5. \A k \in DOMAIN disk'.threads : Sent(k)' /\ disk'.threads[k] = TopicOf(k)'
  BY <1>1, <1>3 DEF RoutingInv, Truthful, Grown
<1>6. TypeOK' BY <1>2, <1>4 DEF TypeOK, RoutingInv
<1>7. Truthful' BY <1>4, <1>5 DEF Truthful
<1>8. ReactionsFindTheirTopic' BY <1>2 DEF ReactionsFindTheirTopic, RoutingInv
<1>9. AgentsFollowKeys' BY <1>2 DEF AgentsFollowKeys, RoutingInv
<1> QED BY <1>6, <1>7, <1>8, <1>9 DEF RoutingInv

LEMMA StartOrEndStep ==
    ASSUME RoutingInv, Start \/ Exit \/ Crash
    PROVE  RoutingInv'
<1>1. Grown
  BY SameGrows DEF Start, Exit, Crash, Ends, telegram
<1>2. /\ UNCHANGED <<config, posted, inbox, disk>>
      /\ up' \in {"up", "down"} /\ voice' = None /\ newest' = None /\ handed' = {}
      /\ UNCHANGED <<batch, done>> \/ (batch' = 0 /\ done' = 0)
      /\ sending' \subseteq sending
      /\ threads' = disk.threads \/ threads' = <<>>
  BY DEF Start, Exit, Crash, Ends, telegram
<1>3. /\ \A i \in DOMAIN inbox' : Sent(inbox[i].msg)'
      /\ \A k \in sending' : Sent(k)'
      /\ \A k \in DOMAIN disk'.threads : Sent(k)' /\ disk'.threads[k] = TopicOf(k)'
  BY <1>1, <1>2, GrownKeeps
<1>4. \A k \in DOMAIN threads' : Sent(k)' /\ threads'[k] = TopicOf(k)'
  BY <1>2, <1>3
<1>5. batch' \in 0..Len(inbox') /\ done' \in 0..batch'
  BY <1>2 DEF RoutingInv, TypeOK
<1>6. TypeOK' BY <1>2, <1>3, <1>5 DEF TypeOK, RoutingInv
<1>7. Truthful' BY <1>3, <1>4 DEF Truthful
<1>8. ReactionsFindTheirTopic' BY <1>2 DEF ReactionsFindTheirTopic
<1>9. AgentsFollowKeys' BY <1>2 DEF AgentsFollowKeys
<1> QED BY <1>6, <1>7, <1>8, <1>9 DEF RoutingInv

\* The Discord bot, and a step of nothing, leave the Telegram side alone.
LEMMA OtherStep ==
    ASSUME RoutingInv, UNCHANGED <<config, telegram, up, voice, caches, disk, handed>>
    PROVE  RoutingInv'
<1>1. Grown /\ Aside /\ UNCHANGED <<posted, inbox, batch, done>>
  BY SameGrows DEF Aside, telegram
<1>2. TypeOK'
  <2>1. \A i \in DOMAIN inbox' : Sent(inbox[i].msg)' BY <1>1, GrownKeeps
  <2> QED BY <1>1, <2>1, AsideKeeps DEF TypeOK, RoutingInv
<1> QED BY <1>1, <1>2, AsideKeeps DEF RoutingInv

LEMMA DiscordKeepsConfig ==
    ASSUME DiscordNext
    PROVE  UNCHANGED config
BY DEF DiscordNext, MessageCreate, ImageDownloaded, ImageFails, AudioTranscribed, AudioFails,
       Command, Consume, Empties

-----------------------------------------------------------------------------
\* The invariant

LEMMA InitRouting == Init => RoutingInv
<1> SUFFICES ASSUME Init PROVE RoutingInv OBVIOUS
<1> USE DEF Init, RoutingInit
<1>1. TypeOK BY DEF TypeOK
<1>2. Truthful BY DEF Truthful
<1>3. ReactionsFindTheirTopic BY DEF ReactionsFindTheirTopic
<1>4. AgentsFollowKeys BY DEF AgentsFollowKeys
<1> QED BY <1>1, <1>2, <1>3, <1>4 DEF RoutingInv

LEMMA StepRouting == RoutingInv /\ [Next]_vars => RoutingInv'
<1> SUFFICES ASSUME RoutingInv, [Next]_vars PROVE RoutingInv' OBVIOUS
<1>1. CASE Telegram
  <2>1. CASE \/ \E place \in Busy, kind \in Kinds : UserPosts(place[1], place[2], kind)
             \/ \E m \in Posted : UserReacts(m)
    BY <2>1, UserSteps
  <2>2. CASE Fetch BY <2>2, FetchStep
  <2>3. CASE RejectUnauthorized BY <2>3, RejectStep
  <2>4. CASE IgnoreMessage BY <2>4, IgnoreStep
  <2>5. CASE HandleMessage BY <2>5, HandleStep
  <2>6. CASE Transcribed \/ TranscriptionFails BY <2>6, VoiceStep
  <2>7. CASE HandleReaction BY <2>7, ReactionStep
  <2>8. CASE BotPosts \/ \E m \in sending : PostConfirmed(m) BY <2>8, AnswerStep, ConfirmStep
  <2>9. CASE Start \/ Exit \/ Crash BY <2>9, StartOrEndStep
  <2>10. CASE Shutdown BY <2>10, StopStep
  <2>11. CASE Save BY <2>11, SaveStep
  <2> QED BY <1>1, <2>1, <2>2, <2>3, <2>4, <2>5, <2>6, <2>7, <2>8, <2>9, <2>10, <2>11
          DEF Telegram, RoutingNext
<1>2. CASE Discord BY <1>2, DiscordKeepsConfig, OtherStep DEF Discord
<1>3. CASE UNCHANGED vars BY <1>3, OtherStep DEF vars, routing
<1> QED BY <1>1, <1>2, <1>3 DEF Next

THEOREM RoutingIsInvariant == Spec => []RoutingInv
BY InitRouting, StepRouting, PTL DEF Spec

\* Updates, counts and topics keep their types in every reachable state, and
\* every update and every transcript in work is of a message that was sent.
THEOREM TypeCorrect == Spec => []TypeOK
<1>1. RoutingInv => TypeOK BY DEF RoutingInv
<1> QED BY <1>1, RoutingIsInvariant, PTL

\* A message is routed to the place it was posted in, and a reaction to that
\* place or to the chat, whatever the size of the thread cache and however
\* often it was emptied, saved, lost and restored (setThread, getThread,
\* restoreThreadCache, the handlers of telegram-bot.ts).
THEOREM ReactionsAreRouted == Spec => []ReactionsFindTheirTopic
<1>1. RoutingInv => ReactionsFindTheirTopic BY DEF RoutingInv
<1> QED BY <1>1, RoutingIsInvariant, PTL

\* The prompts of one conversation all name one agent, for every accepted
\* configuration (resolveBinding, messageQueue.enqueue).
THEOREM OneAgent == Spec => []ConversationsHaveOneAgent
<1>1. RoutingInv => ConversationsHaveOneAgent
  BY DEF RoutingInv, AgentsFollowKeys, ConversationsHaveOneAgent
<1> QED BY <1>1, RoutingIsInvariant, PTL

-----------------------------------------------------------------------------
\* The content index

\* The last N elements of s, or all of them.
AtMost(N, n) == IF n < N THEN n ELSE N
LastOf(s, N) == SubSeq(s, Len(s) - AtMost(N, Len(s)) + 1, Len(s))

LEMMA LastOfProperties ==
    ASSUME NEW S, NEW s \in Seq(S), NEW N \in Nat
    PROVE  /\ LastOf(s, N) \in Seq(S)
           /\ AtMost(N, Len(s)) \in Nat /\ AtMost(N, Len(s)) <= Len(s)
           /\ Len(LastOf(s, N)) = AtMost(N, Len(s))
           /\ \A i \in 1..AtMost(N, Len(s)) :
                LastOf(s, N)[i] = s[Len(s) - AtMost(N, Len(s)) + i]
<1> DEFINE L == Len(s)
           n == AtMost(N, L)
           t == SubSeq(s, L - n + 1, L)
<1>1. L \in Nat /\ n \in Nat /\ n <= L BY DEF AtMost
<1>2. t = LastOf(s, N) BY DEF LastOf
<1>3. \A i \in (L - n + 1)..L : s[i] \in S
  <2> SUFFICES ASSUME NEW i \in (L - n + 1)..L PROVE s[i] \in S OBVIOUS
  <2>1. i \in 1..Len(s) BY <1>1
  <2> QED BY <2>1, ElementOfSeq
<1> HIDE DEF n
<1>4. L - n + 1 \in Int /\ L \in Int BY <1>1
<1>5. /\ t \in Seq(S)
      /\ Len(t) = IF L - n + 1 <= L THEN L - (L - n + 1) + 1 ELSE 0
      /\ \A i \in 1..(L - (L - n + 1) + 1) : t[i] = s[(L - n + 1) + i - 1]
  <2> HIDE DEF L
  <2> QED BY <1>3, <1>4, SubSeqProperties
<1> HIDE DEF t, L
<1>6. L - (L - n + 1) + 1 = n /\ (L - n + 1 <= L <=> n >= 1) BY <1>1
<1>7. Len(t) = n BY <1>1, <1>5, <1>6
<1>8. \A i \in 1..n : t[i] = s[L - n + i]
  <2> SUFFICES ASSUME NEW i \in 1..n PROVE t[i] = s[L - n + i] OBVIOUS
  <2>1. (L - n + 1) + i - 1 = L - n + i BY <1>1
  <2> QED BY <1>5, <1>6, <2>1
<1> USE DEF n, L
<1> QED BY <1>1, <1>2, <1>5, <1>7, <1>8

LEMMA LastOfAppend ==
    ASSUME NEW S, NEW s \in Seq(S), NEW e \in S, NEW N \in Nat \ {0}
    PROVE  LET t == LastOf(s, N)
               kept == IF Len(t) >= N THEN DropFirst(t, Len(t) - N + 1) ELSE t
           IN  Append(kept, e) = LastOf(Append(s, e), N)
<1> DEFINE t == LastOf(s, N)
           kept == IF Len(t) >= N THEN DropFirst(t, Len(t) - N + 1) ELSE t
           L == Len(s)
           n == AtMost(N, L)
           a == Append(s, e)
           b == Append(kept, e)
           r == LastOf(a, N)
           k == AtMost(N, L + 1)
<1>1. t \in Seq(S) /\ n \in Nat /\ n <= L /\ L \in Nat /\ Len(t) = n
      /\ \A i \in 1..n : t[i] = s[L - n + i]
  <2>1. N \in Nat OBVIOUS
  <2>2. L \in Nat OBVIOUS
  <2> HIDE DEF L
  <2>3. /\ LastOf(s, N) \in Seq(S)
        /\ AtMost(N, Len(s)) \in Nat /\ AtMost(N, Len(s)) <= Len(s)
        /\ Len(LastOf(s, N)) = AtMost(N, Len(s))
        /\ \A i \in 1..AtMost(N, Len(s)) :
             LastOf(s, N)[i] = s[Len(s) - AtMost(N, Len(s)) + i]
    BY <2>1, LastOfProperties, Zenon
  <2> QED BY <2>2, <2>3, Zenon DEF L
<1>2. /\ a \in Seq(S) /\ Len(a) = L + 1 /\ a[L + 1] = e
      /\ \A i \in 1..L : a[i] = s[i]
  BY AppendProperties
<1>3. /\ r \in Seq(S) /\ k \in Nat /\ Len(r) = k
      /\ \A i \in 1..k : r[i] = a[L + 1 - k + i]
  <2>1. AtMost(N, Len(a)) = k BY <1>2
  <2>2. Len(a) - k = L + 1 - k
    <3>1. k \in Nat /\ L \in Nat BY DEF AtMost
    <3>2. Len(a) = L + 1 BY <1>2
    <3> HIDE DEF a, k, L
    <3> QED BY <3>1, <3>2
  <2>3. N \in Nat OBVIOUS
  <2> HIDE DEF a, k
  <2>4. /\ LastOf(a, N) \in Seq(S)
        /\ AtMost(N, Len(a)) \in Nat
        /\ Len(LastOf(a, N)) = AtMost(N, Len(a))
        /\ \A i \in 1..AtMost(N, Len(a)) :
             LastOf(a, N)[i] = a[Len(a) - AtMost(N, Len(a)) + i]
    BY <1>2, <2>3, LastOfProperties, Zenon
  <2> QED BY <2>1, <2>2, <2>4
<1> HIDE DEF t, a, r
<1>4. /\ kept \in Seq(S) /\ Len(kept) = k - 1
      /\ \A i \in 1..(k - 1) : kept[i] = s[L + 1 - k + i]
  <2>1. CASE L < N
    <3>1. kept = t /\ n = L /\ k = L + 1 BY <1>1, <2>1 DEF AtMost
    <3> HIDE DEF kept, n, k
    <3>2. \A i \in 1..(k - 1) : L - n + i = L + 1 - k + i BY <1>1, <3>1
    <3> QED BY <1>1, <3>1, <3>2
  <2>2. CASE ~(L < N)
    <3>1. n = N /\ k = N /\ Len(t) = N BY <1>1, <2>2 DEF AtMost
    <3>2. kept = SubSeq(t, 2, N)
      <4>1. kept = DropFirst(t, Len(t) - N + 1) BY <3>1
      <4>2. Len(t) - N + 1 = 1 BY <3>1
      <4>3. kept = SubSeq(t, 1 + 1, N) BY <3>1, <4>1, <4>2 DEF DropFirst
      <4> QED BY <4>3
    <3>3. \A i \in 2..N : t[i] \in S
      <4> SUFFICES ASSUME NEW i \in 2..N PROVE t[i] \in S OBVIOUS
      <4>1. i \in 1..Len(t) BY <3>1
      <4> QED BY <1>1, <4>1, ElementOfSeq
    <3> HIDE DEF kept, n, k
    <3>4. /\ kept \in Seq(S)
          /\ Len(kept) = IF 2 <= N THEN N - 2 + 1 ELSE 0
          /\ \A i \in 1..(N - 2 + 1) : kept[i] = t[2 + i - 1]
      BY <3>2, <3>3, SubSeqProperties
    <3>5. Len(kept) = N - 1 BY <3>4
    <3>6. ASSUME NEW i \in 1..(N - 1) PROVE kept[i] = s[L + 1 - N + i]
      <4>1. i \in 1..(N - 2 + 1) /\ 2 + i - 1 \in 1..n BY <3>1, <3>6
      <4>2. kept[i] = s[L - n + (2 + i - 1)] BY <1>1, <3>4, <4>1
      <4>3. L - n + (2 + i - 1) = L + 1 - N + i BY <1>1, <3>1
      <4> QED BY <4>2, <4>3
    <3> QED BY <3>1, <3>4, <3>5, <3>6
  <2> QED BY <2>1, <2>2
<1> HIDE DEF kept
<1>5. /\ b \in Seq(S) /\ Len(b) = k /\ b[k] = e
      /\ \A i \in 1..(k - 1) : b[i] = kept[i]
  <2>1. /\ b \in Seq(S) /\ Len(b) = Len(kept) + 1 /\ b[Len(kept) + 1] = e
        /\ \A i \in 1..Len(kept) : b[i] = kept[i]
    BY <1>4, AppendProperties
  <2>2. k - 1 + 1 = k BY <1>3
  <2> QED BY <1>4, <2>1, <2>2
<1> HIDE DEF b
<1>6. k >= 1 /\ k <= L + 1 BY <1>1 DEF AtMost
<1> HIDE DEF k
<1>7. ASSUME NEW i \in 1..k PROVE b[i] = r[i]
  <2>1. CASE i = k
    <3>1. L + 1 - k + i = L + 1 BY <1>1, <1>3, <2>1
    <3> QED BY <1>2, <1>3, <1>5, <2>1, <3>1
  <2>2. CASE i # k
    <3>1. i \in 1..(k - 1) /\ L + 1 - k + i \in 1..L BY <1>1, <1>3, <1>6, <2>2
    <3> QED BY <1>2, <1>3, <1>4, <1>5, <3>1
  <2> QED BY <2>1, <2>2
<1>8. b = r BY <1>3, <1>5, <1>7, SeqEqual
<1> QED BY <1>8 DEF b, kept, t, r, a

IndexInv ==
    /\ index \in Seq(Chats \X Nat)
    /\ seen \in Seq(Chats \X Nat)
    /\ disk.index \in Seq(Chats \X Nat)
    /\ index = LastOf(seen, MaxSize)

LEMMA RecordKeeps ==
    ASSUME IndexInv, NEW m \in Chats \X Nat, RecordMessage(m), disk'.index = disk.index
    PROVE  IndexInv'
<1>1. CASE UNCHANGED <<index, seen>> BY <1>1 DEF IndexInv
<1>2. CASE /\ index' = Append(IF Len(index) >= MaxSize
                              THEN DropFirst(index, Len(index) - MaxSize + 1) ELSE index, m)
           /\ seen' = Append(seen, m)
  <2>1. PICK s : s = seen OBVIOUS
  <2>2. s \in Seq(Chats \X Nat) /\ index = LastOf(s, MaxSize) /\ MaxSize \in Nat \ {0}
    BY <2>1, RoutingAssumption DEF IndexInv
  <2>3. index' = LastOf(Append(s, m), MaxSize) BY <1>2, <2>2, LastOfAppend
  <2>4. Append(s, m) \in Seq(Chats \X Nat) BY <2>2
  <2>5. seen' = Append(s, m) BY <1>2, <2>1
  <2>6. index' \in Seq(Chats \X Nat) BY <2>2, <2>3, <2>4, LastOfProperties
  <2>7. index' = LastOf(seen, MaxSize)' BY <2>3, <2>5 DEF LastOf
  <2> QED BY <2>4, <2>5, <2>6, <2>7 DEF IndexInv
<1> QED BY <1>1, <1>2 DEF RecordMessage

\* What the restored part of a file holds is all that is remembered.
LEMMA RestoreKeeps ==
    ASSUME NEW S, NEW s \in Seq(S)
    PROVE  Restored(s) \in Seq(S) /\ Restored(s) = LastOf(Restored(s), MaxSize)
<1> DEFINE n == IF Len(s) > MaxSize THEN MaxSize ELSE Len(s)
           r == SubSeq(s, 1, n)
<1>1. n \in Nat /\ n <= Len(s) /\ n <= MaxSize BY RoutingAssumption
<1>2. \A i \in 1..n : s[i] \in S
  <2> SUFFICES ASSUME NEW i \in 1..n PROVE s[i] \in S OBVIOUS
  <2>1. i \in 1..Len(s) BY <1>1
  <2> QED BY <2>1, ElementOfSeq
<1>3. r = Restored(s) BY DEF Restored
<1> HIDE DEF n
<1>4. r \in Seq(S) /\ Len(r) = n BY <1>1, <1>2, SubSeqProperties
<1> HIDE DEF r
<1>5. AtMost(MaxSize, Len(r)) = Len(r) BY <1>1, <1>4, RoutingAssumption DEF AtMost
<1>6. LastOf(r, MaxSize) = SubSeq(r, 1, Len(r))
  <2>1. Len(r) - Len(r) + 1 = 1 BY <1>1, <1>4
  <2> QED BY <1>5, <2>1 DEF LastOf
<1>7. SubSeq(r, 1, Len(r)) = r BY <1>4
<1> QED BY <1>3, <1>4, <1>6, <1>7

LEMMA NothingRecorded == <<>> \in Seq(Chats \X Nat) /\ <<>> = LastOf(<<>>, MaxSize)
<1>1. AtMost(MaxSize, Len(<<>>)) = 0 BY RoutingAssumption DEF AtMost
<1> QED BY <1>1 DEF LastOf

LEMMA InitIndex == Init => IndexInv
<1> SUFFICES ASSUME Init PROVE IndexInv OBVIOUS
<1>1. index = <<>> /\ seen = <<>> /\ disk.index = <<>> BY DEF Init, RoutingInit
<1> QED BY <1>1, NothingRecorded DEF IndexInv

LEMMA StepIndex == IndexInv /\ RoutingInv /\ [Next]_vars => IndexInv'
<1> SUFFICES ASSUME IndexInv, RoutingInv, [Next]_vars PROVE IndexInv' OBVIOUS
<1>1. CASE UNCHANGED <<index, seen>> /\ disk'.index = disk.index
  BY <1>1 DEF IndexInv
<1>2. CASE IgnoreMessage \/ HandleMessage
  <2>1. Handles(Kinds) /\ See(Update) /\ UNCHANGED disk
    BY <1>2 DEF IgnoreMessage, HandleMessage
  <2>2. PICK m : m = Update.msg OBVIOUS
  <2>3. RecordMessage(m) \/ UNCHANGED <<index, seen>> BY <2>1, <2>2 DEF See
  <2>4. m \in Chats \X Nat BY <2>1, <2>2, UpdateIsSent DEF RoutingInv, Sent
  <2> QED BY <1>1, <2>1, <2>3, <2>4, RecordKeeps
<1>3. CASE Transcribed
  <2>1. PICK m : m = voice OBVIOUS
  <2>2. m \in Chats \X Nat
    BY <1>3, <2>1 DEF Transcribed, VoiceEnds, RoutingInv, TypeOK, Sent
  <2>3. RecordMessage(m) /\ disk'.index = disk.index
    BY <1>3, <2>1 DEF Transcribed, VoiceEnds
  <2> QED BY <2>2, <2>3, RecordKeeps
<1>4. CASE \E m \in sending : PostConfirmed(m)
  <2>1. PICK m \in sending : RecordMessage(m) /\ UNCHANGED disk BY <1>4 DEF PostConfirmed
  <2>2. m \in Chats \X Nat BY DEF RoutingInv, TypeOK, Sent
  <2> QED BY <2>1, <2>2, RecordKeeps
<1>5. CASE Start
  <2>1. PICK s : s = disk.index OBVIOUS
  <2>2. s \in Seq(Chats \X Nat) BY <2>1 DEF IndexInv
  <2>3. index' = Restored(s) /\ seen' = Restored(s) /\ disk' = disk BY <1>5, <2>1 DEF Start
  <2>4. Restored(s) \in Seq(Chats \X Nat) /\ Restored(s) = LastOf(Restored(s), MaxSize)
    BY <2>2, RestoreKeeps
  <2>5. index' = LastOf(seen, MaxSize)' BY <2>3, <2>4 DEF LastOf
  <2> QED BY <2>1, <2>2, <2>3, <2>4, <2>5 DEF IndexInv
<1>6. CASE Save
  <2>1. UNCHANGED <<index, seen>> /\ (disk'.index = index \/ disk'.index = disk.index)
    BY <1>6 DEF Save, caches
  <2> QED BY <2>1 DEF IndexInv
<1>7. CASE Exit \/ Crash
  <2>1. index' = <<>> /\ seen' = <<>> /\ disk' = disk BY <1>7 DEF Exit, Crash, Ends
  <2> QED BY <2>1, NothingRecorded DEF IndexInv
<1>8. CASE Telegram
  <2>1. CASE \/ \E place \in Busy, kind \in Kinds : UserPosts(place[1], place[2], kind)
             \/ \E m \in Posted : UserReacts(m)
             \/ Fetch \/ RejectUnauthorized \/ HandleReaction \/ BotPosts \/ Shutdown
    BY <1>1, <2>1
       DEF UserPosts, UserReacts, Fetch, RejectUnauthorized, HandleReaction, BotPosts, Shutdown,
           caches
  <2>2. CASE TranscriptionFails BY <1>1, <2>2 DEF TranscriptionFails, VoiceEnds
  <2> QED BY <1>2, <1>3, <1>4, <1>5, <1>6, <1>7, <1>8, <2>1, <2>2 DEF Telegram, RoutingNext
<1>9. CASE Discord \/ UNCHANGED vars BY <1>1, <1>9 DEF Discord, vars, routing, caches
<1> QED BY <1>8, <1>9 DEF Next

\* The index holds the messages recorded last, for every cap and any
\* interleaving of handlers, answers, saves, restarts and crashes
\* (recordMessage, restoreMessageIndex).
THEOREM IndexIsRecent == Spec => []IndexKeepsTheNewest
<1>1. IndexInv => IndexKeepsTheNewest
  BY DEF IndexInv, IndexKeepsTheNewest, LastOf, AtMost
<1> QED BY <1>1, InitIndex, StepIndex, RoutingIsInvariant, PTL DEF Spec

-----------------------------------------------------------------------------
(* What loadConfig accepts is routed by its bindings. *)

LEMMA FirstIsLeast ==
    ASSUME NEW S, S \subseteq Nat, S # {}
    PROVE  First(S) \in S /\ \A j \in S : First(S) <= j
<1> DEFINE R == OpToRel(<, Nat)
<1>1. \E x \in S : \A y \in S : ~ (<<y, x>> \in R)
  <2>1. IsWellFoundedOn(R, Nat) BY NatLessThanWellFounded
  <2> HIDE DEF R
  <2> QED BY <2>1, WFMin
<1>2. \E x \in S : \A y \in S : x <= y
  <2>1. PICK x \in S : \A y \in S : ~ (<<y, x>> \in R) BY <1>1
  <2>2. ASSUME NEW y \in S PROVE x <= y
    <3>1. ~ (y < x) BY <2>1 DEF OpToRel
    <3> QED BY <3>1
  <2> QED BY <2>2
<1> QED BY <1>2 DEF First

Routes(agents) ==
    [chat : Chats, agent : agents, kind : {"dm", "group"}, topic : Topics \cup {None},
     mention : BOOLEAN \cup {None},
     topics : Seq([topic : Topics, agent : agents \cup {None, Blank}, mention : BOOLEAN \cup {None}])]

DiscordRoutesOf(agents) ==
    [channel : Channels \cup {None}, guild : Guilds, agent : agents, kind : {"dm", "channel"},
     mention : BOOLEAN \cup {None},
     channels : Seq([channel : Channels, agent : agents \cup {None, Blank},
                     mention : BOOLEAN \cup {None}])]

\* The configuration of a process that started.
Loaded ==
    /\ None \notin config.agents
    /\ config.bindings \in Seq(Routes(config.agents))
    /\ \A i \in DOMAIN config.bindings :
            config.bindings[i].topics # <<>> => config.bindings[i].topic = None
    /\ config.discord \in Seq(DiscordRoutesOf(config.agents))
    /\ \A i \in DOMAIN config.discord :
            config.discord[i].channels # <<>> => config.discord[i].channel = None

LEMMA RawFields ==
    ASSUME NEW pair \in Files, NEW raw, raw = MergeDeep(pair[1], pair[2])
    PROVE  /\ raw.agents \subseteq Names
           /\ raw.bindings \in Bindings /\ raw.discordBindings \in DiscordBindings
<1>1. pair[1] \in BaseFile /\ pair[2] \in LocalFile BY ConfigAssumption
<1> DEFINE base == pair[1]
           local == pair[2]
<1>2. DOMAIN base = {"agents", "sound", "token", "bindings", "discord", "discordToken",
                     "discordBindings", "requireMention"}
  BY <1>1 DEF BaseFile
<1>3. /\ base.agents \in SUBSET Names /\ local.agents \in SUBSET Names
      /\ base.bindings \in Bindings /\ local.bindings \in Bindings \cup {None}
      /\ base.discordBindings \in DiscordBindings
      /\ local.discordBindings \in DiscordBindings \cup {None}
  BY <1>1 DEF BaseFile, LocalFile
<1> HIDE DEF base, local
<1>4. raw = MergeDeep(base, local) BY DEF base, local
<1>5. /\ raw.agents = base.agents \cup local.agents
      /\ raw.bindings = IF local.bindings # None THEN local.bindings ELSE base.bindings
      /\ raw.discordBindings = IF local.discordBindings # None
                               THEN local.discordBindings ELSE base.discordBindings
  BY <1>2, <1>4 DEF MergeDeep
<1> QED BY <1>3, <1>5

LEMMA ElementOf == \A S : \A s \in Seq(S) : \A i \in DOMAIN s : s[i] \in S
<1> SUFFICES ASSUME NEW S, NEW s \in Seq(S), NEW i \in DOMAIN s PROVE s[i] \in S OBVIOUS
<1>1. i \in 1..Len(s) OBVIOUS
<1> QED BY <1>1, ElementOfSeq

LEMMA LoadedRoute ==
    ASSUME NEW bs \in Bindings, NEW agents, NEW i \in DOMAIN bs, ValidBinding(bs[i], agents)
    PROVE  /\ LoadedBinding(bs[i]) \in Routes(agents)
           /\ LoadedBinding(bs[i]).topics # <<>> => LoadedBinding(bs[i]).topic = None
<1> DEFINE Name == Names \cup {None, Wrong, Blank}
           Override == [topic : Topics \cup {Wrong}, agent : Name, mention : Mention]
           Listing == [topic : Topics, agent : agents \cup {None, Blank}, mention : BOOLEAN \cup {None}]
<1>1. PICK b : b = bs[i] OBVIOUS
<1>2. b \in [chat : Chats \cup {Wrong}, agent : Name, kind : {"dm", "group"} \cup {Wrong},
             topic : Topics \cup {None, Wrong}, mention : Mention, topics : Seq(Override)]
  BY <1>1, ElementOf, Zenon DEF Bindings
<1>3. ValidBinding(b, agents) BY <1>1
<1> DEFINE load(o) == [o EXCEPT !.agent = Typed(@), !.mention = Typed(@)]
           ts == [k \in DOMAIN b.topics |-> load(b.topics[k])]
<1>4. b.topics \in Seq(Override) BY <1>2
<1>5. \A k \in DOMAIN b.topics : b.topics[k] \in Override /\ load(b.topics[k]) \in Listing
  <2> SUFFICES ASSUME NEW k \in DOMAIN b.topics
               PROVE  b.topics[k] \in Override /\ load(b.topics[k]) \in Listing
    OBVIOUS
  <2>1. b.topics[k] \in Override BY <1>4, ElementOf
  <2>2. PICK o : o = b.topics[k] OBVIOUS
  <2>3. o.topic # Wrong /\ Typed(o.agent) \in agents \cup {None, Blank}
    BY <1>3, <2>2 DEF ValidBinding, KnownOverride
  <2>4. o.topic \in Topics BY <2>1, <2>2, <2>3
  <2>5. Typed(o.mention) \in BOOLEAN \cup {None} BY <2>1, <2>2 DEF Mention, Typed
  <2>6. load(o) \in Listing BY <2>1, <2>2, <2>3, <2>4, <2>5
  <2> QED BY <2>1, <2>2, <2>6
<1>6. ts \in Seq(Listing) /\ (b.topics = <<>> => ts = <<>>)
  <2>1. DOMAIN b.topics = 1..Len(b.topics) /\ Len(b.topics) \in Nat BY <1>4
  <2>2. ts = [k \in 1..Len(b.topics) |-> load(b.topics[k])] BY <2>1
  <2> HIDE DEF load, Override, Listing
  <2>3. ts \in [1..Len(b.topics) -> Listing] BY <1>5, <2>1, <2>2
  <2>4. b.topics = <<>> => ts = <<>>
    <3>1. b.topics = <<>> => Len(b.topics) = 0 OBVIOUS
    <3> HIDE DEF ts
    <3> QED BY <2>3, <3>1
  <2> HIDE DEF ts
  <2> QED BY <2>1, <2>3, <2>4
<1>7. b.topics = <<>> => ts = <<>> BY <1>6
<1> HIDE DEF load
<1>8. LoadedBinding(b) = [b EXCEPT !.topic = Typed(b.topic), !.mention = Typed(b.mention), !.topics = ts]
  BY DEF LoadedBinding, load
<1> HIDE DEF ts
<1>9. /\ b.chat \in Chats /\ b.agent \in agents /\ b.kind \in {"dm", "group"}
      /\ Typed(b.topic) \in Topics \cup {None} /\ Typed(b.mention) \in BOOLEAN \cup {None}
      /\ b.topics # <<>> => Typed(b.topic) = None
  BY <1>2, <1>3 DEF ValidBinding, Typed, Mention
<1>10. LoadedBinding(b) \in Routes(agents) BY <1>2, <1>6, <1>8, <1>9 DEF Routes
<1>11. LoadedBinding(b).topics = ts /\ LoadedBinding(b).topic = Typed(b.topic) BY <1>2, <1>8
<1> QED BY <1>1, <1>7, <1>9, <1>10, <1>11

LEMMA LoadedDiscordRoute ==
    ASSUME NEW bs \in DiscordBindings, NEW agents, NEW i \in DOMAIN bs,
           ValidDiscordBinding(bs[i], agents)
    PROVE  /\ LoadedDiscordBinding(bs[i]) \in DiscordRoutesOf(agents)
           /\ LoadedDiscordBinding(bs[i]).channels # <<>> =>
                LoadedDiscordBinding(bs[i]).channel = None
<1> DEFINE Name == Names \cup {None, Wrong, Blank}
           Override == [channel : Channels \cup {Wrong}, agent : Name, mention : Mention]
           Listing == [channel : Channels, agent : agents \cup {None, Blank},
                       mention : BOOLEAN \cup {None}]
<1>1. PICK b : b = bs[i] OBVIOUS
<1>2. b \in [channel : Channels \cup {None, Wrong}, guild : Guilds \cup {Wrong}, agent : Name,
             kind : {"dm", "channel"} \cup {Wrong}, mention : Mention, channels : Seq(Override)]
  BY <1>1, ElementOf, Zenon DEF DiscordBindings
<1>3. ValidDiscordBinding(b, agents) BY <1>1
<1> DEFINE load(o) == [o EXCEPT !.agent = Typed(@), !.mention = Typed(@)]
           cs == [k \in DOMAIN b.channels |-> load(b.channels[k])]
<1>4. b.channels \in Seq(Override) BY <1>2
<1>5. \A k \in DOMAIN b.channels : b.channels[k] \in Override /\ load(b.channels[k]) \in Listing
  <2> SUFFICES ASSUME NEW k \in DOMAIN b.channels
               PROVE  b.channels[k] \in Override /\ load(b.channels[k]) \in Listing
    OBVIOUS
  <2>1. b.channels[k] \in Override BY <1>4, ElementOf
  <2>2. PICK o : o = b.channels[k] OBVIOUS
  <2>3. o.channel # Wrong /\ Typed(o.agent) \in agents \cup {None, Blank}
    BY <1>3, <2>2 DEF ValidDiscordBinding, KnownOverride
  <2>4. o.channel \in Channels BY <2>1, <2>2, <2>3
  <2>5. Typed(o.mention) \in BOOLEAN \cup {None} BY <2>1, <2>2 DEF Mention, Typed
  <2>6. load(o) \in Listing BY <2>1, <2>2, <2>3, <2>4, <2>5
  <2> QED BY <2>1, <2>2, <2>6
<1>6. cs \in Seq(Listing) /\ (b.channels = <<>> => cs = <<>>)
  <2>1. DOMAIN b.channels = 1..Len(b.channels) /\ Len(b.channels) \in Nat BY <1>4
  <2>2. cs = [k \in 1..Len(b.channels) |-> load(b.channels[k])] BY <2>1
  <2> HIDE DEF load, Override, Listing
  <2>3. cs \in [1..Len(b.channels) -> Listing] BY <1>5, <2>1, <2>2
  <2>4. b.channels = <<>> => cs = <<>>
    <3>1. b.channels = <<>> => Len(b.channels) = 0 OBVIOUS
    <3> HIDE DEF cs
    <3> QED BY <2>3, <3>1
  <2> HIDE DEF cs
  <2> QED BY <2>1, <2>3, <2>4
<1>7. b.channels = <<>> => cs = <<>> BY <1>6
<1> HIDE DEF load
<1>8. LoadedDiscordBinding(b) = [b EXCEPT !.mention = Typed(b.mention), !.channels = cs]
  BY DEF LoadedDiscordBinding, load
<1> HIDE DEF cs
<1>9. /\ b.channel \in Channels \cup {None} /\ b.guild \in Guilds /\ b.agent \in agents
      /\ b.kind \in {"dm", "channel"} /\ Typed(b.mention) \in BOOLEAN \cup {None}
      /\ b.channels # <<>> => b.channel = None
  BY <1>2, <1>3 DEF ValidDiscordBinding, Typed, Mention
<1>10. LoadedDiscordBinding(b) \in DiscordRoutesOf(agents)
  BY <1>2, <1>6, <1>8, <1>9 DEF DiscordRoutesOf
<1>11. LoadedDiscordBinding(b).channels = cs /\ LoadedDiscordBinding(b).channel = b.channel
  BY <1>2, <1>8
<1> QED BY <1>1, <1>7, <1>9, <1>10, <1>11

LEMMA StartedIsLoaded == ConfigInit => Loaded
<1> SUFFICES ASSUME ConfigInit PROVE Loaded OBVIOUS
<1>1. PICK pair \in Files : Accepted(MergeDeep(pair[1], pair[2]))
                             /\ config = LoadConfig(MergeDeep(pair[1], pair[2]))
  BY DEF ConfigInit
<1>2. PICK raw : raw = MergeDeep(pair[1], pair[2]) OBVIOUS
<1>3. Accepted(raw) /\ config = LoadConfig(raw) BY <1>1, <1>2
<1>4. raw.agents \subseteq Names /\ raw.bindings \in Bindings /\ raw.discordBindings \in DiscordBindings
  BY <1>2, RawFields
<1>5. config.agents = raw.agents /\ None \notin config.agents
  BY <1>3, <1>4, ConfigAssumption DEF LoadConfig
<1> DEFINE bs == raw.bindings
           ds == raw.discordBindings
<1>6. config.bindings = [i \in DOMAIN bs |-> LoadedBinding(bs[i])] BY <1>3 DEF LoadConfig
<1>7. config.discord = IF raw.discord THEN [i \in DOMAIN ds |-> LoadedDiscordBinding(ds[i])] ELSE <<>>
  BY <1>3 DEF LoadConfig
<1>8. \A i \in DOMAIN bs : /\ LoadedBinding(bs[i]) \in Routes(raw.agents)
                           /\ LoadedBinding(bs[i]).topics # <<>> => LoadedBinding(bs[i]).topic = None
  BY <1>3, <1>4, LoadedRoute DEF Accepted
<1>9. raw.discord => \A i \in DOMAIN ds :
            /\ LoadedDiscordBinding(ds[i]) \in DiscordRoutesOf(raw.agents)
            /\ LoadedDiscordBinding(ds[i]).channels # <<>> =>
                    LoadedDiscordBinding(ds[i]).channel = None
  BY <1>3, <1>4, LoadedDiscordRoute DEF Accepted
<1>10. DOMAIN bs = 1..Len(bs) /\ Len(bs) \in Nat /\ DOMAIN ds = 1..Len(ds) /\ Len(ds) \in Nat
  BY <1>4 DEF Bindings, DiscordBindings
<1> HIDE DEF bs, ds
<1>11. config.bindings \in Seq(Routes(raw.agents))
  BY <1>6, <1>8, <1>10
<1>12. config.discord \in Seq(DiscordRoutesOf(raw.agents))
  <2>1. CASE raw.discord
    <3>1. config.discord = [i \in 1..Len(ds) |-> LoadedDiscordBinding(ds[i])]
      BY <1>7, <1>10, <2>1
    <3>2. \A i \in 1..Len(ds) : LoadedDiscordBinding(ds[i]) \in DiscordRoutesOf(raw.agents)
      BY <1>9, <1>10, <2>1
    <3> QED BY <1>10, <3>1, <3>2
  <2>2. CASE ~raw.discord BY <1>7, <2>2
  <2> QED BY <2>1, <2>2
<1>13. \A i \in DOMAIN config.bindings :
            config.bindings[i].topics # <<>> => config.bindings[i].topic = None
  BY <1>6, <1>8
<1>14. \A i \in DOMAIN config.discord :
            config.discord[i].channels # <<>> => config.discord[i].channel = None
  BY <1>7, <1>9
<1> QED BY <1>5, <1>11, <1>12, <1>13, <1>14 DEF Loaded

LEMMA ConfigStays == [Next]_vars => config' = config
<1> SUFFICES ASSUME [Next]_vars PROVE config' = config OBVIOUS
<1>1. CASE Telegram
  <2>1. CASE \/ \E place \in Busy, kind \in Kinds : UserPosts(place[1], place[2], kind)
             \/ \E m \in Posted : UserReacts(m)
             \/ Fetch \/ RejectUnauthorized \/ IgnoreMessage
    BY <2>1 DEF UserPosts, UserReacts, Fetch, RejectUnauthorized, IgnoreMessage
  <2>2. CASE HandleMessage BY <2>2 DEF HandleMessage
  <2>3. CASE Transcribed \/ TranscriptionFails
    BY <2>3 DEF Transcribed, TranscriptionFails, VoiceEnds
  <2>4. CASE HandleReaction BY <2>4 DEF HandleReaction
  <2>5. CASE BotPosts \/ \E m \in sending : PostConfirmed(m)
    BY <2>5 DEF BotPosts, PostConfirmed
  <2>6. CASE Start \/ Shutdown \/ Save \/ Exit \/ Crash
    BY <2>6 DEF Start, Shutdown, Save, Exit, Crash, Ends
  <2> QED BY <1>1, <2>1, <2>2, <2>3, <2>4, <2>5, <2>6 DEF Telegram, RoutingNext
<1>2. CASE Discord
  BY <1>2, DiscordKeepsConfig DEF Discord
<1>3. CASE UNCHANGED vars BY <1>3 DEF vars, routing
<1> QED BY <1>1, <1>2, <1>3 DEF Next

LEMMA LoadedStays == Loaded /\ [Next]_vars => Loaded'
BY ConfigStays DEF Loaded

\* Array.find over a list of routes.
LEMMA FindFirst ==
    ASSUME NEW S, NEW list \in Seq(S), NEW passed, passed \subseteq DOMAIN list, passed # {}
    PROVE  First(passed) \in passed /\ First(passed) \in DOMAIN list /\ list[First(passed)] \in S
<1>1. passed \subseteq Nat OBVIOUS
<1> QED BY <1>1, FirstIsLeast, ElementOf

LEMMA TelegramIsRouted == Loaded => TelegramRoutes
<1> SUFFICES ASSUME Loaded, NEW chat \in Chats, NEW topic \in Topics \cup {None}
    PROVE
        LET bs == config.bindings
            route == ResolveBinding(chat, bs, topic)
            covering == {i \in DOMAIN bs : bs[i].chat = chat /\ bs[i].topic \in {None, topic}}
            own == {i \in covering : bs[i].topic # None}
            b == bs[First(IF own # {} THEN own ELSE covering)]
            listings == {k \in DOMAIN b.topics : b.topics[k].topic = topic}
            listed == b.topics[First(listings)]
        IN  IF covering = {} THEN route = Unbound
            ELSE /\ route.chat = chat /\ route.topic = topic /\ route.kind = b.kind
                 /\ route.agent = IF listings # {} /\ listed.agent # None
                                  THEN listed.agent ELSE b.agent
                 /\ route.mention = IF listings # {} /\ listed.mention # None
                                    THEN listed.mention ELSE b.mention
                 /\ route.agent \in config.agents \cup {Blank}
  BY DEF TelegramRoutes
<1> DEFINE bs == config.bindings
           route == ResolveBinding(chat, bs, topic)
           covering == {i \in DOMAIN bs : bs[i].chat = chat /\ bs[i].topic \in {None, topic}}
           own == {i \in covering : bs[i].topic # None}
           exacts == {i \in DOMAIN bs : bs[i].chat = chat /\ bs[i].topic # None
                                        /\ bs[i].topic = topic}
           wides == {i \in DOMAIN bs : bs[i].chat = chat /\ bs[i].topic = None}
           exact == IF exacts = {} THEN Unbound ELSE bs[First(exacts)]
           wide == IF wides = {} THEN Unbound ELSE bs[First(wides)]
           L(w) == {k \in DOMAIN w.topics : w.topics[k].topic = topic}
           listed(w) == IF L(w) = {} THEN Unbound ELSE w.topics[First(L(w))]
<1>1. route = IF exact # Unbound THEN exact
              ELSE IF wide = Unbound \/ topic = None THEN wide
              ELSE IF listed(wide) = Unbound THEN [wide EXCEPT !.topic = topic]
              ELSE [wide EXCEPT !.topic = topic, !.agent = OrElse(listed(wide).agent, @),
                                !.mention = OrElse(listed(wide).mention, @), !.topics = <<>>]
  BY DEF ResolveBinding, Find
<1>2. /\ None \notin config.agents /\ bs \in Seq(Routes(config.agents))
      /\ \A i \in DOMAIN bs : bs[i].topics # <<>> => bs[i].topic = None
  BY DEF Loaded
<1>3. own = exacts /\ covering = exacts \cup wides OBVIOUS
<1>4. \A r \in Routes(config.agents) : r # Unbound BY <1>2 DEF Routes, Unbound
<1>5. CASE exacts # {}
  <2> DEFINE b == bs[First(own)]
  <2>1. First(own) \in exacts /\ b \in Routes(config.agents)
    BY <1>2, <1>3, <1>5, FindFirst
  <2>2. b.chat = chat /\ b.topic = topic /\ b.topic # None /\ b.topics = <<>>
    BY <1>2, <2>1
  <2>3. route = b BY <1>1, <1>3, <1>4, <1>5, <2>1
  <2>4. L(b) = {} BY <2>2
  <2>5. b.agent \in config.agents BY <2>1 DEF Routes
  <2> HIDE DEF b, route
  <2> QED BY <1>3, <1>5, <2>2, <2>3, <2>4, <2>5 DEF b, route
<1>6. CASE exacts = {} /\ wides = {}
  <2>1. route = Unbound BY <1>1, <1>6
  <2> QED BY <1>3, <1>6, <2>1
<1>7. CASE exacts = {} /\ wides # {}
  <2> DEFINE b == bs[First(covering)]
  <2>1. covering = wides /\ own = {} BY <1>3, <1>7
  <2>2. First(covering) \in wides /\ b \in Routes(config.agents)
    BY <1>2, <1>7, <2>1, FindFirst
  <2>3. wide = b /\ b # Unbound /\ exact = Unbound BY <1>4, <1>7, <2>1, <2>2
  <2>4. b.chat = chat /\ b.topic = None BY <2>2
  <2> DEFINE Listing == [topic : Topics, agent : config.agents \cup {None, Blank},
                         mention : BOOLEAN \cup {None}]
  <2>5. b.topics \in Seq(Listing) /\ b.agent \in config.agents BY <2>2 DEF Routes
  <2> HIDE DEF b
  <2>6. CASE L(b) = {}
    <3>1. listed(b) = Unbound BY <2>6
    <3>2. route.chat = chat /\ route.topic = topic /\ route.kind = b.kind
          /\ route.agent = b.agent /\ route.mention = b.mention
      <4>1. CASE topic = None BY <1>1, <2>3, <2>4, <4>1
      <4>2. CASE topic # None
        <5>1. route = [b EXCEPT !.topic = topic] BY <1>1, <2>3, <3>1, <4>2
        <5> QED BY <2>2, <2>4, <5>1 DEF Routes
      <4> QED BY <4>1, <4>2
    <3> QED BY <1>7, <2>1, <2>5, <2>6, <3>2 DEF b
  <2>7. CASE L(b) # {}
    <3> DEFINE o == b.topics[First(L(b))]
    <3>1. First(L(b)) \in L(b) /\ o \in Listing BY <2>5, <2>7, FindFirst
    <3>2. o.topic = topic /\ topic # None BY <3>1, ConfigAssumption
    <3>3. listed(b) = o /\ o # Unbound BY <2>7, <3>1 DEF Unbound
    <3>4. route = [b EXCEPT !.topic = topic, !.agent = OrElse(o.agent, @),
                            !.mention = OrElse(o.mention, @), !.topics = <<>>]
      <4>1. listed(wide) = o BY <2>3, <3>3
      <4>2. topic # None /\ exact = Unbound /\ wide = b /\ b # Unbound /\ o # Unbound
        BY <2>3, <3>2, <3>3
      <4> HIDE DEF route, exact, wide, listed, o
      <4> QED BY <1>1, <4>1, <4>2, Zenon
    <3>5. o.agent \in config.agents \cup {None, Blank} BY <3>1
    <3> HIDE DEF o
    <3>6. /\ route.chat = chat /\ route.topic = topic /\ route.kind = b.kind
          /\ route.agent = OrElse(o.agent, b.agent) /\ route.mention = OrElse(o.mention, b.mention)
      BY <2>2, <2>4, <3>4 DEF Routes
    <3> QED BY <1>7, <2>1, <2>5, <2>7, <3>5, <3>6 DEF b, o, OrElse
  <2> QED BY <2>6, <2>7
<1> QED BY <1>5, <1>6, <1>7

LEMMA DiscordIsRouted == Loaded => DiscordRoutes
<1> SUFFICES ASSUME Loaded, NEW channel \in Channels, NEW guild \in Guilds \cup {None}
    PROVE
        LET bs == config.discord
            route == ResolveDiscordBinding(channel, bs, guild)
            own == {i \in DOMAIN bs : bs[i].channel = channel}
            wide == {i \in DOMAIN bs : bs[i].channel = None /\ bs[i].guild = guild}
            b == bs[First(IF own # {} THEN own ELSE wide)]
            listings == {k \in DOMAIN b.channels : b.channels[k].channel = channel}
            listed == b.channels[First(listings)]
        IN  IF own \cup wide = {} THEN route = Unbound
            ELSE /\ route.kind = b.kind
                 /\ route.agent = IF listings # {} /\ listed.agent # None
                                  THEN listed.agent ELSE b.agent
                 /\ route.mention = IF listings # {} /\ listed.mention # None
                                    THEN listed.mention ELSE b.mention
                 /\ route.agent \in config.agents \cup {Blank}
  BY DEF DiscordRoutes
<1> DEFINE bs == config.discord
           route == ResolveDiscordBinding(channel, bs, guild)
           own == {i \in DOMAIN bs : bs[i].channel = channel}
           wides == {i \in DOMAIN bs : bs[i].channel = None /\ bs[i].guild = guild}
           guilds == {i \in DOMAIN bs : bs[i].channel = None /\ guild # None /\ bs[i].guild = guild}
           exact == IF own = {} THEN Unbound ELSE bs[First(own)]
           wide == IF guilds = {} THEN Unbound ELSE bs[First(guilds)]
           L(w) == {k \in DOMAIN w.channels : w.channels[k].channel = channel}
           listed(w) == IF L(w) = {} THEN Unbound ELSE w.channels[First(L(w))]
<1>1. route = IF exact # Unbound THEN exact
              ELSE IF wide = Unbound THEN Unbound
              ELSE IF listed(wide) = Unbound THEN [wide EXCEPT !.channels = <<>>]
              ELSE [wide EXCEPT !.channel = channel, !.agent = OrElse(listed(wide).agent, @),
                                !.mention = OrElse(listed(wide).mention, @), !.channels = <<>>]
  BY DEF ResolveDiscordBinding, Find
<1>2. /\ None \notin config.agents /\ bs \in Seq(DiscordRoutesOf(config.agents))
      /\ \A i \in DOMAIN bs : bs[i].channels # <<>> => bs[i].channel = None
  BY DEF Loaded
<1>3. \A r \in DiscordRoutesOf(config.agents) : r # Unbound
  BY <1>2 DEF DiscordRoutesOf, Unbound
<1>4. wides = guilds
  <2>1. \A i \in DOMAIN bs : bs[i].guild # None
    <3> SUFFICES ASSUME NEW i \in DOMAIN bs PROVE bs[i].guild # None OBVIOUS
    <3>1. bs[i] \in DiscordRoutesOf(config.agents) BY <1>2, ElementOf
    <3> QED BY <3>1, ConfigAssumption DEF DiscordRoutesOf
  <2> QED BY <2>1
<1>5. CASE own # {}
  <2> DEFINE b == bs[First(own)]
  <2>1. First(own) \in own /\ b \in DiscordRoutesOf(config.agents) BY <1>2, <1>5, FindFirst
  <2>2. b.channel = channel /\ b.channel # None /\ b.channels = <<>>
    BY <1>2, <2>1, ConfigAssumption
  <2>3. route = b BY <1>1, <1>3, <1>5, <2>1
  <2>4. L(b) = {} BY <2>2
  <2>5. b.agent \in config.agents BY <2>1 DEF DiscordRoutesOf
  <2> HIDE DEF b, route
  <2> QED BY <1>5, <2>3, <2>4, <2>5 DEF b, route
<1>6. CASE own = {} /\ guilds = {}
  <2>1. route = Unbound BY <1>1, <1>6
  <2> QED BY <1>4, <1>6, <2>1
<1>7. CASE own = {} /\ guilds # {}
  <2> DEFINE b == bs[First(wides)]
  <2>1. First(wides) \in guilds /\ b \in DiscordRoutesOf(config.agents)
    BY <1>2, <1>4, <1>7, FindFirst
  <2>2. wide = b /\ b # Unbound /\ exact = Unbound BY <1>3, <1>4, <1>7, <2>1
  <2> DEFINE Listing == [channel : Channels, agent : config.agents \cup {None, Blank},
                         mention : BOOLEAN \cup {None}]
  <2>3. b.channels \in Seq(Listing) /\ b.agent \in config.agents BY <2>1 DEF DiscordRoutesOf
  <2> HIDE DEF b
  <2>4. CASE L(b) = {}
    <3>1. listed(b) = Unbound BY <2>4
    <3>2. route = [b EXCEPT !.channels = <<>>] BY <1>1, <2>2, <3>1
    <3>3. route.kind = b.kind /\ route.agent = b.agent /\ route.mention = b.mention
      BY <2>1, <3>2 DEF DiscordRoutesOf
    <3> QED BY <1>4, <1>7, <2>3, <2>4, <3>3 DEF b
  <2>5. CASE L(b) # {}
    <3> DEFINE o == b.channels[First(L(b))]
    <3>1. First(L(b)) \in L(b) /\ o \in Listing BY <2>3, <2>5, FindFirst
    <3>2. listed(b) = o /\ o # Unbound BY <2>5, <3>1 DEF Unbound
    <3>3. route = [b EXCEPT !.channel = channel, !.agent = OrElse(o.agent, @),
                            !.mention = OrElse(o.mention, @), !.channels = <<>>]
      <4>1. listed(wide) = o BY <2>2, <3>2
      <4>2. exact = Unbound /\ wide = b /\ b # Unbound /\ o # Unbound BY <2>2, <3>2
      <4> HIDE DEF route, exact, wide, listed, o
      <4> QED BY <1>1, <4>1, <4>2, Zenon
    <3>4. o.agent \in config.agents \cup {None, Blank} BY <3>1
    <3> HIDE DEF o
    <3>5. /\ route.kind = b.kind /\ route.agent = OrElse(o.agent, b.agent)
          /\ route.mention = OrElse(o.mention, b.mention)
      BY <2>1, <3>3 DEF DiscordRoutesOf
    <3> QED BY <1>4, <1>7, <2>3, <2>5, <3>4, <3>5 DEF b, o, OrElse
  <2> QED BY <2>4, <2>5
<1> QED BY <1>5, <1>6, <1>7

\* Whatever files the process read, if it started at all, every conversation
\* goes where the most specific binding that covers it says, to an agent that
\* is configured or to the empty name (loadConfig, resolveBinding,
\* resolveDiscordBinding).
THEOREM BindingsAreFollowed == Spec => []RoutesFollowTheBindings
<1>1. Init => Loaded BY StartedIsLoaded DEF Init
<1>2. Loaded => RoutesFollowTheBindings
  BY TelegramIsRouted, DiscordIsRouted DEF RoutesFollowTheBindings
<1> QED BY <1>1, <1>2, LoadedStays, PTL DEF Spec

-----------------------------------------------------------------------------
(* The attachments of Discord messages. *)

AgentNames == config.agents \cup {None, Blank}

Jobs == [pc : {"idle", "image", "audio", "done"}, key : Keys \cup {None}, agent : AgentNames,
         at : Nat, of : Nat, caption : BOOLEAN]

Entries == [msg : DMessages, agent : AgentNames, file : SUBSET (DMessages \X Nat), text : BOOLEAN]

Working(j) == j.pc \in {"image", "audio"}

IntakeType ==
    /\ job \in [DMessages -> Jobs]
    /\ queue \in [Keys -> Seq(Entries)]
    /\ \A d \in DMessages : Working(job[d]) => job[d].key \in Keys /\ job[d].at >= 1

\* What the handler of its message has left behind an entry.
Belongs(key, e) ==
    /\ job[e.msg].key = key /\ job[e.msg].pc # "idle"
    /\ Working(job[e.msg]) => job[e.msg].at > 1
    /\ \A f \in e.file : f[1] = e.msg /\ f[2] < job[e.msg].at

InOrder(key) ==
    \A i, k \in DOMAIN queue[key] :
        i < k /\ queue[key][i].msg = queue[key][k].msg =>
            /\ ~queue[key][k].text
            /\ \A f \in queue[key][i].file, g \in queue[key][k].file : f[2] < g[2]

Wanted(f) ==
    \/ \E d \in DMessages : f \in Opened(d, job[d])
    \/ \E key \in Keys : \E i \in DOMAIN queue[key] : f \in queue[key][i].file

IntakeInv ==
    /\ IntakeType
    /\ \A key \in Keys : InOrder(key) /\ \A i \in DOMAIN queue[key] : Belongs(key, queue[key][i])
    /\ \A f : f \in files <=> Wanted(f)

LEMMA EnqueuedLast ==
    ASSUME queue \in [Keys -> Seq(Entries)], NEW key \in Keys, NEW e \in Entries,
           queue' = [queue EXCEPT ![key] = Append(@, e)]
    PROVE  /\ queue' \in [Keys -> Seq(Entries)]
           /\ \A k \in Keys : \A i \in DOMAIN queue[k] :
                i \in DOMAIN queue'[k] /\ queue'[k][i] = queue[k][i]
           /\ \A k \in Keys : \A i \in DOMAIN queue'[k] :
                \/ i \in DOMAIN queue[k]
                \/ k = key /\ queue'[k][i] = e /\ \A h \in DOMAIN queue'[k] : h <= i
           /\ \E i \in DOMAIN queue'[key] : queue'[key][i] = e
<1>1. queue[key] \in Seq(Entries) OBVIOUS
<1>2. queue'[key] = Append(queue[key], e) /\ \A k \in Keys : k # key => queue'[k] = queue[k]
  OBVIOUS
<1> DEFINE n == Len(queue[key])
<1>3. /\ n \in Nat /\ DOMAIN queue[key] = 1..n /\ DOMAIN queue'[key] = 1..(n + 1)
      /\ queue'[key][n + 1] = e /\ \A i \in 1..n : queue'[key][i] = queue[key][i]
      /\ queue'[key] \in Seq(Entries)
  BY <1>1, <1>2
<1> HIDE DEF n
<1>4. queue' \in [Keys -> Seq(Entries)] BY <1>2, <1>3
<1>5. \A i \in 1..(n + 1) : i \in 1..n \/ i = n + 1 BY <1>3
<1>6. n + 1 \in 1..(n + 1) /\ \A i \in 1..n : i \in 1..(n + 1) BY <1>3
<1>7. \A h \in 1..(n + 1) : h <= n + 1 BY <1>3
<1>8. ASSUME NEW k \in Keys, NEW i \in DOMAIN queue[k]
      PROVE  i \in DOMAIN queue'[k] /\ queue'[k][i] = queue[k][i]
  BY <1>2, <1>3, <1>6, <1>8
<1>9. ASSUME NEW k \in Keys, NEW i \in DOMAIN queue'[k], i \notin DOMAIN queue[k]
      PROVE  k = key /\ queue'[k][i] = e /\ \A h \in DOMAIN queue'[k] : h <= i
  BY <1>2, <1>3, <1>5, <1>7, <1>9
<1> QED BY <1>3, <1>4, <1>6, <1>8, <1>9

\* What one more entry needs so that the queue stays in order.
LEMMA EnqueuedInOrder ==
    ASSUME IntakeInv, NEW key \in Keys, NEW e \in Entries,
           queue' = [queue EXCEPT ![key] = Append(@, e)],
           \A i \in DOMAIN queue[key] : queue[key][i].msg = e.msg =>
                ~e.text /\ \A f \in queue[key][i].file, g \in e.file : f[2] < g[2],
           Belongs(key, e)',
           \A k \in Keys : \A i \in DOMAIN queue[k] : Belongs(k, queue[k][i]) =>
                \A o : o = queue[k][i] => Belongs(k, o)'
    PROVE  \A k \in Keys : InOrder(k)' /\ \A i \in DOMAIN queue'[k] : Belongs(k, queue[k][i])'
<1> SUFFICES ASSUME NEW k \in Keys
             PROVE  InOrder(k)' /\ \A i \in DOMAIN queue'[k] : Belongs(k, queue[k][i])'
  OBVIOUS
<1>1. queue \in [Keys -> Seq(Entries)] BY DEF IntakeInv, IntakeType
<1>2. /\ \A i \in DOMAIN queue[k] : i \in DOMAIN queue'[k] /\ queue'[k][i] = queue[k][i]
      /\ \A i \in DOMAIN queue'[k] :
            \/ i \in DOMAIN queue[k]
            \/ k = key /\ queue'[k][i] = e /\ \A h \in DOMAIN queue'[k] : h <= i
      /\ DOMAIN queue'[k] \subseteq Nat
  <2>1. queue' \in [Keys -> Seq(Entries)] BY <1>1, EnqueuedLast
  <2>2. DOMAIN queue'[k] \subseteq Nat BY <2>1
  <2> QED BY <1>1, <2>2, EnqueuedLast
<1>3. ASSUME NEW i \in DOMAIN queue'[k] PROVE Belongs(k, queue[k][i])'
  <2>1. PICK o : o = queue'[k][i] OBVIOUS
  <2>2. Belongs(k, o)' BY <1>2, <2>1 DEF IntakeInv
  <2> QED BY <2>1, <2>2 DEF Belongs
<1>4. InOrder(k)'
  <2> SUFFICES ASSUME NEW i \in DOMAIN queue'[k], NEW h \in DOMAIN queue'[k], i < h,
                      queue'[k][i].msg = queue'[k][h].msg
               PROVE  /\ ~queue'[k][h].text
                      /\ \A f \in queue'[k][i].file, g \in queue'[k][h].file : f[2] < g[2]
    BY DEF InOrder
  <2>1. i \in DOMAIN queue[k]
    <3>1. i \in Nat /\ h \in Nat /\ ~(h <= i) BY <1>2
    <3> QED BY <1>2, <3>1
  <2>2. CASE h \in DOMAIN queue[k] BY <1>2, <2>1, <2>2 DEF IntakeInv, InOrder
  <2>3. CASE k = key /\ queue'[k][h] = e BY <1>2, <2>1, <2>3
  <2> QED BY <1>2, <2>2, <2>3
<1> QED BY <1>3, <1>4

\* Entries stay where they belong while the handler of message d goes on.
LEMMA HandlerGoesOn ==
    ASSUME IntakeInv, NEW d \in DMessages, NEW j \in Jobs, job' = [job EXCEPT ![d] = j],
           \/ job[d].pc = "idle"
           \/ /\ Working(job[d]) /\ j.key = job[d].key /\ j.at = job[d].at + 1
              /\ j.pc \in {job[d].pc, "done"}
    PROVE  \A k \in Keys : \A i \in DOMAIN queue[k] : Belongs(k, queue[k][i]) =>
                \A o : o = queue[k][i] => Belongs(k, o)'
<1> SUFFICES ASSUME NEW k \in Keys, NEW i \in DOMAIN queue[k], Belongs(k, queue[k][i]),
                    NEW o, o = queue[k][i]
             PROVE  Belongs(k, o)'
  OBVIOUS
<1>1. queue \in [Keys -> Seq(Entries)] /\ job \in [DMessages -> Jobs]
  BY DEF IntakeInv, IntakeType
<1>2. o \in Entries BY <1>1, ElementOf
<1>3. Belongs(k, o) OBVIOUS
<1>4. \A f \in o.file : f[2] \in Nat BY <1>2 DEF Entries
<1>5. CASE o.msg # d
  <2>1. job'[o.msg] = job[o.msg] BY <1>1, <1>2, <1>5 DEF Entries
  <2> QED BY <1>3, <2>1 DEF Belongs
<1>6. CASE o.msg = d
  <2>1. job[d] \in Jobs /\ job[d].pc # "idle" /\ job'[d] = j BY <1>1, <1>3, <1>6 DEF Belongs
  <2>2. /\ job[d].at \in Nat /\ job[d].at >= 1 /\ j.key = job[d].key /\ j.at = job[d].at + 1
        /\ j.pc # "idle"
    BY <2>1 DEF Jobs, IntakeInv, IntakeType, Working
  <2> QED BY <1>3, <1>4, <1>6, <2>1, <2>2 DEF Belongs
<1> QED BY <1>5, <1>6

Stored(f) == \E key \in Keys : \E i \in DOMAIN queue[key] : f \in queue[key][i].file

\* A file that the handler of d had open is deleted or goes to an entry.
LEMMA FilesFollow ==
    ASSUME IntakeInv, NEW d \in DMessages, NEW j, job' = [job EXCEPT ![d] = j],
           NEW R, NEW F, R \cup F = Opened(d, job[d]), R \cap F = {},
           files' = (files \ R) \cup Opened(d, j),
           \A f : Stored(f)' <=> Stored(f) \/ f \in F
    PROVE  \A f : f \in files' <=> Wanted(f)'
<1> SUFFICES ASSUME NEW f PROVE f \in files' <=> Wanted(f)'
  OBVIOUS
<1>1. queue \in [Keys -> Seq(Entries)] /\ job \in [DMessages -> Jobs]
  BY DEF IntakeInv, IntakeType
<1>2. job'[d] = j /\ \A c \in DMessages : c # d => job'[c] = job[c] BY <1>1
<1>3. ASSUME Stored(f) PROVE f \notin Opened(d, job[d])
  <2>0. PICK key \in Keys : \E i \in DOMAIN queue[key] : f \in queue[key][i].file BY <1>3 DEF Stored
  <2>1. PICK i \in DOMAIN queue[key] : f \in queue[key][i].file BY <2>0
  <2>2. PICK o : o = queue[key][i] OBVIOUS
  <2>3. o \in Entries BY <1>1, <2>2, ElementOf
  <2>4. f[1] = o.msg /\ f[2] < job[o.msg].at BY <2>1, <2>2 DEF IntakeInv, Belongs
  <2>5. f # <<d, job[d].at>>
    <3>1. job[d] \in Jobs BY <1>1
    <3>2. job[d].at \in Nat BY <3>1 DEF Jobs
    <3> QED BY <2>4, <3>2
  <2> QED BY <2>5 DEF Opened
<1>4. ASSUME NEW c \in DMessages, c # d, f \in Opened(c, job[c])
      PROVE  f \notin Opened(d, job[d]) /\ f \in Opened(c, job'[c])
  <2>1. f = <<c, job[c].at>> BY <1>4 DEF Opened
  <2>2. f # <<d, job[d].at>> BY <1>4, <2>1
  <2> QED BY <1>2, <1>4, <2>2 DEF Opened
<1>5. f \in files <=> Stored(f) \/ \E c \in DMessages : f \in Opened(c, job[c])
  BY DEF IntakeInv, Wanted, Stored
<1>6. Wanted(f)' <=> Stored(f)' \/ \E c \in DMessages : f \in Opened(c, job'[c])
  BY DEF Wanted, Stored, Opened
<1>7. (\E c \in DMessages : f \in Opened(c, job'[c]))
        <=> f \in Opened(d, j) \/ \E c \in DMessages : c # d /\ f \in Opened(c, job[c])
  BY <1>2
<1> HIDE DEF Stored, Opened
<1>8. f \in R \cup F <=> f \in Opened(d, job[d]) OBVIOUS
<1>9. ~(f \in R /\ f \in F) OBVIOUS
<1>10. f \in files' <=> (f \in files /\ f \notin R) \/ f \in Opened(d, j) OBVIOUS
<1>11. Stored(f)' <=> Stored(f) \/ f \in F OBVIOUS
<1> QED BY <1>3, <1>4, <1>5, <1>6, <1>7, <1>8, <1>9, <1>10, <1>11

\* A step of the handler of message d, with what it hands to the queue.
LEMMA HandlerStep ==
    ASSUME IntakeInv, config' = config, NEW d \in DMessages,
           NEW j \in Jobs, job' = [job EXCEPT ![d] = j],
           \/ job[d].pc = "idle"
           \/ /\ Working(job[d]) /\ j.key = job[d].key /\ j.at = job[d].at + 1
              /\ j.pc \in {job[d].pc, "done"},
           Working(j) => j.key \in Keys /\ j.at >= 1,
           NEW R, NEW F, R \cup F = Opened(d, job[d]), R \cap F = {},
           files' = (files \ R) \cup Opened(d, j),
           \/ UNCHANGED queue /\ F = {}
           \/ \E e \in Entries :
                /\ e.msg = d /\ e.file = F /\ (Working(job[d]) /\ e.text => job[d].at = 1)
                /\ j.key \in Keys /\ j.pc # "idle" /\ (Working(j) => j.at > 1)
                /\ queue' = [queue EXCEPT ![j.key] = Append(@, e)]
    PROVE  IntakeInv'
<1>1. queue \in [Keys -> Seq(Entries)] /\ job \in [DMessages -> Jobs] /\ job[d] \in Jobs
  BY DEF IntakeInv, IntakeType
<1>2. Entries' = Entries /\ Jobs' = Jobs BY DEF Entries, Jobs, AgentNames
<1>3. /\ job' \in [DMessages -> Jobs]
      /\ \A c \in DMessages : Working(job'[c]) => job'[c].key \in Keys /\ job'[c].at >= 1
  BY <1>1 DEF IntakeInv, IntakeType
<1>4. \A k \in Keys : \A i \in DOMAIN queue[k] : Belongs(k, queue[k][i]) =>
            \A o : o = queue[k][i] => Belongs(k, o)'
  BY HandlerGoesOn
<1>5. CASE UNCHANGED queue /\ F = {}
  <2>1. IntakeType' BY <1>1, <1>2, <1>3, <1>5 DEF IntakeType, Working
  <2>2. ASSUME NEW k \in Keys
        PROVE  InOrder(k)' /\ \A i \in DOMAIN queue'[k] : Belongs(k, queue[k][i])'
    <3>1. ASSUME NEW i \in DOMAIN queue[k] PROVE Belongs(k, queue[k][i])'
      <4>1. PICK o : o = queue[k][i] OBVIOUS
      <4>2. Belongs(k, o)' BY <1>4, <4>1 DEF IntakeInv
      <4> QED BY <1>5, <4>1, <4>2 DEF Belongs
    <3> QED BY <1>5, <3>1 DEF IntakeInv, InOrder
  <2>3. \A f : Stored(f)' <=> Stored(f) \/ f \in F BY <1>5 DEF Stored
  <2>4. \A f : f \in files' <=> Wanted(f)' BY <2>3, FilesFollow
  <2> QED BY <2>1, <2>2, <2>4 DEF IntakeInv
<1>6. ASSUME NEW e \in Entries,
             e.msg = d, e.file = F, Working(job[d]) /\ e.text => job[d].at = 1,
             j.key \in Keys, j.pc # "idle", Working(j) => j.at > 1,
             queue' = [queue EXCEPT ![j.key] = Append(@, e)]
      PROVE  IntakeInv'
  <2>1. IntakeType' BY <1>1, <1>2, <1>3, <1>6, EnqueuedLast DEF IntakeType, Working
  <2>2. F \subseteq {<<d, job[d].at>>} /\ (F # {} => Working(job[d]))
    BY DEF Opened, Working
  <2>3. Belongs(j.key, e)'
    <3>1. job'[e.msg] = j BY <1>1, <1>6
    <3>2. \A f \in e.file : f[1] = e.msg /\ f[2] < j.at
      <4> SUFFICES ASSUME NEW f \in e.file PROVE f[1] = e.msg /\ f[2] < j.at OBVIOUS
      <4>1. f = <<d, job[d].at>> /\ Working(job[d]) BY <1>6, <2>2
      <4>2. job[d].at \in Nat /\ j.at = job[d].at + 1 BY <1>1, <4>1 DEF Jobs, Working
      <4> QED BY <1>6, <4>1, <4>2
    <3> QED BY <1>6, <3>1, <3>2 DEF Belongs
  <2>4. ASSUME NEW i \in DOMAIN queue[j.key], queue[j.key][i].msg = e.msg
        PROVE  ~e.text /\ \A f \in queue[j.key][i].file, g \in e.file : f[2] < g[2]
    <3>1. PICK o : o = queue[j.key][i] OBVIOUS
    <3>2. Belongs(j.key, o) BY <1>6, <3>1 DEF IntakeInv
    <3>3. job[d].pc # "idle" BY <1>6, <2>4, <3>1, <3>2 DEF Belongs
    <3>4. Working(job[d]) /\ job[d].at > 1 /\ job[d].at \in Nat
      BY <1>1, <1>6, <2>4, <3>1, <3>2, <3>3 DEF Belongs, Jobs
    <3>5. ~e.text BY <1>6, <3>4
    <3>6. \A f \in o.file : f[2] < job[d].at BY <1>6, <2>4, <3>1, <3>2 DEF Belongs
    <3>7. \A g \in e.file : g[2] = job[d].at BY <1>6, <2>2
    <3> QED BY <3>1, <3>5, <3>6, <3>7
  <2>5. \A k \in Keys : InOrder(k)' /\ \A i \in DOMAIN queue'[k] : Belongs(k, queue[k][i])'
    BY <1>4, <1>6, <2>3, <2>4, EnqueuedInOrder
  <2>6. \A f : Stored(f)' <=> Stored(f) \/ f \in F
    <3>1. /\ \A k \in Keys : \A i \in DOMAIN queue[k] :
                i \in DOMAIN queue'[k] /\ queue'[k][i] = queue[k][i]
          /\ \A k \in Keys : \A i \in DOMAIN queue'[k] :
                i \in DOMAIN queue[k] \/ queue'[k][i] = e
          /\ \E i \in DOMAIN queue'[j.key] : queue'[j.key][i] = e
      BY <1>1, <1>6, EnqueuedLast
    <3>2. ASSUME NEW f, Stored(f)' PROVE Stored(f) \/ f \in F
      <4>0. PICK k \in Keys : \E i \in DOMAIN queue'[k] : f \in queue'[k][i].file
        BY <3>2 DEF Stored
      <4>1. PICK i \in DOMAIN queue'[k] : f \in queue'[k][i].file BY <4>0
      <4> QED BY <1>6, <3>1, <4>1 DEF Stored
    <3>3. ASSUME NEW f, Stored(f) PROVE Stored(f)'
      <4>0. PICK k \in Keys : \E i \in DOMAIN queue[k] : f \in queue[k][i].file
        BY <3>3 DEF Stored
      <4>1. PICK i \in DOMAIN queue[k] : f \in queue[k][i].file BY <4>0
      <4>2. i \in DOMAIN queue'[k] /\ f \in queue'[k][i].file BY <3>1, <4>1
      <4> QED BY <4>2 DEF Stored
    <3>4. ASSUME NEW f \in F PROVE Stored(f)'
      <4>1. PICK i \in DOMAIN queue'[j.key] : queue'[j.key][i] = e BY <3>1
      <4> QED BY <1>6, <4>1 DEF Stored
    <3> QED BY <3>2, <3>3, <3>4
  <2>7. \A f : f \in files' <=> Wanted(f)' BY <2>6, FilesFollow
  <2> QED BY <2>1, <2>5, <2>7 DEF IntakeInv
<1> QED BY <1>5, <1>6

LEMMA JobRecord ==
    \A pc \in {"idle", "image", "audio", "done"}, key \in Keys \cup {None}, agent \in AgentNames,
       at, of \in Nat, caption \in BOOLEAN :
        [pc |-> pc, key |-> key, agent |-> agent, at |-> at, of |-> of, caption |-> caption] \in Jobs
BY DEF Jobs

LEMMA CreateStep ==
    ASSUME Loaded, IntakeInv, NEW d \in DMessages, NEW channel \in Channels,
           NEW thread \in Threads \cup {None}, MessageCreate(d, channel, thread)
    PROVE  IntakeInv'
<1> DEFINE binding == ResolveDiscordBinding(channel, config.discord, GuildOf[channel])
           key == DiscordSessionKey(channel, thread)
           begun == [Idle EXCEPT !.key = key, !.agent = binding.agent, !.at = 1]
<1>1. job[d].pc = "idle" /\ config' = config BY DEF MessageCreate
<1> DEFINE E == {}
<1>2. E \cup E = Opened(d, job[d]) /\ E \cap E = {} BY <1>1 DEF Opened
<1>3. key \in Keys BY DEF DiscordSessionKey, Keys
<1>4. binding # Unbound => binding.agent \in AgentNames
  <2>1. GuildOf[channel] \in Guilds \cup {None} BY DiscordAssumption
  <2> QED BY <2>1, DiscordIsRouted DEF DiscordRoutes, AgentNames
<1>5. \A S : S \ E = S /\ E = {} OBVIOUS
<1> HIDE DEF binding, key, E
<1>6. ASSUME NEW j, j = [Idle EXCEPT !.pc = "done"], job' = [job EXCEPT ![d] = j],
             UNCHANGED <<files, queue>>
      PROVE  IntakeInv'
  <2>1. j \in Jobs /\ ~Working(j) /\ Opened(d, j) = {}
    BY <1>6 DEF Idle, Jobs, AgentNames, Working, Opened
  <2>2. files' = (files \ E) \cup Opened(d, j) BY <1>5, <1>6, <2>1
  <2>3. UNCHANGED queue /\ E = {} BY <1>5, <1>6
  <2> QED BY <1>1, <1>2, <1>6, <2>1, <2>2, <2>3, HandlerStep
<1>7. ASSUME binding # Unbound, NEW kind \in {"image", "audio"}, NEW n \in 1..MaxFiles,
             NEW text \in BOOLEAN, NEW j,
             j = [begun EXCEPT !.pc = kind, !.of = n, !.caption = text /\ kind = "image"],
             job' = [job EXCEPT ![d] = j], files' = files \cup Opened(d, j), UNCHANGED queue
      PROVE  IntakeInv'
  <2>1. PICK t \in BOOLEAN : t = (text /\ kind = "image") OBVIOUS
  <2>2. n \in Nat /\ 1 \in Nat /\ kind \in {"idle", "image", "audio", "done"}
        /\ key \in Keys \cup {None} /\ binding.agent \in AgentNames
    BY <1>3, <1>4, <1>7, DiscordAssumption
  <2>3. j = [pc |-> kind, key |-> key, agent |-> binding.agent, at |-> 1, of |-> n, caption |-> t]
    BY <1>7, <2>1 DEF Idle
  <2>4. j \in Jobs BY <2>2, <2>3, JobRecord, Zenon
  <2>5. j.key \in Keys /\ j.at >= 1 BY <1>3, <2>3
  <2>6. files' = (files \ E) \cup Opened(d, j) BY <1>5, <1>7
  <2>7. UNCHANGED queue /\ E = {} BY <1>5, <1>7
  <2> QED BY <1>1, <1>2, <1>7, <2>4, <2>5, <2>6, <2>7, HandlerStep
<1>8. ASSUME binding # Unbound, NEW j, j = [begun EXCEPT !.pc = "done", !.caption = TRUE],
             job' = [job EXCEPT ![d] = j], Enqueue(d, j, {}), UNCHANGED files
      PROVE  IntakeInv'
  <2>1. j = [pc |-> "done", key |-> key, agent |-> binding.agent, at |-> 1, of |-> 0,
             caption |-> TRUE]
    BY <1>8 DEF Idle
  <2>2. /\ 0 \in Nat /\ 1 \in Nat /\ "done" \in {"idle", "image", "audio", "done"}
        /\ TRUE \in BOOLEAN
        /\ key \in Keys \cup {None} /\ binding.agent \in AgentNames
    BY <1>3, <1>4, <1>8
  <2>3. j \in Jobs BY <2>1, <2>2, JobRecord, Zenon
  <2>4. j.key \in Keys /\ j.pc = "done" /\ j.agent \in AgentNames BY <1>3, <2>1, <2>2
  <2>5. ~Working(j) /\ Opened(d, j) = {} BY <2>4 DEF Working, Opened
  <2>6. PICK e : e = [msg |-> d, agent |-> j.agent, file |-> E, text |-> j.caption /\ j.at = 1]
    OBVIOUS
  <2>7. e \in Entries /\ e.msg = d /\ e.file = E
    <3>1. PICK t \in BOOLEAN : t = (j.caption /\ j.at = 1) OBVIOUS
    <3>2. e = [msg |-> d, agent |-> j.agent, file |-> E, text |-> t] BY <2>6, <3>1
    <3>3. E \in SUBSET (DMessages \X Nat) BY <1>5
    <3> QED BY <2>4, <3>2, <3>3 DEF Entries
  <2>8. queue' = [queue EXCEPT ![j.key] = Append(@, e)] BY <1>5, <1>8, <2>6 DEF Enqueue
  <2>9. files' = (files \ E) \cup Opened(d, j) BY <1>5, <1>8, <2>5
  <2>10. ~Working(job[d]) /\ j.pc # "idle" BY <1>1, <2>4 DEF Working
  <2> QED BY <1>1, <1>2, <1>8, <2>3, <2>4, <2>5, <2>7, <2>8, <2>9, <2>10, HandlerStep
<1> QED BY <1>6, <1>7, <1>8 DEF MessageCreate, binding, key

\* The handler of d is through with an attachment, one way or the other.
LEMMA AttachmentStep ==
    ASSUME IntakeInv, NEW d \in DMessages,
           ImageDownloaded(d) \/ ImageFails(d) \/ AudioTranscribed(d) \/ AudioFails(d)
    PROVE  IntakeInv'
<1> DEFINE x == {<<d, job[d].at>>}
<1>1. config' = config /\ Working(job[d])
  BY DEF ImageDownloaded, ImageFails, AudioTranscribed, AudioFails, Working
<1>2. job[d] \in Jobs /\ job[d].key \in Keys /\ job[d].at \in Nat /\ job[d].at >= 1
  BY <1>1 DEF IntakeInv, IntakeType, Jobs
<1>3. Opened(d, job[d]) = x BY <1>1 DEF Opened, Working
<1>4. PICK j : j = Takes(job[d], job[d].at + 1) OBVIOUS
<1>5. /\ j \in Jobs /\ j.key = job[d].key /\ j.at = job[d].at + 1
      /\ j.pc \in {job[d].pc, "done"}
  <2>1. PICK o : o = job[d] OBVIOUS
  <2>2. o \in Jobs /\ j = Takes(o, o.at + 1) /\ o.at + 1 \in Nat BY <1>2, <1>4, <2>1
  <2>3. j \in Jobs /\ j.key = o.key /\ j.at = o.at + 1 /\ j.pc \in {o.pc, "done"}
    <3>1. CASE j = [o EXCEPT !.at = o.at + 1] BY <2>2, <3>1 DEF Jobs
    <3>2. CASE j = [o EXCEPT !.at = o.at + 1, !.pc = "done"] BY <2>2, <3>2 DEF Jobs
    <3> QED BY <2>2, <3>1, <3>2 DEF Takes
  <2> QED BY <2>1, <2>3
<1>6. j.at >= 1 /\ j.at > 1 /\ j.pc # "idle" /\ j.key \in Keys BY <1>1, <1>2, <1>5 DEF Working
<1>7. CASE ImageFails(d) \/ AudioFails(d)
  <2>1. /\ job' = [job EXCEPT ![d] = j] /\ files' = (files \ x) \cup Opened(d, j)
        /\ UNCHANGED queue
    BY <1>4, <1>7 DEF ImageFails, AudioFails, Advances
  <2>2. x \cup {} = x /\ x \cap {} = {} OBVIOUS
  <2> HIDE DEF x
  <2> QED BY <1>1, <1>3, <1>5, <1>6, <2>1, <2>2, HandlerStep
<1>8. ASSUME NEW F \in SUBSET x, Enqueue(d, job[d], F), Advances(d, x \ F)
      PROVE  IntakeInv'
  <2>1. job' = [job EXCEPT ![d] = j] /\ files' = (files \ (x \ F)) \cup Opened(d, j)
    BY <1>4, <1>8 DEF Advances
  <2>2. PICK e : e = [msg |-> d, agent |-> job[d].agent, file |-> F,
                      text |-> job[d].caption /\ job[d].at = 1]
    OBVIOUS
  <2>3. e \in Entries /\ e.msg = d /\ e.file = F /\ (e.text => job[d].at = 1)
    <3>1. PICK t \in BOOLEAN : t = (job[d].caption /\ job[d].at = 1) OBVIOUS
    <3>2. e = [msg |-> d, agent |-> job[d].agent, file |-> F, text |-> t] BY <2>2, <3>1
    <3>3. F \in SUBSET (DMessages \X Nat) BY <1>2
    <3> QED BY <1>2, <3>1, <3>2, <3>3 DEF Entries, Jobs
  <2>4. queue' = [queue EXCEPT ![j.key] = Append(@, e)] BY <1>5, <1>8, <2>2 DEF Enqueue
  <2>5. (x \ F) \cup F = x /\ (x \ F) \cap F = {} OBVIOUS
  <2> HIDE DEF x
  <2> QED BY <1>1, <1>3, <1>5, <1>6, <2>1, <2>3, <2>4, <2>5, HandlerStep
<1>9. CASE ImageDownloaded(d)
  <2>1. x \ x = {} OBVIOUS
  <2> QED BY <1>8, <1>9, <2>1 DEF ImageDownloaded
<1>10. CASE AudioTranscribed(d)
  <2>1. x \ {} = x OBVIOUS
  <2> QED BY <1>8, <1>10, <2>1 DEF AudioTranscribed
<1> QED BY <1>7, <1>9, <1>10

\* The queue lets go of a conversation: nobody else has a claim to its files.
LEMMA EmptiesStep ==
    ASSUME IntakeInv, NEW key \in Keys, Empties(key)
    PROVE  IntakeInv'
<1>1. queue \in [Keys -> Seq(Entries)] /\ job \in [DMessages -> Jobs]
  BY DEF IntakeInv, IntakeType
<1>2. /\ UNCHANGED <<config, job>> /\ queue' = [queue EXCEPT ![key] = <<>>]
      /\ files' = files \ UNION {e.file : e \in Held(key)}
  BY DEF Empties
<1>3. /\ queue'[key] = <<>> /\ DOMAIN queue'[key] = {}
      /\ \A k \in Keys : k # key => queue'[k] = queue[k]
  BY <1>1, <1>2
<1>4. IntakeType'
  <2>1. Entries' = Entries /\ Jobs' = Jobs BY <1>2 DEF Entries, Jobs, AgentNames
  <2>2. queue' \in [Keys -> Seq(Entries)] BY <1>1, <1>2
  <2> QED BY <1>2, <2>1, <2>2 DEF IntakeInv, IntakeType, Working
<1>5. ASSUME NEW k \in Keys
      PROVE  InOrder(k)' /\ \A i \in DOMAIN queue'[k] : Belongs(k, queue[k][i])'
  <2>1. CASE k = key BY <1>3, <2>1 DEF InOrder
  <2>2. CASE k # key BY <1>2, <1>3, <2>2 DEF IntakeInv, InOrder, Belongs, Working
  <2> QED BY <2>1, <2>2
<1>6. ASSUME NEW f PROVE f \in files' <=> Wanted(f)'
  <2>1. f \in files' <=> f \in files /\ ~ \E i \in DOMAIN queue[key] : f \in queue[key][i].file
    BY <1>2 DEF Held
  <2>2. f \in files <=> Wanted(f) BY DEF IntakeInv
  <2>3. ASSUME NEW i \in DOMAIN queue[key], f \in queue[key][i].file PROVE ~Wanted(f)'
    <3>1. PICK o : o = queue[key][i] OBVIOUS
    <3>2. o \in Entries /\ Belongs(key, o) BY <1>1, <3>1, ElementOf DEF IntakeInv
    <3>3. o.msg \in DMessages /\ f[1] = o.msg /\ f[2] < job[o.msg].at /\ job[o.msg].key = key
      BY <2>3, <3>1, <3>2 DEF Belongs, Entries
    <3>4. job[o.msg].at \in Nat
      <4>1. job[o.msg] \in Jobs BY <1>1, <3>3
      <4> QED BY <4>1 DEF Jobs
    <3>5. ASSUME NEW d \in DMessages PROVE f \notin Opened(d, job[d])
      <4>1. CASE d = o.msg BY <3>3, <3>4, <4>1 DEF Opened
      <4>2. CASE d # o.msg BY <3>3, <4>2 DEF Opened
      <4> QED BY <4>1, <4>2
    <3>6. ASSUME NEW k \in Keys, k # key, NEW h \in DOMAIN queue[k] PROVE f \notin queue[k][h].file
      <4>1. PICK p : p = queue[k][h] OBVIOUS
      <4>2. Belongs(k, p) BY <4>1 DEF IntakeInv
      <4> QED BY <3>3, <3>6, <4>1, <4>2 DEF Belongs
    <3> QED BY <1>2, <1>3, <3>5, <3>6 DEF Wanted, Opened
  <2>4. ASSUME ~ \E i \in DOMAIN queue[key] : f \in queue[key][i].file PROVE Wanted(f)' <=> Wanted(f)
    BY <1>2, <1>3, <2>4 DEF Wanted, Opened
  <2> QED BY <2>1, <2>2, <2>3, <2>4
<1> QED BY <1>4, <1>5, <1>6 DEF IntakeInv

LEMMA IntakeStep == Loaded /\ IntakeInv /\ [Next]_vars => IntakeInv'
<1> SUFFICES ASSUME Loaded, IntakeInv, [Next]_vars PROVE IntakeInv' OBVIOUS
<1>1. CASE UNCHANGED discord /\ config' = config
  <2> USE <1>1 DEF discord
  <2>1. Entries' = Entries /\ Jobs' = Jobs BY DEF Entries, Jobs, AgentNames
  <2>2. IntakeType' BY <2>1 DEF IntakeInv, IntakeType, Working
  <2>3. \A key \in Keys : InOrder(key)' /\ \A i \in DOMAIN queue'[key] : Belongs(key, queue[key][i])'
    BY DEF IntakeInv, InOrder, Belongs, Working
  <2>4. \A f : f \in files' <=> Wanted(f)' BY DEF IntakeInv, Wanted, Opened
  <2> QED BY <2>2, <2>3, <2>4 DEF IntakeInv
<1>2. CASE Telegram \/ UNCHANGED vars BY <1>1, <1>2, ConfigStays DEF Telegram, vars
<1>3. CASE Discord
  <2>1. ASSUME NEW channel \in Channels, NEW thread \in Threads \cup {None},
               Command(channel, thread) \/ Consume(DiscordSessionKey(channel, thread))
        PROVE  IntakeInv'
    <3>1. DiscordSessionKey(channel, thread) \in Keys BY DEF DiscordSessionKey, Keys
    <3> QED BY <2>1, <3>1, EmptiesStep DEF Command, Consume
  <2> QED BY <1>3, <2>1, CreateStep, AttachmentStep DEF Discord, DiscordNext
<1> QED BY <1>2, <1>3 DEF Next

\* For any number of messages and attachments, however downloads, failures,
\* commands and the queue interleave: the temporary files are exactly those a
\* handler works on or an entry needs, and the parts of a message wait in its
\* conversation, in their order (createDiscordBot, cleanupTempFile).
THEOREM FilesAreSettled == Spec => []AttachmentsAreSettled
<1>1. Init => Loaded /\ IntakeInv
  <2> SUFFICES ASSUME Init PROVE Loaded /\ IntakeInv OBVIOUS
  <2> USE DEF Init, DiscordInit, Idle
  <2>1. Loaded BY StartedIsLoaded
  <2>2. Idle \in Jobs BY DEF Jobs, AgentNames
  <2>3. IntakeType BY <2>2 DEF IntakeType, Working
  <2>4. \A key \in Keys : queue[key] = <<>> /\ DOMAIN queue[key] = {} OBVIOUS
  <2>5. \A f : ~Wanted(f) BY <2>4 DEF Wanted, Opened
  <2>6. files = {} OBVIOUS
  <2> QED BY <2>1, <2>3, <2>4, <2>5, <2>6 DEF IntakeInv, InOrder
<1>2. IntakeInv => AttachmentsAreSettled
  <2> SUFFICES ASSUME IntakeInv PROVE AttachmentsAreSettled OBVIOUS
  <2>1. files = UNION ({Opened(d, job[d]) : d \in DMessages}
                        \cup {e.file : e \in UNION {Held(key) : key \in Keys}})
    <3>1. \A f : f \in UNION {e.file : e \in UNION {Held(key) : key \in Keys}} <=> Stored(f)
      BY DEF Held, Stored
    <3>2. \A f : f \in UNION {Opened(d, job[d]) : d \in DMessages}
                    <=> \E d \in DMessages : f \in Opened(d, job[d])
      BY Zenon
    <3>3. \A f : f \in files <=> Stored(f) \/ \E d \in DMessages : f \in Opened(d, job[d])
      BY DEF IntakeInv, Wanted, Stored
    <3> HIDE DEF Stored
    <3> QED BY <3>1, <3>2, <3>3, Zenon
  <2>2. \A key \in Keys : \A i \in DOMAIN queue[key] : job[queue[key][i].msg].key = key
    BY DEF IntakeInv, Belongs
  <2> QED BY <2>1, <2>2 DEF IntakeInv, InOrder, AttachmentsAreSettled
<1> QED BY <1>1, <1>2, IntakeStep, LoadedStays, PTL DEF Spec

=============================================================================
