---------------------------- MODULE PresenceProofs ----------------------------
(***************************************************************************)
(* Who can be found, for all agents, timeouts and lengths of the channel:  *)
(* the dead never come back to life, and no mark hides an agent that was   *)
(* heard of unless the news of it was dropped.                             *)
(***************************************************************************)
EXTENDS Presence, FiniteSetTheorems, SequenceTheorems, WellFoundedInduction,
        TLAPS

Event == [kind : {"AgentTimedOut", "AgentRecovered"}, agent : Agents]

PingsOK ==
  /\ IsFiniteSet(DOMAIN pings)
  /\ DOMAIN pings \subseteq Agents
  /\ pings = [a \in DOMAIN pings |-> pings[a]]
  /\ \A a \in DOMAIN pings : pings[a] \in PingInfo

StreamOK == events \in Seq(Event) /\ marks \in Seq(Event) /\ marking \subseteq Agents

(* A mark that hides `a` is the truth, or followed by the news that shows  *)
(* it again, or that news was dropped.  What is still to be published is   *)
(* the truth: the heartbeat service takes no command before.               *)
Followed(a) ==
  /\ \A i \in DOMAIN marks : marks[i] = AgentTimedOut(a) =>
       \/ HasTimedOut(a)
       \/ \E j \in DOMAIN marks : i < j /\ marks[j] = AgentRecovered(a)
       \/ \E j \in DOMAIN events : events[j] = AgentRecovered(a)
       \/ a \in missed
  /\ \A i \in DOMAIN events : events[i] = AgentTimedOut(a) => HasTimedOut(a)

NewsOK == PingsOK /\ StreamOK /\ \A a \in Agents : Followed(a)

(* What AliveAreRegistered needs of the records.                           *)
RecordsOK ==
  \A a \in DOMAIN agents :
    agents[a] = [lifecycle |-> agents[a].lifecycle,
                 capabilities |-> agents[a].capabilities]

AliveOK == RecordsOK /\ AliveAreRegistered

-----------------------------------------------------------------------------

LEMMA EventsDiffer ==
  ASSUME NEW a, NEW b
  PROVE  /\ AgentTimedOut(a) # AgentRecovered(b)
         /\ AgentTimedOut(a) = AgentTimedOut(b) => a = b
         /\ AgentRecovered(a) = AgentRecovered(b) => a = b
         /\ AgentTimedOut(a).kind = "AgentTimedOut"
         /\ AgentTimedOut(a).agent = a
         /\ a \in Agents => AgentTimedOut(a) \in Event /\ AgentRecovered(a) \in Event
BY DEF AgentTimedOut, AgentRecovered, Event

LEMMA SeqIs ==
  ASSUME NEW s \in Seq(Event)
  PROVE  DOMAIN s = 1 .. Len(s) /\ Len(s) \in Nat
OBVIOUS

LEMMA AppendIs ==
  ASSUME NEW s \in Seq(Event), NEW e \in Event
  PROVE  /\ Append(s, e) \in Seq(Event)
         /\ DOMAIN Append(s, e) = 1 .. Len(s) + 1
         /\ \A i \in 1 .. Len(s) : Append(s, e)[i] = s[i]
         /\ Append(s, e)[Len(s) + 1] = e
BY AppendProperties

LEMMA TailIs ==
  ASSUME NEW s \in Seq(Event), s # << >>
  PROVE  /\ Tail(s) \in Seq(Event) /\ Head(s) = s[1] /\ Head(s) \in Event
         /\ Len(s) > 0
         /\ DOMAIN Tail(s) = 1 .. Len(s) - 1
         /\ \A i \in 1 .. Len(s) - 1 : Tail(s)[i] = s[i + 1]
BY HeadTailProperties

-----------------------------------------------------------------------------
(* The news.                                                               *)

LEMMA PingNews ==
  ASSUME NewsOK, NEW a \in Agents, HandlePing(a)
  PROVE  NewsOK'
<1>1. /\ pings' = [b \in DOMAIN pings \cup {a} |->
                     IF b = a THEN [elapsed |-> 0, busy |-> (a \in Busy),
                                    timedOut |-> FALSE]
                              ELSE pings[b]]
      /\ events = << >> /\ events' = News(a) /\ marks' = marks
      /\ marking' = marking \cup {a} /\ missed' = missed
  BY DEF HandlePing, Ping, Published
<1>2. [elapsed |-> 0, busy |-> (a \in Busy), timedOut |-> FALSE] \in PingInfo
  BY HeartbeatAssumption DEF PingInfo, MaxElapsed
<1>3. PingsOK'
  <2>1. IsFiniteSet(DOMAIN pings \cup {a})
    BY FS_AddElement DEF NewsOK, PingsOK
  <2> QED
    BY <1>1, <1>2, <2>1 DEF NewsOK, PingsOK
<1>4. StreamOK'
  BY <1>1, EventsDiffer DEF NewsOK, StreamOK, News
<1>5. ASSUME NEW b \in Agents
      PROVE  Followed(b)'
  <2>1. CASE b # a
    <3>1. HasTimedOut(b)' = HasTimedOut(b)
      BY <1>1, <2>1 DEF HasTimedOut
    <3>2. \A i \in DOMAIN events' : events'[i] # AgentTimedOut(b)
      BY <1>1, EventsDiffer DEF News
    <3> QED
      BY <1>1, <3>1, <3>2 DEF NewsOK, Followed
  <2>2. CASE b = a /\ HasTimedOut(a)
    <3>1. events' = <<AgentRecovered(a)>>
      BY <1>1, <2>2 DEF News
    <3>2. 1 \in DOMAIN events' /\ events'[1] = AgentRecovered(a)
      BY <3>1
    <3>3. \A i \in DOMAIN events' : events'[i] # AgentTimedOut(a)
      BY <3>1, EventsDiffer
    <3> QED
      BY <2>2, <3>2, <3>3 DEF Followed
  <2>3. CASE b = a /\ ~HasTimedOut(a)
    <3>1. events' = << >>
      BY <1>1, <2>3 DEF News
    <3> QED
      BY <1>1, <2>3, <3>1 DEF NewsOK, Followed
  <2> QED
    BY <2>1, <2>2, <2>3
<1> QED
  BY <1>3, <1>4, <1>5 DEF NewsOK

LEMMA ScanNews ==
  ASSUME NewsOK, ScanPings
  PROVE  NewsOK'
<1>1. PICK order \in [1 .. Cardinality(Unreported) -> Unreported] :
        events' = [i \in DOMAIN order |-> AgentTimedOut(order[i])]
  BY DEF ScanPings
<1>2. /\ pings' = [a \in DOMAIN pings |->
                     [pings[a] EXCEPT !.timedOut = @ \/ a \in Unreported]]
      /\ events = << >> /\ marks' = marks /\ marking' = marking
      /\ missed' = missed
  BY DEF ScanPings, Scan, Published
<1>3. Cardinality(Unreported) \in Nat /\ Unreported \subseteq DOMAIN pings
  <2>1. Unreported \subseteq DOMAIN pings
    BY DEF Unreported
  <2>2. IsFiniteSet(Unreported)
    BY <2>1, FS_Subset DEF NewsOK, PingsOK
  <2> QED
    BY <2>1, <2>2, FS_CardinalityType
<1>4. ASSUME NEW a \in DOMAIN pings
      PROVE  /\ pings'[a] \in PingInfo
             /\ pings'[a].timedOut = (pings[a].timedOut \/ a \in Unreported)
  <2>1. pings[a] \in PingInfo
    BY DEF NewsOK, PingsOK
  <2>2. pings'[a] = [pings[a] EXCEPT !.timedOut = (pings[a].timedOut \/ a \in Unreported)]
    BY <1>2
  <2> QED
    BY <2>1, <2>2 DEF PingInfo
<1>5. PingsOK'
  BY <1>2, <1>4 DEF NewsOK, PingsOK
<1>6. StreamOK'
  <2>1. \A i \in 1 .. Cardinality(Unreported) : AgentTimedOut(order[i]) \in Event
    BY <1>3, EventsDiffer DEF NewsOK, PingsOK
  <2>2. events' \in [1 .. Cardinality(Unreported) -> Event]
    BY <1>1, <2>1
  <2>3. events' \in Seq(Event)
    BY <1>3, <2>2, SeqDef
  <2> QED
    BY <1>2, <2>3 DEF NewsOK, StreamOK
<1>7. ASSUME NEW a \in Agents
      PROVE  Followed(a)'
  <2>1. HasTimedOut(a) => HasTimedOut(a)'
    BY <1>2, <1>4 DEF HasTimedOut
  <2>2. \A i \in DOMAIN events' : events'[i] = AgentTimedOut(a) => HasTimedOut(a)'
    <3> SUFFICES ASSUME NEW i \in DOMAIN events', events'[i] = AgentTimedOut(a)
                 PROVE  HasTimedOut(a)'
      OBVIOUS
    <3>1. i \in DOMAIN order /\ AgentTimedOut(order[i]) = AgentTimedOut(a)
      BY <1>1
    <3>2. a \in Unreported
      BY <3>1, EventsDiffer
    <3> QED
      BY <1>2, <1>3, <1>4, <3>2 DEF HasTimedOut
  <2>3. \A i \in DOMAIN marks : marks[i] = AgentTimedOut(a) =>
          \/ HasTimedOut(a)
          \/ \E j \in DOMAIN marks : i < j /\ marks[j] = AgentRecovered(a)
          \/ a \in missed
    BY <1>2 DEF NewsOK, Followed
  <2> QED
    BY <1>2, <2>1, <2>2, <2>3 DEF Followed
<1> QED
  BY <1>5, <1>6, <1>7 DEF NewsOK

LEMMA SilenceNews ==
  ASSUME NewsOK, Silence
  PROVE  NewsOK'
<1>1. /\ pings' = [a \in DOMAIN pings |->
                     [pings[a] EXCEPT !.elapsed =
                        IF IsLate(a) THEN @ ELSE @ + 1]]
      /\ events' = events /\ marks' = marks /\ marking' = marking
      /\ missed' = missed
  BY DEF Silence, Elapse
<1>2. ASSUME NEW a \in DOMAIN pings
      PROVE  pings'[a] \in PingInfo /\ pings'[a].timedOut = pings[a].timedOut
  <2> DEFINE e == pings[a].elapsed
             new == IF IsLate(a) THEN e ELSE e + 1
  <2>1. pings[a] \in PingInfo /\ MaxElapsed \in Nat
    BY HeartbeatAssumption DEF NewsOK, PingsOK, MaxElapsed
  <2>2. new \in 0 .. MaxElapsed
    BY <2>1, HeartbeatAssumption DEF PingInfo, IsLate, TimeoutFor, MaxElapsed
  <2>3. pings'[a] = [pings[a] EXCEPT !.elapsed = new]
    BY <1>1
  <2> HIDE DEF new
  <2> QED
    BY <2>1, <2>2, <2>3 DEF PingInfo
<1>3. PingsOK'
  BY <1>1, <1>2 DEF NewsOK, PingsOK
<1>4. \A a \in Agents : HasTimedOut(a)' = HasTimedOut(a)
  BY <1>1, <1>2 DEF HasTimedOut
<1>5. \A a \in Agents : Followed(a)'
  BY <1>1, <1>4 DEF NewsOK, Followed
<1> QED
  BY <1>1, <1>3, <1>5 DEF NewsOK, StreamOK

(* The order of what is sent and what is still to be published is kept.    *)
LEMMA PublishNews ==
  ASSUME NewsOK, Publish
  PROVE  NewsOK'
<1> DEFINE n == Len(marks)
           m == Len(events)
           e == Head(events)
<1>1. /\ events # << >> /\ events' = Tail(events) /\ marks' = Append(marks, e)
      /\ pings' = pings /\ marking' = marking /\ missed' = missed \ Back(e)
  BY DEF Publish, Send
<1>2. /\ events \in Seq(Event) /\ marks \in Seq(Event)
      /\ DOMAIN marks = 1 .. n /\ n \in Nat /\ DOMAIN events = 1 .. m /\ m \in Nat
  BY SeqIs DEF NewsOK, StreamOK
<1>3. /\ e \in Event /\ e = events[1] /\ m > 0
      /\ events' \in Seq(Event) /\ DOMAIN events' = 1 .. m - 1
      /\ \A i \in 1 .. m - 1 : events'[i] = events[i + 1]
  BY <1>1, <1>2, TailIs
<1>4. /\ marks' \in Seq(Event) /\ DOMAIN marks' = 1 .. n + 1
      /\ \A i \in 1 .. n : marks'[i] = marks[i]
      /\ marks'[n + 1] = e
  BY <1>1, <1>2, <1>3, AppendIs
<1> HIDE DEF n, m, e
<1>5. ASSUME NEW a \in Agents
      PROVE  Followed(a)'
  <2>1. HasTimedOut(a)' = HasTimedOut(a)
    BY <1>1 DEF HasTimedOut
  <2>2. Followed(a)
    BY DEF NewsOK
  <2>3. ASSUME NEW j \in DOMAIN events, events[j] = AgentRecovered(a)
        PROVE  \/ j = 1 /\ marks'[n + 1] = AgentRecovered(a)
               \/ /\ j > 1 /\ j - 1 \in DOMAIN events'
                  /\ events'[j - 1] = AgentRecovered(a)
    BY <1>2, <1>3, <1>4, <2>3
  <2>4. ASSUME NEW i \in DOMAIN marks', marks'[i] = AgentTimedOut(a),
               ~HasTimedOut(a)
        PROVE  \/ \E j \in DOMAIN marks' : i < j /\ marks'[j] = AgentRecovered(a)
               \/ \E j \in DOMAIN events' : events'[j] = AgentRecovered(a)
               \/ a \in missed'
    <3>1. CASE i \in 1 .. n
      <4>1. i \in DOMAIN marks /\ marks[i] = AgentTimedOut(a)
        BY <1>2, <1>4, <2>4, <3>1
      <4>2. CASE \E j \in DOMAIN marks : i < j /\ marks[j] = AgentRecovered(a)
        BY <1>2, <1>4, <4>2
      <4>3. CASE \E j \in DOMAIN events : events[j] = AgentRecovered(a)
        <5>1. PICK j \in DOMAIN events : events[j] = AgentRecovered(a)
          BY <4>3
        <5>2. i < n + 1 /\ n + 1 \in DOMAIN marks'
          BY <1>2, <1>4, <3>1
        <5> QED
          BY <2>3, <5>1, <5>2
      <4>4. CASE a \in missed
        <5>1. i < n + 1 /\ n + 1 \in DOMAIN marks'
          BY <1>2, <1>4, <3>1
        <5>2. e = AgentRecovered(a) \/ a \in missed'
          BY <1>1, <4>4 DEF Back
        <5> QED
          BY <1>4, <5>1, <5>2
      <4> QED
        BY <2>2, <2>4, <4>1, <4>2, <4>3, <4>4 DEF Followed
    <3>2. CASE i = n + 1
      <4>1. 1 \in DOMAIN events /\ events[1] = AgentTimedOut(a)
        BY <1>2, <1>3, <1>4, <2>4, <3>2
      <4> QED
        BY <2>2, <2>4, <4>1 DEF Followed
    <3> QED
      BY <1>2, <1>4, <2>4, <3>1, <3>2
  <2>5. \A i \in DOMAIN events' :
          i + 1 \in DOMAIN events /\ events'[i] = events[i + 1]
    BY <1>2, <1>3
  <2> QED
    BY <2>1, <2>2, <2>4, <2>5 DEF Followed
<1>6. PingsOK'
  BY <1>1 DEF NewsOK, PingsOK
<1> QED
  BY <1>1, <1>3, <1>4, <1>5, <1>6 DEF NewsOK, StreamOK

(* What a mark was followed by only as an event is now missed.             *)
LEMMA OverrunNews ==
  ASSUME NewsOK, Overrun
  PROVE  NewsOK'
<1> DEFINE m == Len(events)
           e == Head(events)
<1>1. /\ events # << >> /\ events' = Tail(events) /\ marks' = marks
      /\ pings' = pings /\ marking' = marking
      /\ missed' = missed \cup {a \in Back(e) : WillBeHidden(a)}
  BY DEF Overrun
<1>2. /\ events \in Seq(Event) /\ DOMAIN events = 1 .. m /\ m \in Nat
  BY SeqIs DEF NewsOK, StreamOK
<1>3. /\ e = events[1] /\ m > 0
      /\ events' \in Seq(Event) /\ DOMAIN events' = 1 .. m - 1
      /\ \A i \in 1 .. m - 1 : events'[i] = events[i + 1]
  BY <1>1, <1>2, TailIs
<1> HIDE DEF m, e
<1>4. ASSUME NEW a \in Agents
      PROVE  Followed(a)'
  <2>1. HasTimedOut(a)' = HasTimedOut(a)
    BY <1>1 DEF HasTimedOut
  <2>2. Followed(a)
    BY DEF NewsOK
  <2>3. \A i \in DOMAIN events' :
          i + 1 \in DOMAIN events /\ events'[i] = events[i + 1]
    BY <1>2, <1>3
  <2>4. ASSUME NEW i \in DOMAIN marks, marks[i] = AgentTimedOut(a),
               ~HasTimedOut(a), a \notin missed'
        PROVE  \/ \E j \in DOMAIN marks : i < j /\ marks[j] = AgentRecovered(a)
               \/ \E j \in DOMAIN events' : events'[j] = AgentRecovered(a)
    <3>1. CASE \E j \in DOMAIN events : events[j] = AgentRecovered(a)
      <4>1. PICK j \in DOMAIN events : events[j] = AgentRecovered(a)
        BY <3>1
      <4>2. CASE j = 1
        BY <1>1, <1>3, <2>4, <4>1, <4>2 DEF Back, WillBeHidden
      <4>3. CASE j # 1
        <5>1. j - 1 \in DOMAIN events' /\ events'[j - 1] = AgentRecovered(a)
          BY <1>2, <1>3, <4>1, <4>3
        <5> QED
          BY <5>1
      <4> QED
        BY <4>2, <4>3
    <3>2. a \notin missed
      BY <1>1, <2>4
    <3> QED
      BY <2>2, <2>4, <3>1, <3>2 DEF Followed
  <2> QED
    BY <1>1, <2>1, <2>2, <2>3, <2>4 DEF Followed
<1>5. PingsOK'
  BY <1>1 DEF NewsOK, PingsOK
<1> QED
  BY <1>1, <1>3, <1>4, <1>5 DEF NewsOK, StreamOK

LEMMA MarkAliveNews ==
  ASSUME NewsOK, NEW a \in Agents, SendMarkAlive(a)
  PROVE  NewsOK'
<1> DEFINE n == Len(marks)
<1>1. /\ marks' = Append(marks, AgentRecovered(a)) /\ events' = events
      /\ pings' = pings /\ marking' = marking \ {a}
      /\ missed' = missed \ {a}
  BY DEF SendMarkAlive, Send
<1>2. marks \in Seq(Event) /\ DOMAIN marks = 1 .. n /\ n \in Nat
  BY SeqIs DEF NewsOK, StreamOK
<1>3. /\ marks' \in Seq(Event) /\ DOMAIN marks' = 1 .. n + 1
      /\ \A i \in 1 .. n : marks'[i] = marks[i]
      /\ marks'[n + 1] = AgentRecovered(a)
  BY <1>1, <1>2, AppendIs, EventsDiffer
<1> HIDE DEF n
<1>4. ASSUME NEW b \in Agents
      PROVE  Followed(b)'
  <2>1. HasTimedOut(b)' = HasTimedOut(b)
    BY <1>1 DEF HasTimedOut
  <2>2. \A i \in DOMAIN marks' : marks'[i] = AgentTimedOut(b)
          => i \in DOMAIN marks /\ marks[i] = AgentTimedOut(b)
    BY <1>2, <1>3, EventsDiffer
  <2>3. \A j \in DOMAIN marks : j \in DOMAIN marks' /\ marks'[j] = marks[j]
    BY <1>2, <1>3
  <2>4. /\ n + 1 \in DOMAIN marks' /\ \A i \in DOMAIN marks : i < n + 1
        /\ b = a \/ b \in missed => b \in missed' \/ marks'[n + 1] = AgentRecovered(b)
    BY <1>1, <1>2, <1>3
  <2>5. Followed(b)
    BY DEF NewsOK
  <2> QED
    BY <1>1, <2>1, <2>2, <2>3, <2>4, <2>5 DEF Followed
<1>5. PingsOK'
  BY <1>1 DEF NewsOK, PingsOK
<1> QED
  BY <1>1, <1>3, <1>4, <1>5 DEF NewsOK, StreamOK

LEMMA HandleMarkNews ==
  ASSUME NewsOK, HandleMark
  PROVE  NewsOK'
<1> DEFINE n == Len(marks)
<1>1. /\ marks # << >> /\ marks' = Tail(marks) /\ events' = events
      /\ pings' = pings /\ marking' = marking
      /\ missed' = {a \in missed :
                       \E i \in DOMAIN marks' : marks'[i] = AgentTimedOut(a)}
  BY DEF HandleMark
<1>2. marks \in Seq(Event) /\ DOMAIN marks = 1 .. n /\ n \in Nat
  BY SeqIs DEF NewsOK, StreamOK
<1>3. /\ marks' \in Seq(Event) /\ DOMAIN marks' = 1 .. n - 1 /\ n > 0
      /\ \A i \in 1 .. n - 1 : marks'[i] = marks[i + 1]
  BY <1>1, <1>2, TailIs
<1> HIDE DEF n
<1>4. ASSUME NEW a \in Agents
      PROVE  Followed(a)'
  <2>1. HasTimedOut(a)' = HasTimedOut(a)
    BY <1>1 DEF HasTimedOut
  <2>2. ASSUME NEW i \in DOMAIN marks', marks'[i] = AgentTimedOut(a)
        PROVE  \/ HasTimedOut(a)
               \/ \E j \in DOMAIN marks' : i < j /\ marks'[j] = AgentRecovered(a)
               \/ \E j \in DOMAIN events' : events'[j] = AgentRecovered(a)
               \/ a \in missed'
    <3>1. i + 1 \in DOMAIN marks /\ marks[i + 1] = AgentTimedOut(a) /\ i \in Nat
      BY <1>2, <1>3, <2>2
    <3>2. CASE \E j \in DOMAIN marks : i + 1 < j /\ marks[j] = AgentRecovered(a)
      <4>1. PICK j \in DOMAIN marks : i + 1 < j /\ marks[j] = AgentRecovered(a)
        BY <3>2
      <4>2. j - 1 \in DOMAIN marks' /\ marks'[j - 1] = AgentRecovered(a) /\ i < j - 1
        BY <1>2, <1>3, <3>1, <4>1
      <4> QED
        BY <4>2
    <3>3. a \in missed => a \in missed'
      BY <1>1, <2>2
    <3> QED
      BY <1>1, <3>1, <3>2, <3>3 DEF NewsOK, Followed
  <2> QED
    BY <1>1, <2>1, <2>2 DEF NewsOK, Followed
<1>5. PingsOK'
  BY <1>1 DEF NewsOK, PingsOK
<1> QED
  BY <1>1, <1>3, <1>4, <1>5 DEF NewsOK, StreamOK

LEMMA OtherNews ==
  ASSUME NewsOK, UNCHANGED <<pings, events, marks, missed>>, marking' \subseteq marking
  PROVE  NewsOK'
BY DEF NewsOK, PingsOK, StreamOK, Followed, HasTimedOut

(* What the registry does for its callers touches none of it.              *)
LEMMA NewsStep ==
  ASSUME NewsOK, [PresenceNext]_presenceVars
  PROVE  NewsOK'
<1>1. CASE UNCHANGED presenceVars
  BY <1>1, OtherNews DEF presenceVars
<1>2. ASSUME NEW a \in Agents, HandlePing(a) \/ SendMarkAlive(a) \/ DropPing(a)
      PROVE  NewsOK'
  BY <1>2, PingNews, MarkAliveNews, OtherNews DEF DropPing
<1>3. ASSUME NEW a \in Agents,
             \/ HandleRegister(a) \/ HandleDeregister(a)
             \/ HandleDeclare(a) \/ HandleSetLoad(a)
      PROVE  NewsOK'
  BY <1>3, OtherNews
     DEF HandleRegister, HandleDeregister, HandleDeclare, HandleSetLoad, otherVars
<1> QED
  BY <1>1, <1>2, <1>3, ScanNews, SilenceNews, PublishNews, OverrunNews,
     HandleMarkNews
     DEF PresenceNext

-----------------------------------------------------------------------------
(* The registry.                                                           *)

LEMMA RegisterAlive ==
  ASSUME AliveOK, NEW a, R!Register(a)
  PROVE  AliveOK'
<1>1. /\ DOMAIN agents' = DOMAIN agents \cup {a}
      /\ aliveAgents' = aliveAgents
  BY DEF R!Register
<1>2. ASSUME NEW b \in DOMAIN agents'
      PROVE  /\ agents'[b] = [lifecycle |-> agents'[b].lifecycle,
                              capabilities |-> agents'[b].capabilities]
             /\ b = a => agents'[b].lifecycle = "Registered"
             /\ b # a => b \in DOMAIN agents /\ agents'[b] = agents[b]
  <2>1. CASE b # a
    <3>1. b \in DOMAIN agents
      BY <1>1, <2>1
    <3>2. agents'[b] = agents[b]
      BY <2>1, <3>1 DEF R!Register
    <3> QED
      BY <2>1, <3>1, <3>2 DEF AliveOK, RecordsOK
  <2>2. CASE b = a /\ a \in DOMAIN agents
    <3>1. agents'[b] = [agents[a] EXCEPT !.lifecycle = "Registered"]
      BY <1>1, <2>2 DEF R!Register
    <3>2. agents[a] = [lifecycle |-> agents[a].lifecycle,
                       capabilities |-> agents[a].capabilities]
      BY <2>2 DEF AliveOK, RecordsOK
    <3>3. agents'[b] = [lifecycle |-> "Registered",
                        capabilities |-> agents[a].capabilities]
      BY <3>1, <3>2
    <3> QED
      BY <2>2, <3>3
  <2>3. CASE b = a /\ a \notin DOMAIN agents
    <3>1. agents'[b] = [lifecycle |-> "Registered", capabilities |-> R!Nothing]
      BY <1>1, <2>3 DEF R!Register
    <3> QED
      BY <2>3, <3>1
  <2> QED
    BY <2>1, <2>2, <2>3
<1>3. AliveAreRegistered'
  BY <1>1, <1>2 DEF AliveOK, AliveAreRegistered, R!IsRegistered
<1> QED
  BY <1>2, <1>3 DEF AliveOK, RecordsOK

LEMMA DeclareAlive ==
  ASSUME AliveOK, NEW a, NEW declared, R!DeclareCapabilities(a, declared)
  PROVE  AliveOK'
<1>1. /\ DOMAIN agents' = DOMAIN agents /\ aliveAgents' = aliveAgents
      /\ a \in DOMAIN agents
      /\ \A b \in DOMAIN agents : b # a => agents'[b] = agents[b]
  BY DEF R!DeclareCapabilities, R!IsRegistered
<1>2. agents'[a] = [lifecycle |-> agents[a].lifecycle, capabilities |-> declared]
  <2>1. agents'[a] = [agents[a] EXCEPT !.capabilities = declared]
    BY <1>1 DEF R!DeclareCapabilities
  <2>2. agents[a] = [lifecycle |-> agents[a].lifecycle,
                     capabilities |-> agents[a].capabilities]
    BY <1>1 DEF AliveOK, RecordsOK
  <2> QED
    BY <2>1, <2>2
<1>3. AliveAreRegistered'
  BY <1>1, <1>2 DEF AliveOK, AliveAreRegistered, R!IsRegistered
<1>4. RecordsOK'
  BY <1>1, <1>2 DEF AliveOK, RecordsOK
<1> QED
  BY <1>3, <1>4 DEF AliveOK

LEMMA DeregisterAlive ==
  ASSUME AliveOK, NEW a, R!Deregister(a)
  PROVE  AliveOK'
<1>1. /\ DOMAIN agents' = DOMAIN agents /\ aliveAgents' = aliveAgents \ {a}
      /\ a \in DOMAIN agents
      /\ \A b \in DOMAIN agents : b # a => agents'[b] = agents[b]
      /\ agents'[a] = [lifecycle |-> "Deregistered", capabilities |-> R!Nothing]
  BY DEF R!Deregister, R!IsRegistered
<1>2. RecordsOK'
  BY <1>1 DEF AliveOK, RecordsOK
<1>3. AliveAreRegistered'
  BY <1>1 DEF AliveOK, AliveAreRegistered, R!IsRegistered
<1> QED
  BY <1>2, <1>3 DEF AliveOK

LEMMA MarkAlive ==
  ASSUME AliveOK, NEW a, R!MarkAlive(a) \/ R!MarkTimedOut(a)
  PROVE  AliveOK'
BY DEF AliveOK, RecordsOK, AliveAreRegistered, R!IsRegistered, R!MayLive,
       R!MarkAlive, R!MarkTimedOut

LEMMA OtherAlive ==
  ASSUME AliveOK, UNCHANGED <<agents, aliveAgents>>
  PROVE  AliveOK'
BY DEF AliveOK, RecordsOK, AliveAreRegistered, R!IsRegistered

LEMMA AliveStep ==
  ASSUME AliveOK, [PresenceNext]_presenceVars
  PROVE  AliveOK'
<1>1. CASE UNCHANGED presenceVars
  BY <1>1, OtherAlive DEF presenceVars, registryVars
<1>2. ASSUME NEW a \in Agents, HandlePing(a) \/ SendMarkAlive(a) \/ DropPing(a)
      PROVE  AliveOK'
  BY <1>2, OtherAlive DEF HandlePing, SendMarkAlive, DropPing, registryVars
<1>3. ASSUME NEW a \in Agents,
             \/ HandleRegister(a) \/ HandleDeregister(a)
             \/ HandleDeclare(a) \/ HandleSetLoad(a)
      PROVE  AliveOK'
  BY <1>3, RegisterAlive, DeregisterAlive, DeclareAlive, OtherAlive
     DEF HandleRegister, HandleDeregister, HandleDeclare, HandleSetLoad, R!SetLoad
<1>4. CASE ScanPings \/ Silence \/ Publish \/ Overrun
  BY <1>4, OtherAlive DEF ScanPings, Silence, Publish, Overrun, registryVars
<1>5. CASE HandleMark
  BY <1>5, MarkAlive DEF HandleMark
<1> QED
  BY <1>1, <1>2, <1>3, <1>4, <1>5 DEF PresenceNext

-----------------------------------------------------------------------------

LEMMA PresenceInvariant == PresenceSpec => [](NewsOK /\ AliveOK)
<1>1. PresenceInit => NewsOK /\ AliveOK
  <2> SUFFICES ASSUME PresenceInit
               PROVE  NewsOK /\ AliveOK
    OBVIOUS
  <2>1. PingsOK
    BY FS_EmptySet DEF PresenceInit, HeartbeatInit, PingsOK
  <2>2. StreamOK /\ \A a \in Agents : Followed(a)
    BY DEF PresenceInit, StreamOK, Followed
  <2>3. AliveOK
    BY DEF PresenceInit, R!RegistryInit, AliveOK, RecordsOK, AliveAreRegistered
  <2> QED
    BY <2>1, <2>2, <2>3 DEF NewsOK
<1>2. NewsOK /\ AliveOK /\ [PresenceNext]_presenceVars => (NewsOK /\ AliveOK)'
  BY NewsStep, AliveStep
<1> QED
  BY <1>1, <1>2, PTL DEF PresenceSpec

(* Only registered agents are ever counted as alive, although marks reach  *)
(* the registry after the agent they are about went away                   *)
(* (registry/core.rs:86-118; design/registry/rust-design.md:96).           *)
THEOREM AliveStayRegistered == PresenceSpec => []AliveAreRegistered
<1>1. NewsOK /\ AliveOK => AliveAreRegistered
  BY DEF AliveOK
<1> QED
  BY <1>1, PresenceInvariant, PTL

(* An old mark hides an agent that answers again only if its publication   *)
(* was cut off, for any number of agents and marks on their way: whenever  *)
(* the registry takes an agent out, the agent is silent, has left, will be *)
(* put back by what stands behind, or the news was dropped and no handler  *)
(* has made up for it (heartbeat/service.rs:290-337,                       *)
(* registry/service.rs:276-287).                                           *)
THEOREM HiddenStayTrue == PresenceSpec => HiddenOnlyWhenSilent
<1>1. ASSUME NewsOK, [PresenceNext]_presenceVars,
             NEW a \in aliveAgents, a \notin aliveAgents'
      PROVE  \/ HasTimedOut(a)
             \/ ~(a \in DOMAIN agents' /\ agents'[a].lifecycle = "Registered")
             \/ WillBeShown(a)'
             \/ a \in missed
  <2>1. CASE HandleMark
    <3>1. marks # << >> /\ marks' = Tail(marks) /\ events' = events /\ marks \in Seq(Event)
      BY <1>1, <2>1 DEF HandleMark, NewsOK, StreamOK
    <3>2. Head(marks).kind = "AgentTimedOut" /\ Head(marks).agent = a
      BY <1>1, <2>1 DEF HandleMark, R!MarkTimedOut, R!MarkAlive
    <3>3. 1 \in DOMAIN marks /\ marks[1] = Head(marks) /\ Head(marks) \in Event
      BY <3>1, SeqIs, TailIs
    <3>4. marks[1] = AgentTimedOut(a) /\ a \in Agents
      BY <3>2, <3>3 DEF Event, AgentTimedOut
    <3>5. Followed(a)
      BY <1>1, <3>4 DEF NewsOK
    <3>6. ASSUME NEW j \in DOMAIN marks, 1 < j
          PROVE  j - 1 \in DOMAIN marks' /\ marks'[j - 1] = marks[j]
      <4>1. /\ DOMAIN marks = 1 .. Len(marks) /\ Len(marks) \in Nat
            /\ DOMAIN marks' = 1 .. Len(marks) - 1
            /\ \A i \in 1 .. Len(marks) - 1 : marks'[i] = marks[i + 1]
        BY <3>1, SeqIs, TailIs
      <4>2. j - 1 \in 1 .. Len(marks) - 1 /\ (j - 1) + 1 = j
        BY <3>6, <4>1
      <4> QED
        BY <4>1, <4>2
    <3> QED
      BY <3>1, <3>3, <3>4, <3>5, <3>6 DEF Followed, WillBeShown
  <2>2. ASSUME NEW b \in Agents, HandleDeregister(b)
        PROVE  ~(a \in DOMAIN agents' /\ agents'[a].lifecycle = "Registered")
    <3>1. a = b /\ b \in DOMAIN agents
      BY <1>1, <2>2 DEF HandleDeregister, R!Deregister, R!IsRegistered
    <3>2. agents' = [agents EXCEPT ![b] = [lifecycle |-> "Deregistered",
                                           capabilities |-> R!Nothing]]
      BY <2>2 DEF HandleDeregister, R!Deregister
    <3> QED
      BY <3>1, <3>2
  <2>3. CASE aliveAgents' = aliveAgents
    BY <1>1, <2>3
  <2>4. \/ HandleMark \/ aliveAgents' = aliveAgents
        \/ \E b \in Agents : HandleDeregister(b)
    BY <1>1
       DEF PresenceNext, presenceVars, registryVars, HandlePing, SendMarkAlive,
           DropPing, HandleRegister, HandleDeclare, HandleSetLoad, R!Register,
           R!DeclareCapabilities, R!SetLoad, ScanPings, Silence, Publish,
           Overrun
  <2> QED
    BY <2>1, <2>2, <2>3, <2>4
<1>2. NewsOK /\ [PresenceNext]_presenceVars
        => [\A a \in aliveAgents :
              a \notin aliveAgents' =>
                \/ HasTimedOut(a)
                \/ ~R!IsRegistered(a)'
                \/ WillBeShown(a)'
                \/ a \in missed]_presenceVars
  BY <1>1 DEF R!IsRegistered
<1> QED
  BY <1>2, PresenceInvariant, PTL DEF PresenceSpec, HiddenOnlyWhenSilent

-----------------------------------------------------------------------------
(* The index.  It has, of every capability, exactly who offers it.         *)

IndexOK ==
  /\ RecordsOK
  /\ DOMAIN agents \subseteq Agents
  /\ \A c \in Capabilities :
       capabilityIndex[c] = {a \in DOMAIN agents :
                               c \in DOMAIN agents[a].capabilities}

LEMMA RegisterIndex ==
  ASSUME AliveOK, IndexOK, NEW a \in Agents, R!Register(a)
  PROVE  IndexOK'
<1>1. RecordsOK'
  BY RegisterAlive DEF AliveOK
<1>2. /\ DOMAIN agents' = DOMAIN agents \cup {a}
      /\ UNCHANGED capabilityIndex
      /\ \A b \in DOMAIN agents \ {a} : agents'[b] = agents[b]
  BY DEF R!Register
<1>3. CASE a \in DOMAIN agents
  <2>1. agents'[a] = [agents[a] EXCEPT !.lifecycle = "Registered"]
    BY <1>3 DEF R!Register
  <2>2. agents'[a].capabilities = agents[a].capabilities
    BY <1>3, <2>1 DEF IndexOK, RecordsOK
  <2> QED
    BY <1>1, <1>2, <1>3, <2>2 DEF IndexOK
<1>4. CASE a \notin DOMAIN agents
  <2>1. DOMAIN agents'[a].capabilities = {}
    BY <1>4 DEF R!Register, R!Nothing
  <2> QED
    BY <1>1, <1>2, <1>4, <2>1 DEF IndexOK
<1> QED
  BY <1>3, <1>4

(* Whoever changes what an agent offers brings the index in line.          *)
LEMMA OfferIndex ==
  ASSUME IndexOK, RecordsOK', NEW a \in DOMAIN agents, NEW names,
         DOMAIN agents' = DOMAIN agents,
         \A b \in DOMAIN agents \ {a} : agents'[b] = agents[b],
         DOMAIN agents'[a].capabilities = names,
         capabilityIndex' = R!IndexWith(a, names)
  PROVE  IndexOK'
<1> SUFFICES ASSUME NEW c \in Capabilities
             PROVE  capabilityIndex'[c] =
                      {b \in DOMAIN agents : c \in DOMAIN agents'[b].capabilities}
  BY DEF IndexOK
<1>1. capabilityIndex'[c] = IF c \in names THEN capabilityIndex[c] \cup {a}
                                           ELSE capabilityIndex[c] \ {a}
  BY DEF R!IndexWith
<1>2. capabilityIndex[c] = {b \in DOMAIN agents :
                              c \in DOMAIN agents[b].capabilities}
  BY DEF IndexOK
<1> QED
  BY <1>1, <1>2

LEMMA IndexStep ==
  ASSUME AliveOK, IndexOK, [PresenceNext]_presenceVars
  PROVE  IndexOK'
<1>1. ASSUME UNCHANGED <<agents, capabilityIndex>>
      PROVE  IndexOK'
  BY <1>1 DEF IndexOK, RecordsOK
<1>2. ASSUME NEW a \in Agents, R!Deregister(a)
      PROVE  IndexOK'
  <2>1. /\ a \in DOMAIN agents /\ DOMAIN agents' = DOMAIN agents
        /\ \A b \in DOMAIN agents \ {a} : agents'[b] = agents[b]
        /\ DOMAIN agents'[a].capabilities = {}
        /\ capabilityIndex' = R!IndexWith(a, {})
    BY <1>2 DEF R!Deregister, R!IsRegistered, R!Nothing
  <2>2. RecordsOK'
    BY <1>2, DeregisterAlive DEF AliveOK
  <2> QED
    BY <2>1, <2>2, OfferIndex
<1>3. ASSUME NEW a \in Agents, NEW declared, R!DeclareCapabilities(a, declared)
      PROVE  IndexOK'
  <2>1. /\ a \in DOMAIN agents /\ DOMAIN agents' = DOMAIN agents
        /\ \A b \in DOMAIN agents \ {a} : agents'[b] = agents[b]
        /\ agents'[a] = [agents[a] EXCEPT !.capabilities = declared]
        /\ capabilityIndex' = R!IndexWith(a, DOMAIN declared)
    BY <1>3 DEF R!DeclareCapabilities, R!IsRegistered
  <2>2. agents'[a].capabilities = declared
    BY <2>1 DEF IndexOK, RecordsOK
  <2>3. RecordsOK'
    BY <1>3, DeclareAlive DEF AliveOK
  <2> QED
    BY <2>1, <2>2, <2>3, OfferIndex
<1>4. ASSUME NEW a \in Agents,
             \/ HandleRegister(a) \/ HandleDeregister(a)
             \/ HandleDeclare(a) \/ HandleSetLoad(a)
      PROVE  IndexOK'
  BY <1>1, <1>2, <1>3, <1>4, RegisterIndex
     DEF HandleRegister, HandleDeregister, HandleDeclare, HandleSetLoad, R!SetLoad
<1>5. ASSUME \/ \E a \in Agents :
                  HandlePing(a) \/ SendMarkAlive(a) \/ DropPing(a)
             \/ ScanPings \/ Silence \/ Publish \/ Overrun \/ HandleMark
             \/ UNCHANGED presenceVars
      PROVE  IndexOK'
  BY <1>1, <1>5
     DEF HandlePing, SendMarkAlive, DropPing, ScanPings, Silence, Publish,
         Overrun, HandleMark, R!MarkAlive, R!MarkTimedOut, presenceVars, registryVars
<1> QED
  BY <1>4, <1>5 DEF PresenceNext

-----------------------------------------------------------------------------
(* The limit.  As many agents as it says have fewer than that before them. *)

LEMMA LeastAgent ==
  ASSUME NEW N \in SUBSET Nat, N # {}
  PROVE  \E n \in N : \A m \in N : n <= m
<1> DEFINE Below == OpToRel(<, Nat)
<1>1. IsWellFoundedOn(Below, Nat)
  BY NatLessThanWellFounded
<1>2. \A m, n \in Nat : m < n => <<m, n>> \in Below
  BY Zenon DEF OpToRel
<1> HIDE DEF Below
<1>3. PICK n \in N : \A m \in N : <<m, n>> \notin Below
  BY <1>1, WFMin
<1>4. ASSUME NEW m \in N PROVE n <= m
  <2>1. m \in Nat /\ n \in Nat /\ ~(m < n)
    BY <1>2, <1>3
  <2> QED
    BY <2>1
<1> QED
  BY <1>4

Before(found, a) == {b \in found : b < a}

Among(found, limit) == {a \in found : Cardinality(Before(found, a)) < limit}

(* The first `limit` of any set that has so many are so many.              *)
Counts(limit) ==
  \A found \in SUBSET Nat :
    IsFiniteSet(found) /\ limit <= Cardinality(found)
      => IsFiniteSet(Among(found, limit)) /\ Cardinality(Among(found, limit)) = limit

LEMMA BeforeIsFinite ==
  ASSUME NEW found, IsFiniteSet(found), NEW a
  PROVE  IsFiniteSet(Before(found, a)) /\ Cardinality(Before(found, a)) \in Nat
BY FS_Subset, FS_CardinalityType DEF Before

LEMMA CountsOneMore ==
  ASSUME NEW limit \in Nat, Counts(limit)
  PROVE  Counts(limit + 1)
<1> SUFFICES ASSUME NEW found \in SUBSET Nat, IsFiniteSet(found),
                    limit + 1 <= Cardinality(found)
             PROVE  /\ IsFiniteSet(Among(found, limit + 1))
                    /\ Cardinality(Among(found, limit + 1)) = limit + 1
  BY DEF Counts
<1>1. Cardinality(found) \in Nat
  BY FS_CardinalityType
<1>2. found # {}
  BY <1>1, FS_EmptySet
<1>3. PICK m \in found : \A n \in found : m <= n
  BY <1>2, LeastAgent
<1> DEFINE rest == found \ {m}
<1>4. /\ IsFiniteSet(rest) /\ Cardinality(rest) = Cardinality(found) - 1
      /\ rest \in SUBSET Nat
  BY <1>3, FS_RemoveElement
<1>5. /\ IsFiniteSet(Among(rest, limit))
      /\ Cardinality(Among(rest, limit)) = limit
  BY <1>1, <1>4 DEF Counts
<1>6. ASSUME NEW a \in rest
      PROVE  Cardinality(Before(found, a)) = Cardinality(Before(rest, a)) + 1
  <2>1. Before(found, a) = Before(rest, a) \cup {m}
    <3>1. m \in Nat /\ a \in Nat /\ m < a
      BY <1>3
    <3> QED
      BY <3>1 DEF Before
  <2>2. m \notin Before(rest, a)
    BY DEF Before
  <2> QED
    BY <1>4, <2>1, <2>2, BeforeIsFinite, FS_AddElement
<1>7. Before(found, m) = {}
  <2>1. \A n \in found : ~(n < m)
    BY <1>3
  <2> QED
    BY <2>1 DEF Before
<1>8. Among(found, limit + 1) = Among(rest, limit) \cup {m}
  <2>1. m \in Among(found, limit + 1)
    BY <1>7, FS_EmptySet DEF Among
  <2>2. \A a \in rest : a \in Among(found, limit + 1) <=> a \in Among(rest, limit)
    <3> TAKE a \in rest
    <3>1. Cardinality(Before(rest, a)) \in Nat
      BY <1>4, BeforeIsFinite
    <3> QED
      BY <1>6, <3>1 DEF Among
  <2> QED
    BY <2>1, <2>2 DEF Among
<1>9. m \notin Among(rest, limit)
  BY DEF Among
<1>10. PICK some : some = Among(rest, limit)
  OBVIOUS
<1>11. /\ IsFiniteSet(some \cup {m})
       /\ Cardinality(some \cup {m}) = Cardinality(some) + 1
  BY <1>5, <1>9, <1>10, FS_AddElement
<1> HIDE DEF rest
<1> QED
  BY <1>5, <1>8, <1>10, <1>11

(* By the least limit that would not count.                                *)
LEMMA EveryLimitCounts ==
  ASSUME NEW limit \in Nat
  PROVE  Counts(limit)
<1>1. Counts(0)
  <2> SUFFICES ASSUME NEW found \in SUBSET Nat, IsFiniteSet(found)
               PROVE  Among(found, 0) = {}
    BY FS_EmptySet DEF Counts
  <2>1. \A a \in found : ~(Cardinality(Before(found, a)) < 0)
    <3> TAKE a \in found
    <3>1. Cardinality(Before(found, a)) \in Nat
      BY BeforeIsFinite
    <3> QED
      BY <3>1
  <2> QED
    BY <2>1 DEF Among
<1> DEFINE Wrong == {n \in Nat : ~Counts(n)}
<1>2. CASE Wrong = {}
  BY <1>2
<1>3. CASE Wrong # {}
  <2>1. PICK n \in Wrong : \A m \in Wrong : n <= m
    BY <1>3, LeastAgent
  <2>2. n # 0
    BY <1>1, <2>1
  <2>3. n - 1 \in Nat /\ Counts(n - 1) /\ (n - 1) + 1 = n
    BY <2>1, <2>2
  <2> QED
    BY <2>1, <2>3, CountsOneMore
<1> QED
  BY <1>2, <1>3

LEMMA FirstOfExact ==
  ASSUME NEW found \in SUBSET Nat, IsFiniteSet(found), NEW limit \in Nat \ {0}
  PROVE  /\ R!FirstOf(found, limit) \subseteq found
         /\ \/ R!FirstOf(found, limit) = found
            \/ /\ Cardinality(R!FirstOf(found, limit)) = limit
               /\ limit < Cardinality(found)
<1>1. R!FirstOf(found, limit) = Among(found, limit)
  <2>1. \A S : R!Cardinality(S) = Cardinality(S)
    BY Zenon DEF R!Cardinality, Cardinality
  <2> QED
    BY <2>1 DEF R!FirstOf, Among, Before
<1>2. Among(found, limit) \subseteq found
  BY DEF Among
<1>3. ASSUME Among(found, limit) # found
      PROVE  limit < Cardinality(found)
  <2>1. PICK a \in found : ~(Cardinality(Before(found, a)) < limit)
    BY <1>3 DEF Among
  <2>2. Before(found, a) \subseteq found \ {a}
    BY DEF Before
  <2>3. /\ IsFiniteSet(found \ {a})
        /\ Cardinality(found \ {a}) = Cardinality(found) - 1
    BY FS_RemoveElement
  <2>4. Cardinality(Before(found, a)) <= Cardinality(found) - 1
    BY <2>2, <2>3, FS_Subset
  <2>5. Cardinality(found) \in Nat /\ Cardinality(Before(found, a)) \in Nat
    BY BeforeIsFinite, FS_CardinalityType
  <2> QED
    BY <2>1, <2>4, <2>5
<1>4. ASSUME limit < Cardinality(found)
      PROVE  Cardinality(Among(found, limit)) = limit
  <2>1. Cardinality(found) \in Nat
    BY FS_CardinalityType
  <2> QED
    BY <1>4, <2>1, EveryLimitCounts DEF Counts
<1> QED
  BY <1>1, <1>2, <1>3, <1>4

(* Discovery through the index finds whom the records name, for every set  *)
(* of agents and every limit, whatever the order in which agents register, *)
(* declare, leave, time out and come back                                  *)
(* (registry/core.rs:54-107, 139-187).                                     *)
THEOREM DiscoveryStaysExact == PresenceSpec => []DiscoveryIsExact
<1>1. AliveOK /\ IndexOK => DiscoveryIsExact
  <2> SUFFICES ASSUME AliveOK, IndexOK, NEW c \in Capabilities,
                      NEW includeBusy \in BOOLEAN,
                      NEW limit \in 1 .. Cardinality(Agents)
               PROVE  LET found == R!Discover(c, includeBusy, limit)
                          suitable == Suitable(c, includeBusy)
                      IN  /\ found \subseteq suitable
                          /\ \/ found = suitable
                             \/ /\ Cardinality(found) = limit
                                /\ limit < Cardinality(suitable)
    BY DEF DiscoveryIsExact
  <2>1. PICK suitable : suitable = Suitable(c, includeBusy)
    OBVIOUS
  <2>2. suitable \in SUBSET Nat /\ IsFiniteSet(suitable)
    <3>1. suitable \subseteq Agents
      BY <2>1 DEF Suitable, IndexOK
    <3> QED
      BY <3>1, PresenceAssumption, FS_Subset
  <2>3. R!Discover(c, includeBusy, limit) = R!FirstOf(suitable, limit)
    <3>1. suitable = {a \in capabilityIndex[c] :
                        /\ R!IsRegistered(a)
                        /\ a \in aliveAgents
                        /\ c \in R!Offers(a)
                        /\ includeBusy \/ load[a] < agents[a].capabilities[c]}
      BY <2>1 DEF Suitable, IndexOK, AliveOK, AliveAreRegistered,
                  R!IsRegistered, R!Offers
    <3> QED
      BY <3>1 DEF R!Discover
  <2>4. limit \in Nat \ {0}
    BY PresenceAssumption, FS_CardinalityType
  <2> QED
    BY <2>1, <2>2, <2>3, <2>4, FirstOfExact
<1>2. PresenceInit => IndexOK
  BY DEF PresenceInit, R!RegistryInit, IndexOK, RecordsOK
<1>3. AliveOK /\ IndexOK /\ [PresenceNext]_presenceVars => IndexOK'
  BY IndexStep
<1> QED
  BY <1>1, <1>2, <1>3, PresenceInvariant, PTL DEF PresenceSpec

(* The scan and the query draw the same line: an agent that is_alive would *)
(* vouch for is not reported, whatever the two timeouts are and whichever  *)
(* of them the agent is measured by (heartbeat/core.rs:52-83).             *)
THEOREM NoAlarmIsFalse == PresenceSpec => NoFalseAlarm
<1>1. ASSUME PingsOK, [PresenceNext]_presenceVars,
             NEW a \in DOMAIN pings, IsAlive(a), a \in DOMAIN pings'
      PROVE  ~pings'[a].timedOut
  <2>1. pings[a] \in PingInfo /\ ~pings[a].timedOut /\ a \notin Unreported
    BY <1>1 DEF PingsOK, IsAlive, Unreported
  <2>2. CASE UNCHANGED pings
    BY <2>1, <2>2
  <2>3. ASSUME NEW b, NEW busy, Ping(b, busy)
        PROVE  ~pings'[a].timedOut
    BY <1>1, <2>1, <2>3 DEF Ping
  <2>4. CASE Scan
    BY <1>1, <2>1, <2>4 DEF Scan, PingInfo
  <2>5. CASE Elapse
    BY <1>1, <2>1, <2>5 DEF Elapse, PingInfo
  <2> QED
    BY <1>1, <2>2, <2>3, <2>4, <2>5
       DEF PresenceNext, HandlePing, SendMarkAlive, DropPing, HandleRegister,
           HandleDeregister, HandleDeclare, HandleSetLoad, otherVars,
           ScanPings, Silence, Publish, Overrun, HandleMark, presenceVars
<1>2. NewsOK /\ AliveOK /\ [PresenceNext]_presenceVars =>
        [\A a \in DOMAIN pings : IsAlive(a) /\ a \in DOMAIN pings'
           => ~HasTimedOut(a)']_pings
  BY <1>1 DEF NewsOK, HasTimedOut
<1> QED
  BY <1>2, PresenceInvariant, PTL DEF PresenceSpec, NoFalseAlarm
===============================================================================
