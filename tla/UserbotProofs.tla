----------------------------- MODULE UserbotProofs -----------------------------
(***************************************************************************)
(* Proofs about the userbot: whatever the number of events, attachments    *)
(* and faults, its poll loop and outbox lose no event, and report for an   *)
(* event only posts of that event.                                         *)
(***************************************************************************)
EXTENDS Userbot, TLAPS

\* e is in the outbox, or has been dealt with.
Handled(e) == e \in Stored \/ outcome[e] # "none"

\* What is marked seen was stored before.
SeenHandled == \A e \in seen : Handled(e)

\* The event about to be acked was stored.
AckHandled == \A e \in Event : bpc \in {"enqueued", "ack"} /\ IsFirst(e) => Handled(e)

\* The worker acts on a row only when there is one: nobody else removes rows.
HeadThere == wpc \in {"head", "wait", "perform", "delete"} => rows # <<>>

\* There is an event to correlate when one is correlated.
CurrentIsEvent == wpc = "correlate" => current \in Event

\* The ids collected so far are posts of the action they are collected for.
ProducedSound ==
    /\ wpc \in {"perform", "delete"} => produced \subseteq Applied(Head(rows))
    /\ wpc = "correlate" => produced \subseteq Applied(current)

\* The inductive invariant.
IInv ==
    /\ TypeOK
    /\ SeenHandled
    /\ AckHandled
    /\ NoSilentLoss
    /\ HeadThere
    /\ CurrentIsEvent
    /\ ProducedSound
    /\ ReportSound

--------------------------------------------------------------------------------
(* Sequences of events *)

\* Appending to a queue adds the event and keeps the others, and the head.
LEMMA AppendFacts ==
    ASSUME NEW S, NEW s \in Seq(S), NEW x \in S
    PROVE  /\ Append(s, x) \in Seq(S)
           /\ Append(s, x) # <<>>
           /\ ToSet(s) \subseteq ToSet(Append(s, x))
           /\ x \in ToSet(Append(s, x))
           /\ s # <<>> => Head(Append(s, x)) = Head(s)
<1>1. /\ Append(s, x) \in Seq(S)
      /\ Append(s, x) # <<>>
      /\ DOMAIN Append(s, x) = 1..(Len(s) + 1)
      /\ DOMAIN s = 1..Len(s)
      /\ Len(s) \in Nat
  OBVIOUS
<1>2. \A i \in DOMAIN s : i \in DOMAIN Append(s, x) /\ Append(s, x)[i] = s[i]
  OBVIOUS
<1>3. ToSet(s) \subseteq ToSet(Append(s, x))
  BY <1>2 DEF ToSet
<1>4. x \in ToSet(Append(s, x))
  <2>1. Len(s) + 1 \in DOMAIN Append(s, x) /\ Append(s, x)[Len(s) + 1] = x
    OBVIOUS
  <2> QED  BY <2>1 DEF ToSet
<1>5. s # <<>> => Head(Append(s, x)) = Head(s)
  OBVIOUS
<1> QED  BY <1>1, <1>3, <1>4, <1>5

\* Taking the head off a queue keeps the others.
LEMMA TailFacts ==
    ASSUME NEW S, NEW s \in Seq(S), s # <<>>
    PROVE  /\ Head(s) \in S
           /\ Tail(s) \in Seq(S)
           /\ ToSet(s) \subseteq {Head(s)} \cup ToSet(Tail(s))
<1>1. Head(s) \in S /\ Tail(s) \in Seq(S)
  OBVIOUS
<1>2. ASSUME NEW i \in DOMAIN s
      PROVE  s[i] \in {Head(s)} \cup ToSet(Tail(s))
  <2>1. CASE i = 1
    BY <2>1
  <2>2. CASE i # 1
    <3>1. i - 1 \in DOMAIN Tail(s) /\ Tail(s)[i - 1] = s[i]
      BY <2>2
    <3> QED  BY <3>1 DEF ToSet
  <2> QED  BY <2>1, <2>2
<1> QED  BY <1>1, <1>2 DEF ToSet

--------------------------------------------------------------------------------
(* Type correctness *)

\* The initial state satisfies the invariant.
LEMMA InitIInv == Init => IInv
<1> SUFFICES ASSUME Init PROVE IInv
  OBVIOUS
<1> USE UserbotAssumption
<1>1. TypeOK
  <2>1. 1 \in 1..(MaxEvent + 1) /\ faults \in Seq(FaultKinds)
    BY DEF Init
  <2>2. reports = <<>> /\ rows = <<>> /\ telegram = <<>>
    BY DEF Init
  <2>3. outcome \in [Event -> {"none", "done", "poison"}]
    BY DEF Init
  <2>4. reports \in Seq([event : Event, ids : SUBSET Nat])
    BY <2>2
  <2>5. rows \in Seq(Event) /\ telegram \in Seq(Event)
    BY <2>2
  <2> QED  BY <2>1, <2>3, <2>4, <2>5 DEF Init, TypeOK
<1>2. SeenHandled /\ AckHandled /\ HeadThere /\ CurrentIsEvent /\ ProducedSound
  BY DEF Init, SeenHandled, AckHandled, HeadThere, CurrentIsEvent, ProducedSound
<1>3. NoSilentLoss
  BY DEF Init, NoSilentLoss, Event
<1>4. ReportSound
  BY DEF Init, ReportSound
<1> QED  BY <1>1, <1>2, <1>3, <1>4 DEF IInv

\* A fault that happens is one of the kinds there are.
LEMMA FaultType ==
    ASSUME faults \in Seq(FaultKinds), NEW k, Fault(k)
    PROVE  faults' \in Seq(FaultKinds)
BY UserbotAssumption DEF Fault

\* The steps of the server and of the poll loop preserve the types.
LEMMA PollerType ==
    ASSUME TypeOK, Relay \/ PollerStep
    PROVE  TypeOK'
<1> USE UserbotAssumption DEF TypeOK, server, poller, worker
<1>1. CASE Relay
  BY <1>1 DEF Relay, Event
<1>2. CASE Poll
  BY <1>2 DEF Poll
<1>3. ASSUME NEW e \in Event, HandleStep(e)
      PROVE  TypeOK'
  <2>1. CASE Enqueue(e)
    <3>1. rows' \in Seq(Event)
      BY <2>1, AppendFacts DEF Enqueue
    <3> QED  BY <2>1, <3>1 DEF Enqueue
  <2>2. CASE EnqueueFails(e)
    <3>1. faults' \in Seq(FaultKinds)
      BY <2>2, FaultType DEF EnqueueFails
    <3> QED  BY <2>2, <3>1 DEF EnqueueFails, After
  <2>3. CASE SetWake(e)
    BY <2>3 DEF SetWake
  <2>4. CASE Reack(e)
    BY <2>4 DEF Reack
  <2>5. CASE Ack(e)
    BY <2>5 DEF Ack, After
  <2>6. CASE AckLost(e)
    <3>1. faults' \in Seq(FaultKinds)
      BY <2>6, FaultType DEF AckLost
    <3> QED  BY <2>6, <3>1 DEF AckLost, After
  <2> QED  BY <1>3, <2>1, <2>2, <2>3, <2>4, <2>5, <2>6 DEF HandleStep
<1> QED  BY <1>1, <1>2, <1>3 DEF PollerStep

\* The steps that perform the head action preserve the types.
LEMMA PerformType ==
    ASSUME TypeOK, HeadThere, NEW e \in Event, PerformStep(e)
    PROVE  TypeOK'
<1> USE UserbotAssumption DEF TypeOK, server, poller, worker
<1>0. Performing(e) => rows # <<>> /\ Tail(rows) \in Seq(Event)
  BY TailFacts DEF Performing, HeadThere
<1>1. CASE Act(e)
  <2>1. telegram' \in Seq(Event)
    BY <1>1, AppendFacts DEF Act, Apply
  <2> QED  BY <1>1, <2>1 DEF Act
<1>2. CASE PostFile(e)
  <2>1. telegram' \in Seq(Event) /\ Len(telegram') \in Nat
    BY <1>2, AppendFacts DEF PostFile, Apply
  <2>2. produced' = produced \cup {Len(telegram')} /\ part' = part + 1
    BY <1>2 DEF PostFile
  <2>3. produced' \subseteq Nat
    BY <2>1, <2>2
  <2>4. part' \in Nat
    BY <2>2
  <2> QED  BY <1>2, <2>1, <2>3, <2>4 DEF PostFile
<1>3. CASE SkipFile(e)
  BY <1>3 DEF SkipFile
<1>4. CASE DownloadFails(e)
  <2>1. faults' \in Seq(FaultKinds)
    BY <1>4, FaultType DEF DownloadFails
  <2> QED  BY <1>4, <2>1 DEF DownloadFails
<1>5. CASE PostText(e)
  <2>1. telegram' \in Seq(Event) /\ Len(telegram') \in Nat
    BY <1>5, AppendFacts DEF PostText, Apply
  <2> QED  BY <1>5, <2>1 DEF PostText
<1>6. CASE FilesPosted(e)
  BY <1>6 DEF FilesPosted
<1>7. CASE Flood(e)
  <2>1. faults' \in Seq(FaultKinds)
    BY <1>7, FaultType DEF Flood
  <2>2. rows' \in Seq(Event)
    BY <1>7, <1>0, AppendFacts DEF Flood
  <2> QED  BY <1>7, <2>1, <2>2 DEF Flood
<1>8. CASE Poison(e)
  <2>1. faults' \in Seq(FaultKinds)
    BY <1>8, FaultType DEF Poison
  <2> QED  BY <1>8, <1>0, <2>1 DEF Poison
<1> QED  BY <1>1, <1>2, <1>3, <1>4, <1>5, <1>6, <1>7, <1>8 DEF PerformStep

\* The other steps of the worker, and a crash, preserve the types.
LEMMA WorkerType ==
    ASSUME TypeOK, HeadThere, CurrentIsEvent, WorkerStep \/ Crash
    PROVE  TypeOK'
<1> USE UserbotAssumption DEF TypeOK, server, poller, worker
<1>1. CASE PeekHead
  BY <1>1 DEF PeekHead
<1>2. CASE Sleep
  BY <1>2 DEF Sleep
<1>3. CASE Woken
  BY <1>3 DEF Woken
<1>4. CASE Wait
  BY <1>4 DEF Wait
<1>5. CASE EndWait
  BY <1>5 DEF EndWait
<1>6. CASE BeginPerform
  BY <1>6 DEF BeginPerform
<1>7. CASE \E e \in Event : PerformStep(e)
  BY <1>7, PerformType
<1>8. CASE DeleteRow
  <2>1. Head(rows) \in Event /\ Tail(rows) \in Seq(Event)
    BY <1>8, TailFacts DEF DeleteRow, HeadThere
  <2> QED  BY <1>8, <2>1 DEF DeleteRow
<1>9. CASE Correlate
  <2>1. current \in Event
    BY <1>9 DEF Correlate, CurrentIsEvent
  <2>2. [event |-> current, ids |-> produced] \in [event : Event, ids : SUBSET Nat]
    BY <2>1
  <2>3. reports' \in Seq([event : Event, ids : SUBSET Nat])
    BY <1>9, <2>2 DEF Correlate
  <2> QED  BY <1>9, <2>3 DEF Correlate
<1>10. CASE CorrelateLost
  <2>1. faults' \in Seq(FaultKinds)
    BY <1>10, FaultType DEF CorrelateLost
  <2> QED  BY <1>10, <2>1 DEF CorrelateLost
<1>11. CASE Crash
  <2>1. faults' \in Seq(FaultKinds)
    BY <1>11, FaultType DEF Crash
  <2> QED  BY <1>11, <2>1 DEF Crash
<1> QED
  BY <1>1, <1>2, <1>3, <1>4, <1>5, <1>6, <1>7, <1>8, <1>9, <1>10, <1>11 DEF WorkerStep

\* Every step preserves the types.
LEMMA StepType ==
    ASSUME IInv, [Next]_vars
    PROVE  TypeOK'
<1>1. TypeOK /\ HeadThere /\ CurrentIsEvent
  BY DEF IInv
<1>2. CASE Relay \/ PollerStep
  BY <1>1, <1>2, PollerType
<1>3. CASE WorkerStep \/ Crash
  BY <1>1, <1>3, WorkerType
<1>4. CASE UNCHANGED vars
  BY <1>1, <1>4 DEF vars, server, poller, worker, TypeOK
<1> QED  BY <1>2, <1>3, <1>4 DEF Next

--------------------------------------------------------------------------------
(* What a step does to the outbox *)

\* Nothing, an event is appended, the head is moved to the tail, or the head is
\* removed with its outcome.
OutboxKept == rows' = rows /\ outcome' = outcome

OutboxAppend(e) ==
    /\ bpc = "event" /\ bpc' = "enqueued" /\ IsFirst(e) /\ batch' = batch
    /\ e \notin seen
    /\ rows' = Append(rows, e)
    /\ UNCHANGED <<outcome, wpc, produced, current, telegram>>

OutboxDefer ==
    /\ wpc = "perform" /\ wpc' = "peek"
    /\ rows' = Append(Tail(rows), Head(rows))
    /\ faults' = Append(faults, "flood")
    /\ UNCHANGED <<outcome, telegram, poller>>

OutboxRemove ==
    /\ wpc \in {"perform", "delete"} /\ wpc' \in {"peek", "correlate"}
    /\ rows' = Tail(rows)
    /\ \E o \in {"done", "poison"} : outcome' = [outcome EXCEPT ![Head(rows)] = o]
    /\ UNCHANGED <<telegram, poller>>

\* These are all the ways a step can change the outbox.
LEMMA OutboxStep ==
    ASSUME [Next]_vars
    PROVE  \/ OutboxKept
           \/ \E e \in Event : OutboxAppend(e)
           \/ OutboxDefer
           \/ OutboxRemove
<1> USE DEF server, poller, worker
<1>1. CASE Relay
  BY <1>1 DEF Relay, OutboxKept
<1>2. CASE Poll
  BY <1>2 DEF Poll, OutboxKept
<1>3. ASSUME NEW e \in Event, HandleStep(e)
      PROVE  OutboxKept \/ OutboxAppend(e)
  <2>1. CASE Enqueue(e)
    BY <2>1 DEF Enqueue, OutboxAppend
  <2> QED
    BY <1>3, <2>1 DEF HandleStep, EnqueueFails, SetWake, Reack, Ack, AckLost, OutboxKept
<1>4. ASSUME NEW e \in Event, PerformStep(e)
      PROVE  OutboxKept \/ OutboxDefer \/ OutboxRemove
  <2>1. CASE Flood(e)
    BY <2>1 DEF Flood, Fault, Performing, OutboxDefer
  <2>2. CASE Poison(e)
    BY <2>2 DEF Poison, Performing, OutboxRemove
  <2> QED
    BY <1>4, <2>1, <2>2 DEF PerformStep, Act, PostFile, SkipFile, DownloadFails, PostText,
                            FilesPosted, OutboxKept
<1>5. CASE DeleteRow
  BY <1>5 DEF DeleteRow, OutboxRemove
<1>6. CASE PeekHead \/ Sleep \/ Woken \/ Wait \/ EndWait \/ BeginPerform \/ Correlate \/ CorrelateLost
  BY <1>6 DEF PeekHead, Sleep, Woken, Wait, EndWait, BeginPerform, Correlate, CorrelateLost, OutboxKept
<1>7. CASE Crash
  BY <1>7 DEF Crash, OutboxKept
<1>8. CASE UNCHANGED vars
  BY <1>8 DEF vars, OutboxKept
<1> QED
  BY <1>1, <1>2, <1>3, <1>4, <1>5, <1>6, <1>7, <1>8 DEF Next, PollerStep, WorkerStep

\* What is in the outbox, or dealt with, stays so.
LEMMA HandledStays ==
    ASSUME IInv, [Next]_vars, NEW e \in Event, Handled(e)
    PROVE  Handled(e)'
<1>1. rows \in Seq(Event) /\ outcome \in [Event -> {"none", "done", "poison"}] /\ HeadThere
  BY DEF IInv, TypeOK
<1>2. CASE OutboxKept
  BY <1>2 DEF OutboxKept, Handled, Stored
<1>3. ASSUME NEW f \in Event, OutboxAppend(f)
      PROVE  Handled(e)'
  BY <1>1, <1>3, AppendFacts DEF OutboxAppend, Handled, Stored
<1>4. CASE OutboxDefer
  <2>1. rows # <<>>
    BY <1>1, <1>4 DEF OutboxDefer, HeadThere
  <2>2. Head(rows) \in Event /\ Tail(rows) \in Seq(Event)
        /\ ToSet(rows) \subseteq {Head(rows)} \cup ToSet(Tail(rows))
    BY <1>1, <2>1, TailFacts
  <2> DEFINE t == Tail(rows)
             h == Head(rows)
  <2>3. rows' = Append(t, h)
    BY <1>4 DEF OutboxDefer
  <2>4. t \in Seq(Event) /\ h \in Event /\ ToSet(rows) \subseteq {h} \cup ToSet(t)
    BY <2>2
  <2> HIDE DEF t, h
  <2>5. ToSet(t) \subseteq ToSet(Append(t, h)) /\ h \in ToSet(Append(t, h))
    BY <2>4, AppendFacts
  <2>6. ToSet(rows) \subseteq ToSet(rows')
    BY <2>3, <2>4, <2>5
  <2> QED  BY <1>4, <2>6 DEF OutboxDefer, Handled, Stored
<1>5. CASE OutboxRemove
  <2>1. rows # <<>>
    BY <1>1, <1>5 DEF OutboxRemove, HeadThere
  <2>2. Head(rows) \in Event /\ ToSet(rows) \subseteq {Head(rows)} \cup ToSet(Tail(rows))
    BY <1>1, <2>1, TailFacts
  <2>3. e = Head(rows) => outcome'[e] # "none"
    BY <1>1, <1>5 DEF OutboxRemove
  <2>4. e # Head(rows) => outcome'[e] = outcome[e]
    BY <1>1, <1>5 DEF OutboxRemove
  <2> QED  BY <1>5, <2>2, <2>3, <2>4 DEF OutboxRemove, Handled, Stored
<1> QED  BY <1>2, <1>3, <1>4, <1>5, OutboxStep

--------------------------------------------------------------------------------
(* No event is lost *)

\* The first event of a batch is the only one.
LEMMA FirstUnique ==
    ASSUME TypeOK, NEW e \in Event, NEW f \in Event, IsFirst(e), IsFirst(f)
    PROVE  e = f
<1>1. e <= f /\ f <= e
  BY DEF IsFirst
<1> QED  BY <1>1 DEF Event

\* The poll loop marks seen only what was stored.
LEMMA StepSeen ==
    ASSUME IInv, [Next]_vars
    PROVE  SeenHandled'
<1> USE DEF server, poller, worker
<1>1. SeenHandled /\ AckHandled /\ TypeOK
  BY DEF IInv
<1>2. \A e \in seen : e \in Event /\ Handled(e)
  BY <1>1 DEF SeenHandled, TypeOK
<1>3. SUFFICES ASSUME NEW e \in seen', e \notin seen
               PROVE  Handled(e)'
  BY <1>2, HandledStays DEF SeenHandled
<1>4. PICK f \in Event : Ack(f) \/ AckLost(f)
  <2>1. ASSUME NEW f \in Event, HandleStep(f), ~Ack(f), ~AckLost(f)
        PROVE  seen' = seen
    BY <2>1 DEF HandleStep, Enqueue, EnqueueFails, SetWake, Reack
  <2>2. ASSUME NEW f \in Event, PerformStep(f)
        PROVE  seen' = seen
    BY <2>2 DEF PerformStep, Act, PostFile, SkipFile, DownloadFails, PostText, FilesPosted, Flood, Poison
  <2>3. CASE WorkerStep
    BY <1>3, <2>2, <2>3 DEF WorkerStep, PeekHead, Sleep, Woken, Wait, EndWait, BeginPerform, DeleteRow,
                      Correlate, CorrelateLost
  <2>4. CASE Relay \/ Crash \/ UNCHANGED vars
    BY <1>3, <2>4 DEF Relay, Crash, vars
  <2>5. CASE PollerStep
    BY <1>3, <2>1, <2>5 DEF PollerStep, Poll
  <2> QED  BY <2>3, <2>4, <2>5 DEF Next
<1>5. e = f /\ bpc = "ack" /\ IsFirst(f)
  BY <1>3, <1>4 DEF Ack, AckLost
<1>6. Handled(f)
  BY <1>1, <1>5 DEF AckHandled
<1> QED  BY <1>5, <1>6, HandledStays

\* The poll loop acks only what was stored.
LEMMA StepAck ==
    ASSUME IInv, [Next]_vars
    PROVE  AckHandled'
<1> USE DEF server, poller, worker
<1>1. TypeOK /\ SeenHandled /\ AckHandled
  BY DEF IInv
<1>2. SUFFICES ASSUME NEW e \in Event, bpc' \in {"enqueued", "ack"}, IsFirst(e)'
               PROVE  Handled(e)'
  BY DEF AckHandled
<1>3. ASSUME bpc' = bpc, batch' = batch
      PROVE  Handled(e)'
  <2>1. Handled(e)
    BY <1>1, <1>2, <1>3 DEF AckHandled, IsFirst
  <2> QED  BY <2>1, HandledStays
<1>4. CASE Relay \/ WorkerStep \/ UNCHANGED vars
  <2>1. ASSUME NEW f \in Event, PerformStep(f)
        PROVE  UNCHANGED poller
    BY <2>1 DEF PerformStep, Act, PostFile, SkipFile, DownloadFails, PostText, FilesPosted, Flood, Poison
  <2>2. UNCHANGED poller
    BY <1>4, <2>1 DEF Relay, vars, WorkerStep, PeekHead, Sleep, Woken, Wait, EndWait, BeginPerform,
                      DeleteRow, Correlate, CorrelateLost
  <2> QED  BY <1>3, <2>2
<1>5. CASE Poll \/ Crash
  BY <1>2, <1>5 DEF Poll, Crash
<1>6. ASSUME NEW f \in Event, HandleStep(f)
      PROVE  Handled(e)'
  <2>1. CASE Enqueue(f)
    <3>1. e = f
      BY <1>1, <1>2, <2>1, FirstUnique DEF Enqueue, IsFirst
    <3>2. f \in ToSet(rows')
      BY <1>1, <2>1, AppendFacts DEF Enqueue, TypeOK
    <3> QED  BY <3>1, <3>2 DEF Handled, Stored
  <2>2. CASE Reack(f)
    <3>1. e = f
      BY <1>1, <1>2, <2>2, FirstUnique DEF Reack, IsFirst
    <3>2. Handled(f)
      BY <1>1, <2>2 DEF Reack, SeenHandled
    <3> QED  BY <3>1, <3>2, HandledStays
  <2>3. CASE SetWake(f)
    <3>1. Handled(e)
      BY <1>1, <1>2, <2>3 DEF SetWake, AckHandled, IsFirst
    <3> QED  BY <3>1, HandledStays
  <2>4. CASE EnqueueFails(f) \/ Ack(f) \/ AckLost(f)
    BY <1>2, <2>4 DEF EnqueueFails, Ack, AckLost, After
  <2> QED  BY <1>6, <2>1, <2>2, <2>3, <2>4 DEF HandleStep
<1> QED  BY <1>4, <1>5, <1>6 DEF Next, PollerStep

\* The server forgets an event only when it was stored.
LEMMA StepSilent ==
    ASSUME IInv, [Next]_vars
    PROVE  NoSilentLoss'
<1> USE DEF server, poller, worker
<1>1. TypeOK /\ AckHandled /\ NoSilentLoss
  BY DEF IInv
<1>2. SUFFICES ASSUME NEW e \in Event, e < nextEvent'
               PROVE  e \in queue' \/ Handled(e)'
  BY DEF NoSilentLoss, Handled
<1>3. ASSUME e < nextEvent, queue \subseteq queue'
      PROVE  e \in queue' \/ Handled(e)'
  BY <1>1, <1>3, HandledStays DEF NoSilentLoss, Handled
<1>4. CASE Relay
  <2>1. e < nextEvent \/ e = nextEvent
    BY <1>1, <1>2, <1>4 DEF Relay, TypeOK, Event
  <2> QED  BY <1>3, <1>4, <2>1 DEF Relay
<1>5. ASSUME NEW f \in Event, Ack(f)
      PROVE  e \in queue' \/ Handled(e)'
  <2>1. Handled(f)
    BY <1>1, <1>5 DEF Ack, AckHandled
  <2>2. e < nextEvent
    BY <1>2, <1>5 DEF Ack
  <2>3. e \in queue \/ Handled(e)
    BY <1>1, <2>2 DEF NoSilentLoss, Handled
  <2>4. e # f /\ e \in queue => e \in queue'
    BY <1>5 DEF Ack
  <2> QED  BY <2>1, <2>3, <2>4, HandledStays
<1>6. ASSUME ~Relay, \A f \in Event : ~Ack(f)
      PROVE  nextEvent' = nextEvent /\ queue' = queue
  <2>1. ASSUME NEW f \in Event, HandleStep(f)
        PROVE  UNCHANGED server
    BY <1>6, <2>1 DEF HandleStep, Enqueue, EnqueueFails, SetWake, Reack, AckLost
  <2>2. ASSUME NEW f \in Event, PerformStep(f)
        PROVE  UNCHANGED server
    BY <2>2 DEF PerformStep, Act, PostFile, SkipFile, DownloadFails, PostText, FilesPosted, Flood, Poison
  <2> QED
    BY <1>6, <2>1, <2>2 DEF Next, PollerStep, Poll, WorkerStep, PeekHead, Sleep, Woken, Wait, EndWait,
                            BeginPerform, DeleteRow, Correlate, CorrelateLost, Crash, vars
<1> QED  BY <1>2, <1>3, <1>4, <1>5, <1>6

--------------------------------------------------------------------------------
(* Reports are sound *)

\* The posts of an event stay.
LEMMA AppliedStays ==
    ASSUME TypeOK, [Next]_vars, NEW e
    PROVE  Applied(e) \subseteq Applied(e)'
<1> USE DEF server, poller, worker
<1>1. telegram' = telegram \/ \E f \in Event : telegram' = Append(telegram, f)
  <2>1. ASSUME NEW f \in Event, PerformStep(f)
        PROVE  telegram' = telegram \/ telegram' = Append(telegram, f)
    BY <2>1 DEF PerformStep, Act, PostFile, SkipFile, DownloadFails, PostText, FilesPosted, Flood,
                Poison, Apply
  <2>2. ASSUME NEW f \in Event, HandleStep(f)
        PROVE  telegram' = telegram
    BY <2>2 DEF HandleStep, Enqueue, EnqueueFails, SetWake, Reack, Ack, AckLost
  <2>3. CASE WorkerStep
    BY <2>1, <2>3 DEF WorkerStep, PeekHead, Sleep, Woken, Wait, EndWait, BeginPerform, DeleteRow,
                      Correlate, CorrelateLost
  <2>4. CASE PollerStep \/ Relay \/ Crash \/ UNCHANGED vars
    BY <2>2, <2>4 DEF PollerStep, Poll, Relay, Crash, vars
  <2> QED  BY <2>3, <2>4 DEF Next
<1>2. ASSUME NEW f \in Event, telegram' = Append(telegram, f), NEW i \in DOMAIN telegram
      PROVE  i \in DOMAIN telegram' /\ telegram'[i] = telegram[i]
  BY <1>2 DEF TypeOK
<1> QED  BY <1>1, <1>2 DEF Applied

\* The worker alone removes rows, and then looks for the next.
LEMMA StepHead ==
    ASSUME IInv, [Next]_vars
    PROVE  HeadThere'
<1> USE DEF server, poller, worker
<1>1. TypeOK /\ HeadThere /\ rows \in Seq(Event)
  BY DEF IInv, TypeOK
<1>2. CASE OutboxKept
  <2>1. ASSUME NEW f \in Event, PerformStep(f)
        PROVE  HeadThere'
    BY <1>1, <1>2, <2>1 DEF OutboxKept, PerformStep, Act, PostFile, SkipFile, DownloadFails, PostText,
                FilesPosted, Flood, Poison, Performing, HeadThere
  <2>2. ASSUME NEW f \in Event, HandleStep(f)
        PROVE  wpc' = wpc
    BY <2>2 DEF HandleStep, Enqueue, EnqueueFails, SetWake, Reack, Ack, AckLost
  <2>3. CASE WorkerStep
    BY <1>1, <1>2, <2>1, <2>3
       DEF OutboxKept, WorkerStep, PeekHead, Sleep, Woken, Wait, EndWait, BeginPerform, DeleteRow,
           Correlate, CorrelateLost, HeadThere
  <2>4. CASE PollerStep \/ Relay \/ Crash \/ UNCHANGED vars
    BY <1>1, <1>2, <2>2, <2>4 DEF OutboxKept, PollerStep, Poll, Relay, Crash, vars, HeadThere
  <2> QED  BY <2>3, <2>4 DEF Next
<1>3. ASSUME NEW e \in Event, OutboxAppend(e)
      PROVE  HeadThere'
  <2>1. rows' # <<>>
    BY <1>1, <1>3, AppendFacts DEF OutboxAppend
  <2> QED  BY <2>1 DEF HeadThere
<1>4. CASE OutboxDefer \/ OutboxRemove
  BY <1>4 DEF OutboxDefer, OutboxRemove, HeadThere
<1> QED  BY <1>2, <1>3, <1>4, OutboxStep

\* The ids collected are posts of the head, until they are reported for it.
LEMMA StepProduced ==
    ASSUME IInv, [Next]_vars
    PROVE  ProducedSound' /\ CurrentIsEvent'
<1> USE DEF server, poller, worker
<1>1. /\ TypeOK /\ HeadThere /\ CurrentIsEvent /\ ProducedSound
      /\ rows \in Seq(Event) /\ telegram \in Seq(Event)
  BY DEF IInv, TypeOK
<1>2. ASSUME UNCHANGED <<wpc, produced, current>>,
             wpc \in {"perform", "delete"} => Head(rows') = Head(rows)
      PROVE  ProducedSound' /\ CurrentIsEvent'
  BY <1>1, <1>2, AppliedStays DEF ProducedSound, CurrentIsEvent
<1>3. ASSUME wpc' \notin {"perform", "delete", "correlate"}
      PROVE  ProducedSound' /\ CurrentIsEvent'
  BY <1>3 DEF ProducedSound, CurrentIsEvent
<1>4. ASSUME NEW e \in Event, HandleStep(e)
      PROVE  ProducedSound' /\ CurrentIsEvent'
  <2>1. CASE Enqueue(e)
    <3>1. wpc \in {"perform", "delete"} => Head(rows') = Head(rows)
      BY <1>1, <2>1, AppendFacts DEF Enqueue, HeadThere
    <3> QED  BY <1>2, <2>1, <3>1 DEF Enqueue
  <2> QED
    BY <1>2, <1>4, <2>1 DEF HandleStep, EnqueueFails, SetWake, Reack, Ack, AckLost
<1>5. ASSUME NEW e \in Event, PerformStep(e)
      PROVE  ProducedSound' /\ CurrentIsEvent'
  <2>1. ASSUME rows' = rows, wpc = "perform", wpc' \in {"perform", "delete"}, produced' = produced
        PROVE  ProducedSound' /\ CurrentIsEvent'
    BY <1>1, <2>1, AppliedStays DEF ProducedSound, CurrentIsEvent
  <2>2. CASE PostFile(e) \/ PostText(e)
    <3>1. telegram' = Append(telegram, e) /\ e = Head(rows) /\ rows' = rows /\ wpc = "perform"
          /\ wpc' \in {"perform", "delete"}
          /\ produced' \subseteq produced \cup {Len(telegram')}
      BY <2>2 DEF PostFile, PostText, Performing, Apply
    <3>2. Len(telegram') \in DOMAIN telegram' /\ telegram'[Len(telegram')] = e
      BY <1>1, <3>1
    <3>3. Len(telegram') \in Applied(Head(rows))'
      BY <3>1, <3>2 DEF Applied
    <3> QED  BY <1>1, <3>1, <3>3, AppliedStays DEF ProducedSound, CurrentIsEvent
  <2>3. CASE Act(e) \/ SkipFile(e) \/ DownloadFails(e) \/ FilesPosted(e)
    BY <2>1, <2>3 DEF Act, SkipFile, DownloadFails, FilesPosted, Performing
  <2>4. CASE Flood(e) \/ Poison(e)
    BY <1>3, <2>4 DEF Flood, Poison
  <2> QED  BY <1>5, <2>2, <2>3, <2>4 DEF PerformStep
<1>6. CASE DeleteRow
  <2>1. Head(rows) \in Event /\ produced \subseteq Applied(Head(rows))
    BY <1>1, <1>6, TailFacts DEF DeleteRow, HeadThere, ProducedSound
  <2>2. current' = Head(rows) /\ produced' = produced /\ wpc' = "correlate"
    BY <1>6 DEF DeleteRow
  <2> QED  BY <1>1, <2>1, <2>2, AppliedStays DEF ProducedSound, CurrentIsEvent
<1>7. CASE BeginPerform
  BY <1>7 DEF BeginPerform, ProducedSound, CurrentIsEvent
<1>8. CASE PeekHead \/ Sleep \/ Woken \/ Wait \/ EndWait \/ Correlate \/ CorrelateLost \/ Crash
  BY <1>3, <1>8 DEF PeekHead, Sleep, Woken, Wait, EndWait, Correlate, CorrelateLost, Crash
<1>9. CASE Relay \/ Poll \/ UNCHANGED vars
  BY <1>2, <1>9 DEF Relay, Poll, vars
<1> QED
  BY <1>4, <1>5, <1>6, <1>7, <1>8, <1>9 DEF Next, PollerStep, WorkerStep

\* A report holds what the worker collected.
LEMMA StepReport ==
    ASSUME IInv, [Next]_vars
    PROVE  ReportSound'
<1> USE DEF server, poller, worker
<1> DEFINE Report == [event : Event, ids : SUBSET Nat]
<1>1. TypeOK /\ CurrentIsEvent /\ ProducedSound /\ ReportSound /\ reports \in Seq(Report)
  BY DEF IInv, TypeOK
<1>2. CASE reports' = reports
  BY <1>1, <1>2, AppliedStays DEF ReportSound
<1>3. CASE Correlate
  <2> DEFINE r == [event |-> current, ids |-> produced]
  <2>1. reports' = Append(reports, r) /\ wpc = "correlate"
    BY <1>3 DEF Correlate
  <2>2. r.ids \subseteq Applied(r.event)
    BY <1>1, <2>1 DEF ProducedSound
  <2>3. ASSUME NEW i \in DOMAIN reports'
        PROVE  reports'[i] = r \/ (i \in DOMAIN reports /\ reports'[i] = reports[i])
    <3> HIDE DEF r, Report
    <3> QED  BY <1>1, <2>1, <2>3
  <2>4. ASSUME NEW i \in DOMAIN reports'
        PROVE  reports'[i].ids \subseteq Applied(reports'[i].event)
    <3> HIDE DEF r
    <3> QED  BY <1>1, <2>2, <2>3, <2>4 DEF ReportSound
  <2>5. \A e : Applied(e) \subseteq Applied(e)'
    BY <1>1, AppliedStays
  <2> QED  BY <2>4, <2>5 DEF ReportSound, Applied
<1>4. ASSUME NEW e \in Event, HandleStep(e) \/ PerformStep(e)
      PROVE  reports' = reports
  BY <1>4 DEF HandleStep, Enqueue, EnqueueFails, SetWake, Reack, Ack, AckLost, PerformStep, Act,
              PostFile, SkipFile, DownloadFails, PostText, FilesPosted, Flood, Poison
<1>5. CASE ~Correlate
  <2>1. reports' = reports
    BY <1>4, <1>5 DEF Next, Relay, PollerStep, Poll, WorkerStep, PeekHead, Sleep, Woken, Wait, EndWait,
                      BeginPerform, DeleteRow, CorrelateLost, Crash, vars
  <2> QED  BY <1>2, <2>1
<1> QED  BY <1>3, <1>5

--------------------------------------------------------------------------------
(* Theorems *)

\* The invariant is inductive: whatever the poll loop, the worker, the faults
\* and the restarts do.
THEOREM Invariance == Spec => []IInv
<1>1. IInv /\ [Next]_vars => IInv'
  BY StepType, StepSeen, StepAck, StepSilent, StepHead, StepProduced, StepReport DEF IInv
<1> QED  BY InitIInv, <1>1, PTL DEF Spec

\* Every variable keeps its type.
THEOREM TypeCorrect == Spec => []TypeOK
<1>1. IInv => TypeOK
  BY DEF IInv
<1> QED  BY Invariance, <1>1, PTL

\* "Acked means durably received": no crash, flood, failed insert or lost ack
\* loses an event, for any number of them.
THEOREM NoEventLost == Spec => []NoSilentLoss
<1>1. IInv => NoSilentLoss
  BY DEF IInv
<1> QED  BY Invariance, <1>1, PTL

\* The Telegram ids reported for an event are those of its own posts, though
\* the outbox is reordered by floods and appended to while the head is posted.
THEOREM ReportCorrect == Spec => []ReportSound
<1>1. IInv => ReportSound
  BY DEF IInv
<1> QED  BY Invariance, <1>1, PTL

================================================================================
