--------------------------- MODULE UserbotOrderProofs ---------------------------
(***************************************************************************)
(* Proofs about what the userbot does when nothing is put back in its      *)
(* outbox: no event is applied to Telegram more often than it has parts,   *)
(* and correlations are reported in the order of the events, for any       *)
(* number of events, attachments, lost acks and lost correlations.         *)
(***************************************************************************)
EXTENDS UserbotProofs, FiniteSetTheorems

\* The outbox is not filled twice: no restart, and no flood wait.
Once == Without({"crash", "flood"})

\* Nor is an event passed over: no failed insert.
InOrder == Without({"crash", "flood", "disk"})

\* No event is stored twice, or again after it has been dealt with.
RowsDistinct ==
    Once => /\ \A i, j \in DOMAIN rows : i # j => rows[i] # rows[j]
            /\ \A e \in Stored : outcome[e] = "none"

\* What was stored is marked seen, or about to be: it is not stored again.
HandledSeen ==
    Once => \A e \in Event :
        Handled(e) => e \in seen \/ (bpc \in {"enqueued", "ack"} /\ IsFirst(e))

\* Only what was dealt with, and the action performed, was applied.
Unapplied ==
    Once => \A e \in Event :
        \/ Applied(e) = {}
        \/ outcome[e] # "none"
        \/ wpc \in {"perform", "delete"} /\ e = Head(rows)

\* The action performed has been applied at most once per part dealt with,
\* and its posts have all been collected.
PartsCounted ==
    Once /\ wpc = "perform" =>
        /\ part <= FilesOf[Head(rows)]
        /\ Applied(Head(rows)) \subseteq produced
        /\ Cardinality(Applied(Head(rows))) <= part

\* Everything the server, the poll loop and the outbox hold was relayed.
Given == batch \cup queue \cup Stored \subseteq 1..(nextEvent - 1)

\* A batch misses no earlier event that is not stored yet.
BatchComplete ==
    InOrder => \A e \in batch, f \in queue : f < e => f \in batch \/ Handled(f)

\* Events are stored in order ...
HandledFirst ==
    InOrder => \A e, f \in Event : Handled(e) /\ f < e => Handled(f)

\* ... and dealt with in order.
RowsSorted ==
    InOrder => /\ \A i, j \in DOMAIN rows : i < j => rows[i] < rows[j]
               /\ \A e \in Event, f \in Stored : outcome[e] # "none" => e < f

\* What is reported, or about to be, has been dealt with.
ReportedDone ==
    /\ \A i \in DOMAIN reports : outcome[reports[i].event] # "none"
    /\ wpc = "correlate" => outcome[current] # "none"

\* The event being correlated comes after those reported.
CurrentLast ==
    InOrder /\ wpc = "correlate" => \A i \in DOMAIN reports : reports[i].event < current

\* What makes posts happen once.
OnceInv ==
    /\ RowsDistinct
    /\ HandledSeen
    /\ Unapplied
    /\ PartsCounted
    /\ AppliedOnce

\* What makes reports come in order.
OrderInv ==
    /\ Given
    /\ BatchComplete
    /\ HandledFirst
    /\ RowsSorted
    /\ ReportedDone
    /\ CurrentLast
    /\ ReportsInOrder

\* The inductive invariant.
OInv == IInv /\ OnceInv /\ OrderInv

--------------------------------------------------------------------------------
(* Sequences of events *)

\* The elements of a sequence with one more at its end, and their places.
LEMMA AppendSet ==
    ASSUME NEW S, NEW s \in Seq(S), NEW x \in S
    PROVE  /\ ToSet(Append(s, x)) = ToSet(s) \cup {x}
           /\ DOMAIN Append(s, x) = DOMAIN s \cup {Len(s) + 1}
           /\ \A i \in DOMAIN s : i < Len(s) + 1 /\ Append(s, x)[i] = s[i]
           /\ Append(s, x)[Len(s) + 1] = x
           /\ Len(s) + 1 \notin DOMAIN s
<1>1. /\ DOMAIN Append(s, x) = DOMAIN s \cup {Len(s) + 1}
      /\ \A i \in DOMAIN s : i < Len(s) + 1 /\ Append(s, x)[i] = s[i]
      /\ Append(s, x)[Len(s) + 1] = x
      /\ Len(s) + 1 \notin DOMAIN s
  OBVIOUS
<1> DEFINE t == Append(s, x)
<1> HIDE DEF t
<1>2. /\ DOMAIN t = DOMAIN s \cup {Len(s) + 1}
      /\ \A i \in DOMAIN s : t[i] = s[i]
      /\ t[Len(s) + 1] = x
  BY <1>1 DEF t
<1>3. ToSet(s) \subseteq ToSet(t) /\ x \in ToSet(t)
  BY AppendFacts DEF t
<1>4. ASSUME NEW y \in ToSet(t)
      PROVE  y \in ToSet(s) \cup {x}
  <2>1. PICK i \in DOMAIN t : y = t[i]
    BY <1>4 DEF ToSet
  <2>2. i = Len(s) + 1 \/ (i \in DOMAIN s /\ y = s[i])
    BY <1>2, <2>1
  <2>3. y = x \/ \E j \in DOMAIN s : y = s[j]
    BY <1>2, <2>1, <2>2
  <2> QED  BY <2>3 DEF ToSet
<1>5. ToSet(t) = ToSet(s) \cup {x}
  BY <1>3, <1>4
<1> QED  BY <1>1, <1>5 DEF t

\* Every element of the tail was one place further back.
LEMMA TailSet ==
    ASSUME NEW S, NEW s \in Seq(S), s # <<>>
    PROVE  /\ ToSet(Tail(s)) \subseteq ToSet(s)
           /\ Head(s) \in ToSet(s)
           /\ Head(s) = s[1] /\ 1 \in DOMAIN s
           /\ \A i \in DOMAIN Tail(s) : i + 1 \in DOMAIN s /\ 1 < i + 1 /\ Tail(s)[i] = s[i + 1]
<1>1. Head(s) = s[1] /\ 1 \in DOMAIN s
  OBVIOUS
<1>2. \A i \in DOMAIN Tail(s) : i \in Nat /\ i + 1 \in DOMAIN s /\ 1 < i + 1 /\ Tail(s)[i] = s[i + 1]
  OBVIOUS
<1> QED  BY <1>1, <1>2 DEF ToSet

\* Moving the head of a sequence to its tail adds nothing.
LEMMA DeferSet ==
    ASSUME NEW S, NEW s \in Seq(S), s # <<>>
    PROVE  ToSet(Append(Tail(s), Head(s))) \subseteq ToSet(s)
<1> DEFINE t == Tail(s)
           h == Head(s)
<1>1. t \in Seq(S) /\ h \in S /\ ToSet(t) \subseteq ToSet(s) /\ h \in ToSet(s)
  BY TailFacts, TailSet
<1> HIDE DEF t, h
<1>2. ToSet(Append(t, h)) = ToSet(t) \cup {h}
  BY <1>1, AppendSet
<1>3. ToSet(Append(t, h)) \subseteq ToSet(s)
  BY <1>1, <1>2
<1> QED  BY <1>3 DEF t, h

\* The outbox as a set, after each way a step can change it.
LEMMA StoredStep ==
    ASSUME IInv, [Next]_vars
    PROVE  /\ OutboxKept => Stored' = Stored
           /\ \A e \in Event : OutboxAppend(e) => Stored' = Stored \cup {e}
           /\ OutboxDefer => Stored' \subseteq Stored
           /\ OutboxRemove => Stored' \subseteq Stored /\ Head(rows) \in Stored /\ Head(rows) \in Event
<1>1. rows \in Seq(Event) /\ HeadThere
  BY DEF IInv, TypeOK
<1>2. OutboxKept => Stored' = Stored
  BY DEF OutboxKept, Stored
<1>3. ASSUME NEW e \in Event, OutboxAppend(e)
      PROVE  Stored' = Stored \cup {e}
  BY <1>1, <1>3, AppendSet DEF OutboxAppend, Stored
<1>4. ASSUME OutboxDefer \/ OutboxRemove
      PROVE  /\ Head(rows) \in Event /\ Tail(rows) \in Seq(Event)
             /\ ToSet(Tail(rows)) \subseteq Stored /\ Head(rows) \in Stored
  <2>1. rows # <<>>
    BY <1>1, <1>4 DEF OutboxDefer, OutboxRemove, HeadThere
  <2> QED  BY <1>1, <2>1, TailFacts, TailSet DEF Stored
<1>5. ASSUME OutboxDefer
      PROVE  Stored' \subseteq Stored
  <2>1. rows' = Append(Tail(rows), Head(rows))
    BY <1>5 DEF OutboxDefer
  <2> QED  BY <1>1, <1>4, <1>5, <2>1, DeferSet DEF Stored, OutboxDefer, HeadThere
<1>6. ASSUME OutboxRemove
      PROVE  Stored' \subseteq Stored /\ Head(rows) \in Stored /\ Head(rows) \in Event
  <2>1. rows' = Tail(rows)
    BY <1>6 DEF OutboxRemove
  <2> QED  BY <1>4, <1>6, <2>1 DEF Stored
<1> QED  BY <1>2, <1>3, <1>5, <1>6

--------------------------------------------------------------------------------
(* Faults *)

\* Faults are remembered.
LEMMA FaultsKept ==
    ASSUME IInv, [Next]_vars
    PROVE  faults' = faults \/ \E k \in FaultKinds : faults' = Append(faults, k)
<1> USE UserbotAssumption DEF server, poller, worker
<1>1. ASSUME NEW e \in Event, HandleStep(e) \/ PerformStep(e)
      PROVE  faults' = faults \/ \E k \in FaultKinds : faults' = Append(faults, k)
  <2>1. CASE EnqueueFails(e) \/ AckLost(e) \/ DownloadFails(e) \/ Flood(e) \/ Poison(e)
    BY <2>1 DEF EnqueueFails, AckLost, DownloadFails, Flood, Poison, Fault
  <2> QED
    BY <1>1, <2>1 DEF HandleStep, Enqueue, SetWake, Reack, Ack, PerformStep, Act, PostFile, SkipFile,
                      PostText, FilesPosted
<1>2. CASE CorrelateLost \/ Crash
  BY <1>2 DEF CorrelateLost, Crash, Fault
<1> QED
  BY <1>1, <1>2 DEF Next, Relay, PollerStep, Poll, WorkerStep, PeekHead, Sleep, Woken, Wait, EndWait,
                    BeginPerform, DeleteRow, Correlate, vars

\* What never happened had not happened before.
LEMMA WithoutKept ==
    ASSUME IInv, [Next]_vars, NEW K, Without(K)'
    PROVE  Without(K)
<1>1. faults \in Seq(FaultKinds)
  BY DEF IInv, TypeOK
<1>2. ToSet(faults) \subseteq ToSet(faults')
  BY <1>1, FaultsKept, AppendFacts
<1>3. ToSet(faults') \cap K = {}
  BY DEF Without
<1> QED  BY <1>2, <1>3 DEF Without

\* A fault that just happened is not one of those that never did.
LEMMA FaultSeen ==
    ASSUME IInv, NEW k \in FaultKinds, faults' = Append(faults, k), NEW K, k \in K
    PROVE  ~Without(K)'
<1>1. faults \in Seq(FaultKinds)
  BY DEF IInv, TypeOK
<1>2. k \in ToSet(faults')
  BY <1>1, AppendFacts
<1> QED  BY <1>2 DEF Without

\* While nothing is put back, nothing is moved to the tail, and there is no restart.
LEMMA OnceStep ==
    ASSUME IInv, [Next]_vars, Once'
    PROVE  /\ Once
           /\ ~Crash /\ ~OutboxDefer
           /\ \A e \in Event : ~Flood(e)
           /\ OutboxKept \/ OutboxRemove \/ \E e \in Event : OutboxAppend(e)
<1>1. Once
  BY WithoutKept DEF Once
<1>2. "crash" \in FaultKinds /\ "flood" \in FaultKinds
  BY DEF FaultKinds
<1>3. ~Crash /\ ~OutboxDefer /\ \A e \in Event : ~Flood(e)
  BY <1>2, FaultSeen DEF Crash, OutboxDefer, Flood, Fault, Once
<1> QED  BY <1>1, <1>3, OutboxStep

\* While no event is passed over either, no insert fails.
LEMMA InOrderStep ==
    ASSUME IInv, [Next]_vars, InOrder'
    PROVE  InOrder /\ Once /\ Once' /\ \A e \in Event : ~EnqueueFails(e)
<1>1. InOrder
  BY WithoutKept DEF InOrder
<1>2. Once /\ Once'
  BY <1>1 DEF InOrder, Once, Without
<1>3. "disk" \in FaultKinds
  BY DEF FaultKinds
<1>4. \A e \in Event : ~EnqueueFails(e)
  BY <1>3, FaultSeen DEF EnqueueFails, Fault, InOrder
<1> QED  BY <1>1, <1>2, <1>4

--------------------------------------------------------------------------------
(* Posts happen once *)

\* The initial state satisfies this part of the invariant.
LEMMA InitOnce == Init => OnceInv
<1> SUFFICES ASSUME Init PROVE OnceInv
  OBVIOUS
<1>1. /\ rows = <<>> /\ telegram = <<>> /\ wpc = "peek"
      /\ outcome = [e \in Event |-> "none"]
  BY DEF Init
<1>2. Stored = {} /\ \A e : Applied(e) = {}
  BY <1>1 DEF Stored, ToSet, Applied
<1>3. RowsDistinct /\ HandledSeen /\ Unapplied /\ PartsCounted
  BY <1>1, <1>2 DEF RowsDistinct, HandledSeen, Handled, Unapplied, PartsCounted
<1>4. AppliedOnce
  <2>1. \A e \in Event : FilesOf[e] \in Nat
    BY UserbotAssumption
  <2> QED  BY <1>2, <2>1, FS_EmptySet DEF AppliedOnce
<1> QED  BY <1>3, <1>4 DEF OnceInv

\* What is stored was neither stored nor dealt with.
LEMMA AppendNew ==
    ASSUME IInv, HandledSeen, Once, NEW e \in Event, OutboxAppend(e)
    PROVE  e \notin Stored /\ outcome[e] = "none"
BY DEF HandledSeen, OutboxAppend, Handled

\* Rows stay distinct.
LEMMA StepDistinct ==
    ASSUME IInv, OnceInv, [Next]_vars
    PROVE  RowsDistinct'
<1> SUFFICES ASSUME Once' PROVE RowsDistinct'
  BY DEF RowsDistinct
<1>1. rows \in Seq(Event) /\ outcome \in [Event -> {"none", "done", "poison"}] /\ HeadThere
  BY DEF IInv, TypeOK
<1>2. Once /\ (OutboxKept \/ OutboxRemove \/ \E e \in Event : OutboxAppend(e))
  BY OnceStep
<1>3. /\ \A i, j \in DOMAIN rows : i # j => rows[i] # rows[j]
      /\ \A e \in Stored : outcome[e] = "none"
  BY <1>2 DEF OnceInv, RowsDistinct
<1>4. CASE OutboxKept
  BY <1>3, <1>4, StoredStep DEF OutboxKept, RowsDistinct
<1>5. ASSUME NEW e \in Event, OutboxAppend(e)
      PROVE  RowsDistinct'
  <2>1. e \notin Stored /\ outcome[e] = "none"
    BY <1>2, <1>5, AppendNew DEF OnceInv
  <2>2. rows' = Append(rows, e) /\ outcome' = outcome /\ Stored' = Stored \cup {e}
    BY <1>5, StoredStep DEF OutboxAppend
  <2>3. /\ DOMAIN rows' = DOMAIN rows \cup {Len(rows) + 1}
        /\ \A i \in DOMAIN rows : rows'[i] = rows[i]
        /\ rows'[Len(rows) + 1] = e
    BY <1>1, <2>2, AppendSet
  <2>4. \A i \in DOMAIN rows : rows[i] # e
    BY <2>1 DEF Stored, ToSet
  <2>5. \A i, j \in DOMAIN rows' : i # j => rows'[i] # rows'[j]
    <3> DEFINE n == Len(rows) + 1
    <3> HIDE DEF n
    <3> QED  BY <1>3, <2>3, <2>4, Zenon DEF n
  <2> QED  BY <1>3, <2>1, <2>2, <2>5 DEF RowsDistinct
<1>6. CASE OutboxRemove
  <2>1. rows # <<>> /\ rows' = Tail(rows)
    BY <1>1, <1>6 DEF OutboxRemove, HeadThere
  <2>2. /\ Head(rows) = rows[1] /\ 1 \in DOMAIN rows
        /\ \A i \in DOMAIN rows' : i + 1 \in DOMAIN rows /\ 1 < i + 1 /\ rows'[i] = rows[i + 1]
        /\ \A i \in DOMAIN rows' : i \in Nat
    BY <1>1, <2>1, TailSet
  <2>3. ASSUME NEW i \in DOMAIN rows', NEW j \in DOMAIN rows', i # j
        PROVE  rows'[i] # rows'[j]
    <3>1. i + 1 # j + 1
      BY <2>2, <2>3
    <3> QED  BY <1>3, <2>2, <3>1
  <2>4. ASSUME NEW e \in Stored'
        PROVE  outcome'[e] = "none"
    <3>1. PICK i \in DOMAIN rows' : rows'[i] = e
      BY <2>4 DEF Stored, ToSet
    <3>2. e # Head(rows)
      BY <1>3, <2>2, <3>1
    <3>3. e \in Stored
      BY <1>6, StoredStep
    <3>4. outcome'[e] = outcome[e]
      BY <1>1, <1>6, <3>2 DEF OutboxRemove
    <3> QED  BY <1>3, <3>3, <3>4
  <2> QED  BY <2>3, <2>4 DEF RowsDistinct
<1> QED  BY <1>2, <1>4, <1>5, <1>6

\* What a step does not store was handled before.
LEMMA HandledBefore ==
    ASSUME IInv, [Next]_vars, Once', NEW e \in Event, Handled(e)', ~OutboxAppend(e)
    PROVE  Handled(e)
<1>1. outcome \in [Event -> {"none", "done", "poison"}]
  BY DEF IInv, TypeOK
<1>2. CASE OutboxKept
  BY <1>2, StoredStep DEF OutboxKept, Handled
<1>3. ASSUME NEW f \in Event, OutboxAppend(f)
      PROVE  Handled(e)
  BY <1>3, StoredStep DEF OutboxAppend, Handled
<1>4. CASE OutboxRemove
  <2>1. e # Head(rows) => outcome'[e] = outcome[e]
    BY <1>1, <1>4 DEF OutboxRemove
  <2> QED  BY <1>4, <2>1, StoredStep DEF Handled
<1> QED  BY <1>2, <1>3, <1>4, OnceStep

\* What was stored is marked seen before the poll loop goes on.
LEMMA StepHandledSeen ==
    ASSUME IInv, OnceInv, [Next]_vars
    PROVE  HandledSeen'
<1> USE DEF server, poller, worker
<1> SUFFICES ASSUME Once', NEW e \in Event, Handled(e)'
             PROVE  e \in seen' \/ (bpc' \in {"enqueued", "ack"} /\ IsFirst(e)')
  BY DEF HandledSeen
<1>1. TypeOK /\ Once /\ HandledSeen /\ ~Crash
  BY OnceStep DEF IInv, OnceInv
<1>2. Handled(e) => e \in seen \/ (bpc \in {"enqueued", "ack"} /\ IsFirst(e))
  BY <1>1 DEF HandledSeen
<1>3. CASE OutboxAppend(e)
  BY <1>3 DEF OutboxAppend, IsFirst
<1>4. CASE ~OutboxAppend(e)
  <2>1. e \in seen \/ (bpc \in {"enqueued", "ack"} /\ IsFirst(e))
    BY <1>2, <1>4, HandledBefore
  <2>2. CASE UNCHANGED poller
    BY <2>1, <2>2 DEF IsFirst
  <2>3. CASE Poll
    BY <2>1, <2>3 DEF Poll
  <2>4. ASSUME NEW f \in Event, HandleStep(f)
        PROVE  e \in seen' \/ (bpc' \in {"enqueued", "ack"} /\ IsFirst(e)')
    <3>1. CASE Enqueue(f) \/ EnqueueFails(f) \/ Reack(f)
      BY <2>1, <3>1 DEF Enqueue, EnqueueFails, Reack
    <3>2. CASE SetWake(f)
      BY <2>1, <3>2 DEF SetWake, IsFirst
    <3>3. CASE Ack(f) \/ AckLost(f)
      <4>1. seen' = seen \cup {f} /\ IsFirst(f)
        BY <3>3 DEF Ack, AckLost
      <4> QED  BY <1>1, <2>1, <4>1, FirstUnique
    <3> QED  BY <2>4, <3>1, <3>2, <3>3 DEF HandleStep
  <2>5. CASE Relay \/ WorkerStep \/ UNCHANGED vars
    <3>1. ASSUME NEW f \in Event, PerformStep(f)
          PROVE  UNCHANGED poller
      BY <3>1 DEF PerformStep, Act, PostFile, SkipFile, DownloadFails, PostText, FilesPosted, Flood, Poison
    <3>2. UNCHANGED poller
      BY <2>5, <3>1 DEF Relay, vars, WorkerStep, PeekHead, Sleep, Woken, Wait, EndWait, BeginPerform,
                        DeleteRow, Correlate, CorrelateLost
    <3> QED  BY <2>2, <3>2
  <2> QED  BY <1>1, <2>3, <2>4, <2>5 DEF Next, PollerStep
<1> QED  BY <1>3, <1>4

\* The posts of e, once Telegram applied f.
LEMMA ApplyFacts ==
    ASSUME TypeOK, NEW f \in Event, telegram' = Append(telegram, f), NEW e
    PROVE  /\ e # f => Applied(e)' = Applied(e)
           /\ e = f => Applied(e)' = Applied(e) \cup {Len(telegram')}
           /\ Len(telegram') \notin Applied(e)
<1>1. telegram \in Seq(Event)
  BY DEF TypeOK
<1> DEFINE n == Len(telegram) + 1
<1>2. n = Len(telegram')
  BY <1>1
<1>3. /\ DOMAIN telegram' = DOMAIN telegram \cup {n}
      /\ \A i \in DOMAIN telegram : telegram'[i] = telegram[i]
      /\ telegram'[n] = f
      /\ n \notin DOMAIN telegram
  BY <1>1, AppendSet
<1> HIDE DEF n
<1>4. e # f => Applied(e)' = Applied(e)
  BY <1>3, Zenon DEF Applied
<1>5. e = f => Applied(e)' = Applied(e) \cup {n}
  BY <1>3, Zenon DEF Applied
<1> QED  BY <1>2, <1>3, <1>4, <1>5 DEF Applied

\* An event's posts are finitely many, and one more than before when it is applied.
LEMMA AppliedCount ==
    ASSUME TypeOK, NEW f \in Event, telegram' = Append(telegram, f)
    PROVE  /\ Cardinality(Applied(f)) \in Nat
           /\ Cardinality(Applied(f)') = Cardinality(Applied(f)) + 1
<1>1. IsFiniteSet(Applied(f))
  <2>1. Len(telegram) \in Nat /\ Applied(f) \subseteq 1..Len(telegram)
    BY DEF TypeOK, Applied
  <2>2. IsFiniteSet(1..Len(telegram))
    BY <2>1, FS_Interval
  <2> QED  BY <2>1, <2>2, FS_Subset
<1>2. Applied(f)' = Applied(f) \cup {Len(telegram')} /\ Len(telegram') \notin Applied(f)
  BY ApplyFacts
<1>3. Cardinality(Applied(f)) \in Nat
  BY <1>1, FS_CardinalityType
<1>4. Cardinality(Applied(f) \cup {Len(telegram')}) = Cardinality(Applied(f)) + 1
  BY <1>1, <1>2, FS_AddElement
<1> QED  BY <1>2, <1>3, <1>4

\* Telegram applies the head of the outbox, while it is performed.
Applies(e) ==
    /\ Performing(e)
    /\ Apply(e)
    /\ wpc' \in {"perform", "delete"}
    /\ UNCHANGED <<rows, outcome>>

\* Only performing an action applies it.
LEMMA TelegramStep ==
    ASSUME [Next]_vars
    PROVE  telegram' = telegram \/ \E e \in Event : Applies(e) /\ (Act(e) \/ PostFile(e) \/ PostText(e))
<1> USE DEF server, poller, worker
<1>1. ASSUME NEW f \in Event, PerformStep(f)
      PROVE  telegram' = telegram \/ (Applies(f) /\ (Act(f) \/ PostFile(f) \/ PostText(f)))
  <2>1. CASE Act(f) \/ PostFile(f) \/ PostText(f)
    BY <2>1 DEF Act, PostFile, PostText, Applies, Performing
  <2> QED
    BY <1>1, <2>1 DEF PerformStep, SkipFile, DownloadFails, FilesPosted, Flood, Poison
<1>2. ASSUME NEW f \in Event, HandleStep(f)
      PROVE  telegram' = telegram
  BY <1>2 DEF HandleStep, Enqueue, EnqueueFails, SetWake, Reack, Ack, AckLost
<1>3. CASE WorkerStep
  BY <1>1, <1>3 DEF WorkerStep, PeekHead, Sleep, Woken, Wait, EndWait, BeginPerform, DeleteRow,
                    Correlate, CorrelateLost
<1>4. CASE PollerStep \/ Relay \/ Crash \/ UNCHANGED vars
  BY <1>2, <1>4 DEF PollerStep, Poll, Relay, Crash, vars
<1> QED  BY <1>3, <1>4 DEF Next

\* The steps that leave the worker alone keep the head of a row it works on.
LEMMA HeadKept ==
    ASSUME IInv, [Next]_vars, OutboxKept \/ \E e \in Event : OutboxAppend(e),
           wpc \in {"head", "wait", "perform", "delete"}
    PROVE  Head(rows') = Head(rows) /\ outcome' = outcome
<1>1. rows \in Seq(Event) /\ rows # <<>>
  BY DEF IInv, TypeOK, HeadThere
<1> QED  BY <1>1, AppendFacts DEF OutboxKept, OutboxAppend

\* An event that is neither dealt with nor performed has not been applied.
LEMMA StepUnapplied ==
    ASSUME IInv, OnceInv, [Next]_vars
    PROVE  Unapplied'
<1> USE DEF server, poller, worker
<1> DEFINE Fine(e) ==
      \/ Applied(e) = {}
      \/ outcome[e] # "none"
      \/ wpc \in {"perform", "delete"} /\ e = Head(rows)
<1> SUFFICES ASSUME Once', NEW e \in Event PROVE Fine(e)'
  BY DEF Unapplied
<1>1. TypeOK /\ outcome \in [Event -> {"none", "done", "poison"}]
  BY DEF IInv, TypeOK
<1>2. Fine(e)
  BY OnceStep DEF OnceInv, Unapplied
<1>3. ASSUME NEW f \in Event, Applies(f)
      PROVE  Fine(e)'
  <2>1. telegram' = Append(telegram, f) /\ f = Head(rows) /\ wpc' \in {"perform", "delete"}
        /\ rows' = rows /\ outcome' = outcome
    BY <1>3 DEF Applies, Performing, Apply
  <2>2. e # f => Applied(e)' = Applied(e)
    BY <1>1, <2>1, ApplyFacts
  <2> QED  BY <1>2, <2>1, <2>2
<1>4. CASE telegram' = telegram
  <2>1. Applied(e)' = Applied(e)
    BY <1>4 DEF Applied
  <2>2. outcome[e] # "none" => outcome'[e] # "none"
    BY <1>1, OutboxStep DEF OutboxKept, OutboxAppend, OutboxDefer, OutboxRemove
  <2>3. ASSUME wpc \in {"perform", "delete"}, e = Head(rows)
        PROVE  outcome'[e] # "none" \/ (wpc' \in {"perform", "delete"} /\ e = Head(rows'))
    <3>1. CASE OutboxRemove
      BY <1>1, <2>3, <3>1 DEF OutboxRemove
    <3>2. CASE OutboxKept \/ \E f \in Event : OutboxAppend(f)
      <4>1. Head(rows') = e
        BY <2>3, <3>2, HeadKept
      <4>2. ~DeleteRow /\ ~Crash /\ \A f \in Event : ~Flood(f) /\ ~Poison(f)
        <5>1. ASSUME DeleteRow \/ \E f \in Event : Poison(f)
              PROVE  rows' = Tail(rows) /\ rows # <<>>
          BY <5>1 DEF DeleteRow, Poison, Performing, IInv, HeadThere
        <5>2. rows \in Seq(Event)
          BY DEF IInv, TypeOK
        <5>3. Len(rows') >= Len(rows)
          BY <3>2, <5>2 DEF OutboxKept, OutboxAppend
        <5>4. rows # <<>> => Len(Tail(rows)) < Len(rows)
          BY <5>2
        <5>5. rows # <<>> => ~(Len(Tail(rows)) >= Len(rows))
          BY <5>2
        <5> QED  BY <5>1, <5>3, <5>5, OnceStep
      <4>3. ASSUME NEW f \in Event, PerformStep(f)
            PROVE  wpc' \in {"perform", "delete"}
        BY <2>3, <4>2, <4>3 DEF PerformStep, Act, PostFile, SkipFile, DownloadFails, PostText, FilesPosted
      <4>4. ASSUME NEW f \in Event, HandleStep(f)
            PROVE  wpc' = wpc
        BY <4>4 DEF HandleStep, Enqueue, EnqueueFails, SetWake, Reack, Ack, AckLost
      <4>5. wpc' \in {"perform", "delete"}
        BY <2>3, <4>2, <4>3, <4>4
           DEF Next, Relay, PollerStep, Poll, WorkerStep, PeekHead, Sleep, Woken, Wait, EndWait,
               BeginPerform, Correlate, CorrelateLost, vars
      <4> QED  BY <4>1, <4>5
    <3> QED  BY <3>1, <3>2, OnceStep
  <2> QED  BY <1>2, <2>1, <2>2, <2>3
<1> QED  BY <1>3, <1>4, TelegramStep

\* What never was applied was applied no more than nothing.
LEMMA NeverApplied ==
    ASSUME NEW e, Applied(e) = {}
    PROVE  Cardinality(Applied(e)) = 0
BY FS_EmptySet

\* An action applied so far has been applied once per part at most.
LEMMA StepParts ==
    ASSUME IInv, OnceInv, [Next]_vars
    PROVE  PartsCounted'
<1> USE DEF server, poller, worker
<1> DEFINE Counted(e) ==
      /\ part <= FilesOf[e]
      /\ Applied(e) \subseteq produced
      /\ Cardinality(Applied(e)) <= part
<1> SUFFICES ASSUME Once', wpc' = "perform" PROVE Counted(Head(rows))'
  BY DEF PartsCounted
<1>1. TypeOK /\ rows \in Seq(Event) /\ part \in Nat /\ Once /\ HeadThere
  BY OnceStep DEF IInv, TypeOK
<1>2. wpc = "perform" => Counted(Head(rows))
  BY <1>1 DEF OnceInv, PartsCounted
<1>3. FilesOf \in [Event -> Nat]
  BY UserbotAssumption
<1>4. CASE BeginPerform
  <2>1. rows # <<>> /\ Head(rows) \in Stored /\ Head(rows) \in Event
    BY <1>1, <1>4, TailSet, TailFacts DEF BeginPerform, HeadThere, Stored
  <2>2. outcome[Head(rows)] = "none"
    BY <1>1, <2>1 DEF OnceInv, RowsDistinct
  <2>3. Applied(Head(rows)) = {}
    BY <1>1, <1>4, <2>1, <2>2 DEF OnceInv, Unapplied, BeginPerform
  <2>4. UNCHANGED <<rows, telegram>> /\ part' = 0
    BY <1>4 DEF BeginPerform
  <2>5. Applied(Head(rows))' = {}
    BY <2>3, <2>4 DEF Applied
  <2>6. Cardinality(Applied(Head(rows))') = 0
    BY <2>5, FS_EmptySet
  <2>7. 0 <= FilesOf[Head(rows)]
    BY <1>3, <2>1
  <2> QED  BY <2>4, <2>5, <2>6, <2>7
<1>5. ASSUME NEW e \in Event, PostFile(e)
      PROVE  Counted(Head(rows))'
  <2>1. /\ telegram' = Append(telegram, e) /\ e = Head(rows) /\ rows' = rows /\ wpc = "perform"
        /\ part < FilesOf[e] /\ part' = part + 1
        /\ produced' = produced \cup {Len(telegram')}
    BY <1>5 DEF PostFile, Performing, Apply
  <2>2. /\ Cardinality(Applied(e)) \in Nat
        /\ Cardinality(Applied(e)') = Cardinality(Applied(e)) + 1
        /\ Applied(e)' = Applied(e) \cup {Len(telegram')}
    BY <1>1, <2>1, AppliedCount, ApplyFacts
  <2>3. Counted(e) /\ FilesOf[e] \in Nat
    BY <1>2, <1>3, <2>1
  <2>4. part' <= FilesOf[e] /\ Cardinality(Applied(e)') <= part'
    BY <1>1, <2>1, <2>2, <2>3
  <2>5. Applied(e)' \subseteq produced'
    BY <2>1, <2>2, <2>3
  <2> QED  BY <2>1, <2>4, <2>5
<1>6. ASSUME UNCHANGED <<produced, telegram>>, wpc = "perform", Head(rows') = Head(rows),
             part' = part \/ (part' = part + 1 /\ part < FilesOf[Head(rows)])
      PROVE  Counted(Head(rows))'
  <2> DEFINE h == Head(rows)
  <2>1. Head(rows) \in Event
    BY <1>1, <1>6, TailFacts DEF HeadThere
  <2>2. FilesOf[Head(rows)] \in Nat /\ Counted(Head(rows))
    BY <1>2, <1>3, <1>6, <2>1
  <2>3. Applied(Head(rows))' = Applied(Head(rows))
    BY <1>6 DEF Applied
  <2>4. IsFiniteSet(Applied(Head(rows)))
    <3>1. Len(telegram) \in Nat /\ Applied(Head(rows)) \subseteq 1..Len(telegram)
      BY <1>1 DEF TypeOK, Applied
    <3>2. IsFiniteSet(1..Len(telegram))
      BY <3>1, FS_Interval
    <3> QED  BY <3>1, <3>2, FS_Subset
  <2>5. Cardinality(Applied(Head(rows))) \in Nat
    BY <2>4, FS_CardinalityType
  <2> HIDE DEF h
  <2>6. part' <= FilesOf[Head(rows)] /\ Cardinality(Applied(Head(rows))) <= part'
    BY <1>1, <1>6, <2>2, <2>5
  <2> QED  BY <1>6, <2>2, <2>3, <2>6
<1>7. ASSUME NEW e \in Event, SkipFile(e) \/ DownloadFails(e)
      PROVE  Counted(Head(rows))'
  BY <1>6, <1>7 DEF SkipFile, DownloadFails, Performing
<1>8. CASE UNCHANGED worker /\ telegram' = telegram
  <2>1. OutboxKept \/ \E f \in Event : OutboxAppend(f)
    BY <1>8, OnceStep DEF OutboxRemove
  <2>2. Head(rows') = Head(rows)
    BY <1>8, <2>1, HeadKept
  <2> QED  BY <1>6, <1>8, <2>2
<1>9. ASSUME NEW f \in Event, HandleStep(f)
      PROVE  UNCHANGED worker /\ telegram' = telegram
  BY <1>9 DEF HandleStep, Enqueue, EnqueueFails, SetWake, Reack, Ack, AckLost
<1>10. ASSUME NEW e \in Event, PerformStep(e)
       PROVE  Counted(Head(rows))'
  BY <1>5, <1>7, <1>10 DEF PerformStep, Act, PostText, FilesPosted, Flood, Poison
<1> QED
  BY <1>4, <1>8, <1>9, <1>10, OnceStep
     DEF Next, Relay, PollerStep, Poll, WorkerStep, PeekHead, Sleep, Woken, Wait, EndWait,
         DeleteRow, Correlate, CorrelateLost, vars

\* No event is applied more often than it has parts.
LEMMA StepApplied ==
    ASSUME IInv, OnceInv, [Next]_vars
    PROVE  AppliedOnce'
<1> DEFINE Limit(e) == IF FilesOf[e] = 0 THEN 1 ELSE FilesOf[e]
<1> SUFFICES ASSUME Once', NEW e \in Event PROVE Cardinality(Applied(e)') <= Limit(e)
  BY DEF AppliedOnce, Once
<1>1. TypeOK /\ part \in Nat /\ Once
  BY OnceStep DEF IInv, TypeOK
<1>2. Cardinality(Applied(e)) <= Limit(e)
  BY <1>1 DEF OnceInv, AppliedOnce, Once
<1>3. CASE Applied(e)' = Applied(e)
  BY <1>2, <1>3
<1>4. ASSUME Applies(e), Act(e) \/ PostFile(e) \/ PostText(e)
      PROVE  Cardinality(Applied(e)') <= Limit(e)
  <2>1. telegram' = Append(telegram, e) /\ e = Head(rows) /\ wpc = "perform"
    BY <1>4 DEF Applies, Performing, Apply
  <2>2. /\ Cardinality(Applied(e)) \in Nat
        /\ Cardinality(Applied(e)') = Cardinality(Applied(e)) + 1
    BY <1>1, <2>1, AppliedCount
  <2>3. /\ part <= FilesOf[e] /\ FilesOf[e] \in Nat
        /\ Applied(e) \subseteq produced
        /\ Cardinality(Applied(e)) <= part
    BY <1>1, <2>1, UserbotAssumption DEF OnceInv, PartsCounted
  <2>4. CASE Act(e)
    <3>1. FilesOf[e] = 0
      BY <2>4, UserbotAssumption DEF Act
    <3> QED  BY <1>1, <2>2, <2>3, <3>1
  <2>5. CASE PostFile(e)
    <3>1. part < FilesOf[e]
      BY <2>5 DEF PostFile
    <3> QED  BY <1>1, <2>2, <2>3, <3>1
  <2>6. CASE PostText(e)
    <3>1. Applied(e) = {}
      BY <2>3, <2>6 DEF PostText
    <3>2. Cardinality(Applied(e)) = 0
      BY <3>1, NeverApplied
    <3> QED  BY <2>2, <2>3, <3>2
  <2> QED  BY <1>4, <2>4, <2>5, <2>6
<1>5. CASE telegram' = telegram
  BY <1>3, <1>5 DEF Applied
<1>6. ASSUME NEW f \in Event, Applies(f), f # e
      PROVE  Applied(e)' = Applied(e)
  BY <1>1, <1>6, ApplyFacts DEF Applies, Apply
<1> QED  BY <1>3, <1>4, <1>5, <1>6, TelegramStep

--------------------------------------------------------------------------------
(* Reports come in order *)

\* The initial state satisfies this part of the invariant.
LEMMA InitOrder == Init => OrderInv
<1> SUFFICES ASSUME Init PROVE OrderInv
  OBVIOUS
<1>1. /\ rows = <<>> /\ reports = <<>> /\ wpc = "peek" /\ batch = {} /\ queue = {}
      /\ outcome = [e \in Event |-> "none"]
  BY DEF Init
<1>2. Stored = {}
  BY <1>1 DEF Stored, ToSet
<1>3. Given /\ BatchComplete
  BY <1>1, <1>2 DEF Given, BatchComplete
<1>4. HandledFirst
  BY <1>1, <1>2 DEF HandledFirst, Handled
<1>5. RowsSorted
  BY <1>1, <1>2 DEF RowsSorted
<1>6. ReportedDone /\ CurrentLast /\ ReportsInOrder
  BY <1>1 DEF ReportedDone, CurrentLast, ReportsInOrder
<1> QED  BY <1>3, <1>4, <1>5, <1>6 DEF OrderInv

\* Only the poll loop and the relay change what is polled.
LEMMA PolledStep ==
    ASSUME [Next]_vars
    PROVE  \/ UNCHANGED <<nextEvent, queue, batch>>
           \/ Relay \/ Poll \/ Crash
           \/ \E e \in Event : EnqueueFails(e) \/ Ack(e) \/ AckLost(e)
<1> USE DEF server, poller, worker
<1>1. ASSUME NEW f \in Event, PerformStep(f)
      PROVE  UNCHANGED <<nextEvent, queue, batch>>
  BY <1>1 DEF PerformStep, Act, PostFile, SkipFile, DownloadFails, PostText, FilesPosted, Flood, Poison
<1>2. ASSUME NEW f \in Event, HandleStep(f)
      PROVE  \/ UNCHANGED <<nextEvent, queue, batch>>
             \/ EnqueueFails(f) \/ Ack(f) \/ AckLost(f)
  BY <1>2 DEF HandleStep, Enqueue, SetWake, Reack
<1> QED
  BY <1>1, <1>2 DEF Next, PollerStep, WorkerStep, PeekHead, Sleep, Woken, Wait, EndWait,
                    BeginPerform, DeleteRow, Correlate, CorrelateLost, vars

\* What is kept was relayed.
LEMMA StepGiven ==
    ASSUME IInv, OrderInv, [Next]_vars
    PROVE  Given'
<1> USE DEF server, poller, worker
<1>1. TypeOK /\ Given /\ nextEvent \in Nat
  BY DEF IInv, OrderInv, TypeOK
<1>2. Stored' \subseteq Stored \cup batch
  BY StoredStep, OutboxStep DEF OutboxAppend, IsFirst
<1>3. CASE UNCHANGED <<nextEvent, queue, batch>>
  BY <1>1, <1>2, <1>3 DEF Given
<1>4. CASE Relay
  <2>1. nextEvent' = nextEvent + 1 /\ queue' = queue \cup {nextEvent} /\ batch' = batch /\ rows' = rows
        /\ nextEvent \in Event
    BY <1>4 DEF Relay
  <2>2. 1..(nextEvent' - 1) = 1..(nextEvent - 1) \cup {nextEvent}
    BY <1>1, <2>1 DEF Event
  <2> QED  BY <1>1, <2>1, <2>2 DEF Given, Stored
<1>5. CASE Poll
  BY <1>1, <1>5 DEF Poll, Given, Stored
<1>6. CASE Crash
  BY <1>1, <1>6 DEF Crash, Given, Stored
<1>7. ASSUME NEW e \in Event, EnqueueFails(e) \/ Ack(e) \/ AckLost(e)
      PROVE  Given'
  BY <1>1, <1>7 DEF EnqueueFails, Ack, AckLost, After, Given, Stored
<1> QED  BY <1>3, <1>4, <1>5, <1>6, <1>7, PolledStep

\* A batch goes on missing nothing.
LEMMA StepBatch ==
    ASSUME IInv, OrderInv, [Next]_vars
    PROVE  BatchComplete'
<1> USE DEF server, poller, worker
<1> SUFFICES ASSUME InOrder', NEW e \in batch', NEW f \in queue', f < e
             PROVE  f \in batch' \/ Handled(f)'
  BY DEF BatchComplete
<1>1. /\ TypeOK /\ Given /\ AckHandled
      /\ \A g \in batch, h \in queue : h < g => h \in batch \/ Handled(h)
  BY InOrderStep DEF IInv, OrderInv, BatchComplete
<1>2. batch \subseteq Event /\ queue \subseteq Event
  BY <1>1 DEF TypeOK
<1>3. CASE UNCHANGED <<nextEvent, queue, batch>>
  BY <1>1, <1>2, <1>3, HandledStays
<1>4. CASE Relay
  <2>1. batch' = batch /\ queue' = queue \cup {nextEvent}
    BY <1>4 DEF Relay
  <2>2. e \in 1..(nextEvent - 1) /\ nextEvent \in Nat
    BY <1>1, <2>1 DEF Given, TypeOK
  <2>3. f \in queue
    BY <2>1, <2>2
  <2> QED  BY <1>1, <1>2, <2>1, <2>3, HandledStays
<1>5. CASE Poll
  BY <1>5 DEF Poll
<1>6. ASSUME NEW g \in Event, Ack(g) \/ AckLost(g)
      PROVE  f \in batch' \/ Handled(f)'
  <2>1. bpc = "ack" /\ IsFirst(g) /\ batch' = batch \ {g} /\ queue' \subseteq queue
    BY <1>6 DEF Ack, AckLost, After
  <2>2. Handled(g)
    BY <1>1, <2>1 DEF AckHandled
  <2>3. f \in batch \/ Handled(f)
    BY <1>1, <2>1
  <2> QED  BY <1>2, <2>1, <2>2, <2>3, HandledStays
<1> QED  BY <1>3, <1>4, <1>5, <1>6, PolledStep, OnceStep, InOrderStep

\* Events are stored in their order: the first of a batch comes next.
LEMMA StepFirst ==
    ASSUME IInv, OrderInv, [Next]_vars
    PROVE  HandledFirst'
<1> SUFFICES ASSUME InOrder', NEW e \in Event, NEW f \in Event, Handled(e)', f < e
             PROVE  Handled(f)'
  BY DEF HandledFirst
<1>1. InOrder /\ Once' /\ TypeOK /\ Given /\ NoSilentLoss
  BY InOrderStep DEF IInv, OrderInv
<1>2. CASE Handled(e)
  <2>1. Handled(f)
    BY <1>1, <1>2 DEF OrderInv, HandledFirst
  <2> QED  BY <2>1, HandledStays
<1>3. CASE OutboxAppend(e)
  <2>1. IsFirst(e) /\ e \in batch
    BY <1>3 DEF OutboxAppend, IsFirst
  <2>2. f < nextEvent
    <3>1. e \in 1..(nextEvent - 1) /\ nextEvent \in Nat
      BY <1>1, <2>1 DEF Given, TypeOK
    <3>2. f \in Nat
      BY DEF Event
    <3> QED  BY <3>1, <3>2
  <2>3. f \in queue \/ Handled(f)
    BY <1>1, <2>2 DEF NoSilentLoss, Handled
  <2>4. f \notin batch
    <3>1. f \in Nat /\ e \in Nat
      BY DEF Event
    <3> QED  BY <2>1, <3>1 DEF IsFirst
  <2>5. Handled(f)
    BY <1>1, <2>1, <2>3, <2>4 DEF OrderInv, BatchComplete
  <2> QED  BY <2>5, HandledStays
<1> QED  BY <1>1, <1>2, <1>3, HandledBefore

\* What is stored comes after everything stored or dealt with.
LEMMA AppendLater ==
    ASSUME IInv, OnceInv, OrderInv, InOrder, Once, NEW e \in Event, OutboxAppend(e),
           NEW g \in Event, Handled(g)
    PROVE  g < e
<1>1. ~Handled(e)
  BY AppendNew DEF OnceInv, Handled
<1>2. ~(e < g)
  BY <1>1 DEF OrderInv, HandledFirst
<1>3. g # e
  BY <1>1
<1>4. g \in Nat /\ e \in Nat
  BY DEF Event
<1> QED  BY <1>2, <1>3, <1>4

\* The outbox stays sorted.
LEMMA StepSorted ==
    ASSUME IInv, OnceInv, OrderInv, [Next]_vars
    PROVE  RowsSorted'
<1> SUFFICES ASSUME InOrder' PROVE RowsSorted'
  BY DEF RowsSorted
<1>1. rows \in Seq(Event) /\ outcome \in [Event -> {"none", "done", "poison"}] /\ HeadThere
  BY DEF IInv, TypeOK
<1>2. InOrder /\ Once /\ (OutboxKept \/ OutboxRemove \/ \E e \in Event : OutboxAppend(e))
  BY InOrderStep, OnceStep
<1>3. /\ \A i, j \in DOMAIN rows : i < j => rows[i] < rows[j]
      /\ \A e \in Event, f \in Stored : outcome[e] # "none" => e < f
  BY <1>2 DEF OrderInv, RowsSorted
<1>4. CASE OutboxKept
  BY <1>3, <1>4, StoredStep DEF OutboxKept, RowsSorted
<1>5. ASSUME NEW e \in Event, OutboxAppend(e)
      PROVE  RowsSorted'
  <2>1. rows' = Append(rows, e) /\ outcome' = outcome /\ Stored' = Stored \cup {e}
    BY <1>5, StoredStep DEF OutboxAppend
  <2>2. \A g \in Event : g \in Stored \/ outcome[g] # "none" => g < e
    BY <1>2, <1>5, AppendLater DEF Handled
  <2>3. /\ DOMAIN rows' = DOMAIN rows \cup {Len(rows) + 1}
        /\ \A i \in DOMAIN rows : i < Len(rows) + 1 /\ rows'[i] = rows[i]
        /\ rows'[Len(rows) + 1] = e
    BY <1>1, <2>1, AppendSet
  <2>4. \A i \in DOMAIN rows : rows[i] \in Event /\ rows[i] \in Stored
    BY <1>1 DEF Stored, ToSet
  <2>5. ASSUME NEW i \in DOMAIN rows', NEW j \in DOMAIN rows', i < j
        PROVE  rows'[i] < rows'[j]
    <3> DEFINE n == Len(rows) + 1
    <3>1. n \in Nat /\ \A k \in DOMAIN rows : k \in Nat /\ k < n
      BY <1>1
    <3>2. i \in DOMAIN rows
      BY <2>3, <2>5, <3>1
    <3>3. CASE j = n
      <4>1. rows[i] < e
        BY <2>2, <2>4, <3>2
      <4> QED  BY <2>3, <3>2, <3>3, <4>1
    <3>4. CASE j \in DOMAIN rows
      BY <1>3, <2>3, <2>5, <3>2, <3>4
    <3> QED  BY <2>3, <3>3, <3>4
  <2> QED  BY <1>3, <2>1, <2>2, <2>5 DEF RowsSorted
<1>6. CASE OutboxRemove
  <2>1. rows # <<>> /\ rows' = Tail(rows)
    BY <1>1, <1>6 DEF OutboxRemove, HeadThere
  <2>2. /\ Head(rows) = rows[1] /\ 1 \in DOMAIN rows
        /\ \A i \in DOMAIN rows' : i + 1 \in DOMAIN rows /\ 1 < i + 1 /\ rows'[i] = rows[i + 1]
        /\ \A i \in DOMAIN rows' : i \in Nat
    BY <1>1, <2>1, TailSet
  <2>3. ASSUME NEW i \in DOMAIN rows', NEW j \in DOMAIN rows', i < j
        PROVE  rows'[i] < rows'[j]
    <3>1. i + 1 < j + 1
      BY <2>2, <2>3
    <3> QED  BY <1>3, <2>2, <3>1
  <2>4. ASSUME NEW g \in Event, NEW f \in Stored', outcome'[g] # "none"
        PROVE  g < f
    <3>1. f \in Stored
      BY <1>6, StoredStep
    <3>2. CASE g = Head(rows)
      <4>1. PICK i \in DOMAIN rows' : rows'[i] = f
        BY <2>4 DEF Stored, ToSet
      <4> QED  BY <1>3, <2>2, <3>2, <4>1
    <3>3. CASE g # Head(rows)
      <4>1. outcome'[g] = outcome[g]
        BY <1>1, <1>6, <3>3 DEF OutboxRemove
      <4> QED  BY <1>3, <2>4, <3>1, <4>1
    <3> QED  BY <3>2, <3>3
  <2> QED  BY <2>3, <2>4 DEF RowsSorted
<1> QED  BY <1>2, <1>4, <1>5, <1>6

\* How a step leaves the worker's report: as it was, sent, given up, or begun.
LEMMA ReportStep ==
    ASSUME [Next]_vars
    PROVE  \/ Correlate
           \/ DeleteRow
           \/ reports' = reports /\ (wpc' = "correlate" => wpc = "correlate" /\ current' = current)
<1> USE DEF server, poller, worker
<1>1. ASSUME NEW f \in Event, PerformStep(f)
      PROVE  reports' = reports /\ wpc' # "correlate"
  BY <1>1 DEF PerformStep, Act, PostFile, SkipFile, DownloadFails, PostText, FilesPosted, Flood, Poison,
              Performing
<1>2. ASSUME NEW f \in Event, HandleStep(f)
      PROVE  UNCHANGED <<reports, wpc, current>>
  BY <1>2 DEF HandleStep, Enqueue, EnqueueFails, SetWake, Reack, Ack, AckLost
<1>3. CASE WorkerStep
  BY <1>1, <1>3 DEF WorkerStep, PeekHead, Sleep, Woken, Wait, EndWait, BeginPerform, CorrelateLost
<1>4. CASE PollerStep \/ Relay \/ Crash \/ UNCHANGED vars
  BY <1>2, <1>4 DEF PollerStep, Poll, Relay, Crash, vars
<1> QED  BY <1>3, <1>4 DEF Next

\* The reports after one more.
LEMMA ReportAppend ==
    ASSUME TypeOK, CurrentIsEvent, Correlate
    PROVE  /\ DOMAIN reports' = DOMAIN reports \cup {Len(reports) + 1}
           /\ \A i \in DOMAIN reports : i \in Nat /\ i < Len(reports) + 1 /\ reports'[i] = reports[i]
           /\ reports'[Len(reports) + 1].event = current
           /\ Len(reports) \in Nat
<1> DEFINE Report == [event : Event, ids : SUBSET Nat]
           r == [event |-> current, ids |-> produced]
<1>1. r.event = current /\ r \in Report
  BY DEF CurrentIsEvent, Correlate, TypeOK
<1>2. reports \in Seq(Report) /\ reports' = Append(reports, r)
  BY DEF TypeOK, Correlate
<1> HIDE DEF Report, r
<1>3. /\ DOMAIN reports' = DOMAIN reports \cup {Len(reports) + 1}
      /\ \A i \in DOMAIN reports : i < Len(reports) + 1 /\ reports'[i] = reports[i]
      /\ reports'[Len(reports) + 1] = r
  BY <1>1, <1>2, AppendSet
<1>4. Len(reports) \in Nat /\ \A i \in DOMAIN reports : i \in Nat
  BY <1>2
<1> QED  BY <1>1, <1>3, <1>4

\* An event dealt with stays dealt with.
LEMMA OutcomeStays ==
    ASSUME TypeOK, [Next]_vars, NEW e \in Event, outcome[e] # "none"
    PROVE  outcome'[e] # "none"
BY OutboxStep DEF TypeOK, OutboxKept, OutboxAppend, OutboxDefer, OutboxRemove

\* The event of a report is an event.
LEMMA ReportEvent ==
    ASSUME TypeOK, NEW i \in DOMAIN reports
    PROVE  reports[i].event \in Event
<1> DEFINE Report == [event : Event, ids : SUBSET Nat]
<1>1. reports \in Seq(Report)
  BY DEF TypeOK
<1>2. \A r \in Report : r.event \in Event
  OBVIOUS
<1> HIDE DEF Report
<1>3. reports[i] \in Report
  BY <1>1
<1> QED  BY <1>2, <1>3

\* An event is reported after it has been dealt with.
LEMMA StepReported ==
    ASSUME IInv, OrderInv, [Next]_vars
    PROVE  ReportedDone'
<1>1. TypeOK /\ CurrentIsEvent /\ HeadThere /\ ReportedDone
  BY DEF IInv, OrderInv
<1>2. \A i \in DOMAIN reports : outcome'[reports[i].event] # "none"
  BY <1>1, ReportEvent, OutcomeStays DEF ReportedDone
<1>3. wpc = "correlate" => outcome'[current] # "none"
  BY <1>1, OutcomeStays DEF ReportedDone, CurrentIsEvent
<1>4. CASE Correlate
  <2>1. wpc = "correlate" /\ wpc' = "peek"
    BY <1>4 DEF Correlate
  <2>2. \A i \in DOMAIN reports' : outcome'[reports'[i].event] # "none"
    BY <1>1, <1>2, <1>3, <1>4, <2>1, ReportAppend
  <2> QED  BY <2>1, <2>2 DEF ReportedDone
<1>5. CASE DeleteRow
  <2>1. reports' = reports /\ current' = Head(rows)
        /\ outcome' = [outcome EXCEPT ![Head(rows)] = "done"]
    BY <1>5 DEF DeleteRow, server
  <2>2. Head(rows) \in Event
    BY <1>1, <1>5, TailFacts DEF DeleteRow, HeadThere, TypeOK
  <2>3. outcome'[current'] = "done"
    BY <1>1, <2>1, <2>2 DEF TypeOK
  <2> QED  BY <1>2, <2>1, <2>3 DEF ReportedDone
<1>6. CASE reports' = reports /\ (wpc' = "correlate" => wpc = "correlate" /\ current' = current)
  BY <1>2, <1>3, <1>6 DEF ReportedDone
<1> QED  BY <1>4, <1>5, <1>6, ReportStep

\* The event to be correlated comes after those reported: it was stored after
\* they were dealt with.
LEMMA StepCurrent ==
    ASSUME IInv, OrderInv, [Next]_vars
    PROVE  CurrentLast'
<1> SUFFICES ASSUME InOrder', wpc' = "correlate", NEW i \in DOMAIN reports'
             PROVE  reports'[i].event < current'
  BY DEF CurrentLast
<1>1. TypeOK /\ HeadThere /\ ReportedDone /\ InOrder
  BY InOrderStep DEF IInv, OrderInv
<1>2. CASE Correlate
  BY <1>2 DEF Correlate
<1>3. CASE DeleteRow
  <2>1. reports' = reports /\ current' = Head(rows)
    BY <1>3 DEF DeleteRow, server
  <2>2. Head(rows) \in Stored
    BY <1>1, <1>3, TailSet DEF DeleteRow, HeadThere, TypeOK, Stored
  <2>3. reports[i].event \in Event /\ outcome[reports[i].event] # "none"
    BY <1>1, <2>1, ReportEvent DEF ReportedDone
  <2> QED  BY <1>1, <2>1, <2>2, <2>3 DEF OrderInv, RowsSorted
<1>4. CASE reports' = reports /\ (wpc' = "correlate" => wpc = "correlate" /\ current' = current)
  BY <1>1, <1>4 DEF OrderInv, CurrentLast
<1> QED  BY <1>2, <1>3, <1>4, ReportStep

\* A report comes after the others.
LEMMA StepReports ==
    ASSUME IInv, OrderInv, [Next]_vars
    PROVE  ReportsInOrder'
<1> SUFFICES ASSUME InOrder', NEW i \in DOMAIN reports', NEW j \in DOMAIN reports', i < j
             PROVE  reports'[i].event < reports'[j].event
  BY DEF ReportsInOrder, InOrder
<1>1. /\ TypeOK /\ CurrentIsEvent /\ InOrder
      /\ \A k, l \in DOMAIN reports : k < l => reports[k].event < reports[l].event
      /\ wpc = "correlate" => \A k \in DOMAIN reports : reports[k].event < current
  BY InOrderStep DEF IInv, OrderInv, ReportsInOrder, CurrentLast, InOrder
<1>2. CASE Correlate
  <2> DEFINE n == Len(reports) + 1
  <2>1. /\ DOMAIN reports' = DOMAIN reports \cup {n}
        /\ \A k \in DOMAIN reports : k \in Nat /\ k < n /\ reports'[k] = reports[k]
        /\ reports'[n].event = current
        /\ n \in Nat
    BY <1>1, <1>2, ReportAppend
  <2>2. wpc = "correlate"
    BY <1>2 DEF Correlate
  <2> HIDE DEF n
  <2>3. i \in DOMAIN reports
    BY <2>1
  <2>4. CASE j = n
    BY <1>1, <2>1, <2>2, <2>3, <2>4
  <2>5. CASE j \in DOMAIN reports
    BY <1>1, <2>1, <2>3, <2>5
  <2> QED  BY <2>1, <2>4, <2>5
<1>3. CASE reports' = reports
  BY <1>1, <1>3
<1> QED  BY <1>2, <1>3, ReportStep DEF DeleteRow, server

--------------------------------------------------------------------------------
(* Theorems *)

\* The invariant is inductive: whatever the poll loop, the worker, the faults
\* and the restarts do.
THEOREM OrderInvariance == Spec => []OInv
<1>1. Init => OInv
  BY InitIInv, InitOnce, InitOrder DEF OInv
<1>2. IInv /\ [Next]_vars => IInv'
  BY StepType, StepSeen, StepAck, StepSilent, StepHead, StepProduced, StepReport DEF IInv
<1>3. OInv /\ [Next]_vars => OnceInv'
  BY StepDistinct, StepHandledSeen, StepUnapplied, StepParts, StepApplied DEF OInv, OnceInv
<1>4. OInv /\ [Next]_vars => OrderInv'
  BY StepGiven, StepBatch, StepFirst, StepSorted, StepReported, StepCurrent, StepReports
     DEF OInv, OrderInv
<1>5. OInv /\ [Next]_vars => OInv'
  BY <1>2, <1>3, <1>4 DEF OInv
<1> QED  BY <1>1, <1>5, PTL DEF Spec

\* "A redelivered event (pre-ack) isn't acted on twice": with no restart and no
\* flood wait, a message is posted at most once per part, and any other event
\* applied at most once, however many acks are lost and events redelivered.
THEOREM AppliedAtMostOnce == Spec => []AppliedOnce
<1>1. OInv => AppliedOnce
  BY DEF OInv, OnceInv
<1> QED  BY OrderInvariance, <1>1, PTL

\* "Clients send correlations in the same order they ACKed", unless an event is
\* put back in the outbox or in the queue: no lost ack, lost correlation or dropped
\* action reorders them.
THEOREM ReportsOrdered == Spec => []ReportsInOrder
<1>1. OInv => ReportsInOrder
  BY DEF OInv, OrderInv
<1> QED  BY OrderInvariance, <1>1, PTL

================================================================================
