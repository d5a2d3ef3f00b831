--------------------------- MODULE ClientBridgeProofs ---------------------------
(***************************************************************************)
(* Proofs about the bot as the client of a gateway: however many messages, *)
(* events and faults there are and however the tasks interleave, it deletes *)
(* a Discord message with the last of its Telegram messages only, and      *)
(* takes a deletion for an echo only when there is nothing left to relay.  *)
(***************************************************************************)
EXTENDS ClientBridge, TLAPS

\* Nobody knows a Discord message before it is there.
DcKnown ==
    /\ found < nextDc
    /\ \A t \in Tg : map[t] < nextDc
    /\ \A d \in Dc :
          \/ d \in suppress \/ d \in raw \/ d \in discord
          \/ spc[d] # "none" \/ dpc[d] # "none" \/ about[d] # {}
          => d < nextDc

\* Nor a Telegram message.
Before(set) == \A t \in set : t < nextTg

TgKnown == Before(tg) /\ Before(todo) /\ \A d \in Dc : Before(about[d])

\* What an event is about: a deletion of ids that are gone, or a message that nobody
\* wrote in Discord.
EventSound ==
    \A e \in DOMAIN events :
        /\ Before(events[e].ids)
        /\ events[e].kind = "deletion" => events[e].ids \cap tg = {}
        /\ events[e].kind = "message" =>
               \A d \in Dc : spc[d] # "none" => about[d] \cap events[e].ids = {}

\* A row is of an id that the message stands for; those of a message that was
\* written in Discord are of no other message.
RowSound ==
    /\ \A t \in Tg : map[t] # None => t \in about[map[t]]
    /\ \A d \in Dc : rest[d] \subseteq about[d]
    /\ \A d \in Dc : spc[d] = "sending" => about[d] = {}
    /\ \A d, n \in Dc : d # n /\ spc[d] # "none" => about[d] \cap about[n] = {}

\* The ids that the poll loop has still to handle are gone.
TodoGone == todo \cap tg = {}

\* What is posted, and then stored, has no row.
PostSound ==
    /\ bpc \in {"post", "store"} =>
          \A e \in DOMAIN events : Handling(e) =>
              /\ events[e].kind = "message"
              /\ \A t \in events[e].ids : map[t] = None
              /\ bpc = "store" => about[found] = events[e].ids
    /\ bpc = "store" => found \notin suppress /\ spc[found] = "none"

\* The poll loop has found the message it is to delete, or has marked it.
Found(d) == d \in suppress \/ (bpc \in {"unmap", "siblings", "erase"} /\ found = d)

\* Of what was found while rows were still to be stored it is known.
FoundTorn == \A d \in Dc : Found(d) /\ ~Settled(d) => d \in torn

\* What is marked has no row.
SuppressedGone == \A d \in suppress \ torn : RowsOf(d) = {}

\* A deletion is reported, or handled, when the message is gone.
ReportedGone == \A d \in Dc : d \in raw \/ dpc[d] # "none" => d \notin discord

\* The Telegram messages of a Discord message are all mapped to it, or none is.
Whole ==
    \A d \in discord : \A t \in about[d] \cap tg :
        \/ map[t] = d
        \/ spc[d] = "storing" /\ t \in rest[d]
        \/ Settled(d) /\ RowsOf(d) = {}
        \/ spc[d] \in {"sending", "placed", "lost"}

\* So they are while one of them is being unmapped.
FoundWhole ==
    bpc \in {"unmap", "siblings"} /\ found \in discord \ torn =>
        \A t \in about[found] \cap tg : map[t] = found

\* The inductive invariant.
IInv ==
    /\ TypeOK /\ DcKnown
    /\ TgKnown /\ EventSound /\ RowSound /\ TodoGone /\ PostSound
    /\ FoundTorn /\ SuppressedGone /\ ReportedGone
    /\ Whole /\ FoundWhole

--------------------------------------------------------------------------------
(* Types *)

\* A fault is recorded.
LEMMA FaultType ==
    ASSUME TypeOK, NEW kind, Fault(kind)
    PROVE  faults' \in Seq(FaultKinds)
BY ClientBridgeAssumption DEF TypeOK, Fault

\* A new message in Discord.
LEMMA NewDcType ==
    ASSUME TypeOK, NEW d \in Dc, NewDc(d)
    PROVE  nextDc' \in 1..(MaxDc + 1) /\ nextDc' = nextDc + 1 /\ d = nextDc /\ d # None
BY ClientBridgeAssumption DEF TypeOK, NewDc, Dc, None

\* The events, one by one.
LEMMA EventType ==
    ASSUME TypeOK
    PROVE  /\ Len(events) \in Nat /\ DOMAIN events = 1..Len(events)
           /\ \A e \in DOMAIN events : events[e] \in EventRecord
<1>1. events \in Seq(EventRecord)
  BY DEF TypeOK
<1> QED  BY <1>1

\* A new event.
LEMMA EnqueueType ==
    ASSUME TypeOK, NEW kind \in {"message", "edit", "deletion"}, NEW tgs \in SUBSET Tg,
           Enqueue(kind, tgs)
    PROVE  /\ events' \in Seq(EventRecord) /\ Len(events') = Len(events) + 1
           /\ DOMAIN events' = DOMAIN events \cup {Len(events) + 1}
           /\ \A e \in DOMAIN events : events'[e] = events[e]
           /\ events'[Len(events) + 1] = [kind |-> kind, ids |-> tgs]
           /\ queue' \subseteq DOMAIN events' /\ batch \subseteq DOMAIN events'
           /\ shown \in [Dc -> 0..Len(events')]
<1> DEFINE r == [kind |-> kind, ids |-> tgs]
<1>1. events \in Seq(EventRecord) /\ r \in EventRecord /\ events' = Append(events, r)
  BY DEF TypeOK, Enqueue, EventRecord
<1>2. queue' = queue \cup {Len(events')} /\ queue \subseteq DOMAIN events
      /\ batch \subseteq DOMAIN events /\ shown \in [Dc -> 0..Len(events)]
  BY DEF TypeOK, Enqueue
<1> HIDE DEF r
<1>3. /\ events' \in Seq(EventRecord) /\ Len(events') = Len(events) + 1
      /\ Len(events) \in Nat /\ DOMAIN events = 1..Len(events)
      /\ DOMAIN events' = 1..(Len(events) + 1)
      /\ \A e \in DOMAIN events : events'[e] = events[e]
      /\ events'[Len(events) + 1] = r
  BY <1>1
<1>4. DOMAIN events' = DOMAIN events \cup {Len(events) + 1}
  BY <1>3
<1>5. queue' \subseteq DOMAIN events' /\ batch \subseteq DOMAIN events'
  BY <1>2, <1>3, <1>4
<1>6. shown \in [Dc -> 0..Len(events')]
  <2>1. 0..Len(events) \subseteq 0..Len(events')
    BY <1>3
  <2> QED  BY <1>2, <2>1
<1> QED  BY <1>3, <1>4, <1>5, <1>6 DEF r

\* The messages the server makes of one.
LEMMA PlaceType ==
    ASSUME TypeOK, NEW d \in Dc, PlaceMessage(d)
    PROVE  /\ tg' \subseteq Tg /\ nextTg' \in 1..(MaxTg + 1) /\ nextTg < nextTg'
           /\ about' \in [Dc -> SUBSET Tg]
           /\ tg' = tg \cup about'[d]
           /\ \A n \in Dc \ {d} : about'[n] = about[n]
           /\ \A t \in about'[d] : nextTg <= t /\ t < nextTg'
<1>1. PICK n \in 1..Album :
         /\ nextTg + n - 1 \in Tg
         /\ about' = [about EXCEPT ![d] = nextTg..(nextTg + n - 1)]
         /\ tg' = tg \cup about'[d]
         /\ nextTg' = nextTg + n
  BY DEF PlaceMessage
<1>2. nextTg \in 1..(MaxTg + 1) /\ tg \subseteq Tg /\ MaxTg \in Nat /\ Album \in Nat
      /\ about \in [Dc -> SUBSET Tg]
  BY ClientBridgeAssumption DEF TypeOK
<1>3. n \in Nat /\ 1 <= n
  BY <1>1, <1>2
<1>4. nextTg + n - 1 <= MaxTg
  BY <1>1, <1>2, <1>3 DEF Tg
<1> DEFINE new == nextTg..(nextTg + n - 1)
<1>5. new \subseteq Tg /\ \A t \in new : nextTg <= t /\ t < nextTg + n
  BY <1>2, <1>3, <1>4 DEF Tg
<1> HIDE DEF new
<1>6. about' = [about EXCEPT ![d] = new]
  BY <1>1 DEF new
<1>7. about' \in [Dc -> SUBSET Tg] /\ about'[d] = new /\ \A k \in Dc \ {d} : about'[k] = about[k]
  BY <1>2, <1>5, <1>6
<1>8. nextTg' \in 1..(MaxTg + 1) /\ nextTg < nextTg'
  BY <1>1, <1>2, <1>3, <1>4
<1> QED  BY <1>1, <1>2, <1>5, <1>7, <1>8

LEMMA InitType ==
    ASSUME Init
    PROVE  TypeOK
<1>1. nextTg \in 1..(MaxTg + 1) /\ nextDc \in 1..(MaxDc + 1)
  BY ClientBridgeAssumption DEF Init
<1>2. events \in Seq(EventRecord) /\ Len(events) = 0 /\ faults \in Seq(FaultKinds)
  BY DEF Init
<1> QED  BY <1>1, <1>2 DEF Init, TypeOK

LEMMA ExternalType ==
    ASSUME TypeOK, External
    PROVE  TypeOK'
<1> USE DEF server, channel, poller, sender, remover
<1>1. CASE RelayMessage
  <2>1. tg' \subseteq Tg /\ nextTg' \in 1..(MaxTg + 1) /\ {nextTg} \in SUBSET Tg
    BY <1>1, ClientBridgeAssumption DEF TypeOK, RelayMessage, Tg
  <2> QED  BY <1>1, <2>1, EnqueueType DEF TypeOK, RelayMessage
<1>2. ASSUME NEW t \in Tg, RelayEdit(t)
      PROVE  TypeOK'
  BY <1>2, EnqueueType DEF TypeOK, RelayEdit
<1>3. ASSUME NEW tgs \in SUBSET Tg, RelayDeletion(tgs)
      PROVE  TypeOK'
  BY <1>3, EnqueueType DEF TypeOK, RelayDeletion
<1>4. ASSUME NEW d \in Dc, UserWrites(d)
      PROVE  TypeOK'
  BY <1>4, NewDcType DEF TypeOK, UserWrites
<1>5. ASSUME NEW d \in Dc, UserDeletes(d)
      PROVE  TypeOK'
  BY <1>5 DEF TypeOK, UserDeletes
<1> QED  BY <1>1, <1>2, <1>3, <1>4, <1>5 DEF External

LEMMA SenderType ==
    ASSUME TypeOK, NEW d \in Dc, SenderStep(d)
    PROVE  TypeOK'
<1> USE DEF server, channel, poller, sender, remover
<1>1. CASE PlaceMessage(d)
  BY <1>1, PlaceType DEF TypeOK, PlaceMessage
<1>2. CASE Answered(d)
  BY <1>2 DEF TypeOK, Answered
<1>3. CASE SendFails(d)
  BY <1>3, FaultType DEF TypeOK, SendFails
<1>4. ASSUME NEW t \in Tg, StoreSent(d, t)
      PROVE  TypeOK'
  BY <1>4 DEF TypeOK, StoreSent
<1> QED  BY <1>1, <1>2, <1>3, <1>4 DEF SenderStep

LEMMA HandleType ==
    ASSUME TypeOK, NEW e \in DOMAIN events, HandleStep(e)
    PROVE  TypeOK'
<1> USE DEF server, channel, poller, sender, remover
<1>1. CASE Unroutable(e)
  BY <1>1, FaultType DEF TypeOK, Unroutable
<1>2. CASE FindMessage(e)
  BY <1>2 DEF TypeOK, FindMessage
<1>3. CASE PostFails(e)
  BY <1>3, FaultType DEF TypeOK, PostFails
<1>4. CASE StoreCopy(e)
  BY <1>4, EventType DEF TypeOK, StoreCopy
<1>5. ASSUME NEW d \in Dc, Post(e, d)
      PROVE  TypeOK'
  <2>1. e \in 0..Len(events) /\ events[e].ids \in SUBSET Tg
    BY EventType DEF EventRecord
  <2>2. nextDc' \in 1..(MaxDc + 1) /\ d # None
    BY <1>5, NewDcType DEF Post, PostCopy
  <2> QED  BY <1>5, <2>1, <2>2 DEF TypeOK, Post, PostCopy
<1>6. ASSUME NEW d \in Dc, PostAgain(e, d)
      PROVE  TypeOK'
  <2>1. e \in 0..Len(events) /\ events[e].ids \in SUBSET Tg
    BY EventType DEF EventRecord
  <2>2. nextDc' \in 1..(MaxDc + 1) /\ d # None
    BY <1>6, NewDcType DEF PostAgain, PostCopy
  <2>3. faults' \in Seq(FaultKinds)
    BY <1>6, FaultType DEF PostAgain
  <2> QED  BY <1>6, <2>1, <2>2, <2>3 DEF TypeOK, PostAgain, PostCopy
<1>7. CASE FindEdited(e)
  <2>1. found' \in Dc \cup {None} /\ bpc' \in {"ack", "edit"} /\ (bpc' = "edit" => found' # None)
    BY <1>7, EventType DEF TypeOK, FindEdited, EventRecord
  <2> QED  BY <1>7, <2>1 DEF TypeOK, FindEdited
<1>8. CASE EditCopy(e)
  BY <1>8, EventType DEF TypeOK, EditCopy
<1>9. CASE StartDeletion(e)
  BY <1>9, EventType DEF TypeOK, StartDeletion, EventRecord
<1>10. CASE Ack(e)
  BY <1>10 DEF TypeOK, Ack, After
<1>11. CASE AckLost(e)
  BY <1>11, FaultType DEF TypeOK, AckLost, After
<1> QED  BY <1>1, <1>2, <1>3, <1>4, <1>5, <1>6, <1>7, <1>8, <1>9, <1>10, <1>11 DEF HandleStep

LEMMA DeletionType ==
    ASSUME TypeOK, DeletionStep
    PROVE  TypeOK'
<1> USE DEF server, channel, poller, sender, remover
<1>1. ASSUME NEW t \in Tg, FindDeleted(t)
      PROVE  TypeOK'
  BY <1>1 DEF TypeOK, FindDeleted, Torn
<1>2. ASSUME NEW t \in Tg, UnmapDeleted(t)
      PROVE  TypeOK'
  BY <1>2 DEF TypeOK, UnmapDeleted
<1>3. ASSUME NEW t \in Tg, CheckSiblings(t)
      PROVE  TypeOK'
  BY <1>3 DEF TypeOK, CheckSiblings, DecideToErase, Mark
<1>4. ASSUME NEW t \in Tg, Erase(t)
      PROVE  TypeOK'
  BY <1>4 DEF TypeOK, Erase
<1>5. ASSUME NEW t \in Tg, EraseFails(t)
      PROVE  TypeOK'
  BY <1>5, FaultType DEF TypeOK, EraseFails
<1>6. CASE EndDeletion
  BY <1>6 DEF TypeOK, EndDeletion
<1> QED  BY <1>1, <1>2, <1>3, <1>4, <1>5, <1>6 DEF DeletionStep

LEMMA RemoverType ==
    ASSUME TypeOK, NEW d \in Dc, RemoverStep(d)
    PROVE  TypeOK'
<1> USE DEF server, channel, poller, sender, remover
<1>1. CASE OnRawDelete(d)
  BY <1>1 DEF TypeOK, OnRawDelete
<1>2. CASE LookupDeleted(d)
  BY <1>2 DEF TypeOK, LookupDeleted
<1>3. CASE ExecuteDelete(d)
  BY <1>3 DEF TypeOK, ExecuteDelete, RowsOf
<1>4. CASE SendDeletion(d)
  BY <1>4 DEF TypeOK, SendDeletion
<1>5. CASE SendDeletionFails(d)
  BY <1>5, FaultType DEF TypeOK, SendDeletionFails
<1>6. CASE DeleteRows(d)
  BY <1>6 DEF TypeOK, DeleteRows
<1> QED  BY <1>1, <1>2, <1>3, <1>4, <1>5, <1>6 DEF RemoverStep

LEMMA CrashType ==
    ASSUME TypeOK, Crash
    PROVE  TypeOK'
<1>1. faults' \in Seq(FaultKinds)
  BY FaultType DEF Crash
<1> QED  BY <1>1 DEF TypeOK, Crash, server

LEMMA StepType ==
    ASSUME TypeOK, [Next]_vars
    PROVE  TypeOK'
<1>1. CASE Next
  <2>1. CASE Poll
    BY <2>1 DEF TypeOK, Poll, server, channel, sender, remover
  <2> QED
    BY <1>1, <2>1, ExternalType, SenderType, HandleType, DeletionType, RemoverType, CrashType
       DEF Next, PollerStep
<1>2. CASE UNCHANGED vars
  BY <1>2 DEF TypeOK, vars, server, channel, poller, sender, remover
<1> QED  BY <1>1, <1>2

--------------------------------------------------------------------------------
(* What is known *)

\* Of the types, what the lemmas below need.
Types ==
    /\ Dc \subseteq Nat /\ nextDc \in Nat /\ 0 < nextDc
    /\ Tg \subseteq Nat /\ nextTg \in Nat /\ 0 < nextTg
    /\ found \in Nat /\ map \in [Tg -> Nat]
    /\ about \in [Dc -> SUBSET Tg] /\ rest \in [Dc -> SUBSET Tg]
    /\ spc \in [Dc -> {"none", "sending", "placed", "storing", "done", "lost"}]
    /\ dpc \in [Dc -> {"none", "lookup", "exec", "send", "unmap", "done"}]
    /\ tg \subseteq Tg /\ todo \subseteq Tg /\ discord \subseteq Dc
    /\ DOMAIN events \subseteq Nat /\ batch \subseteq DOMAIN events
    /\ \A e \in DOMAIN events : events[e].ids \subseteq Tg

LEMMA TypesHold ==
    ASSUME TypeOK
    PROVE  Types
<1>1. DOMAIN events \subseteq Nat /\ \A e \in DOMAIN events : events[e].ids \subseteq Tg
  BY EventType DEF EventRecord
<1> QED  BY <1>1, ClientBridgeAssumption DEF TypeOK, Types, Dc, Tg, None

LEMMA ExternalDc ==
    ASSUME TypeOK, Types, DcKnown, External
    PROVE  DcKnown'
<1> USE DEF None, server, channel, poller, sender, remover
<1>1. CASE RelayMessage
  BY <1>1 DEF Types, DcKnown, RelayMessage
<1>2. ASSUME NEW t \in Tg, RelayEdit(t)
      PROVE  DcKnown'
  BY <1>2 DEF Types, DcKnown, RelayEdit
<1>3. ASSUME NEW tgs \in SUBSET Tg, RelayDeletion(tgs)
      PROVE  DcKnown'
  BY <1>3 DEF Types, DcKnown, RelayDeletion
<1>4. ASSUME NEW d \in Dc, UserWrites(d)
      PROVE  DcKnown'
  BY <1>4 DEF Types, DcKnown, UserWrites, NewDc
<1>5. ASSUME NEW d \in Dc, UserDeletes(d)
      PROVE  DcKnown'
  BY <1>5 DEF Types, DcKnown, UserDeletes
<1> QED  BY <1>1, <1>2, <1>3, <1>4, <1>5 DEF External

LEMMA SenderDc ==
    ASSUME TypeOK, Types, DcKnown, NEW d \in Dc, SenderStep(d)
    PROVE  DcKnown'
<1> USE DEF None, server, channel, poller, sender, remover
<1>1. CASE PlaceMessage(d)
  BY <1>1, PlaceType DEF Types, DcKnown, PlaceMessage
<1>2. CASE Answered(d)
  BY <1>2 DEF Types, DcKnown, Answered
<1>3. CASE SendFails(d)
  BY <1>3 DEF Types, DcKnown, SendFails
<1>4. ASSUME NEW t \in Tg, StoreSent(d, t)
      PROVE  DcKnown'
  BY <1>4 DEF Types, DcKnown, StoreSent
<1> QED  BY <1>1, <1>2, <1>3, <1>4 DEF SenderStep

LEMMA HandleDc ==
    ASSUME TypeOK, Types, DcKnown, NEW e \in DOMAIN events, HandleStep(e)
    PROVE  DcKnown'
<1> USE DEF None, server, channel, poller, sender, remover
<1>1. CASE Unroutable(e)
  BY <1>1 DEF Types, DcKnown, Unroutable
<1>2. CASE FindMessage(e)
  BY <1>2 DEF Types, DcKnown, FindMessage
<1>3. CASE PostFails(e)
  BY <1>3 DEF Types, DcKnown, PostFails
<1>4. CASE StoreCopy(e)
  BY <1>4 DEF Types, DcKnown, StoreCopy
<1>5. ASSUME NEW d \in Dc, Post(e, d)
      PROVE  DcKnown'
  BY <1>5 DEF Types, DcKnown, Post, PostCopy, NewDc
<1>6. ASSUME NEW d \in Dc, PostAgain(e, d)
      PROVE  DcKnown'
  BY <1>6 DEF Types, DcKnown, PostAgain, PostCopy, NewDc
<1>7. CASE FindEdited(e)
  BY <1>7 DEF Types, DcKnown, FindEdited
<1>8. CASE EditCopy(e)
  BY <1>8 DEF Types, DcKnown, EditCopy
<1>9. CASE StartDeletion(e)
  BY <1>9 DEF Types, DcKnown, StartDeletion
<1>10. CASE Ack(e)
  BY <1>10 DEF Types, DcKnown, Ack, After
<1>11. CASE AckLost(e)
  BY <1>11 DEF Types, DcKnown, AckLost, After
<1> QED  BY <1>1, <1>2, <1>3, <1>4, <1>5, <1>6, <1>7, <1>8, <1>9, <1>10, <1>11 DEF HandleStep

LEMMA DeletionDc ==
    ASSUME TypeOK, Types, DcKnown, DeletionStep
    PROVE  DcKnown'
<1> USE DEF None, server, channel, poller, sender, remover
<1>1. ASSUME NEW t \in Tg, FindDeleted(t)
      PROVE  DcKnown'
  BY <1>1 DEF Types, DcKnown, FindDeleted, Torn
<1>2. ASSUME NEW t \in Tg, UnmapDeleted(t)
      PROVE  DcKnown'
  BY <1>2 DEF Types, DcKnown, UnmapDeleted
<1>3. ASSUME NEW t \in Tg, CheckSiblings(t)
      PROVE  DcKnown'
  BY <1>3 DEF Types, DcKnown, CheckSiblings, DecideToErase, Mark
<1>4. ASSUME NEW t \in Tg, Erase(t)
      PROVE  DcKnown'
  BY <1>4 DEF Types, DcKnown, Erase
<1>5. ASSUME NEW t \in Tg, EraseFails(t)
      PROVE  DcKnown'
  BY <1>5 DEF Types, DcKnown, EraseFails
<1>6. CASE EndDeletion
  BY <1>6 DEF Types, DcKnown, EndDeletion
<1> QED  BY <1>1, <1>2, <1>3, <1>4, <1>5, <1>6 DEF DeletionStep

LEMMA RemoverDc ==
    ASSUME TypeOK, Types, DcKnown, NEW d \in Dc, RemoverStep(d)
    PROVE  DcKnown'
<1> USE DEF None, server, channel, poller, sender, remover
<1>1. CASE OnRawDelete(d)
  BY <1>1 DEF Types, DcKnown, OnRawDelete
<1>2. CASE LookupDeleted(d)
  BY <1>2 DEF Types, DcKnown, LookupDeleted
<1>3. CASE ExecuteDelete(d)
  BY <1>3 DEF Types, DcKnown, ExecuteDelete
<1>4. CASE SendDeletion(d)
  BY <1>4 DEF Types, DcKnown, SendDeletion
<1>5. CASE SendDeletionFails(d)
  BY <1>5 DEF Types, DcKnown, SendDeletionFails
<1>6. CASE DeleteRows(d)
  BY <1>6 DEF Types, DcKnown, DeleteRows
<1> QED  BY <1>1, <1>2, <1>3, <1>4, <1>5, <1>6 DEF RemoverStep

LEMMA StepDc ==
    ASSUME TypeOK, DcKnown, [Next]_vars
    PROVE  DcKnown'
<1>1. Types
  BY TypesHold
<1>2. CASE Crash
  BY <1>1, <1>2 DEF Types, DcKnown, Crash, None
<1>3. CASE Poll \/ UNCHANGED vars
  BY <1>3 DEF DcKnown, Poll, vars, server, channel, poller, sender, remover
<1> QED
  BY <1>1, <1>2, <1>3, ExternalDc, SenderDc, HandleDc, DeletionDc, RemoverDc DEF Next, PollerStep

\* What a step does to the ids that are in use.
IdStep ==
    /\ nextTg' \in Nat /\ nextTg <= nextTg'
    /\ \A t \in tg' : t \in tg \/ (nextTg <= t /\ t < nextTg')
    /\ \A d \in Dc : spc'[d] # "none" =>
          \A t \in about'[d] : (spc[d] # "none" /\ t \in about[d]) \/ nextTg <= t

LEMMA ExternalIds ==
    ASSUME TypeOK, Types, DcKnown, External
    PROVE  IdStep
<1> USE DEF server, channel, poller, sender, remover
<1>1. CASE RelayMessage
  BY <1>1 DEF Types, DcKnown, IdStep, RelayMessage
<1>2. ASSUME NEW t \in Tg, RelayEdit(t)
      PROVE  IdStep
  BY <1>2 DEF Types, DcKnown, IdStep, RelayEdit
<1>3. ASSUME NEW tgs \in SUBSET Tg, RelayDeletion(tgs)
      PROVE  IdStep
  BY <1>3 DEF Types, DcKnown, IdStep, RelayDeletion
<1>4. ASSUME NEW d \in Dc, UserWrites(d)
      PROVE  IdStep
  BY <1>4 DEF Types, DcKnown, IdStep, UserWrites, NewDc
<1>5. ASSUME NEW d \in Dc, UserDeletes(d)
      PROVE  IdStep
  BY <1>5 DEF Types, DcKnown, IdStep, UserDeletes
<1> QED  BY <1>1, <1>2, <1>3, <1>4, <1>5 DEF External

LEMMA SenderIds ==
    ASSUME TypeOK, Types, DcKnown, NEW d \in Dc, SenderStep(d)
    PROVE  IdStep
<1> USE DEF server, channel, poller, sender, remover
<1>1. CASE PlaceMessage(d)
  BY <1>1, PlaceType DEF Types, DcKnown, IdStep, PlaceMessage
<1>2. CASE Answered(d)
  BY <1>2 DEF Types, DcKnown, IdStep, Answered
<1>3. CASE SendFails(d)
  BY <1>3 DEF Types, DcKnown, IdStep, SendFails
<1>4. ASSUME NEW t \in Tg, StoreSent(d, t)
      PROVE  IdStep
  BY <1>4 DEF Types, DcKnown, IdStep, StoreSent
<1> QED  BY <1>1, <1>2, <1>3, <1>4 DEF SenderStep

LEMMA HandleIds ==
    ASSUME TypeOK, Types, DcKnown, NEW e \in DOMAIN events, HandleStep(e)
    PROVE  IdStep
<1> USE DEF server, channel, poller, sender, remover
<1>1. CASE Unroutable(e)
  BY <1>1 DEF Types, DcKnown, IdStep, Unroutable
<1>2. CASE FindMessage(e)
  BY <1>2 DEF Types, DcKnown, IdStep, FindMessage
<1>3. CASE PostFails(e)
  BY <1>3 DEF Types, DcKnown, IdStep, PostFails
<1>4. CASE StoreCopy(e)
  BY <1>4 DEF Types, DcKnown, IdStep, StoreCopy
<1>5. ASSUME NEW d \in Dc, Post(e, d)
      PROVE  IdStep
  BY <1>5 DEF Types, DcKnown, IdStep, Post, PostCopy, NewDc
<1>6. ASSUME NEW d \in Dc, PostAgain(e, d)
      PROVE  IdStep
  BY <1>6 DEF Types, DcKnown, IdStep, PostAgain, PostCopy, NewDc
<1>7. CASE FindEdited(e)
  BY <1>7 DEF Types, DcKnown, IdStep, FindEdited
<1>8. CASE EditCopy(e)
  BY <1>8 DEF Types, DcKnown, IdStep, EditCopy
<1>9. CASE StartDeletion(e)
  BY <1>9 DEF Types, DcKnown, IdStep, StartDeletion
<1>10. CASE Ack(e)
  BY <1>10 DEF Types, DcKnown, IdStep, Ack, After
<1>11. CASE AckLost(e)
  BY <1>11 DEF Types, DcKnown, IdStep, AckLost, After
<1> QED  BY <1>1, <1>2, <1>3, <1>4, <1>5, <1>6, <1>7, <1>8, <1>9, <1>10, <1>11 DEF HandleStep

LEMMA DeletionIds ==
    ASSUME TypeOK, Types, DcKnown, DeletionStep
    PROVE  IdStep
<1> USE DEF server, channel, poller, sender, remover
<1>1. ASSUME NEW t \in Tg, FindDeleted(t)
      PROVE  IdStep
  BY <1>1 DEF Types, DcKnown, IdStep, FindDeleted, Torn
<1>2. ASSUME NEW t \in Tg, UnmapDeleted(t)
      PROVE  IdStep
  BY <1>2 DEF Types, DcKnown, IdStep, UnmapDeleted
<1>3. ASSUME NEW t \in Tg, CheckSiblings(t)
      PROVE  IdStep
  BY <1>3 DEF Types, DcKnown, IdStep, CheckSiblings, DecideToErase, Mark
<1>4. ASSUME NEW t \in Tg, Erase(t)
      PROVE  IdStep
  BY <1>4 DEF Types, DcKnown, IdStep, Erase
<1>5. ASSUME NEW t \in Tg, EraseFails(t)
      PROVE  IdStep
  BY <1>5 DEF Types, DcKnown, IdStep, EraseFails
<1>6. CASE EndDeletion
  BY <1>6 DEF Types, DcKnown, IdStep, EndDeletion
<1> QED  BY <1>1, <1>2, <1>3, <1>4, <1>5, <1>6 DEF DeletionStep

LEMMA RemoverIds ==
    ASSUME TypeOK, Types, DcKnown, NEW d \in Dc, RemoverStep(d)
    PROVE  IdStep
<1> USE DEF server, channel, poller, sender, remover
<1>1. CASE OnRawDelete(d)
  BY <1>1 DEF Types, DcKnown, IdStep, OnRawDelete
<1>2. CASE LookupDeleted(d)
  BY <1>2 DEF Types, DcKnown, IdStep, LookupDeleted
<1>3. CASE ExecuteDelete(d)
  BY <1>3 DEF Types, DcKnown, IdStep, ExecuteDelete
<1>4. CASE SendDeletion(d)
  BY <1>4 DEF Types, DcKnown, IdStep, SendDeletion
<1>5. CASE SendDeletionFails(d)
  BY <1>5 DEF Types, DcKnown, IdStep, SendDeletionFails
<1>6. CASE DeleteRows(d)
  BY <1>6 DEF Types, DcKnown, IdStep, DeleteRows
<1> QED  BY <1>1, <1>2, <1>3, <1>4, <1>5, <1>6 DEF RemoverStep

LEMMA StepIds ==
    ASSUME TypeOK, DcKnown, [Next]_vars
    PROVE  IdStep
<1>1. Types
  BY TypesHold
<1>2. CASE Crash
  BY <1>1, <1>2 DEF Types, IdStep, Crash, server
<1>3. CASE Poll \/ UNCHANGED vars
  BY <1>1, <1>3 DEF Types, IdStep, Poll, vars, server, channel, sender
<1> QED
  BY <1>1, <1>2, <1>3, ExternalIds, SenderIds, HandleIds, DeletionIds, RemoverIds DEF Next, PollerStep

--------------------------------------------------------------------------------
(* Ids of Telegram: what events, rows and the poll loop know of them *)

IdsSound == TgKnown /\ EventSound /\ RowSound /\ TodoGone

\* An event that was sound stays so.
LEMMA OldEvent ==
    ASSUME TypeOK, IdsSound, IdStep, NEW e \in DOMAIN events
    PROVE  /\ \A t \in events[e].ids : t < nextTg'
           /\ events[e].kind = "deletion" => events[e].ids \cap tg' = {}
           /\ events[e].kind = "message" =>
                  \A d \in Dc : spc'[d] # "none" => about'[d] \cap events[e].ids = {}
<1>1. Types
  BY TypesHold
<1>2. \A t \in events[e].ids : t \in Nat /\ t < nextTg
  BY <1>1 DEF IdsSound, EventSound, Before, Types
<1>3. \A t \in events[e].ids : t < nextTg' /\ ~(nextTg <= t)
  BY <1>1, <1>2 DEF Types, IdStep
<1> QED  BY <1>3 DEF IdStep, IdsSound, EventSound

\* A new one is sound if what it is about is.
LEMMA NewEvent ==
    ASSUME TypeOK, IdsSound, IdStep, NEW kind \in {"message", "edit", "deletion"},
           NEW tgs \in SUBSET Tg, Enqueue(kind, tgs),
           \A t \in tgs : t < nextTg',
           kind = "deletion" => tgs \cap tg' = {},
           kind = "message" => \A d \in Dc : spc'[d] # "none" => about'[d] \cap tgs = {}
    PROVE  EventSound'
<1> DEFINE r == [kind |-> kind, ids |-> tgs]
<1>1. /\ DOMAIN events' = DOMAIN events \cup {Len(events) + 1}
      /\ \A e \in DOMAIN events : events'[e] = events[e]
      /\ events'[Len(events) + 1] = r
  BY EnqueueType
<1>2. r.kind = kind /\ r.ids = tgs
  OBVIOUS
<1> HIDE DEF r
<1>3. ASSUME NEW e \in DOMAIN events'
      PROVE  /\ \A t \in events'[e].ids : t < nextTg'
             /\ events'[e].kind = "deletion" => events'[e].ids \cap tg' = {}
             /\ events'[e].kind = "message" =>
                    \A d \in Dc : spc'[d] # "none" => about'[d] \cap events'[e].ids = {}
  <2>1. CASE e \in DOMAIN events
    <3>1. events'[e] = events[e]
      BY <1>1, <2>1
    <3> QED  BY <2>1, <3>1, OldEvent
  <2>2. CASE events'[e] = r
    BY <1>2, <2>2
  <2> QED  BY <1>1, <2>1, <2>2
<1> QED  BY <1>3 DEF EventSound, Before

LEMMA StepEvents ==
    ASSUME TypeOK, DcKnown, IdsSound, [Next]_vars
    PROVE  EventSound'
<1> USE DEF server, channel, poller, sender, remover
<1>1. IdStep /\ Types
  BY StepIds, TypesHold
<1>2. ASSUME events' = events
      PROVE  EventSound'
    BY <1>1, <1>2, OldEvent DEF EventSound, Before
<1>3. CASE RelayMessage
  <2>1. nextTg' = nextTg + 1 /\ {nextTg} \in SUBSET Tg /\ UNCHANGED <<spc, about>>
    BY <1>3 DEF RelayMessage
  <2>2. \A d \in Dc : about[d] \cap {nextTg} = {}
    BY <1>1 DEF Types, IdsSound, TgKnown, Before
  <2> QED  BY <1>1, <1>3, <2>1, <2>2, NewEvent DEF RelayMessage, Types
<1>4. ASSUME NEW t \in Tg, RelayEdit(t)
      PROVE  EventSound'
  BY <1>1, <1>4, NewEvent DEF RelayEdit, IdsSound, TgKnown, Before
<1>5. ASSUME NEW tgs \in SUBSET Tg, RelayDeletion(tgs)
      PROVE  EventSound'
  <2>1. tgs \subseteq tg
    BY <1>5 DEF RelayDeletion
  <2> QED  BY <1>1, <1>5, <2>1, NewEvent DEF RelayDeletion, IdsSound, TgKnown, Before
<1>6. CASE UNCHANGED vars
  BY <1>2, <1>6 DEF vars
<1>7. CASE PollerStep
  BY <1>2, <1>7 DEF PollerStep, Poll, HandleStep, Unroutable, FindMessage, PostFails, StoreCopy, Post,
     PostAgain, FindEdited, EditCopy, StartDeletion, Ack, AckLost, DeletionStep, FindDeleted,
     UnmapDeleted, CheckSiblings, Erase, EraseFails, EndDeletion
<1>8. ASSUME NEW d \in Dc, SenderStep(d) \/ RemoverStep(d) \/ UserWrites(d) \/ UserDeletes(d)
      PROVE  EventSound'
  BY <1>2, <1>8 DEF SenderStep, PlaceMessage, Answered, SendFails, StoreSent, RemoverStep, OnRawDelete,
     LookupDeleted, ExecuteDelete, SendDeletion, SendDeletionFails, DeleteRows, UserWrites, UserDeletes
<1>9. CASE Crash
  BY <1>2, <1>9 DEF Crash
<1> QED  BY <1>3, <1>4, <1>5, <1>6, <1>7, <1>8, <1>9 DEF Next, External

LEMMA ExternalKnown ==
    ASSUME TypeOK, Types, DcKnown, IdsSound, IdStep, External
    PROVE  TgKnown' /\ TodoGone'
<1> USE DEF server, channel, poller, sender, remover
<1>1. CASE RelayMessage
  <2>1. /\ nextTg' = nextTg + 1 /\ tg' = tg \cup {nextTg}
        /\ todo' = todo /\ about' = about
    BY <1>1 DEF RelayMessage
  <2>2. nextTg \in Nat /\ \A t \in Tg : t \in Nat /\ (t < nextTg => t < nextTg') /\ (t < nextTg => t # nextTg)
    BY <2>1 DEF Types
  <2>3. /\ \A t \in tg : t \in Tg /\ t < nextTg
        /\ \A t \in todo : t \in Tg /\ t < nextTg
        /\ \A d \in Dc : \A t \in about[d] : t \in Tg /\ t < nextTg
    BY DEF Types, IdsSound, TgKnown, Before
  <2>4. \A t \in tg' : t < nextTg'
    BY <2>1, <2>2, <2>3
  <2>5. TgKnown'
    BY <2>1, <2>2, <2>3, <2>4 DEF TgKnown, Before
  <2>6. TodoGone'
    BY <2>1, <2>2, <2>3 DEF IdsSound, TodoGone
  <2> QED  BY <2>5, <2>6
<1>2. ASSUME NEW t \in Tg, RelayEdit(t)
      PROVE  TgKnown' /\ TodoGone'
  BY <1>2 DEF Types, IdsSound, TgKnown, TodoGone, Before, IdStep, RelayEdit
<1>3. ASSUME NEW tgs \in SUBSET Tg, RelayDeletion(tgs)
      PROVE  TgKnown' /\ TodoGone'
  BY <1>3 DEF Types, IdsSound, TgKnown, TodoGone, Before, IdStep, RelayDeletion
<1>4. ASSUME NEW d \in Dc, UserWrites(d)
      PROVE  TgKnown' /\ TodoGone'
  BY <1>4 DEF Types, IdsSound, TgKnown, TodoGone, Before, IdStep, UserWrites, NewDc
<1>5. ASSUME NEW d \in Dc, UserDeletes(d)
      PROVE  TgKnown' /\ TodoGone'
  BY <1>5 DEF Types, IdsSound, TgKnown, TodoGone, Before, IdStep, UserDeletes
<1> QED  BY <1>1, <1>2, <1>3, <1>4, <1>5 DEF External

LEMMA SenderKnown ==
    ASSUME TypeOK, Types, DcKnown, IdsSound, IdStep, NEW d \in Dc, SenderStep(d)
    PROVE  TgKnown' /\ TodoGone'
<1> USE DEF server, channel, poller, sender, remover
<1>1. CASE PlaceMessage(d)
  <2>1. /\ nextTg' \in Nat /\ nextTg < nextTg' /\ tg' = tg \cup about'[d] /\ todo' = todo
        /\ \A n \in Dc \ {d} : about'[n] = about[n]
        /\ \A t \in about'[d] : nextTg <= t /\ t < nextTg'
    BY <1>1, PlaceType DEF PlaceMessage, IdStep
  <2> nextTg \in Nat /\ Tg \subseteq Nat
    BY DEF Types
  <2>2. \A t \in Tg : (t < nextTg => t < nextTg') /\ ~(t < nextTg /\ nextTg <= t)
    BY <2>1
  <2>3. /\ \A t \in tg : t \in Tg /\ t < nextTg
        /\ \A t \in todo : t \in Tg /\ t < nextTg
        /\ \A n \in Dc : \A t \in about[n] : t \in Tg /\ t < nextTg
    BY DEF Types, IdsSound, TgKnown, Before
  <2>4. \A n \in Dc : \A t \in about'[n] : t < nextTg'
    BY <2>1, <2>2, <2>3
  <2>5. TgKnown'
    BY <2>1, <2>2, <2>3, <2>4 DEF TgKnown, Before
  <2>6. TodoGone'
    BY <2>1, <2>2, <2>3 DEF IdsSound, TodoGone
  <2> QED  BY <2>5, <2>6
<1>2. CASE Answered(d)
  BY <1>2 DEF Types, IdsSound, TgKnown, TodoGone, Before, IdStep, Answered
<1>3. CASE SendFails(d)
  BY <1>3 DEF Types, IdsSound, TgKnown, TodoGone, Before, IdStep, SendFails
<1>4. ASSUME NEW t \in Tg, StoreSent(d, t)
      PROVE  TgKnown' /\ TodoGone'
  BY <1>4 DEF Types, IdsSound, TgKnown, TodoGone, Before, IdStep, StoreSent, IsLeast
<1> QED  BY <1>1, <1>2, <1>3, <1>4 DEF SenderStep

LEMMA HandleKnown ==
    ASSUME TypeOK, Types, DcKnown, IdsSound, IdStep, NEW e \in DOMAIN events, HandleStep(e)
    PROVE  TgKnown' /\ TodoGone'
<1> USE DEF server, channel, poller, sender, remover
<1>1. CASE Unroutable(e)
  BY <1>1 DEF Types, IdsSound, TgKnown, TodoGone, Before, IdStep, Unroutable
<1>2. CASE FindMessage(e)
  BY <1>2 DEF Types, IdsSound, TgKnown, TodoGone, Before, IdStep, FindMessage
<1>3. CASE PostFails(e)
  BY <1>3 DEF Types, IdsSound, TgKnown, TodoGone, Before, IdStep, PostFails
<1>4. CASE StoreCopy(e)
  BY <1>4 DEF Types, IdsSound, TgKnown, TodoGone, Before, IdStep, StoreCopy, Handling
<1>5. ASSUME NEW d \in Dc, Post(e, d)
      PROVE  TgKnown' /\ TodoGone'
  BY <1>5 DEF Types, IdsSound, TgKnown, TodoGone, Before, IdStep, Post, PostCopy, NewDc, EventSound
<1>6. ASSUME NEW d \in Dc, PostAgain(e, d)
      PROVE  TgKnown' /\ TodoGone'
  BY <1>6 DEF Types, IdsSound, TgKnown, TodoGone, Before, IdStep, PostAgain, PostCopy, NewDc, EventSound
<1>7. CASE FindEdited(e)
  BY <1>7 DEF Types, IdsSound, TgKnown, TodoGone, Before, IdStep, FindEdited
<1>8. CASE EditCopy(e)
  BY <1>8 DEF Types, IdsSound, TgKnown, TodoGone, Before, IdStep, EditCopy
<1>9. CASE StartDeletion(e)
  BY <1>9 DEF Types, IdsSound, TgKnown, TodoGone, Before, IdStep, StartDeletion, EventSound
<1>10. CASE Ack(e)
  BY <1>10 DEF Types, IdsSound, TgKnown, TodoGone, Before, IdStep, Ack, After
<1>11. CASE AckLost(e)
  BY <1>11 DEF Types, IdsSound, TgKnown, TodoGone, Before, IdStep, AckLost, After
<1> QED  BY <1>1, <1>2, <1>3, <1>4, <1>5, <1>6, <1>7, <1>8, <1>9, <1>10, <1>11 DEF HandleStep

LEMMA DeletionKnown ==
    ASSUME TypeOK, Types, DcKnown, IdsSound, IdStep, DeletionStep
    PROVE  TgKnown' /\ TodoGone'
<1> USE DEF server, channel, poller, sender, remover
<1>1. ASSUME NEW t \in Tg, FindDeleted(t)
      PROVE  TgKnown' /\ TodoGone'
  BY <1>1 DEF Types, IdsSound, TgKnown, TodoGone, Before, IdStep, FindDeleted, Torn
<1>2. ASSUME NEW t \in Tg, UnmapDeleted(t)
      PROVE  TgKnown' /\ TodoGone'
  BY <1>2 DEF Types, IdsSound, TgKnown, TodoGone, Before, IdStep, UnmapDeleted
<1>3. ASSUME NEW t \in Tg, CheckSiblings(t)
      PROVE  TgKnown' /\ TodoGone'
  BY <1>3 DEF Types, IdsSound, TgKnown, TodoGone, Before, IdStep, CheckSiblings, DecideToErase, Mark
<1>4. ASSUME NEW t \in Tg, Erase(t)
      PROVE  TgKnown' /\ TodoGone'
  BY <1>4 DEF Types, IdsSound, TgKnown, TodoGone, Before, IdStep, Erase
<1>5. ASSUME NEW t \in Tg, EraseFails(t)
      PROVE  TgKnown' /\ TodoGone'
  BY <1>5 DEF Types, IdsSound, TgKnown, TodoGone, Before, IdStep, EraseFails
<1>6. CASE EndDeletion
  BY <1>6 DEF Types, IdsSound, TgKnown, TodoGone, Before, IdStep, EndDeletion
<1> QED  BY <1>1, <1>2, <1>3, <1>4, <1>5, <1>6 DEF DeletionStep

LEMMA RemoverKnown ==
    ASSUME TypeOK, Types, DcKnown, IdsSound, IdStep, NEW d \in Dc, RemoverStep(d)
    PROVE  TgKnown' /\ TodoGone'
<1> USE DEF server, channel, poller, sender, remover
<1>1. CASE OnRawDelete(d)
  BY <1>1 DEF Types, IdsSound, TgKnown, TodoGone, Before, IdStep, OnRawDelete
<1>2. CASE LookupDeleted(d)
  BY <1>2 DEF Types, IdsSound, TgKnown, TodoGone, Before, IdStep, LookupDeleted
<1>3. CASE ExecuteDelete(d)
  BY <1>3 DEF Types, IdsSound, TgKnown, TodoGone, Before, IdStep, ExecuteDelete
<1>4. CASE SendDeletion(d)
  BY <1>4 DEF Types, IdsSound, TgKnown, TodoGone, Before, IdStep, SendDeletion
<1>5. CASE SendDeletionFails(d)
  BY <1>5 DEF Types, IdsSound, TgKnown, TodoGone, Before, IdStep, SendDeletionFails
<1>6. CASE DeleteRows(d)
  BY <1>6 DEF Types, IdsSound, TgKnown, TodoGone, Before, IdStep, DeleteRows
<1> QED  BY <1>1, <1>2, <1>3, <1>4, <1>5, <1>6 DEF RemoverStep

LEMMA ExternalRows ==
    ASSUME TypeOK, Types, DcKnown, IdsSound, PostSound, External
    PROVE  RowSound'
<1> USE DEF None, server, channel, poller, sender, remover
<1>1. CASE RelayMessage
  BY <1>1 DEF Types, DcKnown, IdsSound, TgKnown, RowSound, Before, RelayMessage
<1>2. ASSUME NEW t \in Tg, RelayEdit(t)
      PROVE  RowSound'
  BY <1>2 DEF Types, DcKnown, IdsSound, TgKnown, RowSound, Before, RelayEdit
<1>3. ASSUME NEW tgs \in SUBSET Tg, RelayDeletion(tgs)
      PROVE  RowSound'
  BY <1>3 DEF Types, DcKnown, IdsSound, TgKnown, RowSound, Before, RelayDeletion
<1>4. ASSUME NEW d \in Dc, UserWrites(d)
      PROVE  RowSound'
  BY <1>4 DEF Types, DcKnown, IdsSound, TgKnown, RowSound, Before, UserWrites, NewDc
<1>5. ASSUME NEW d \in Dc, UserDeletes(d)
      PROVE  RowSound'
  BY <1>5 DEF Types, DcKnown, IdsSound, TgKnown, RowSound, Before, UserDeletes
<1> QED  BY <1>1, <1>2, <1>3, <1>4, <1>5 DEF External

LEMMA SenderRows ==
    ASSUME TypeOK, Types, DcKnown, IdsSound, PostSound, NEW d \in Dc, SenderStep(d)
    PROVE  RowSound'
<1> USE DEF None, server, channel, poller, sender, remover
<1>1. CASE PlaceMessage(d)
  BY <1>1, PlaceType DEF Types, DcKnown, IdsSound, TgKnown, RowSound, Before, PlaceMessage
<1>2. CASE Answered(d)
  <2>1. /\ rest' = [rest EXCEPT ![d] = about[d]] /\ spc' = [spc EXCEPT ![d] = "storing"]
        /\ spc[d] = "placed" /\ UNCHANGED <<map, about>>
    BY <1>2 DEF Answered
  <2>2. \A n \in Dc : rest'[n] \subseteq about[n]
    BY <2>1 DEF Types, IdsSound, RowSound
  <2>3. \A n \in Dc : (spc'[n] # "none" => spc[n] # "none") /\ (spc'[n] = "sending" => spc[n] = "sending")
    BY <2>1 DEF Types
  <2> QED  BY <2>1, <2>2, <2>3 DEF IdsSound, RowSound
<1>3. CASE SendFails(d)
  BY <1>3 DEF Types, DcKnown, IdsSound, TgKnown, RowSound, Before, SendFails
<1>4. ASSUME NEW t \in Tg, StoreSent(d, t)
      PROVE  RowSound'
  <2>1. /\ spc[d] = "storing" /\ t \in rest[d] /\ map' = [map EXCEPT ![t] = d]
        /\ rest' = [rest EXCEPT ![d] = @ \ {t}] /\ about' = about
        /\ spc' = [spc EXCEPT ![d] = IF rest'[d] = {} THEN "done" ELSE @]
    BY <1>4 DEF StoreSent, IsLeast
  <2>2. \A n \in Dc : (spc'[n] # "none" => spc[n] # "none") /\ (spc'[n] = "sending" => spc[n] = "sending")
    BY <2>1 DEF Types
  <2>3. \A n \in Dc : rest'[n] \subseteq rest[n]
    BY <2>1 DEF Types
  <2>4. map'[t] = d /\ \A k \in Tg \ {t} : map'[k] = map[k]
    BY <2>1 DEF Types
  <2>5. \A k \in Tg : map'[k] # None => k \in about[map'[k]]
    BY <2>1, <2>4 DEF IdsSound, RowSound
  <2> QED  BY <2>1, <2>2, <2>3, <2>5 DEF IdsSound, RowSound
<1> QED  BY <1>1, <1>2, <1>3, <1>4 DEF SenderStep

LEMMA HandleRows ==
    ASSUME TypeOK, Types, DcKnown, IdsSound, PostSound, NEW e \in DOMAIN events, HandleStep(e)
    PROVE  RowSound'
<1> USE DEF None, server, channel, poller, sender, remover
<1>1. CASE Unroutable(e)
  BY <1>1 DEF Types, DcKnown, IdsSound, TgKnown, RowSound, Before, Unroutable
<1>2. CASE FindMessage(e)
  BY <1>2 DEF Types, DcKnown, IdsSound, TgKnown, RowSound, Before, FindMessage
<1>3. CASE PostFails(e)
  BY <1>3 DEF Types, DcKnown, IdsSound, TgKnown, RowSound, Before, PostFails
<1>4. CASE StoreCopy(e)
  BY <1>4 DEF Types, DcKnown, IdsSound, TgKnown, RowSound, Before, StoreCopy, PostSound, Handling
<1>5. ASSUME NEW d \in Dc, Post(e, d)
      PROVE  RowSound'
  BY <1>5 DEF Types, DcKnown, IdsSound, TgKnown, RowSound, Before, Post, PostCopy, NewDc, EventSound, PostSound
<1>6. ASSUME NEW d \in Dc, PostAgain(e, d)
      PROVE  RowSound'
  BY <1>6 DEF Types, DcKnown, IdsSound, TgKnown, RowSound, Before, PostAgain, PostCopy, NewDc, EventSound, PostSound
<1>7. CASE FindEdited(e)
  BY <1>7 DEF Types, DcKnown, IdsSound, TgKnown, RowSound, Before, FindEdited
<1>8. CASE EditCopy(e)
  BY <1>8 DEF Types, DcKnown, IdsSound, TgKnown, RowSound, Before, EditCopy
<1>9. CASE StartDeletion(e)
  BY <1>9 DEF Types, DcKnown, IdsSound, TgKnown, RowSound, Before, StartDeletion, EventSound
<1>10. CASE Ack(e)
  BY <1>10 DEF Types, DcKnown, IdsSound, TgKnown, RowSound, Before, Ack, After
<1>11. CASE AckLost(e)
  BY <1>11 DEF Types, DcKnown, IdsSound, TgKnown, RowSound, Before, AckLost, After
<1> QED  BY <1>1, <1>2, <1>3, <1>4, <1>5, <1>6, <1>7, <1>8, <1>9, <1>10, <1>11 DEF HandleStep

LEMMA DeletionRows ==
    ASSUME TypeOK, Types, DcKnown, IdsSound, PostSound, DeletionStep
    PROVE  RowSound'
<1> USE DEF None, server, channel, poller, sender, remover
<1>1. ASSUME NEW t \in Tg, FindDeleted(t)
      PROVE  RowSound'
  BY <1>1 DEF Types, DcKnown, IdsSound, TgKnown, RowSound, Before, FindDeleted, Torn
<1>2. ASSUME NEW t \in Tg, UnmapDeleted(t)
      PROVE  RowSound'
  BY <1>2 DEF Types, DcKnown, IdsSound, TgKnown, RowSound, Before, UnmapDeleted
<1>3. ASSUME NEW t \in Tg, CheckSiblings(t)
      PROVE  RowSound'
  BY <1>3 DEF Types, DcKnown, IdsSound, TgKnown, RowSound, Before, CheckSiblings, DecideToErase, Mark
<1>4. ASSUME NEW t \in Tg, Erase(t)
      PROVE  RowSound'
  BY <1>4 DEF Types, DcKnown, IdsSound, TgKnown, RowSound, Before, Erase
<1>5. ASSUME NEW t \in Tg, EraseFails(t)
      PROVE  RowSound'
  BY <1>5 DEF Types, DcKnown, IdsSound, TgKnown, RowSound, Before, EraseFails
<1>6. CASE EndDeletion
  BY <1>6 DEF Types, DcKnown, IdsSound, TgKnown, RowSound, Before, EndDeletion
<1> QED  BY <1>1, <1>2, <1>3, <1>4, <1>5, <1>6 DEF DeletionStep

LEMMA RemoverRows ==
    ASSUME TypeOK, Types, DcKnown, IdsSound, PostSound, NEW d \in Dc, RemoverStep(d)
    PROVE  RowSound'
<1> USE DEF None, server, channel, poller, sender, remover
<1>1. CASE OnRawDelete(d)
  BY <1>1 DEF Types, DcKnown, IdsSound, TgKnown, RowSound, Before, OnRawDelete
<1>2. CASE LookupDeleted(d)
  BY <1>2 DEF Types, DcKnown, IdsSound, TgKnown, RowSound, Before, LookupDeleted
<1>3. CASE ExecuteDelete(d)
  BY <1>3 DEF Types, DcKnown, IdsSound, TgKnown, RowSound, Before, ExecuteDelete
<1>4. CASE SendDeletion(d)
  BY <1>4 DEF Types, DcKnown, IdsSound, TgKnown, RowSound, Before, SendDeletion
<1>5. CASE SendDeletionFails(d)
  BY <1>5 DEF Types, DcKnown, IdsSound, TgKnown, RowSound, Before, SendDeletionFails
<1>6. CASE DeleteRows(d)
  BY <1>6 DEF Types, DcKnown, IdsSound, TgKnown, RowSound, Before, DeleteRows
<1> QED  BY <1>1, <1>2, <1>3, <1>4, <1>5, <1>6 DEF RemoverStep

LEMMA StepKnown ==
    ASSUME TypeOK, DcKnown, IdsSound, PostSound, [Next]_vars
    PROVE  IdsSound'
<1>1. IdStep /\ Types
  BY StepIds, TypesHold
<1>2. ASSUME Crash
      PROVE  TgKnown' /\ TodoGone' /\ RowSound'
  BY <1>1, <1>2 DEF Types, Crash, IdsSound, TgKnown, TodoGone, RowSound, Before, server
<1>3. ASSUME Poll \/ UNCHANGED vars
      PROVE  TgKnown' /\ TodoGone' /\ RowSound'
  BY <1>3 DEF Poll, IdsSound, TgKnown, TodoGone, RowSound, Before, vars, server, channel, poller, sender
<1>4. TgKnown' /\ TodoGone' /\ RowSound'
  BY <1>1, <1>2, <1>3, ExternalKnown, SenderKnown, HandleKnown, DeletionKnown, RemoverKnown,
     ExternalRows, SenderRows, HandleRows, DeletionRows, RemoverRows DEF Next, PollerStep
<1> QED  BY <1>4, StepEvents DEF IdsSound

--------------------------------------------------------------------------------
(* What the poll loop posts and stores *)

LEMMA NoneDc == None \notin Dc
BY DEF None, Dc

\* A step of another task, which stores no id of the batch.
LEMMA PostKept ==
    ASSUME Types, PostSound, UNCHANGED <<bpc, batch, found>>,
           \A e \in batch : events'[e] = events[e],
           \A e \in batch : events[e].kind = "message" =>
               \A t \in events[e].ids : map[t] = None => map'[t] = None,
           bpc = "store" => about'[found] = about[found] /\ found \notin suppress' /\ spc'[found] = "none"
    PROVE  PostSound'
<1>1. ASSUME bpc \in {"post", "store"}, NEW e \in batch, Handling(e)
      PROVE  /\ events'[e].kind = "message"
             /\ \A t \in events'[e].ids : map'[t] = None
             /\ bpc = "store" => about'[found] = events'[e].ids
  <2>1. e \in DOMAIN events /\ events'[e] = events[e]
    BY DEF Types
  <2>2. /\ events[e].kind = "message" /\ \A t \in events[e].ids : map[t] = None
        /\ bpc = "store" => about[found] = events[e].ids
    BY <1>1, <2>1 DEF PostSound
  <2> QED  BY <2>1, <2>2
<1>2. \A e : Handling(e)' => e \in batch /\ Handling(e)
  BY DEF Handling, IsLeast
<1> QED  BY <1>1, <1>2 DEF PostSound

LEMMA SenderPost ==
    ASSUME TypeOK, Types, DcKnown, IdsSound, PostSound, NEW d \in Dc, SenderStep(d)
    PROVE  PostSound'
<1> USE DEF server, channel, poller, sender, remover
<1>1. \A e \in batch : e \in DOMAIN events
  BY DEF Types
<1>2. bpc = "store" => found \notin suppress /\ spc[found] = "none" /\ found \in Dc
  BY DEF PostSound, TypeOK
<1>3. CASE PlaceMessage(d)
  <2>1. bpc = "store" => about'[found] = about[found] /\ spc'[found] = "none"
    BY <1>2, <1>3, PlaceType DEF PlaceMessage, Types
  <2> QED  BY <1>2, <1>3, <2>1, PostKept DEF PlaceMessage
<1>4. CASE Answered(d) \/ SendFails(d)
  <2>1. bpc = "store" => spc'[found] = "none"
    BY <1>2, <1>4 DEF Answered, SendFails, Types
  <2> QED  BY <1>2, <1>4, <2>1, PostKept DEF Answered, SendFails
<1>5. ASSUME NEW t \in Tg, StoreSent(d, t)
      PROVE  PostSound'
  <2>1. t \in about[d] /\ spc[d] = "storing" /\ map' = [map EXCEPT ![t] = d]
    BY <1>5 DEF StoreSent, IsLeast, IdsSound, RowSound
  <2>2. \A e \in batch : events[e].kind = "message" => t \notin events[e].ids
    BY <1>1, <2>1 DEF IdsSound, EventSound
  <2>3. \A e \in batch : events[e].kind = "message" =>
            \A k \in events[e].ids : map[k] = None => map'[k] = None
    BY <1>1, <2>1, <2>2 DEF Types
  <2>4. bpc = "store" => spc'[found] = "none"
    BY <1>2, <1>5 DEF StoreSent, Types
  <2> QED  BY <1>2, <1>5, <2>3, <2>4, PostKept DEF StoreSent
<1> QED  BY <1>3, <1>4, <1>5 DEF SenderStep

LEMMA HandlePost ==
    ASSUME TypeOK, Types, DcKnown, PostSound, NEW e \in DOMAIN events, HandleStep(e)
    PROVE  PostSound'
<1> USE DEF server, channel, poller, sender, remover
<1>1. \A f \in DOMAIN events : Handling(e) /\ Handling(f) => f = e
  <2>1. \A f \in batch : f \in Nat
    BY DEF Types
  <2> QED  BY <2>1 DEF Handling, IsLeast
<1>2. CASE bpc' \notin {"post", "store"}
  BY <1>2 DEF PostSound
<1>3. CASE FindMessage(e)
  BY <1>1, <1>3 DEF FindMessage, PostSound, Handling, IsLeast
<1>4. ASSUME NEW d \in Dc, Post(e, d)
      PROVE  PostSound'
  <2>1. /\ events[e].kind = "message" /\ \A t \in events[e].ids : map[t] = None
        /\ bpc' = "store" /\ found' = d /\ about' = [about EXCEPT ![d] = events[e].ids]
        /\ Handling(e) /\ UNCHANGED <<events, batch, map, suppress, spc>>
    BY <1>4 DEF Post, PostCopy, PostSound
  <2>2. about'[d] = events[e].ids
    BY <2>1 DEF Types
  <2>3. d \notin suppress /\ spc[d] = "none"
    BY <1>4 DEF Post, PostCopy, NewDc, DcKnown, Types
  <2>4. \A f \in DOMAIN events : Handling(f)' => f = e
    BY <1>1, <2>1 DEF Handling, IsLeast
  <2> QED  BY <2>1, <2>2, <2>3, <2>4 DEF PostSound
<1>5. ASSUME NEW d \in Dc, PostAgain(e, d)
      PROVE  PostSound'
  BY <1>5, PostKept DEF PostAgain, PostCopy
<1> QED
  BY <1>2, <1>3, <1>4, <1>5 DEF HandleStep, Unroutable, PostFails, StoreCopy, FindEdited, EditCopy, StartDeletion,
     Ack, AckLost, After

LEMMA StepPost ==
    ASSUME TypeOK, DcKnown, IdsSound, PostSound, [Next]_vars
    PROVE  PostSound'
<1> USE DEF server, channel, poller, sender, remover
<1>1. Types
  BY TypesHold
<1>2. bpc = "store" => found \notin suppress /\ spc[found] = "none" /\ found \in Dc /\ found < nextDc
  BY DEF PostSound, TypeOK, DcKnown
<1>3. CASE External
  <2>1. \A e \in batch : events'[e] = events[e]
    BY <1>1, <1>3, EnqueueType
       DEF External, RelayMessage, RelayEdit, RelayDeletion, UserWrites, UserDeletes, Types
  <2>2. UNCHANGED <<bpc, batch, found, map, about, suppress>>
    BY <1>3 DEF External, RelayMessage, RelayEdit, RelayDeletion, UserWrites, UserDeletes
  <2>3. bpc = "store" => spc'[found] = "none"
    <3>1. ASSUME NEW n \in Dc, UserWrites(n), bpc = "store"
          PROVE  spc'[found] = "none"
      <4>1. n = nextDc /\ spc' = [spc EXCEPT ![n] = "sending"]
        BY <3>1 DEF UserWrites, NewDc
      <4>2. found # n
        BY <1>1, <1>2, <3>1, <4>1 DEF Types
      <4> QED  BY <1>1, <1>2, <3>1, <4>1, <4>2 DEF Types
    <3>2. spc' = spc \/ \E n \in Dc : UserWrites(n)
      BY <1>3 DEF External, RelayMessage, RelayEdit, RelayDeletion, UserDeletes
    <3> QED  BY <1>2, <3>1, <3>2
  <2> QED  BY <1>1, <1>2, <2>1, <2>2, <2>3, PostKept
<1>4. ASSUME NEW d \in Dc, RemoverStep(d)
      PROVE  PostSound'
  <2>1. UNCHANGED <<bpc, batch, found, about, spc, events>> /\ suppress' \subseteq suppress
    BY <1>4 DEF RemoverStep, OnRawDelete, LookupDeleted, ExecuteDelete, SendDeletion, SendDeletionFails, DeleteRows
  <2>2. \A t \in Tg : map[t] = None => map'[t] = None
    BY <1>4 DEF RemoverStep, OnRawDelete, LookupDeleted, ExecuteDelete, SendDeletion, SendDeletionFails, DeleteRows
  <2>3. \A e \in batch : events[e].ids \subseteq Tg
    BY <1>1 DEF Types
  <2> QED  BY <1>1, <1>2, <2>1, <2>2, <2>3, PostKept
<1>5. CASE bpc' \notin {"post", "store"}
  BY <1>5 DEF PostSound
<1>6. CASE UNCHANGED vars
  BY <1>1, <1>2, <1>6, PostKept DEF vars
<1>7. Poll \/ DeletionStep \/ Crash => bpc' \notin {"post", "store"}
  BY DEF Poll, DeletionStep, FindDeleted, UnmapDeleted, CheckSiblings, DecideToErase, Erase, EraseFails,
     EndDeletion, Crash
<1> QED  BY <1>1, <1>3, <1>4, <1>5, <1>6, <1>7, SenderPost, HandlePost DEF Next, PollerStep

--------------------------------------------------------------------------------
(* What the poll loop deletes, and takes for an echo *)

\* A task that is not settled was none before, or is new.
LEMMA StepSettled ==
    ASSUME Types, [Next]_vars, NEW d \in Dc, Settled(d), ~Settled(d)'
    PROVE  UserWrites(d)
<1> USE DEF server, channel, poller, sender, remover
<1>1. spc' # spc
  BY DEF Settled
<1>2. ASSUME NEW n \in Dc, UserWrites(n)
      PROVE  UserWrites(d)
  BY <1>2 DEF UserWrites, Settled, Types
<1>3. ASSUME NEW n \in Dc, SenderStep(n)
      PROVE  FALSE
  BY <1>3 DEF SenderStep, PlaceMessage, Answered, SendFails, StoreSent, Settled, Types
<1>4. CASE Crash
  BY <1>4 DEF Crash, Settled, Types
<1>5. Next
  BY <1>1 DEF vars
<1>6. ~PollerStep
  BY <1>1 DEF PollerStep, Poll, HandleStep, Unroutable, FindMessage, PostFails, StoreCopy, Post,
     PostAgain, FindEdited, EditCopy, StartDeletion, Ack, AckLost, DeletionStep, FindDeleted,
     UnmapDeleted, CheckSiblings, Erase, EraseFails, EndDeletion
<1>7. ASSUME NEW n \in Dc, RemoverStep(n)
      PROVE  FALSE
  BY <1>1, <1>7 DEF RemoverStep, OnRawDelete, LookupDeleted, ExecuteDelete, SendDeletion, SendDeletionFails,
     DeleteRows
<1>8. External => \E n \in Dc : UserWrites(n)
  BY <1>1 DEF External, RelayMessage, RelayEdit, RelayDeletion, UserDeletes
<1> QED  BY <1>2, <1>3, <1>4, <1>5, <1>6, <1>7, <1>8 DEF Next

\* What a step finds was found before, or is mapped to an id of which it is known.
LEMMA StepFound ==
    ASSUME Types, [Next]_vars, NEW d \in Dc, Found(d)', ~Found(d)
    PROVE  \E t \in Tg : FindDeleted(t) /\ d = map[t]
<1> USE DEF server, channel, poller, sender, remover
<1>1. ASSUME NEW t \in Tg, FindDeleted(t)
      PROVE  d = map[t]
  BY <1>1 DEF FindDeleted, Found
<1>2. ASSUME NEW t \in Tg, UnmapDeleted(t) \/ CheckSiblings(t) \/ Erase(t) \/ EraseFails(t) \/ EndDeletion
      PROVE  FALSE
  BY <1>2 DEF Found, UnmapDeleted, CheckSiblings, DecideToErase, Mark, Erase, EraseFails, EndDeletion
<1>3. ASSUME NEW e \in DOMAIN events, HandleStep(e)
      PROVE  FALSE
  BY <1>3 DEF HandleStep, Unroutable, FindMessage, PostFails, StoreCopy, Post,
     PostAgain, FindEdited, EditCopy, StartDeletion, Ack, AckLost, After, Found
<1>4. CASE Poll \/ EndDeletion \/ Crash
  BY <1>4 DEF Poll, EndDeletion, Crash, Found
<1>5. CASE External
  BY <1>5 DEF External, RelayMessage, RelayEdit, RelayDeletion, UserWrites, UserDeletes, Found
<1>6. ASSUME NEW n \in Dc, SenderStep(n) \/ RemoverStep(n)
      PROVE  FALSE
  BY <1>6 DEF SenderStep, PlaceMessage, Answered, SendFails, StoreSent, RemoverStep, OnRawDelete,
     LookupDeleted, ExecuteDelete, SendDeletion, SendDeletionFails, DeleteRows, Found
<1>7. CASE UNCHANGED vars
  BY <1>7 DEF vars, Found
<1> QED  BY <1>1, <1>2, <1>3, <1>4, <1>5, <1>6, <1>7 DEF Next, PollerStep, DeletionStep

\* What is torn stays so.
LEMMA StepTorn ==
    ASSUME [Next]_vars
    PROVE  torn \subseteq torn'
<1> USE DEF server, channel, poller, sender, remover
<1>1. CASE External \/ Poll \/ Crash
  BY <1>1 DEF External, RelayMessage, RelayEdit, RelayDeletion, UserWrites, UserDeletes, Poll, Crash
<1>2. CASE DeletionStep
  BY <1>2 DEF DeletionStep, FindDeleted, UnmapDeleted, CheckSiblings, Erase, EraseFails, EndDeletion
<1>3. ASSUME NEW e \in DOMAIN events, HandleStep(e)
      PROVE  torn \subseteq torn'
  BY <1>3 DEF HandleStep, Unroutable, FindMessage, PostFails, StoreCopy, Post, PostAgain, FindEdited, EditCopy,
     StartDeletion, Ack, AckLost
<1>4. ASSUME NEW n \in Dc, SenderStep(n) \/ RemoverStep(n)
      PROVE  torn \subseteq torn'
  BY <1>4 DEF SenderStep, PlaceMessage, Answered, SendFails, StoreSent, RemoverStep, OnRawDelete,
     LookupDeleted, ExecuteDelete, SendDeletion, SendDeletionFails, DeleteRows
<1> QED  BY <1>1, <1>2, <1>3, <1>4 DEF Next, PollerStep, vars

LEMMA StepFoundTorn ==
    ASSUME TypeOK, DcKnown, IdsSound, FoundTorn, [Next]_vars
    PROVE  FoundTorn'
<1>1. Types
  BY TypesHold
<1>2. SUFFICES ASSUME NEW d \in Dc, Found(d)', ~Settled(d)'
               PROVE  d \in torn'
  BY DEF FoundTorn
<1>3. CASE Found(d) /\ ~Settled(d)
  BY <1>3, StepTorn DEF FoundTorn
<1>4. CASE Settled(d)
  <2>1. UserWrites(d)
    BY <1>1, <1>2, <1>4, StepSettled
  <2>2. d = nextDc /\ UNCHANGED <<suppress, bpc, found>>
    BY <2>1 DEF UserWrites, NewDc, poller
  <2>3. d \notin suppress /\ d # found
    BY <1>1, <2>2 DEF DcKnown, Types
  <2> QED  BY <1>2, <2>2, <2>3 DEF Found
<1>5. CASE ~Found(d) /\ ~Settled(d)
  <2>1. PICK t \in Tg : FindDeleted(t) /\ d = map[t]
    BY <1>1, <1>2, <1>5, StepFound
  <2>2. t \in about[d]
    BY <2>1, NoneDc DEF IdsSound, RowSound
  <2> QED  BY <1>5, <2>1, <2>2 DEF FindDeleted, Torn
<1> QED  BY <1>3, <1>4, <1>5

LEMMA SenderGone ==
    ASSUME TypeOK, Types, FoundTorn, SuppressedGone, NEW d \in Dc, SenderStep(d)
    PROVE  SuppressedGone'
<1> USE DEF server, channel, poller, sender, remover
<1>1. CASE UNCHANGED <<map, suppress, torn>>
  BY <1>1 DEF SuppressedGone, RowsOf
<1>2. ASSUME NEW t \in Tg, StoreSent(d, t)
      PROVE  SuppressedGone'
  <2>1. spc[d] = "storing" /\ map' = [map EXCEPT ![t] = d] /\ UNCHANGED <<suppress, torn>>
    BY <1>2 DEF StoreSent
  <2>2. d \in suppress => d \in torn
    BY <2>1 DEF FoundTorn, Found, Settled
  <2> QED  BY <2>1, <2>2 DEF SuppressedGone, RowsOf, Types
<1> QED  BY <1>1, <1>2 DEF SenderStep, PlaceMessage, Answered, SendFails

LEMMA PollerGone ==
    ASSUME TypeOK, Types, PostSound, SuppressedGone, PollerStep
    PROVE  SuppressedGone'
<1> USE DEF server, channel, poller, sender, remover
<1>1. CASE UNCHANGED <<map, suppress>> /\ torn \subseteq torn'
  BY <1>1 DEF SuppressedGone, RowsOf
<1>2. ASSUME NEW e \in DOMAIN events, StoreCopy(e)
      PROVE  SuppressedGone'
  <2>1. \A t \in Tg : map'[t] \in {map[t], found}
    BY <1>2 DEF StoreCopy
  <2>2. found \notin suppress /\ UNCHANGED <<suppress, torn>>
    BY <1>2 DEF StoreCopy, PostSound
  <2> QED  BY <2>1, <2>2 DEF SuppressedGone, RowsOf
<1>3. ASSUME NEW t \in Tg, UnmapDeleted(t)
      PROVE  SuppressedGone'
  <2>1. \A k \in Tg : map'[k] \in {map[k], None}
    BY <1>3 DEF UnmapDeleted, Types
  <2>2. UNCHANGED <<suppress, torn>> /\ suppress \subseteq Dc
    BY <1>3 DEF UnmapDeleted, TypeOK
  <2> QED  BY <2>1, <2>2, NoneDc DEF SuppressedGone, RowsOf
<1>4. ASSUME NEW t \in Tg, CheckSiblings(t)
      PROVE  SuppressedGone'
  <2>1. UNCHANGED <<map, torn>>
    BY <1>4 DEF CheckSiblings
  <2>2. suppress' = suppress \/ (RowsOf(found) = {} /\ suppress' \subseteq suppress \cup {found})
    BY <1>4 DEF CheckSiblings, DecideToErase, Mark
  <2> QED  BY <2>1, <2>2 DEF SuppressedGone, RowsOf
<1>5. ASSUME NEW e \in DOMAIN events, HandleStep(e)
      PROVE  SuppressedGone'
  BY <1>1, <1>2, <1>5 DEF HandleStep, Unroutable, FindMessage, PostFails, Post, PostAgain, FindEdited, EditCopy,
     StartDeletion, Ack, AckLost
<1>6. CASE DeletionStep
  BY <1>1, <1>3, <1>4, <1>6 DEF DeletionStep, FindDeleted, Erase, EraseFails, EndDeletion
<1>7. CASE Poll
  BY <1>1, <1>7 DEF Poll
<1> QED  BY <1>5, <1>6, <1>7 DEF PollerStep

LEMMA StepGone ==
    ASSUME TypeOK, FoundTorn, PostSound, SuppressedGone, [Next]_vars
    PROVE  SuppressedGone'
<1> USE DEF server, channel, poller, sender, remover
<1>1. Types
  BY TypesHold
<1>2. CASE map' = map /\ suppress' \subseteq suppress /\ torn' = torn
  BY <1>2 DEF SuppressedGone, RowsOf
<1>3. CASE External \/ Crash \/ UNCHANGED vars
  BY <1>2, <1>3 DEF External, RelayMessage, RelayEdit, RelayDeletion, UserWrites, UserDeletes, Crash, vars
<1>4. ASSUME NEW d \in Dc, DeleteRows(d)
      PROVE  SuppressedGone'
  <2>1. \A k \in Tg : map'[k] \in {map[k], None}
    BY <1>4 DEF DeleteRows
  <2>2. UNCHANGED <<suppress, torn>> /\ suppress \subseteq Dc
    BY <1>4 DEF DeleteRows, TypeOK
  <2> QED  BY <2>1, <2>2, NoneDc DEF SuppressedGone, RowsOf
<1>5. ASSUME NEW d \in Dc, RemoverStep(d)
      PROVE  SuppressedGone'
  BY <1>2, <1>4, <1>5 DEF RemoverStep, OnRawDelete, LookupDeleted, ExecuteDelete, SendDeletion, SendDeletionFails
<1> QED  BY <1>1, <1>3, <1>5, SenderGone, PollerGone DEF Next

LEMMA StepReported ==
    ASSUME TypeOK, DcKnown, ReportedGone, [Next]_vars
    PROVE  ReportedGone'
<1> USE DEF server, channel, poller, sender, remover
<1>1. Types
  BY TypesHold
<1>2. CASE UNCHANGED <<discord, raw, dpc>>
  BY <1>2 DEF ReportedGone
<1>3. ASSUME NEW d \in Dc, NewDc(d), discord' = discord \cup {d}, UNCHANGED <<raw, dpc>>
      PROVE  ReportedGone'
  <2>1. d \notin raw /\ dpc[d] = "none"
    BY <1>1, <1>3 DEF NewDc, DcKnown, Types
  <2> QED  BY <1>3, <2>1 DEF ReportedGone
<1>4. ASSUME NEW d \in Dc, UserDeletes(d)
      PROVE  ReportedGone'
  BY <1>4 DEF UserDeletes, ReportedGone
<1>5. ASSUME NEW t \in Tg, Erase(t)
      PROVE  ReportedGone'
  BY <1>5 DEF Erase, ReportedGone
<1>6. CASE External
  BY <1>2, <1>3, <1>4, <1>6 DEF External, RelayMessage, RelayEdit, RelayDeletion, UserWrites
<1>7. ASSUME NEW e \in DOMAIN events, HandleStep(e)
      PROVE  ReportedGone'
  BY <1>2, <1>3, <1>7 DEF HandleStep, Unroutable, FindMessage, PostFails, StoreCopy, Post, PostAgain, PostCopy,
     FindEdited, EditCopy, StartDeletion, Ack, AckLost
<1>8. CASE DeletionStep \/ Poll \/ UNCHANGED vars
  BY <1>2, <1>5, <1>8 DEF DeletionStep, FindDeleted, UnmapDeleted, CheckSiblings, EraseFails, EndDeletion, Poll, vars
<1>9. ASSUME NEW d \in Dc, SenderStep(d)
      PROVE  ReportedGone'
  BY <1>2, <1>9 DEF SenderStep, PlaceMessage, Answered, SendFails, StoreSent
<1>10. ASSUME NEW d \in Dc, RemoverStep(d)
       PROVE  ReportedGone'
  <2>1. discord' = discord /\ raw' \subseteq raw /\ (d \in raw \/ dpc[d] # "none")
    BY <1>10 DEF RemoverStep, OnRawDelete, LookupDeleted, ExecuteDelete, SendDeletion, SendDeletionFails, DeleteRows
  <2>2. \A n \in Dc : n # d => dpc'[n] = dpc[n]
    BY <1>1, <1>10 DEF RemoverStep, OnRawDelete, LookupDeleted, ExecuteDelete, SendDeletion, SendDeletionFails,
       DeleteRows, Types
  <2> QED  BY <2>1, <2>2 DEF ReportedGone
<1>11. CASE Crash
  BY <1>11 DEF Crash, ReportedGone
<1> QED  BY <1>6, <1>7, <1>8, <1>9, <1>10, <1>11 DEF Next, PollerStep

--------------------------------------------------------------------------------
(* The Telegram messages of a Discord message *)

\* Of one message: they are all mapped to it, or none is, or that is under way.
WholeOf(d) ==
    \A t \in about[d] \cap tg :
        \/ map[t] = d
        \/ spc[d] = "storing" /\ t \in rest[d]
        \/ Settled(d) /\ RowsOf(d) = {}
        \/ spc[d] \in {"sending", "placed", "lost"}

\* A step leaves a message as it is, or takes ids that are gone.
LEMMA WholeKept ==
    ASSUME Types, NEW d \in Dc, WholeOf(d), UNCHANGED <<spc[d], rest[d], about[d]>>,
           \A t \in about[d] : t \in tg' => t \in tg /\ (map[t] = d => map'[t] = d),
           RowsOf(d) = {} => RowsOf(d)' = {}
    PROVE  WholeOf(d)'
BY DEF WholeOf, Settled

LEMMA SenderWhole ==
    ASSUME TypeOK, Types, DcKnown, IdsSound, Whole, NEW d \in Dc, SenderStep(d)
    PROVE  Whole'
<1> USE DEF server, channel, poller, sender, remover
<1>1. \A n \in discord : n \in Dc /\ WholeOf(n)
  BY DEF Whole, WholeOf, Types
<1>2. CASE PlaceMessage(d)
  <2>1. /\ \A n \in Dc \ {d} : about'[n] = about[n] /\ spc'[n] = spc[n]
        /\ spc'[d] = "placed" /\ UNCHANGED <<rest, map, discord>>
    BY <1>2, PlaceType DEF PlaceMessage, Types
  <2>2. \A t \in tg' : t \in tg \/ nextTg <= t
    BY <1>2, PlaceType DEF PlaceMessage
  <2>3. \A n \in Dc : \A t \in about[n] : ~(nextTg <= t)
    BY DEF Types, IdsSound, TgKnown, Before
  <2>4. ASSUME NEW n \in discord
        PROVE  WholeOf(n)'
    <3>1. CASE n = d
      BY <2>1, <3>1 DEF WholeOf
    <3>2. CASE n # d
      <4>1. RowsOf(n)' = RowsOf(n)
        BY <2>1 DEF RowsOf
      <4> QED  BY <1>1, <2>1, <2>2, <2>3, <3>2, <4>1, WholeKept
    <3> QED  BY <3>1, <3>2
  <2> QED  BY <2>1, <2>4 DEF Whole, WholeOf
<1>3. CASE Answered(d) \/ SendFails(d)
  <2>1. /\ \A n \in Dc \ {d} : rest'[n] = rest[n] /\ spc'[n] = spc[n]
        /\ spc'[d] = "lost" \/ (spc'[d] = "storing" /\ rest'[d] = about[d])
        /\ UNCHANGED <<map, discord, about, tg>>
    BY <1>3 DEF Answered, SendFails, Types
  <2>2. ASSUME NEW n \in discord
        PROVE  WholeOf(n)'
    <3>1. CASE n = d
      BY <2>1, <3>1 DEF WholeOf
    <3>2. CASE n # d
      <4>1. RowsOf(n)' = RowsOf(n)
        BY <2>1 DEF RowsOf
      <4> QED  BY <1>1, <2>1, <3>2, <4>1, WholeKept
    <3> QED  BY <3>1, <3>2
  <2> QED  BY <2>1, <2>2 DEF Whole, WholeOf
<1>4. ASSUME NEW t \in Tg, StoreSent(d, t)
      PROVE  Whole'
  <2>1. /\ spc[d] = "storing" /\ t \in rest[d] /\ map' = [map EXCEPT ![t] = d]
        /\ rest' = [rest EXCEPT ![d] = @ \ {t}]
        /\ spc' = [spc EXCEPT ![d] = IF rest'[d] = {} THEN "done" ELSE @]
        /\ UNCHANGED <<discord, about, tg>>
    BY <1>4 DEF StoreSent, IsLeast
  <2>2. /\ map'[t] = d /\ \A k \in Tg \ {t} : map'[k] = map[k]
        /\ rest'[d] = rest[d] \ {t} /\ \A n \in Dc \ {d} : rest'[n] = rest[n] /\ spc'[n] = spc[n]
        /\ spc'[d] = IF rest'[d] = {} THEN "done" ELSE "storing"
    BY <2>1 DEF Types
  <2>3. t \in about[d] /\ \A n \in Dc \ {d} : t \notin about[n]
    BY <2>1 DEF IdsSound, RowSound
  <2>4. ASSUME NEW n \in discord
        PROVE  WholeOf(n)'
    <3>1. CASE n = d
      <4>1. \A k \in about[d] \cap tg : map[k] = d \/ k \in rest[d]
        BY <1>1, <2>1, <3>1 DEF WholeOf, Settled
      <4>2. \A k \in about[d] \cap tg : map'[k] = d \/ k \in rest'[d]
        BY <2>2, <4>1 DEF Types
      <4> QED  BY <2>1, <2>2, <3>1, <4>2 DEF WholeOf
    <3>2. CASE n # d
      <4>1. RowsOf(n) = {} => RowsOf(n)' = {}
        BY <2>2, <3>2 DEF RowsOf
      <4>2. \A k \in about[n] : k # t /\ map'[k] = map[k]
        BY <1>1, <2>2, <2>3, <3>2 DEF Types
      <4> QED  BY <1>1, <2>1, <2>2, <3>2, <4>1, <4>2, WholeKept
    <3> QED  BY <3>1, <3>2
  <2> QED  BY <2>1, <2>4 DEF Whole, WholeOf
<1> QED  BY <1>2, <1>3, <1>4 DEF SenderStep

\* A copy of a message that is not mapped.
LEMMA CopyWhole ==
    ASSUME TypeOK, Types, DcKnown, Whole, NEW e \in DOMAIN events, NEW d \in Dc, PostCopy(e, d),
           UNCHANGED <<spc, rest, map, tg>>
    PROVE  Whole'
<1>1. \A n \in discord : n \in Dc /\ WholeOf(n)
  BY DEF Whole, WholeOf, Types
<1>2. /\ discord' = discord \cup {d} /\ d = nextDc
      /\ \A n \in Dc \ {d} : about'[n] = about[n]
  BY DEF PostCopy, NewDc, Types
<1>3. d \notin discord /\ spc[d] = "none" /\ RowsOf(d) = {}
  BY <1>2 DEF DcKnown, Types, RowsOf
<1>4. \A n \in Dc : RowsOf(n)' = RowsOf(n)
  BY DEF RowsOf
<1>5. WholeOf(d)'
  BY <1>3, <1>4 DEF WholeOf, Settled
<1>6. ASSUME NEW n \in discord
      PROVE  WholeOf(n)'
  <2>1. n # d
    BY <1>3
  <2> QED  BY <1>1, <1>2, <1>4, <2>1, WholeKept
<1> QED  BY <1>2, <1>5, <1>6 DEF Whole, WholeOf

\* A step that adds nothing and takes only ids that are gone.
LEMMA WholeFrame ==
    ASSUME Types, Whole, discord' \subseteq discord, UNCHANGED <<spc, rest, about>>, tg' \subseteq tg,
           \A d \in discord' : \A t \in about[d] \cap tg' : map[t] = d => map'[t] = d,
           \A t \in Tg : map'[t] \in {map[t], None}
    PROVE  Whole'
<1>1. ASSUME NEW d \in discord'
      PROVE  WholeOf(d)'
  <2>1. d \in Dc /\ d # None /\ WholeOf(d)
    BY NoneDc DEF Types, Whole, WholeOf
  <2>2. RowsOf(d) = {} => RowsOf(d)' = {}
    BY <2>1 DEF RowsOf
  <2> QED  BY <2>1, <2>2 DEF WholeOf, Settled
<1> QED  BY <1>1 DEF Whole, WholeOf

LEMMA PollerWhole ==
    ASSUME TypeOK, Types, DcKnown, IdsSound, PostSound, Whole, PollerStep
    PROVE  Whole'
<1> USE DEF server, channel, poller, sender, remover
<1>1. ASSUME discord' \subseteq discord, UNCHANGED <<spc, rest, about, tg, map>>
      PROVE  Whole'
  BY <1>1, WholeFrame
<1>2. ASSUME NEW e \in DOMAIN events, StoreCopy(e)
      PROVE  Whole'
  <2>1. /\ map' = [t \in Tg |-> IF t \in events[e].ids THEN found ELSE map[t]]
        /\ UNCHANGED <<spc, rest, about, tg, discord>>
    BY <1>2 DEF StoreCopy
  <2>2. \A t \in events[e].ids : map[t] = None
    BY <1>2 DEF StoreCopy, PostSound
  <2>3. about[found] = events[e].ids
    BY <1>2 DEF StoreCopy, PostSound
  <2>4. ASSUME NEW d \in discord
        PROVE  WholeOf(d)'
    <3>1. d \in Dc /\ d # None /\ WholeOf(d)
      BY NoneDc DEF Types, Whole, WholeOf
    <3>2. CASE d = found
      BY <2>1, <2>3, <3>1, <3>2 DEF WholeOf, Types
    <3>3. CASE d # found
      <4>1. RowsOf(d) = {} => RowsOf(d)' = {}
        BY <2>1, <3>3 DEF RowsOf
      <4>2. \A t \in about[d] : map[t] = d => map'[t] = d
        BY <2>1, <2>2, <3>1 DEF Types
      <4> QED  BY <2>1, <3>1, <4>1, <4>2, WholeKept
    <3> QED  BY <3>2, <3>3
  <2> QED  BY <2>1, <2>4 DEF Whole, WholeOf
<1>3. ASSUME NEW t \in Tg, UnmapDeleted(t)
      PROVE  Whole'
  <2>1. map' = [map EXCEPT ![t] = None] /\ t \notin tg /\ UNCHANGED <<spc, rest, about, tg, discord>>
    BY <1>3 DEF UnmapDeleted, IsLeast, IdsSound, TodoGone
  <2> QED  BY <2>1, WholeFrame DEF Types
<1>4. ASSUME NEW e \in DOMAIN events, HandleStep(e)
      PROVE  Whole'
  BY <1>1, <1>2, <1>4, CopyWhole DEF HandleStep, Unroutable, FindMessage, PostFails, Post, PostAgain, FindEdited,
     EditCopy, StartDeletion, Ack, AckLost
<1>5. CASE DeletionStep \/ Poll
  BY <1>1, <1>3, <1>5 DEF DeletionStep, FindDeleted, CheckSiblings, Erase, EraseFails, EndDeletion, Poll
<1> QED  BY <1>4, <1>5 DEF PollerStep

LEMMA StepWhole ==
    ASSUME TypeOK, DcKnown, IdsSound, PostSound, ReportedGone, Whole, [Next]_vars
    PROVE  Whole'
<1> USE DEF server, channel, poller, sender, remover
<1>1. Types
  BY TypesHold
<1>2. ASSUME discord' \subseteq discord, UNCHANGED <<spc, rest, about, map>>, tg' \subseteq tg
      PROVE  Whole'
  BY <1>1, <1>2, WholeFrame
<1>3. CASE RelayMessage
  <2>1. tg' = tg \cup {nextTg} /\ UNCHANGED <<spc, rest, about, map, discord>>
    BY <1>3 DEF RelayMessage
  <2>2. \A d \in Dc : nextTg \notin about[d]
    BY <1>1 DEF Types, IdsSound, TgKnown, Before
  <2>3. ASSUME NEW d \in discord
        PROVE  WholeOf(d)'
    <3>1. d \in Dc /\ WholeOf(d) /\ RowsOf(d)' = RowsOf(d)
      BY <1>1, <2>1 DEF Types, Whole, WholeOf, RowsOf
    <3> QED  BY <1>1, <2>1, <2>2, <3>1, WholeKept
  <2> QED  BY <2>1, <2>3 DEF Whole, WholeOf
<1>4. ASSUME NEW d \in Dc, UserWrites(d)
      PROVE  Whole'
  <2>1. /\ discord' = discord \cup {d} /\ spc'[d] = "sending" /\ \A n \in Dc \ {d} : spc'[n] = spc[n]
        /\ UNCHANGED <<rest, about, map, tg>>
    BY <1>1, <1>4 DEF UserWrites, Types
  <2>2. WholeOf(d)'
    BY <2>1 DEF WholeOf
  <2>3. ASSUME NEW n \in discord, n # d
        PROVE  WholeOf(n)'
    <3>1. n \in Dc /\ WholeOf(n) /\ RowsOf(n)' = RowsOf(n)
      BY <1>1, <2>1 DEF Types, Whole, WholeOf, RowsOf
    <3> QED  BY <1>1, <2>1, <2>3, <3>1, WholeKept
  <2> QED  BY <2>1, <2>2, <2>3 DEF Whole, WholeOf
<1>5. CASE External
  BY <1>2, <1>3, <1>4, <1>5 DEF External, RelayEdit, RelayDeletion, UserDeletes
<1>6. ASSUME NEW d \in Dc, DeleteRows(d)
      PROVE  Whole'
  <2>1. d \notin discord
    BY <1>6 DEF DeleteRows, ReportedGone
  <2>2. /\ map' = [t \in Tg |-> IF map[t] = d THEN None ELSE map[t]]
        /\ UNCHANGED <<spc, rest, about, tg, discord>>
    BY <1>6 DEF DeleteRows
  <2>3. \A n \in discord : \A t \in about[n] \cap tg : map[t] = n => map'[t] = n
    BY <1>1, <2>1, <2>2 DEF Types
  <2>4. \A t \in Tg : map'[t] \in {map[t], None}
    BY <2>2
  <2> QED  BY <1>1, <2>2, <2>3, <2>4, WholeFrame
<1>7. ASSUME NEW d \in Dc, RemoverStep(d)
      PROVE  Whole'
  BY <1>2, <1>6, <1>7 DEF RemoverStep, OnRawDelete, LookupDeleted, ExecuteDelete, SendDeletion, SendDeletionFails
<1>8. CASE Crash
  <2>1. /\ \A d \in Dc : spc'[d] = IF Settled(d) THEN spc[d] ELSE "lost"
        /\ UNCHANGED <<about, map, tg, discord>>
    BY <1>8 DEF Crash, Settled
  <2>2. ASSUME NEW d \in discord
        PROVE  WholeOf(d)'
    <3>1. d \in Dc /\ WholeOf(d) /\ RowsOf(d)' = RowsOf(d)
      BY <1>1, <2>1 DEF Types, Whole, WholeOf, RowsOf
    <3>2. CASE Settled(d)
      BY <2>1, <3>1, <3>2 DEF WholeOf, Settled
    <3>3. CASE ~Settled(d)
      BY <2>1, <3>1, <3>3 DEF WholeOf
    <3> QED  BY <3>2, <3>3
  <2> QED  BY <2>1, <2>2 DEF Whole, WholeOf
<1>9. CASE UNCHANGED vars
  BY <1>2, <1>9 DEF vars
<1> QED  BY <1>1, <1>5, <1>7, <1>8, <1>9, SenderWhole, PollerWhole DEF Next

\* A step of another task that gives the message no id, and takes no row of its ids.
LEMMA FoundKept ==
    ASSUME Types, FoundWhole, found # None,
           UNCHANGED <<bpc, found>>, torn \subseteq torn', found \in discord' => found \in discord,
           found \in discord \ torn =>
               /\ about'[found] \cap tg' \subseteq about[found] \cap tg
               /\ \A t \in about[found] \cap tg : map[t] = found => map'[t] = found
    PROVE  FoundWhole'
BY DEF FoundWhole

LEMMA SenderFound ==
    ASSUME TypeOK, Types, DcKnown, IdsSound, FoundTorn, FoundWhole, bpc \in {"unmap", "siblings"},
           NEW d \in Dc, SenderStep(d)
    PROVE  FoundWhole'
<1> USE DEF server, channel, poller, sender, remover
<1>1. found \in Dc /\ found # None /\ Found(found)
  BY DEF TypeOK, Found
<1>2. CASE PlaceMessage(d)
  <2>1. spc[d] = "sending"
    BY <1>2 DEF PlaceMessage
  <2>2. found \notin torn => found # d
    BY <1>1, <2>1 DEF FoundTorn, Settled
  <2>3. \A t \in tg' : t \in tg \/ nextTg <= t
    BY <1>2, PlaceType DEF PlaceMessage
  <2>4. \A t \in about[found] : ~(nextTg <= t)
    BY <1>1 DEF Types, IdsSound, TgKnown, Before
  <2>5. found \notin torn => about'[found] = about[found]
    BY <1>1, <1>2, <2>2, PlaceType
  <2> QED  BY <1>1, <1>2, <2>3, <2>4, <2>5, FoundKept DEF PlaceMessage
<1>3. CASE Answered(d) \/ SendFails(d)
  BY <1>1, <1>3, FoundKept DEF Answered, SendFails
<1>4. ASSUME NEW t \in Tg, StoreSent(d, t)
      PROVE  FoundWhole'
  <2>1. spc[d] = "storing" /\ t \in rest[d] /\ map' = [map EXCEPT ![t] = d]
    BY <1>4 DEF StoreSent, IsLeast
  <2>2. found # d => t \notin about[found]
    BY <1>1, <2>1 DEF IdsSound, RowSound
  <2>3. \A k \in about[found] : map[k] = found => map'[k] = found
    BY <1>1, <2>1, <2>2 DEF Types
  <2> QED  BY <1>1, <1>4, <2>3, FoundKept DEF StoreSent
<1> QED  BY <1>2, <1>3, <1>4 DEF SenderStep

LEMMA FindDeletedFound ==
    ASSUME TypeOK, Types, IdsSound, Whole, NEW t \in Tg, FindDeleted(t)
    PROVE  FoundWhole'
<1> USE DEF server, channel, poller, sender, remover
<1>1. /\ found' = map[t] /\ torn' = torn \cup Torn(t) /\ UNCHANGED <<discord, about, tg, map>>
      /\ bpc' \in {"delete", "unmap"}
      /\ found' = None => bpc' # "unmap"
  BY DEF FindDeleted
<1>2. SUFFICES ASSUME bpc' = "unmap", found' \in discord, found' \notin torn', NEW k \in about[found'] \cap tg
               PROVE  map[k] = found'
  BY <1>1 DEF FoundWhole
<1>3. found' \in Dc /\ t \in about[found']
  BY <1>1, <1>2 DEF Types, IdsSound, RowSound
<1>4. Settled(found')
  BY <1>1, <1>2, <1>3 DEF Torn
<1>5. RowsOf(found') # {}
  BY <1>1 DEF RowsOf
<1> QED  BY <1>2, <1>4, <1>5 DEF Whole, Settled

LEMMA StepFoundWhole ==
    ASSUME TypeOK, DcKnown, IdsSound, FoundTorn, ReportedGone, Whole, FoundWhole, [Next]_vars
    PROVE  FoundWhole'
<1> USE DEF server, channel, poller, sender, remover
<1>1. Types /\ torn \subseteq torn'
  BY TypesHold, StepTorn
<1>2. CASE bpc' \notin {"unmap", "siblings"}
  BY <1>2 DEF FoundWhole
<1>3. ASSUME NEW t \in Tg, UnmapDeleted(t)
      PROVE  FoundWhole'
  <2>1. /\ bpc = "unmap" /\ found \in Dc /\ t \notin tg /\ map' = [map EXCEPT ![t] = None]
        /\ UNCHANGED <<found, discord, torn, about, tg>>
    BY <1>3 DEF UnmapDeleted, IsLeast, IdsSound, TodoGone, TypeOK
  <2>2. \A k \in about[found] \cap tg : map'[k] = map[k]
    BY <1>1, <2>1 DEF Types
  <2> QED  BY <2>1, <2>2 DEF FoundWhole
<1>4. CASE PollerStep
  <2>1. CASE \E t \in Tg : FindDeleted(t)
    BY <1>1, <2>1, FindDeletedFound
  <2>2. CASE \E t \in Tg : UnmapDeleted(t)
    BY <1>3, <2>2
  <2> QED
    BY <1>2, <1>4, <2>1, <2>2 DEF PollerStep, Poll, HandleStep, Unroutable, FindMessage, PostFails, StoreCopy, Post,
       PostAgain, FindEdited, EditCopy, StartDeletion, Ack, AckLost, After, DeletionStep, CheckSiblings,
       DecideToErase, Erase, EraseFails, EndDeletion
<1>5. CASE Crash
  BY <1>2, <1>5 DEF Crash
<1>6. CASE ~(PollerStep \/ Crash) /\ bpc' \in {"unmap", "siblings"}
  <2>1. UNCHANGED <<bpc, found>>
    BY <1>6 DEF Next, External, RelayMessage, RelayEdit, RelayDeletion, UserWrites, UserDeletes, SenderStep,
       PlaceMessage, Answered, SendFails, StoreSent, RemoverStep, OnRawDelete, LookupDeleted, ExecuteDelete,
       SendDeletion, SendDeletionFails, DeleteRows, vars
  <2>2. found \in Dc /\ found # None /\ found < nextDc /\ bpc \in {"unmap", "siblings"}
    BY <1>6, <2>1 DEF TypeOK, DcKnown
  <2>3. CASE External
    <3>1. UNCHANGED <<about, map>>
      BY <2>3 DEF External, RelayMessage, RelayEdit, RelayDeletion, UserWrites, UserDeletes
    <3> DEFINE New == tg' \subseteq tg \cup {nextTg} /\ discord' \subseteq discord \cup {nextDc}
    <3>2. New
      <4>1. CASE RelayMessage
        BY <4>1 DEF RelayMessage
      <4>2. ASSUME NEW t \in Tg, RelayEdit(t)
            PROVE  New
        BY <4>2 DEF RelayEdit
      <4>3. ASSUME NEW tgs \in SUBSET Tg, RelayDeletion(tgs)
            PROVE  New
        BY <4>3 DEF RelayDeletion
      <4>4. ASSUME NEW d \in Dc, UserWrites(d)
            PROVE  New
        BY <4>4 DEF UserWrites, NewDc
      <4>5. ASSUME NEW d \in Dc, UserDeletes(d)
            PROVE  New
        BY <4>5 DEF UserDeletes
      <4> HIDE DEF New
      <4> QED  BY <2>3, <4>1, <4>2, <4>3, <4>4, <4>5 DEF External
    <3>3. nextTg \notin about[found]
      BY <1>1, <2>2 DEF Types, IdsSound, TgKnown, Before
    <3>4. found # nextDc
      BY <1>1, <2>2 DEF Types
    <3> QED  BY <1>1, <2>1, <2>2, <3>1, <3>2, <3>3, <3>4, FoundKept
  <2>4. ASSUME NEW d \in Dc, RemoverStep(d)
        PROVE  FoundWhole'
    <3>1. UNCHANGED <<about, discord>> /\ tg' \subseteq tg
      BY <2>4 DEF RemoverStep, OnRawDelete, LookupDeleted, ExecuteDelete, SendDeletion, SendDeletionFails, DeleteRows
    <3>2. \A t \in Tg : map'[t] = map[t] \/ (map[t] = d /\ d \notin discord)
      BY <2>4 DEF RemoverStep, OnRawDelete, LookupDeleted, ExecuteDelete, SendDeletion, SendDeletionFails, DeleteRows,
         ReportedGone
    <3>3. about[found] \subseteq Tg
      BY <1>1, <2>2 DEF Types
    <3> QED  BY <1>1, <2>1, <2>2, <3>1, <3>2, <3>3, FoundKept
  <2>5. CASE UNCHANGED vars
    BY <1>1, <2>1, <2>2, <2>5, FoundKept DEF vars
  <2> QED  BY <1>1, <1>6, <2>2, <2>3, <2>4, <2>5, SenderFound DEF Next
<1> QED  BY <1>2, <1>4, <1>5, <1>6

--------------------------------------------------------------------------------
(* The theorems *)

LEMMA InitInv ==
    ASSUME Init
    PROVE  IInv
<1>1. TypeOK /\ Types
  BY InitType, TypesHold
<1>2. DOMAIN events = {} /\ batch = {}
  BY <1>1, EventType DEF Init
<1>3. DcKnown /\ TgKnown /\ EventSound
  BY <1>1, <1>2 DEF Init, DcKnown, TgKnown, EventSound, Before, None, Types
<1>4. RowSound /\ TodoGone /\ PostSound
  BY DEF Init, RowSound, TodoGone, PostSound
<1>5. FoundTorn /\ SuppressedGone /\ ReportedGone
  BY DEF Init, FoundTorn, Found, SuppressedGone, ReportedGone
<1>6. Whole /\ FoundWhole
  BY DEF Init, Whole, FoundWhole
<1> QED  BY <1>1, <1>3, <1>4, <1>5, <1>6 DEF IInv

LEMMA StepInv ==
    ASSUME IInv, [Next]_vars
    PROVE  IInv'
<1>1. IdsSound
  BY DEF IInv, IdsSound
<1>2. TypeOK' /\ DcKnown'
  BY StepType, StepDc DEF IInv
<1>3. IdsSound' /\ PostSound'
  BY <1>1, StepKnown, StepPost DEF IInv
<1>4. FoundTorn' /\ SuppressedGone' /\ ReportedGone'
  BY <1>1, StepFoundTorn, StepGone, StepReported DEF IInv
<1>5. Whole' /\ FoundWhole'
  BY <1>1, StepWhole, StepFoundWhole DEF IInv
<1> QED  BY <1>2, <1>3, <1>4, <1>5 DEF IInv, IdsSound

\* The inductive invariant holds in every reachable state, whatever the bounds and the
\* faults are.
THEOREM Invariance == Spec => []IInv
<1>1. Init => IInv
  BY InitInv
<1>2. IInv /\ [Next]_vars => IInv'
  BY StepInv
<1> QED  BY <1>1, <1>2, PTL DEF Spec

\* Every variable has its type: the poll loop has a message in hand wherever it goes on
\* to store, edit or delete one.
THEOREM TypeCorrect == Spec => []TypeOK
<1>1. IInv => TypeOK
  BY DEF IInv
<1> QED  BY <1>1, Invariance, PTL

\* The poll loop decides to delete a Discord message, unless the deletion raced the storing
\* of its ids, only when none of its Telegram messages is left.
THEOREM SiblingsKept == Spec => LastSibling
<1>1. ASSUME IInv, [Next]_vars
      PROVE  [bpc # "erase" /\ bpc' = "erase" /\ found \in discord \ torn
                => about[found] \cap tg = {}]_vars
  <2> USE DEF server, channel, poller, sender, remover
  <2>1. SUFFICES ASSUME bpc # "erase", bpc' = "erase", found \in discord \ torn
                 PROVE  about[found] \cap tg = {}
    OBVIOUS
  <2>2. \E t \in Tg : CheckSiblings(t)
    BY <1>1, <2>1 DEF Next, External, RelayMessage, RelayEdit, RelayDeletion, UserWrites, UserDeletes, SenderStep,
       PlaceMessage, Answered, SendFails, StoreSent, RemoverStep, OnRawDelete, LookupDeleted, ExecuteDelete,
       SendDeletion, SendDeletionFails, DeleteRows, vars, Crash, PollerStep, Poll, HandleStep, Unroutable,
       FindMessage, PostFails, StoreCopy, Post, PostAgain, FindEdited, EditCopy, StartDeletion, Ack, AckLost,
       After, DeletionStep, FindDeleted, UnmapDeleted, Erase, EraseFails, EndDeletion
  <2>3. bpc = "siblings" /\ RowsOf(found) = {}
    BY <2>1, <2>2 DEF CheckSiblings
  <2>4. \A t \in about[found] \cap tg : map[t] = found
    BY <1>1, <2>1, <2>3 DEF IInv, FoundWhole
  <2>5. tg \subseteq Tg
    BY <1>1 DEF IInv, TypeOK
  <2> QED  BY <2>3, <2>4, <2>5 DEF RowsOf
<1> QED  BY <1>1, Invariance, PTL DEF Spec, LastSibling

\* A deletion that a user makes of a message that is still mapped is never taken for the
\* echo of the bot's own, torn messages aside.
THEOREM UserDeletionsKept == Spec => UserDeletionKept
<1>1. ASSUME IInv, [Next]_vars
      PROVE  [\A d \in suppress \ (suppress' \cup torn) : d \in raw => RowsOf(d) = {}]_vars
  BY <1>1 DEF IInv, SuppressedGone
<1> QED  BY <1>1, Invariance, PTL DEF Spec, UserDeletionKept

================================================================================
