------------------------- MODULE ClientBridgeCopyProofs -------------------------
(***************************************************************************)
(* More proofs about the bot as the client of a gateway: Discord never     *)
(* shows two copies of a Telegram message, a copy never goes back to an    *)
(* older text, and when every task is done and nothing failed, the rows    *)
(* are exactly the Telegram messages that are left.                        *)
(***************************************************************************)
EXTENDS ClientBridgeProofs, FiniteSetTheorems

\* Nothing failed.
Clean == faults = <<>>

\* No message is posted twice for one event, and none that is to go stays.
Once == Without({"crash", "late", "stuck"})

\* A relayed message is one message, and so is what its copy stands for.
MessageAlone ==
    /\ \A e \in DOMAIN events :
          events[e].kind = "message" => \A t, k \in events[e].ids : t = k
    /\ \A d \in Dc : spc[d] = "none" => \A t, k \in about[d] : t = k

\* The message the poll loop is posting, or erasing, is not mapped, ...
HandUnmapped ==
    bpc \in {"store", "siblings", "erase"} /\ spc[found] = "none" =>
        \A t \in about[found] : map[t] = None

\* ... and it is erased with the message it copies.
FoundAbout ==
    bpc = "unmap" => \A t \in todo : IsLeast(t, todo) =>
        /\ t \in about[found]
        /\ map[t] = None \/ map[t] = found \/ spc[map[t]] # "none"

\* Every other copy is mapped.
CopyMapped ==
    Once => \A d \in discord : spc[d] = "none" => \A t \in about[d] :
        map[t] = d \/ (bpc \in {"store", "siblings", "erase"} /\ found = d)

CopyInv == MessageAlone /\ HandUnmapped /\ FoundAbout /\ CopyMapped

--------------------------------------------------------------------------------
(* What the tasks leave alone *)

\* What the lemmas below need of the invariant proved already.
Basics ==
    /\ TypeOK /\ Types /\ DcKnown /\ IdsSound /\ PostSound
    /\ FoundTorn /\ ReportedGone /\ Whole

LEMMA BasicsHold == IInv => Basics
BY TypesHold DEF IInv, IdsSound, Basics

LEMMA ExternalFrame ==
    ASSUME External
    PROVE  UNCHANGED <<map, poller, rest, remover, torn, about, shown, faults>>
BY DEF External, RelayMessage, RelayEdit, RelayDeletion, UserWrites, UserDeletes, server, channel, poller,
       sender, remover

LEMMA SenderFrame ==
    ASSUME NEW d \in Dc, SenderStep(d)
    PROVE  UNCHANGED <<events, queue, poller, discord, nextDc, shown, raw, remover, torn>>
BY DEF SenderStep, PlaceMessage, Answered, SendFails, StoreSent, server, channel, poller, sender, remover

LEMMA HandleFrame ==
    ASSUME NEW e \in DOMAIN events, HandleStep(e)
    PROVE  UNCHANGED <<tg, nextTg, events, raw, suppress, sender, remover, torn>>
BY DEF HandleStep, Unroutable, FindMessage, PostFails, StoreCopy, Post, PostAgain, PostCopy, FindEdited,
       EditCopy, StartDeletion, Ack, AckLost, server, channel, poller, sender, remover

LEMMA DeletionFrame ==
    ASSUME DeletionStep
    PROVE  UNCHANGED <<server, nextDc, about, shown, batch, sender, remover>>
BY DEF DeletionStep, FindDeleted, UnmapDeleted, CheckSiblings, Erase, EraseFails, EndDeletion,
       server, channel, poller, sender, remover

LEMMA RemoverFrame ==
    ASSUME NEW d \in Dc, RemoverStep(d)
    PROVE  UNCHANGED <<events, queue, nextTg, poller, sender, discord, nextDc, about, shown, torn>>
BY DEF RemoverStep, OnRawDelete, LookupDeleted, ExecuteDelete, SendDeletion, SendDeletionFails, DeleteRows,
       server, channel, poller, sender, remover

LEMMA PollFrame ==
    ASSUME Poll
    PROVE  UNCHANGED <<server, channel, map, todo, found, sender, remover, torn, faults>>
BY DEF Poll

--------------------------------------------------------------------------------
(* Faults *)

\* Faults are remembered.
LEMMA FaultsKept ==
    ASSUME [Next]_vars
    PROVE  \/ faults' = faults
           \/ \E k \in FaultKinds : faults' = Append(faults, k)
<1> USE ClientBridgeAssumption DEF Fault
<1>1. CASE External \/ Poll \/ UNCHANGED vars
  BY <1>1, ExternalFrame, PollFrame DEF vars
<1>2. ASSUME NEW e \in DOMAIN events, HandleStep(e)
      PROVE  faults' = faults \/ \E k \in FaultKinds : faults' = Append(faults, k)
  BY <1>2 DEF HandleStep, Unroutable, FindMessage, PostFails, StoreCopy, Post, PostAgain, FindEdited,
     EditCopy, StartDeletion, Ack, AckLost
<1>3. CASE DeletionStep
  BY <1>3 DEF DeletionStep, FindDeleted, UnmapDeleted, CheckSiblings, Erase, EraseFails, EndDeletion
<1>4. ASSUME NEW d \in Dc, SenderStep(d) \/ RemoverStep(d)
      PROVE  faults' = faults \/ \E k \in FaultKinds : faults' = Append(faults, k)
  BY <1>4 DEF SenderStep, PlaceMessage, Answered, SendFails, StoreSent, RemoverStep, OnRawDelete,
     LookupDeleted, ExecuteDelete, SendDeletion, SendDeletionFails, DeleteRows
<1>5. CASE Crash
  BY <1>5 DEF Crash
<1> QED  BY <1>1, <1>2, <1>3, <1>4, <1>5 DEF Next, PollerStep

\* What never happened had not happened before, and did not happen now.
LEMMA WithoutKept ==
    ASSUME TypeOK, [Next]_vars, NEW K, Without(K)'
    PROVE  Without(K) /\ \A k \in K : ~Fault(k)
<1>1. faults \in Seq(FaultKinds) /\ \A k \in Faults : k \in FaultKinds
  BY ClientBridgeAssumption DEF TypeOK
<1>2. \A x \in FaultKinds :
         /\ DOMAIN faults \subseteq DOMAIN Append(faults, x)
         /\ \A i \in DOMAIN faults : Append(faults, x)[i] = faults[i]
         /\ Len(faults) + 1 \in DOMAIN Append(faults, x)
         /\ Append(faults, x)[Len(faults) + 1] = x
  BY <1>1
<1>3. \A x \in FaultKinds : ToSet(faults) \subseteq ToSet(Append(faults, x)) /\ x \in ToSet(Append(faults, x))
  BY <1>2 DEF ToSet
<1>4. ToSet(faults') \cap K = {}
  BY DEF Without
<1>5. Without(K)
  BY <1>3, <1>4, FaultsKept DEF Without
<1>6. ASSUME NEW k \in K, Fault(k)
      PROVE  FALSE
  <2>1. k \in FaultKinds /\ faults' = Append(faults, k)
    BY <1>1, <1>6 DEF Fault
  <2> QED  BY <1>3, <1>4, <2>1
<1> QED  BY <1>5, <1>6

\* Nor does anything fail in a step after which nothing has.
LEMMA CleanStep ==
    ASSUME TypeOK, [Next]_vars, Clean'
    PROVE  Clean /\ \A k : ~Fault(k)
<1>1. faults \in Seq(FaultKinds) /\ \A k \in Faults : k \in FaultKinds
  BY ClientBridgeAssumption DEF TypeOK
<1>2. \A k \in FaultKinds : Append(faults, k) # <<>>
  BY <1>1
<1>3. Clean
  BY <1>2, FaultsKept DEF Clean
<1>4. ASSUME NEW k, Fault(k)
      PROVE  FALSE
  <2>1. k \in FaultKinds /\ faults' = Append(faults, k)
    BY <1>1, <1>4 DEF Fault
  <2> QED  BY <1>2, <2>1 DEF Clean
<1> QED  BY <1>3, <1>4

--------------------------------------------------------------------------------
(* Copies *)

\* How events change: not at all, or by one more.
LEMMA EventsStep ==
    ASSUME [Next]_vars
    PROVE  \/ events' = events
           \/ RelayMessage
           \/ \E t \in Tg : RelayEdit(t)
           \/ \E tgs \in SUBSET Tg : RelayDeletion(tgs)
<1>1. CASE External
  BY <1>1 DEF External, UserWrites, UserDeletes, server
<1> QED
  BY <1>1, SenderFrame, HandleFrame, DeletionFrame, RemoverFrame, PollFrame
     DEF Next, PollerStep, Crash, vars, server

\* How what a Discord message stands for changes.
LEMMA AboutStep ==
    ASSUME [Next]_vars
    PROVE  \/ about' = about
           \/ \E d \in Dc : PlaceMessage(d)
           \/ \E e \in DOMAIN events, d \in Dc : Post(e, d) \/ PostAgain(e, d)
<1>1. ASSUME NEW e \in DOMAIN events, HandleStep(e), \A d \in Dc : ~Post(e, d) /\ ~PostAgain(e, d)
      PROVE  about' = about
  BY <1>1 DEF HandleStep, Unroutable, FindMessage, PostFails, StoreCopy, FindEdited, EditCopy, StartDeletion,
     Ack, AckLost, channel
<1>2. ASSUME NEW d \in Dc, SenderStep(d), ~PlaceMessage(d)
      PROVE  about' = about
  BY <1>2 DEF SenderStep, Answered, SendFails, StoreSent, channel
<1> QED
  BY <1>1, <1>2, ExternalFrame, DeletionFrame, RemoverFrame, PollFrame
     DEF Next, PollerStep, Crash, vars, channel

\* How rows change.
LEMMA MapStep ==
    ASSUME [Next]_vars
    PROVE  \/ map' = map
           \/ \E d \in Dc, t \in Tg : StoreSent(d, t)
           \/ \E e \in DOMAIN events : StoreCopy(e)
           \/ \E t \in Tg : UnmapDeleted(t)
           \/ \E d \in Dc : DeleteRows(d)
<1>1. ASSUME NEW e \in DOMAIN events, HandleStep(e), ~StoreCopy(e)
      PROVE  map' = map
  BY <1>1 DEF HandleStep, Unroutable, FindMessage, PostFails, Post, PostAgain, FindEdited, EditCopy,
     StartDeletion, Ack, AckLost
<1>2. ASSUME NEW d \in Dc, SenderStep(d), \A t \in Tg : ~StoreSent(d, t)
      PROVE  map' = map
  BY <1>2 DEF SenderStep, PlaceMessage, Answered, SendFails
<1>3. ASSUME NEW d \in Dc, RemoverStep(d), ~DeleteRows(d)
      PROVE  map' = map
  BY <1>3 DEF RemoverStep, OnRawDelete, LookupDeleted, ExecuteDelete, SendDeletion, SendDeletionFails
<1>4. ASSUME DeletionStep, \A t \in Tg : ~UnmapDeleted(t)
      PROVE  map' = map
  BY <1>4 DEF DeletionStep, FindDeleted, CheckSiblings, Erase, EraseFails, EndDeletion
<1> QED
  BY <1>1, <1>2, <1>3, <1>4, ExternalFrame, PollFrame DEF Next, PollerStep, Crash, vars

\* A task that sends a message stays one; nobody becomes one but a new message's.
LEMMA SendingStep ==
    ASSUME Types, [Next]_vars, NEW d \in Dc
    PROVE  /\ spc[d] # "none" => spc'[d] # "none"
           /\ spc[d] = "none" /\ spc'[d] # "none" => d = nextDc
<1>1. CASE External
  BY <1>1 DEF External, RelayMessage, RelayEdit, RelayDeletion, UserWrites, NewDc, UserDeletes, Types, sender
<1>2. ASSUME NEW n \in Dc, SenderStep(n)
      PROVE  (spc[d] = "none") <=> (spc'[d] = "none")
  BY <1>2 DEF SenderStep, PlaceMessage, Answered, SendFails, StoreSent, Types
<1>3. CASE Crash
  BY <1>3 DEF Crash, Types
<1>4. CASE PollerStep \/ UNCHANGED vars
  BY <1>4, HandleFrame, DeletionFrame, PollFrame DEF PollerStep, vars, sender
<1> QED  BY <1>1, <1>2, <1>3, <1>4, RemoverFrame DEF Next, sender

\* The event being handled is one.
LEMMA HandlingOne ==
    ASSUME Types, NEW e, NEW f, Handling(e), Handling(f)
    PROVE  e = f /\ e \in DOMAIN events
<1>1. e \in batch /\ f \in batch /\ e <= f /\ f <= e /\ e \in Nat /\ f \in Nat /\ e \in DOMAIN events
  BY DEF Handling, IsLeast, Types
<1> QED  BY <1>1

\* A relayed message stays one message.
LEMMA StepAlone ==
    ASSUME Basics, MessageAlone, [Next]_vars
    PROVE  MessageAlone'
<1>1. TypeOK /\ Types /\ DcKnown /\ PostSound
  BY DEF Basics
<1>2. \A e \in DOMAIN events' : events'[e].kind = "message" => \A t, k \in events'[e].ids : t = k
  <2>1. CASE events' = events
    BY <2>1 DEF MessageAlone
  <2>2. ASSUME NEW kind \in {"message", "edit", "deletion"}, NEW tgs \in SUBSET Tg, Enqueue(kind, tgs),
               kind = "message" => \A t, k \in tgs : t = k
        PROVE  \A e \in DOMAIN events' : events'[e].kind = "message" => \A t, k \in events'[e].ids : t = k
    <3> DEFINE r == [kind |-> kind, ids |-> tgs]
    <3>1. r.kind = kind /\ r.ids = tgs
      OBVIOUS
    <3>2. /\ DOMAIN events' = DOMAIN events \cup {Len(events) + 1}
          /\ \A e \in DOMAIN events : events'[e] = events[e]
          /\ events'[Len(events) + 1] = r
      BY <1>1, <2>2, EnqueueType
    <3> HIDE DEF r
    <3> QED  BY <2>2, <3>1, <3>2 DEF MessageAlone
  <2>3. CASE RelayMessage
    <3>1. {nextTg} \in SUBSET Tg
      BY <2>3 DEF RelayMessage
    <3> QED  BY <2>2, <2>3, <3>1 DEF RelayMessage
  <2>4. ASSUME NEW t \in Tg, RelayEdit(t)
        PROVE  \E kind \in {"edit"}, tgs \in SUBSET Tg : Enqueue(kind, tgs)
    BY <2>4 DEF RelayEdit
  <2>5. ASSUME NEW tgs \in SUBSET Tg, RelayDeletion(tgs)
        PROVE  Enqueue("deletion", tgs)
    BY <2>5 DEF RelayDeletion
  <2> QED  BY <2>1, <2>2, <2>3, <2>4, <2>5, EventsStep
<1>3. ASSUME NEW d \in Dc, spc'[d] = "none"
      PROVE  \A t, k \in about'[d] : t = k
  <2>1. spc[d] = "none"
    BY <1>1, <1>3, SendingStep
  <2>2. CASE about' = about
    BY <2>1, <2>2 DEF MessageAlone
  <2>3. ASSUME NEW n \in Dc, PlaceMessage(n)
        PROVE  about'[d] = about[d]
    BY <1>1, <2>1, <2>3, PlaceType DEF PlaceMessage, Types
  <2>4. ASSUME NEW e \in DOMAIN events, NEW n \in Dc, Post(e, n) \/ PostAgain(e, n)
        PROVE  \A t, k \in about'[d] : t = k
    <3>1. /\ events[e].kind = "message" /\ about' = [about EXCEPT ![n] = events[e].ids]
      BY <1>1, <2>4 DEF Post, PostAgain, PostCopy, PostSound
    <3>2. about'[d] \in {about[d], events[e].ids}
      BY <1>1, <3>1 DEF Types
    <3> QED  BY <2>1, <3>1, <3>2 DEF MessageAlone
  <2> QED  BY <2>1, <2>2, <2>3, <2>4, AboutStep DEF MessageAlone
<1> QED  BY <1>2, <1>3 DEF MessageAlone

\* How the copies in Discord change.
LEMMA DiscordStep ==
    ASSUME [Next]_vars
    PROVE  \/ discord' \subseteq discord
           \/ \E d \in Dc : UserWrites(d)
           \/ \E e \in DOMAIN events, d \in Dc : Post(e, d) \/ PostAgain(e, d)
<1>1. ASSUME NEW e \in DOMAIN events, HandleStep(e), \A d \in Dc : ~Post(e, d) /\ ~PostAgain(e, d)
      PROVE  discord' = discord
  BY <1>1 DEF HandleStep, Unroutable, FindMessage, PostFails, StoreCopy, FindEdited, EditCopy, StartDeletion,
     Ack, AckLost, channel
<1>2. CASE External
  BY <1>2 DEF External, RelayMessage, RelayEdit, RelayDeletion, UserDeletes, channel
<1>3. CASE DeletionStep
  BY <1>3 DEF DeletionStep, FindDeleted, UnmapDeleted, CheckSiblings, Erase, EraseFails, EndDeletion, channel
<1> QED
  BY <1>1, <1>2, <1>3, SenderFrame, RemoverFrame, PollFrame DEF Next, PollerStep, Crash, vars, channel

\* A message that is copied, and mapped or not, by what another task stores.
LEMMA RowOfCopy ==
    ASSUME Basics, NEW d \in Dc, spc[d] = "none", NEW t \in about[d],
           NEW n \in Dc, NEW k \in Tg, StoreSent(n, k)
    PROVE  map'[t] = map[t]
<1>1. /\ Types /\ RowSound
  BY DEF Basics, IdsSound
<1>2. spc[n] = "storing" /\ k \in about[n] /\ map' = [map EXCEPT ![k] = n]
  BY <1>1 DEF StoreSent, IsLeast, RowSound
<1>3. t # k
  BY <1>1, <1>2 DEF RowSound
<1> QED  BY <1>1, <1>2, <1>3 DEF Types

\* What a step of another task stores is not a row of the message in hand.
LEMMA HandRow ==
    ASSUME Basics, [Next]_vars, NEW d \in Dc, spc[d] = "none", NEW t \in about[d], map[t] = None,
           \A e \in DOMAIN events : ~StoreCopy(e)
    PROVE  map'[t] = None
<1>1. Types
  BY DEF Basics
<1>2. t \in Tg
  BY <1>1 DEF Types
<1>3. ASSUME NEW n \in Dc, DeleteRows(n)
      PROVE  map'[t] = None
  BY <1>2, <1>3 DEF DeleteRows
<1>4. ASSUME NEW k \in Tg, UnmapDeleted(k)
      PROVE  map'[t] = None
  BY <1>1, <1>2, <1>4 DEF UnmapDeleted, Types
<1> QED  BY <1>3, <1>4, RowOfCopy, MapStep

\* The steps of the poll loop that take a message in hand, or leave it.
LEMMA HandStep ==
    ASSUME [Next]_vars
    PROVE  \/ UNCHANGED <<bpc, todo, found>>
           \/ \E t \in Tg : FindDeleted(t) \/ UnmapDeleted(t) \/ CheckSiblings(t) \/ Erase(t) \/ EraseFails(t)
           \/ \E e \in DOMAIN events : StoreCopy(e) \/ \E d \in Dc : Post(e, d)
           \/ bpc \notin {"store", "unmap", "siblings", "erase"}
              /\ bpc' \notin {"store", "unmap", "siblings", "erase"}
           \/ Crash
<1>1. ASSUME NEW e \in DOMAIN events, HandleStep(e), ~StoreCopy(e), \A d \in Dc : ~Post(e, d)
      PROVE  \/ UNCHANGED <<bpc, todo, found>>
             \/ bpc \notin {"store", "unmap", "siblings", "erase"}
                /\ bpc' \notin {"store", "unmap", "siblings", "erase"}
  BY <1>1 DEF HandleStep, Unroutable, FindMessage, PostFails, PostAgain, FindEdited, EditCopy, StartDeletion,
     Ack, AckLost, After, poller
<1>2. CASE EndDeletion \/ Poll
  BY <1>2 DEF EndDeletion, Poll
<1> QED
  BY <1>1, <1>2, ExternalFrame, SenderFrame, RemoverFrame
     DEF Next, PollerStep, DeletionStep, vars, poller

\* What the message in hand stands for does not change.
LEMMA HandAbout ==
    ASSUME Basics, [Next]_vars, NEW d \in Dc, d < nextDc, spc[d] = "none"
    PROVE  about'[d] = about[d]
<1>1. Types /\ TypeOK
  BY DEF Basics
<1>2. ASSUME NEW n \in Dc, PlaceMessage(n)
      PROVE  about'[d] = about[d]
  BY <1>1, <1>2, PlaceType DEF PlaceMessage
<1>3. ASSUME NEW e \in DOMAIN events, NEW n \in Dc, Post(e, n) \/ PostAgain(e, n)
      PROVE  about'[d] = about[d]
  <2>1. n = nextDc /\ about' = [about EXCEPT ![n] = events[e].ids]
    BY <1>3 DEF Post, PostAgain, PostCopy, NewDc
  <2> QED  BY <1>1, <2>1 DEF Types
<1> QED  BY <1>2, <1>3, AboutStep

LEMMA StepHand ==
    ASSUME Basics, CopyInv, [Next]_vars
    PROVE  HandUnmapped'
<1>1. TypeOK /\ Types /\ DcKnown /\ PostSound /\ MessageAlone /\ HandUnmapped /\ FoundAbout
  BY DEF Basics, CopyInv
<1>2. ASSUME found' = found, bpc \in {"store", "siblings", "erase"}, \A e \in DOMAIN events : ~StoreCopy(e)
      PROVE  HandUnmapped'
  <2>1. found \in Dc /\ found < nextDc
    BY <1>1, <1>2 DEF TypeOK, DcKnown
  <2>2. SUFFICES ASSUME spc'[found] = "none", NEW t \in about'[found]
                 PROVE  map'[t] = None
    BY <1>2 DEF HandUnmapped
  <2>3. spc[found] = "none"
    BY <1>1, <2>1, <2>2, SendingStep
  <2>4. t \in about[found]
    BY <2>1, <2>2, <2>3, HandAbout
  <2> QED  BY <1>1, <1>2, <2>1, <2>3, <2>4, HandRow DEF HandUnmapped
<1>3. CASE UNCHANGED <<bpc, todo, found>>
  <2>1. \A e \in DOMAIN events : ~StoreCopy(e)
    BY <1>3 DEF StoreCopy
  <2> QED  BY <1>2, <1>3, <2>1 DEF HandUnmapped
<1>4. ASSUME NEW t \in Tg, UnmapDeleted(t)
      PROVE  HandUnmapped'
  <2>1. /\ bpc = "unmap" /\ IsLeast(t, todo) /\ map' = [map EXCEPT ![t] = None]
        /\ UNCHANGED <<found, about, spc>>
    BY <1>4 DEF UnmapDeleted, channel, sender
  <2>2. t \in about[found] /\ found \in Dc
    BY <1>1, <2>1 DEF FoundAbout, IsLeast, TypeOK
  <2>3. spc[found] = "none" => \A k \in about[found] : k = t
    BY <1>1, <2>2 DEF MessageAlone
  <2>4. map'[t] = None
    BY <1>1, <2>1 DEF Types
  <2> QED  BY <2>1, <2>3, <2>4 DEF HandUnmapped
<1>5. ASSUME NEW t \in Tg, CheckSiblings(t)
      PROVE  HandUnmapped'
  BY <1>2, <1>5 DEF CheckSiblings, StoreCopy
<1>6. ASSUME NEW e \in DOMAIN events, NEW d \in Dc, Post(e, d)
      PROVE  HandUnmapped'
  <2>1. /\ found' = d /\ map' = map /\ about' = [about EXCEPT ![d] = events[e].ids]
        /\ \A t \in events[e].ids : map[t] = None
    BY <1>1, <1>6 DEF Post, PostCopy, PostSound
  <2>2. about'[d] = events[e].ids
    BY <1>1, <2>1 DEF Types
  <2> QED  BY <2>1, <2>2 DEF HandUnmapped
<1>7. CASE bpc' \notin {"store", "siblings", "erase"}
  BY <1>7 DEF HandUnmapped
<1> QED
  BY <1>3, <1>4, <1>5, <1>6, <1>7, HandStep DEF FindDeleted, Erase, EraseFails, StoreCopy, Crash

LEMMA StepFoundAbout ==
    ASSUME Basics, CopyInv, [Next]_vars
    PROVE  FoundAbout'
<1>1. TypeOK /\ Types /\ DcKnown /\ FoundAbout /\ RowSound
  BY DEF Basics, CopyInv, IdsSound
<1>2. CASE UNCHANGED <<bpc, todo, found>>
  <2>1. SUFFICES ASSUME bpc = "unmap", NEW t \in todo, IsLeast(t, todo)
                 PROVE  /\ t \in about'[found]
                        /\ map'[t] = None \/ map'[t] = found \/ spc'[map'[t]] # "none"
    BY <1>2 DEF FoundAbout, IsLeast
  <2>2. /\ found \in Dc /\ t \in about[found] /\ t \in Tg
        /\ map[t] = None \/ map[t] = found \/ spc[map[t]] # "none"
    BY <1>1, <2>1 DEF FoundAbout, TypeOK, IsLeast
  <2>3. t \in about'[found]
    <3>1. ASSUME NEW n \in Dc, PlaceMessage(n)
          PROVE  t \in about'[found]
      <4>1. n # found
        BY <1>1, <2>2, <3>1 DEF PlaceMessage, RowSound
      <4> QED  BY <1>1, <2>2, <3>1, <4>1, PlaceType
    <3> QED  BY <2>1, <2>2, <3>1, AboutStep DEF Post, PostAgain
  <2>4. CASE map'[t] = map[t] \/ map'[t] = None
    <3>1. map[t] \in Dc \cup {None}
      BY <1>1, <2>2 DEF TypeOK
    <3> QED  BY <1>1, <2>2, <2>3, <2>4, <3>1, SendingStep
  <2>5. ASSUME NEW n \in Dc, NEW k \in Tg, StoreSent(n, k)
        PROVE  map'[t] = map[t] \/ spc'[map'[t]] # "none"
    <3>1. spc[n] = "storing" /\ map' = [map EXCEPT ![k] = n]
      BY <2>5 DEF StoreSent
    <3>2. spc'[n] # "none"
      BY <1>1, <3>1, SendingStep
    <3> QED  BY <1>1, <2>2, <3>1, <3>2 DEF Types
  <2>6. ASSUME NEW n \in Dc, DeleteRows(n)
        PROVE  map'[t] = map[t] \/ map'[t] = None
    BY <2>2, <2>6 DEF DeleteRows
  <2> QED  BY <1>2, <2>1, <2>3, <2>4, <2>5, <2>6, MapStep DEF StoreCopy, UnmapDeleted
<1>3. ASSUME NEW t \in Tg, FindDeleted(t)
      PROVE  FoundAbout'
  <2>1. IsLeast(t, todo) /\ found' = map[t] /\ UNCHANGED <<map, about, spc>>
        /\ (bpc' = "unmap" => todo' = todo /\ found' # None)
    BY <1>3 DEF FindDeleted, channel, sender
  <2>2. \A k \in todo : IsLeast(k, todo) => k = t
    <3>1. todo \subseteq Nat
      BY <1>1 DEF Types
    <3> QED  BY <2>1, <3>1 DEF IsLeast
  <2>3. found' # None => t \in about[found']
    BY <1>1, <2>1 DEF RowSound
  <2> QED  BY <2>1, <2>2, <2>3 DEF FoundAbout
<1>4. CASE bpc' # "unmap"
  BY <1>4 DEF FoundAbout
<1> QED
  BY <1>2, <1>3, <1>4, HandStep DEF UnmapDeleted, CheckSiblings, DecideToErase, Erase, EraseFails, StoreCopy, Post,
                                    Crash

\* A copy is mapped, unless the poll loop has it in hand: what it has in hand it
\* maps, or erases.
LEMMA StepCopy ==
    ASSUME Basics, CopyInv, [Next]_vars
    PROVE  CopyMapped'
<1>1. TypeOK /\ Types /\ DcKnown /\ PostSound /\ RowSound /\ ReportedGone
      /\ HandUnmapped /\ FoundAbout /\ CopyMapped
  BY DEF Basics, CopyInv, IdsSound
<1>2. SUFFICES ASSUME Once', NEW d \in discord', spc'[d] = "none", NEW t \in about'[d]
               PROVE  map'[t] = d \/ (bpc' \in {"store", "siblings", "erase"} /\ found' = d)
  BY DEF CopyMapped
<1>3. Once /\ ~Fault("late") /\ ~Fault("stuck") /\ ~Fault("crash")
  BY <1>1, <1>2, WithoutKept DEF Once
<1>4. ~Crash /\ \A e, k : ~PostAgain(e, k) /\ ~EraseFails(k)
  BY <1>3 DEF Crash, PostAgain, EraseFails
<1>5. CASE d \notin discord
  <2>1. ASSUME NEW n \in Dc, UserWrites(n)
        PROVE  d # n
    BY <1>1, <1>2, <2>1 DEF UserWrites, Types
  <2>2. ASSUME NEW e \in DOMAIN events, NEW n \in Dc, Post(e, n)
        PROVE  bpc' = "store" /\ found' = d
    BY <1>5, <2>2 DEF Post, PostCopy
  <2> QED  BY <1>4, <1>5, <2>1, <2>2, DiscordStep DEF UserWrites
<1>6. CASE d \in discord
  <2>1. d \in Dc /\ d < nextDc
    BY <1>1, <1>6 DEF Types, DcKnown
  <2>2. spc[d] = "none"
    BY <1>1, <1>2, <2>1, SendingStep
  <2>3. t \in about[d] /\ t \in Tg
    BY <1>1, <1>2, <2>1, <2>2, HandAbout DEF Types
  <2>4. CASE bpc \in {"store", "siblings", "erase"} /\ found = d
    <3>1. ASSUME NEW e \in DOMAIN events, StoreCopy(e)
          PROVE  map'[t] = d
      BY <1>1, <2>3, <2>4, <3>1 DEF StoreCopy, PostSound
    <3>2. ASSUME NEW k \in Tg, CheckSiblings(k)
          PROVE  bpc' = "erase" /\ found' = d
      <4>1. \A j \in Tg : map[j] = d => j \in about[d]
        BY <1>1, <2>1, NoneDc DEF RowSound
      <4>2. RowsOf(found) = {}
        BY <1>1, <2>1, <2>2, <2>4, <4>1, NoneDc DEF HandUnmapped, RowsOf
      <4> QED  BY <2>4, <3>2, <4>2 DEF CheckSiblings, DecideToErase
    <3>3. ASSUME NEW k \in Tg, Erase(k)
          PROVE  FALSE
      BY <1>2, <2>4, <3>3 DEF Erase
    <3> QED
      BY <1>4, <2>4, <3>1, <3>2, <3>3, HandStep DEF FindDeleted, UnmapDeleted, Post
  <2>5. CASE map[t] = d
    <3>1. ASSUME NEW n \in Dc, NEW k \in Tg, StoreSent(n, k)
          PROVE  map'[t] = d
      BY <2>1, <2>2, <2>3, <2>5, <3>1, RowOfCopy
    <3>2. ASSUME NEW e \in DOMAIN events, StoreCopy(e)
          PROVE  map'[t] = d
      <4>1. t \notin events[e].ids
        BY <1>1, <2>1, <2>5, <3>2, NoneDc DEF StoreCopy, PostSound
      <4> QED  BY <2>3, <2>5, <3>2, <4>1 DEF StoreCopy
    <3>3. ASSUME NEW k \in Tg, UnmapDeleted(k)
          PROVE  map'[t] = d \/ (bpc' = "siblings" /\ found' = d)
      <4>1. /\ bpc = "unmap" /\ IsLeast(k, todo) /\ map' = [map EXCEPT ![k] = None]
            /\ bpc' = "siblings" /\ found' = found
        BY <3>3 DEF UnmapDeleted
      <4>2. CASE k = t
        BY <1>1, <2>1, <2>2, <2>5, <4>1, <4>2, NoneDc DEF FoundAbout, IsLeast
      <4>3. CASE k # t
        BY <1>1, <2>3, <2>5, <4>1, <4>3 DEF Types
      <4> QED  BY <4>2, <4>3
    <3>4. ASSUME NEW n \in Dc, DeleteRows(n)
          PROVE  map'[t] = d
      <4>1. n # d
        BY <1>1, <1>6, <3>4 DEF DeleteRows, ReportedGone
      <4> QED  BY <2>3, <2>5, <3>4, <4>1 DEF DeleteRows
    <3> QED  BY <2>5, <3>1, <3>2, <3>3, <3>4, MapStep
  <2> QED  BY <1>1, <1>3, <1>6, <2>2, <2>3, <2>4, <2>5 DEF CopyMapped
<1> QED  BY <1>5, <1>6

LEMMA InitCopy ==
    ASSUME Init
    PROVE  CopyInv
<1>1. DOMAIN events = {}
  BY DEF Init
<1> QED  BY <1>1 DEF Init, CopyInv, MessageAlone, HandUnmapped, FoundAbout, CopyMapped

\* A Telegram message that two Discord messages stand for would be mapped to both.
LEMMA CopyOne ==
    ASSUME IInv, CopyInv, Once, NEW t \in Tg
    PROVE  Cardinality({d \in discord : t \in about[d]}) <= 1
<1> DEFINE S == {d \in discord : t \in about[d]}
<1>1. Types /\ TypeOK /\ RowSound /\ HandUnmapped /\ CopyMapped
  BY BasicsHold DEF CopyInv, Basics, IdsSound
<1>2. ASSUME NEW d \in S, NEW n \in S
      PROVE  d = n
  <2>1. SUFFICES ASSUME d # n
                 PROVE  FALSE
    OBVIOUS
  <2>2. d \in Dc /\ n \in Dc /\ t \in about[d] /\ t \in about[n]
    BY <1>1 DEF Types
  <2>3. spc[d] = "none" /\ spc[n] = "none"
    BY <1>1, <2>1, <2>2 DEF RowSound
  <2>4. /\ map[t] = d \/ (bpc \in {"store", "siblings", "erase"} /\ found = d)
        /\ map[t] = n \/ (bpc \in {"store", "siblings", "erase"} /\ found = n)
    BY <1>1, <2>2, <2>3 DEF CopyMapped
  <2> QED  BY <1>1, <2>1, <2>2, <2>3, <2>4, NoneDc DEF HandUnmapped
<1>3. CASE S = {}
  <2>1. Cardinality({}) = 0
    BY FS_EmptySet
  <2> HIDE DEF S
  <2>2. Cardinality(S) <= 1
    BY <1>3, <2>1
  <2> QED  BY <2>2 DEF S
<1>4. CASE S # {}
  <2>1. PICK d \in S : TRUE
    BY <1>4
  <2>2. S = {d}
    BY <1>2, <2>1
  <2>3. Cardinality({d}) = 1
    BY FS_Singleton
  <2> HIDE DEF S
  <2>4. Cardinality(S) <= 1
    BY <2>2, <2>3
  <2> QED  BY <2>4 DEF S
<1> QED  BY <1>3, <1>4

\* Copies are sound in every reachable state.
THEOREM CopyInvariance == Spec => []CopyInv
<1>1. Init => CopyInv
  BY InitCopy
<1>2. IInv /\ CopyInv /\ [Next]_vars => CopyInv'
  BY BasicsHold, StepAlone, StepHand, StepFoundAbout, StepCopy DEF CopyInv, Basics
<1> QED  BY <1>1, <1>2, Invariance, PTL DEF Spec

\* Unless it crashed, an answer came late or a deletion failed, the channel never holds two
\* copies of a Telegram message, however often an event comes again.
THEOREM CopiesAreOne == Spec => []OneCopy
<1>1. IInv /\ CopyInv => OneCopy
  BY CopyOne DEF OneCopy, Once
<1> QED  BY <1>1, Invariance, CopyInvariance, PTL

--------------------------------------------------------------------------------
(* The order of edits *)

\* The events to handle are still to be acked, ...
BatchQueued == batch \subseteq queue

\* ... they are the oldest of those, ...
BatchFirst == Without({"lost"}) => \A e \in batch, q \in queue : q \in batch \/ e < q

\* ... and no copy shows one that is newer.
ShownFirst == Without({"lost"}) => \A d \in Dc, q \in queue : shown[d] <= q

EditInv == BatchQueued /\ BatchFirst /\ ShownFirst

\* The queue only grows by the newest event, and shrinks by an event that was acked.
LEMMA QueueStep ==
    ASSUME TypeOK, [Next]_vars
    PROVE  \/ queue' = queue
           \/ queue' = queue \cup {Len(events) + 1} /\ UNCHANGED <<batch, shown, bpc>>
           \/ \E e \in DOMAIN events : Ack(e)
<1>1. ASSUME NEW kind \in {"message", "edit", "deletion"}, NEW tgs \in SUBSET Tg, Enqueue(kind, tgs)
      PROVE  queue' = queue \cup {Len(events) + 1}
  BY <1>1, EventType DEF Enqueue
<1>2. CASE External
  <2>1. CASE RelayMessage
    BY <1>1, <1>2, <2>1, ExternalFrame DEF RelayMessage, poller
  <2>2. ASSUME NEW t \in Tg, RelayEdit(t)
        PROVE  queue' = queue \cup {Len(events) + 1}
    BY <1>1, <2>2 DEF RelayEdit
  <2>3. ASSUME NEW tgs \in SUBSET Tg, RelayDeletion(tgs)
        PROVE  queue' = queue \cup {Len(events) + 1}
    BY <1>1, <2>3 DEF RelayDeletion
  <2> QED  BY <1>2, <2>1, <2>2, <2>3, ExternalFrame DEF External, UserWrites, UserDeletes, server, poller
<1>3. ASSUME NEW e \in DOMAIN events, HandleStep(e), ~Ack(e)
      PROVE  queue' = queue
  BY <1>3 DEF HandleStep, Unroutable, FindMessage, PostFails, StoreCopy, Post, PostAgain, FindEdited,
     EditCopy, StartDeletion, AckLost, server
<1> QED
  BY <1>2, <1>3, SenderFrame, DeletionFrame, RemoverFrame, PollFrame
     DEF Next, PollerStep, Crash, vars, server

\* The batch is a new one, or loses the event that was handled, or all.
LEMMA BatchStep ==
    ASSUME [Next]_vars
    PROVE  \/ batch' = batch
           \/ batch' = queue /\ queue' = queue
           \/ batch' = {}
           \/ \E e \in DOMAIN events : Ack(e) \/ AckLost(e)
<1>1. ASSUME NEW e \in DOMAIN events, HandleStep(e), ~Ack(e), ~AckLost(e)
      PROVE  batch' = batch
  BY <1>1 DEF HandleStep, Unroutable, FindMessage, PostFails, StoreCopy, Post, PostAgain, FindEdited,
     EditCopy, StartDeletion, poller
<1> QED
  BY <1>1, ExternalFrame, SenderFrame, DeletionFrame, RemoverFrame
     DEF Next, PollerStep, Poll, Crash, vars, poller, server

\* A copy is new, or is edited, to the event that is being handled.
LEMMA ShownStep ==
    ASSUME [Next]_vars
    PROVE  \/ shown' = shown
           \/ \E e \in DOMAIN events, d \in Dc : Handling(e) /\ shown' = [shown EXCEPT ![d] = e]
                                                 /\ UNCHANGED <<batch, queue>>
           \/ \E e \in DOMAIN events : Handling(e) /\ shown' = [shown EXCEPT ![found] = e]
                                       /\ bpc = "edit" /\ UNCHANGED <<batch, queue>>
<1>1. ASSUME NEW e \in DOMAIN events, HandleStep(e), ~EditCopy(e), \A d \in Dc : ~Post(e, d) /\ ~PostAgain(e, d)
      PROVE  shown' = shown
  BY <1>1 DEF HandleStep, Unroutable, FindMessage, PostFails, StoreCopy, FindEdited, StartDeletion,
     Ack, AckLost, channel
<1>2. ASSUME NEW e \in DOMAIN events, NEW d \in Dc, Post(e, d) \/ PostAgain(e, d)
      PROVE  Handling(e) /\ shown' = [shown EXCEPT ![d] = e] /\ UNCHANGED <<batch, queue>>
  BY <1>2 DEF Post, PostAgain, PostCopy, server, poller
<1>3. ASSUME NEW e \in DOMAIN events, EditCopy(e)
      PROVE  \/ shown' = shown
             \/ Handling(e) /\ shown' = [shown EXCEPT ![found] = e] /\ bpc = "edit" /\ UNCHANGED <<batch, queue>>
  BY <1>3 DEF EditCopy, server
<1> QED
  BY <1>1, <1>2, <1>3, ExternalFrame, SenderFrame, DeletionFrame, RemoverFrame, PollFrame
     DEF Next, PollerStep, Crash, vars, channel

LEMMA StepQueued ==
    ASSUME TypeOK, BatchQueued, [Next]_vars
    PROVE  BatchQueued'
<1>1. ASSUME NEW e \in DOMAIN events, Ack(e) \/ AckLost(e)
      PROVE  BatchQueued'
  BY <1>1 DEF BatchQueued, Ack, AckLost, After, server
<1> QED  BY <1>1, QueueStep, BatchStep DEF BatchQueued

\* A new event is the newest.
LEMMA StepFirst ==
    ASSUME TypeOK, EditInv, [Next]_vars
    PROVE  BatchFirst'
<1>1. /\ BatchQueued /\ BatchFirst
      /\ batch \subseteq 1..Len(events) /\ Len(events) \in Nat
  BY EventType DEF EditInv, TypeOK
<1>2. SUFFICES ASSUME Without({"lost"})', NEW e \in batch', NEW q \in queue'
               PROVE  q \in batch' \/ e < q
  BY DEF BatchFirst
<1>3. Without({"lost"}) /\ ~Fault("lost")
  BY <1>2, WithoutKept
<1>4. ASSUME NEW f \in DOMAIN events, Ack(f)
      PROVE  q \in batch' \/ e < q
  BY <1>1, <1>2, <1>3, <1>4 DEF Ack, After, BatchFirst
<1>5. ~\E f : AckLost(f)
  BY <1>3 DEF AckLost
<1>6. CASE batch' = batch /\ \A f \in DOMAIN events : ~Ack(f)
  <2>1. q \in queue \/ q = Len(events) + 1
    BY <1>2, <1>6, QueueStep
  <2> QED  BY <1>1, <1>2, <1>3, <1>6, <2>1 DEF BatchFirst
<1> QED  BY <1>2, <1>4, <1>5, <1>6, BatchStep

\* The event that is handled is the oldest of those that are not acked.
LEMMA OldestHandled ==
    ASSUME TypeOK, EditInv, Without({"lost"}), NEW e, Handling(e), NEW q \in queue
    PROVE  e \in queue /\ e <= q
<1>1. e \in batch /\ e \in queue /\ e \in Nat /\ q \in Nat
  BY EventType DEF TypeOK, EditInv, BatchQueued, Handling, IsLeast
<1> QED  BY <1>1 DEF EditInv, BatchFirst, Handling, IsLeast

LEMMA StepShown ==
    ASSUME TypeOK, EditInv, [Next]_vars
    PROVE  ShownFirst'
<1>1. /\ ShownFirst /\ queue \subseteq 1..Len(events) /\ Len(events) \in Nat
      /\ shown \in [Dc -> 0..Len(events)] /\ (bpc = "edit" => found \in Dc)
  BY EventType DEF EditInv, TypeOK, Dc, None
<1>2. SUFFICES ASSUME Without({"lost"})', NEW d \in Dc, NEW q \in queue'
               PROVE  shown'[d] <= q
  BY DEF ShownFirst
<1>3. Without({"lost"})
  BY <1>2, WithoutKept
<1>4. CASE shown' = shown
  <2>1. q \in queue \/ q = Len(events) + 1
    <3>1. \A e \in DOMAIN events : Ack(e) => queue' \subseteq queue
      BY DEF Ack
    <3> QED  BY <1>2, <3>1, QueueStep
  <2>2. shown[d] \in 0..Len(events)
    BY <1>1
  <2>3. CASE q \in queue
    BY <1>1, <1>3, <1>4, <2>3 DEF ShownFirst
  <2>4. CASE q = Len(events) + 1
    BY <1>1, <1>4, <2>2, <2>4
  <2> QED  BY <2>1, <2>3, <2>4
<1>5. ASSUME NEW e \in DOMAIN events, Handling(e), NEW n \in Dc, shown' = [shown EXCEPT ![n] = e],
             UNCHANGED <<batch, queue>>
      PROVE  shown'[d] <= q
  <2>1. e <= q /\ shown[d] <= q
    BY <1>1, <1>2, <1>3, <1>5, OldestHandled DEF ShownFirst
  <2> QED  BY <1>1, <1>5, <2>1
<1> QED  BY <1>1, <1>4, <1>5, ShownStep

THEOREM EditInvariance == Spec => []EditInv
<1>1. Init => EditInv
  BY DEF Init, EditInv, BatchQueued, BatchFirst, ShownFirst
<1>2. TypeOK /\ EditInv /\ [Next]_vars => EditInv'
  BY StepQueued, StepFirst, StepShown DEF EditInv
<1> QED  BY <1>1, <1>2, TypeCorrect, PTL DEF Spec

\* While no ack is lost, a copy never goes back to an older text.
THEOREM EditsKeepOrder == Spec => EditsInOrder
<1>1. ASSUME TypeOK, EditInv, [Next]_vars
      PROVE  [Without({"lost"}) => \A d \in Dc : shown'[d] >= shown[d]]_vars
  <2>1. SUFFICES ASSUME Without({"lost"}), NEW d \in Dc
                 PROVE  shown'[d] >= shown[d]
    OBVIOUS
  <2>2. /\ shown \in [Dc -> 0..Len(events)] /\ Len(events) \in Nat /\ (bpc = "edit" => found \in Dc)
        /\ DOMAIN events \subseteq Nat
    BY <1>1, EventType DEF TypeOK, None
  <2>3. ASSUME NEW e \in DOMAIN events, Handling(e), NEW n \in Dc, shown' = [shown EXCEPT ![n] = e]
        PROVE  shown'[d] >= shown[d]
    <3>1. e \in queue /\ shown[n] <= e
      BY <1>1, <2>1, <2>3 DEF EditInv, BatchQueued, ShownFirst, Handling, IsLeast
    <3> QED  BY <2>2, <2>3, <3>1
  <2> QED  BY <1>1, <2>2, <2>3, ShownStep
<1> QED  BY <1>1, TypeCorrect, EditInvariance, PTL DEF Spec, EditsInOrder

--------------------------------------------------------------------------------
(* When nothing failed *)

\* A step after which nothing has failed is none of those that fail.
LEMMA CleanNext ==
    ASSUME TypeOK, [Next]_vars, Clean'
    PROVE  /\ Clean /\ ~Crash
           /\ \A d : ~SendFails(d) /\ ~SendDeletionFails(d)
           /\ \A e : ~Unroutable(e) /\ ~PostFails(e) /\ ~AckLost(e) /\ \A d : ~PostAgain(e, d)
           /\ \A t : ~EraseFails(t)
<1>1. Clean /\ \A k : ~Fault(k)
  BY CleanStep
<1> QED
  BY <1>1 DEF Crash, SendFails, SendDeletionFails, Unroutable, PostFails, AckLost, PostAgain, EraseFails

\* Then no fault of any kind has happened.
LEMMA CleanWithout ==
    ASSUME Clean, NEW K
    PROVE  Without(K)
BY DEF Clean, Without, ToSet

Deleting == {"delete", "unmap", "siblings", "erase"}

\* No two events relay one message.
MessagesDiffer ==
    \A e, f \in DOMAIN events :
        e # f /\ events[e].kind = "message" /\ events[f].kind = "message"
            => events[e].ids \cap events[f].ids = {}

\* Ids are left to handle only in a deletion, and to store only while they are stored.
TodoEmpty == bpc \notin Deleting => todo = {}
RestEmpty == \A d \in Dc : spc[d] # "storing" => rest[d] = {}

\* What is deleted in Telegram for a Discord message is what it stands for.
AskedSound == \A d \in Dc : ids[d] \subseteq about[d]

\* The deletion of a copy is over, or has found no row, before the copy is stored.
StoreUnreported == bpc = "store" => dpc[found] \in {"none", "lookup", "done"}

LEMMA StepDiffer ==
    ASSUME Basics, MessagesDiffer, [Next]_vars
    PROVE  MessagesDiffer'
<1>1. TypeOK /\ Types /\ EventSound
  BY DEF Basics, IdsSound
<1>2. ASSUME NEW kind \in {"message", "edit", "deletion"}, NEW tgs \in SUBSET Tg, Enqueue(kind, tgs),
             kind = "message" => tgs = {nextTg}
      PROVE  MessagesDiffer'
  <2> DEFINE r == [kind |-> kind, ids |-> tgs]
  <2>1. r.kind = kind /\ r.ids = tgs
    OBVIOUS
  <2>2. /\ DOMAIN events' = DOMAIN events \cup {Len(events) + 1}
        /\ \A e \in DOMAIN events : events'[e] = events[e]
        /\ events'[Len(events) + 1] = r
    BY <1>1, <1>2, EnqueueType
  <2>3. \A e \in DOMAIN events : nextTg \notin events[e].ids
    BY <1>1 DEF EventSound, Before, Types
  <2> HIDE DEF r
  <2> QED  BY <1>2, <2>1, <2>2, <2>3 DEF MessagesDiffer
<1>3. CASE RelayMessage
  <2>1. {nextTg} \in SUBSET Tg
    BY <1>3 DEF RelayMessage
  <2> QED  BY <1>2, <1>3, <2>1 DEF RelayMessage
<1>4. ASSUME NEW t \in Tg, RelayEdit(t)
      PROVE  \E kind \in {"edit"}, tgs \in SUBSET Tg : Enqueue(kind, tgs)
  BY <1>4 DEF RelayEdit
<1>5. ASSUME NEW tgs \in SUBSET Tg, RelayDeletion(tgs)
      PROVE  Enqueue("deletion", tgs)
  BY <1>5 DEF RelayDeletion
<1> QED  BY <1>2, <1>3, <1>4, <1>5, EventsStep DEF MessagesDiffer

LEMMA StepTodo ==
    ASSUME TypeOK, TodoEmpty, [Next]_vars
    PROVE  TodoEmpty'
<1>1. ASSUME NEW e \in DOMAIN events, HandleStep(e)
      PROVE  TodoEmpty'
  BY <1>1 DEF HandleStep, Unroutable, FindMessage, PostFails, StoreCopy, Post, PostAgain, FindEdited,
     EditCopy, StartDeletion, Ack, AckLost, After, TodoEmpty, Deleting, poller
<1>2. CASE DeletionStep
  BY <1>2 DEF DeletionStep, FindDeleted, UnmapDeleted, CheckSiblings, DecideToErase, Erase, EraseFails,
     EndDeletion, TodoEmpty, Deleting
<1>3. CASE Poll
  BY <1>3 DEF Poll, TodoEmpty, Deleting
<1>4. CASE Crash
  BY <1>4 DEF Crash, TodoEmpty
<1> QED
  BY <1>1, <1>2, <1>3, <1>4, ExternalFrame, SenderFrame, RemoverFrame
     DEF Next, PollerStep, vars, poller, TodoEmpty

LEMMA StepRest ==
    ASSUME Types, DcKnown, RestEmpty, [Next]_vars
    PROVE  RestEmpty'
<1>1. SUFFICES ASSUME NEW d \in Dc
               PROVE  spc'[d] # "storing" => rest'[d] = {}
  BY DEF RestEmpty
<1>2. ASSUME NEW n \in Dc, SenderStep(n)
      PROVE  spc'[d] # "storing" => rest'[d] = {}
  BY <1>2 DEF SenderStep, PlaceMessage, Answered, SendFails, StoreSent, RestEmpty, Types
<1>3. CASE External
  <2>1. ASSUME NEW n \in Dc, UserWrites(n), spc'[d] # "storing"
        PROVE  rest'[d] = {}
    <3>1. n = nextDc /\ rest' = rest /\ \A k \in Dc : k # n => spc'[k] = spc[k]
      BY <2>1 DEF UserWrites, NewDc, Types
    <3>2. spc[n] = "none"
      BY <3>1 DEF DcKnown, Types
    <3>3. CASE d = n
      BY <3>1, <3>2, <3>3 DEF RestEmpty
    <3>4. CASE d # n
      BY <2>1, <3>1, <3>4, <1>1 DEF RestEmpty
    <3> QED  BY <3>3, <3>4
  <2> QED
    BY <1>3, <2>1 DEF External, RelayMessage, RelayEdit, RelayDeletion, UserDeletes, sender, RestEmpty
<1>4. CASE Crash
  BY <1>4 DEF Crash
<1> QED
  BY <1>2, <1>3, <1>4, HandleFrame, DeletionFrame, RemoverFrame, PollFrame
     DEF Next, PollerStep, vars, sender, RestEmpty

\* The step of a deletion's task changes no other task, and asks for rows only.
LEMMA IdsStep ==
    ASSUME [Next]_vars
    PROVE  ids' = ids \/ \E d \in Dc : ExecuteDelete(d)
<1>1. ASSUME NEW d \in Dc, RemoverStep(d), ~ExecuteDelete(d)
      PROVE  ids' = ids
  BY <1>1 DEF RemoverStep, OnRawDelete, LookupDeleted, SendDeletion, SendDeletionFails, DeleteRows, remover
<1> QED
  BY <1>1, ExternalFrame, SenderFrame, HandleFrame, DeletionFrame, PollFrame
     DEF Next, PollerStep, Crash, vars, remover

LEMMA StepAsked ==
    ASSUME Basics, AskedSound, [Next]_vars
    PROVE  AskedSound'
<1>1. TypeOK /\ Types /\ DcKnown /\ RowSound
  BY DEF Basics, IdsSound
<1>2. SUFFICES ASSUME NEW d \in Dc
               PROVE  ids'[d] \subseteq about'[d]
  BY DEF AskedSound
<1>3. CASE ids' = ids
  <2>1. ASSUME NEW n \in Dc, PlaceMessage(n)
        PROVE  ids[d] \subseteq about'[d]
    <3>1. n # d => about'[d] = about[d]
      BY <1>1, <2>1, PlaceType
    <3>2. n = d => about[d] = {}
      BY <1>1, <2>1 DEF PlaceMessage, RowSound
    <3> QED  BY <3>1, <3>2 DEF AskedSound
  <2>2. ASSUME NEW e \in DOMAIN events, NEW n \in Dc, Post(e, n) \/ PostAgain(e, n)
        PROVE  ids[d] \subseteq about'[d]
    <3>1. n = nextDc /\ about' = [about EXCEPT ![n] = events[e].ids]
      BY <2>2 DEF Post, PostAgain, PostCopy, NewDc
    <3>2. n # d => about'[d] = about[d]
      BY <1>1, <3>1 DEF Types
    <3>3. n = d => about[d] = {}
      BY <1>1, <3>1 DEF DcKnown, Types
    <3> QED  BY <3>2, <3>3 DEF AskedSound
  <2> QED  BY <1>3, <2>1, <2>2, AboutStep DEF AskedSound
<1>4. ASSUME NEW n \in Dc, ExecuteDelete(n)
      PROVE  ids'[d] \subseteq about'[d]
  <2>1. ids' = [ids EXCEPT ![n] = RowsOf(n)] /\ about' = about /\ ids \in [Dc -> SUBSET Tg]
    BY <1>1, <1>4 DEF ExecuteDelete, channel, TypeOK
  <2>2. RowsOf(n) \subseteq about[n]
    BY <1>1, NoneDc DEF RowSound, RowsOf
  <2> QED  BY <2>1, <2>2 DEF AskedSound
<1> QED  BY <1>3, <1>4, IdsStep

\* The steps of a deletion's task.
LEMMA RemovingStep ==
    ASSUME Types, [Next]_vars, NEW d \in Dc, dpc[d] \in {"none", "lookup", "done"}
    PROVE  dpc'[d] \in {"none", "lookup", "done"} \/ (LookupDeleted(d) /\ RowsOf(d) # {})
<1>1. ASSUME NEW n \in Dc, RemoverStep(n)
      PROVE  dpc'[d] \in {"none", "lookup", "done"} \/ (LookupDeleted(d) /\ RowsOf(d) # {})
  <2>1. CASE n = d
    BY <1>1, <2>1 DEF RemoverStep, OnRawDelete, LookupDeleted, ExecuteDelete, SendDeletion, SendDeletionFails,
       DeleteRows, Types
  <2>2. CASE n # d
    BY <1>1, <2>2 DEF RemoverStep, OnRawDelete, LookupDeleted, ExecuteDelete, SendDeletion, SendDeletionFails,
       DeleteRows, Types
  <2> QED  BY <2>1, <2>2
<1>2. CASE Crash
  BY <1>2 DEF Crash, Types
<1> QED
  BY <1>1, <1>2, ExternalFrame, SenderFrame, HandleFrame, DeletionFrame, PollFrame
     DEF Next, PollerStep, vars, remover

LEMMA StepUnreported ==
    ASSUME Basics, CopyInv, StoreUnreported, [Next]_vars
    PROVE  StoreUnreported'
<1>1. TypeOK /\ Types /\ DcKnown /\ RowSound /\ PostSound /\ HandUnmapped
  BY DEF Basics, IdsSound, CopyInv
<1>2. CASE bpc = "store" /\ found' = found
  <2>1. found \in Dc
    BY <1>1, <1>2 DEF TypeOK
  <2>2. RowsOf(found) = {}
    BY <1>1, <1>2, <2>1, NoneDc DEF HandUnmapped, PostSound, RowsOf, RowSound
  <2> QED  BY <1>1, <1>2, <2>1, <2>2, RemovingStep DEF StoreUnreported
<1>3. ASSUME NEW e \in DOMAIN events, NEW d \in Dc, Post(e, d)
      PROVE  StoreUnreported'
  <2>1. found' = d /\ d = nextDc /\ dpc' = dpc
    BY <1>3 DEF Post, PostCopy, NewDc, remover
  <2>2. dpc[d] = "none"
    BY <1>1, <2>1 DEF DcKnown, Types
  <2> QED  BY <2>1, <2>2 DEF StoreUnreported
<1>4. CASE bpc' # "store"
  BY <1>4 DEF StoreUnreported
<1> QED
  BY <1>2, <1>3, <1>4, HandStep
     DEF FindDeleted, UnmapDeleted, CheckSiblings, DecideToErase, Erase, EraseFails, StoreCopy, Crash

\* Two Discord messages stand for different Telegram messages, ...
Disjoint == Clean => \A d, n \in Dc : d # n => about[d] \cap about[n] = {}

\* ... and none stands yet for a message that is still to be posted.
Unposted(e) == events[e].kind = "message" /\ ~(Handling(e) /\ bpc \in {"store", "ack"})

Fresh == Clean => \A e \in queue : Unposted(e) => \A d \in Dc : about[d] \cap events[e].ids = {}

\* When a message is deleted before it is stored, the deletion is still to come.
Unstored(e) == events[e].kind = "message" /\ ~(Handling(e) /\ bpc = "ack")

DeletionOf(f, t) == events[f].kind = "deletion" /\ t \in events[f].ids

MessagePending ==
    Clean => \A e \in queue : Unstored(e) =>
        \A t \in events[e].ids \ tg : \E f \in queue : e < f /\ DeletionOf(f, t)

\* An event stays what it is.
LEMMA EventsGrow ==
    ASSUME TypeOK, [Next]_vars, NEW e \in DOMAIN events
    PROVE  e \in DOMAIN events' /\ events'[e] = events[e]
<1>1. ASSUME NEW kind \in {"message", "edit", "deletion"}, NEW tgs \in SUBSET Tg, Enqueue(kind, tgs)
      PROVE  e \in DOMAIN events' /\ events'[e] = events[e]
  BY <1>1, EnqueueType
<1>2. CASE RelayMessage
  <2>1. {nextTg} \in SUBSET Tg
    BY <1>2 DEF RelayMessage
  <2> QED  BY <1>1, <1>2, <2>1 DEF RelayMessage
<1>3. ASSUME NEW t \in Tg, RelayEdit(t)
      PROVE  \E kind \in {"edit"}, tgs \in SUBSET Tg : Enqueue(kind, tgs)
  BY <1>3 DEF RelayEdit
<1>4. ASSUME NEW tgs \in SUBSET Tg, RelayDeletion(tgs)
      PROVE  Enqueue("deletion", tgs)
  BY <1>4 DEF RelayDeletion
<1> QED  BY <1>1, <1>2, <1>3, <1>4, EventsStep

\* The event that a step relays.
LEMMA NewIs ==
    ASSUME TypeOK, NEW kind \in {"message", "edit", "deletion"}, NEW tgs \in SUBSET Tg,
           Enqueue(kind, tgs), NEW e \in queue', e \notin queue
    PROVE  /\ events'[e].kind = kind /\ events'[e].ids = tgs
           /\ e \notin DOMAIN events /\ \A f \in DOMAIN events : f < e
<1> DEFINE r == [kind |-> kind, ids |-> tgs]
<1>1. r.kind = kind /\ r.ids = tgs
  OBVIOUS
<1>2. events'[Len(events) + 1] = r
  BY EnqueueType
<1>3. /\ queue' = queue \cup {Len(events')} /\ Len(events') = Len(events) + 1
      /\ Len(events) \in Nat /\ DOMAIN events = 1..Len(events)
  BY EnqueueType, EventType DEF Enqueue
<1> HIDE DEF r
<1>4. e = Len(events) + 1
  BY <1>3
<1> QED  BY <1>1, <1>2, <1>3, <1>4

\* It changes nothing else, and only a new message is relayed.
LEMMA QueueGrows ==
    ASSUME TypeOK, [Next]_vars, NEW e \in queue', e \notin queue
    PROVE  /\ e \notin DOMAIN events /\ \A f \in DOMAIN events : f < e
           /\ External
           /\ events'[e].kind = "message" => RelayMessage /\ events'[e].ids = {nextTg}
<1>1. CASE RelayMessage
  <2>1. {nextTg} \in SUBSET Tg
    BY <1>1 DEF RelayMessage
  <2>2. Enqueue("message", {nextTg})
    BY <1>1 DEF RelayMessage
  <2> QED  BY <1>1, <2>1, <2>2, NewIs DEF External
<1>2. ASSUME NEW t \in Tg, RelayEdit(t)
      PROVE  /\ e \notin DOMAIN events /\ \A f \in DOMAIN events : f < e
             /\ events'[e].kind = "edit"
  <2>1. {t} \in SUBSET Tg /\ Enqueue("edit", {t})
    BY <1>2 DEF RelayEdit
  <2> QED  BY <2>1, NewIs
<1>3. ASSUME NEW tgs \in SUBSET Tg, RelayDeletion(tgs)
      PROVE  /\ e \notin DOMAIN events /\ \A f \in DOMAIN events : f < e
             /\ events'[e].kind = "deletion"
  <2>1. Enqueue("deletion", tgs)
    BY <1>3 DEF RelayDeletion
  <2> QED  BY <2>1, NewIs
<1>4. events' = events => queue' \subseteq queue
  <2>1. ASSUME NEW kind \in {"message", "edit", "deletion"}, NEW tgs \in SUBSET Tg, Enqueue(kind, tgs)
        PROVE  events' # events
    <3>1. Len(events') = Len(events) + 1 /\ Len(events) \in Nat
      BY <2>1, EnqueueType, EventType
    <3>2. events' = events => Len(events') = Len(events)
      OBVIOUS
    <3> QED  BY <3>1, <3>2
  <2>2. \A f \in DOMAIN events : Ack(f) => queue' \subseteq queue
    BY DEF Ack
  <2>3. CASE External /\ events' = events
    BY <2>1, <2>3 DEF External, RelayMessage, RelayEdit, RelayDeletion, UserWrites, UserDeletes, server
  <2>4. ASSUME NEW f \in DOMAIN events, HandleStep(f), ~Ack(f)
        PROVE  queue' = queue
    BY <2>4 DEF HandleStep, Unroutable, FindMessage, PostFails, StoreCopy, Post, PostAgain, FindEdited,
       EditCopy, StartDeletion, AckLost, server
  <2> QED
    BY <2>2, <2>3, <2>4, SenderFrame, DeletionFrame, RemoverFrame, PollFrame
       DEF Next, PollerStep, Crash, vars, server
<1> QED  BY <1>1, <1>2, <1>3, <1>4, EventsStep DEF External

\* A deletion on the server's side is relayed.
LEMMA NewDeletion ==
    ASSUME TypeOK, NEW tgs \in SUBSET Tg, RelayDeletion(tgs), NEW t \in tgs
    PROVE  \E f \in queue' : f \notin DOMAIN events /\ DeletionOf(f, t)' /\ \A e \in DOMAIN events : e < f
<1>1. Enqueue("deletion", tgs)
  BY DEF RelayDeletion
<1>2. /\ Len(events') \in queue' /\ Len(events') = Len(events) + 1 /\ Len(events) \in Nat
      /\ queue \subseteq 1..Len(events)
  BY <1>1, EnqueueType, EventType DEF Enqueue, TypeOK
<1>3. Len(events') \notin queue
  BY <1>2
<1> QED  BY <1>1, <1>2, <1>3, NewIs DEF DeletionOf

\* The message in hand stays in hand until it is acked.
LEMMA HandlingKept ==
    ASSUME Types, [Next]_vars, ~Crash, \A f : ~AckLost(f),
           NEW e, Handling(e), bpc \in {"store", "ack"}
    PROVE  Ack(e) \/ (batch' = batch /\ bpc' \in {bpc, "ack"})
<1>1. ASSUME NEW f \in DOMAIN events, HandleStep(f)
      PROVE  Ack(e) \/ (batch' = batch /\ bpc' \in {bpc, "ack"})
  <2>1. ASSUME Ack(f)
        PROVE  Ack(e)
    BY <2>1, HandlingOne DEF Ack
  <2> QED
    BY <1>1, <2>1 DEF HandleStep, Unroutable, FindMessage, PostFails, StoreCopy, Post, PostAgain, FindEdited,
       EditCopy, StartDeletion, poller
<1>2. ~DeletionStep /\ ~Poll
  BY DEF DeletionStep, FindDeleted, UnmapDeleted, CheckSiblings, Erase, EraseFails, EndDeletion, Poll
<1> QED
  BY <1>1, <1>2, ExternalFrame, SenderFrame, RemoverFrame DEF Next, PollerStep, vars, poller

\* What is to be posted, or stored, was so before.
LEMMA UnpostedBefore ==
    ASSUME TypeOK, Types, [Next]_vars, ~Crash, \A f : ~AckLost(f),
           NEW e \in queue, e \in queue'
    PROVE  /\ Unposted(e)' => Unposted(e)
           /\ Unstored(e)' => Unstored(e)
           /\ events'[e] = events[e] /\ e \in DOMAIN events
<1>1. e \in DOMAIN events /\ events'[e] = events[e]
  BY EventsGrow DEF TypeOK
<1>2. Handling(e) /\ bpc \in {"store", "ack"} => ~Ack(e)
  BY DEF Ack
<1>3. ASSUME Handling(e), bpc \in {"store", "ack"}
      PROVE  Handling(e)' /\ bpc' \in {bpc, "ack"}
  BY <1>2, <1>3, HandlingKept DEF Handling, IsLeast
<1> QED  BY <1>1, <1>3 DEF Unposted, Unstored

\* A copy is posted for a message that is still to be posted.
LEMMA PostUnposted ==
    ASSUME Basics, BatchQueued, NEW e \in DOMAIN events, NEW d, Post(e, d)
    PROVE  e \in queue /\ Unposted(e) /\ ~Unposted(e)'
<1>1. e \in queue /\ Unposted(e)
  BY DEF Basics, Post, PostSound, Unposted, Handling, IsLeast, BatchQueued
<1>2. Handling(e)' /\ bpc' = "store"
  BY DEF Post, Handling, IsLeast
<1> QED  BY <1>1, <1>2 DEF Unposted

LEMMA StepDisjoint ==
    ASSUME Basics, BatchQueued, Fresh, Disjoint, [Next]_vars
    PROVE  Disjoint'
<1>1. TypeOK /\ Types /\ TgKnown
  BY DEF Basics, IdsSound
<1>2. SUFFICES ASSUME Clean', NEW d \in Dc, NEW n \in Dc, d # n
               PROVE  about'[d] \cap about'[n] = {}
  BY DEF Disjoint
<1>3. Clean /\ \A e, k : ~PostAgain(e, k)
  BY <1>1, <1>2, CleanNext
<1>4. ASSUME NEW k \in Dc, PlaceMessage(k)
      PROVE  about'[d] \cap about'[n] = {}
  <2>1. /\ \A m \in Dc \ {k} : about'[m] = about[m] /\ \A t \in about[m] : t < nextTg
        /\ \A t \in about'[k] : nextTg <= t /\ t \in Tg
    BY <1>1, <1>4, PlaceType DEF TgKnown, Before
  <2>2. \A m \in Dc \ {k} : about'[m] \cap about'[k] = {}
    <3>1. \A t \in about'[k] : nextTg <= t /\ t \in Nat /\ nextTg \in Nat
      BY <1>1, <2>1 DEF Types
    <3>2. \A t \in about'[k] : ~(t < nextTg)
      BY <3>1
    <3> QED  BY <2>1, <3>2
  <2> QED  BY <1>2, <1>3, <2>1, <2>2 DEF Disjoint
<1>5. ASSUME NEW e \in DOMAIN events, NEW k \in Dc, Post(e, k)
      PROVE  about'[d] \cap about'[n] = {}
  <2>1. about' = [about EXCEPT ![k] = events[e].ids]
    BY <1>5 DEF Post, PostCopy
  <2>2. \A m \in Dc : about[m] \cap events[e].ids = {}
    BY <1>3, <1>5, PostUnposted DEF Fresh
  <2>3. about'[k] = events[e].ids /\ \A m \in Dc \ {k} : about'[m] = about[m]
    BY <1>1, <2>1 DEF Types
  <2> QED  BY <1>2, <1>3, <2>2, <2>3 DEF Disjoint
<1> QED  BY <1>2, <1>3, <1>4, <1>5, AboutStep DEF Disjoint

LEMMA StepFresh ==
    ASSUME Basics, BatchQueued, MessagesDiffer, Fresh, [Next]_vars
    PROVE  Fresh'
<1>1. TypeOK /\ Types /\ TgKnown /\ EventSound
  BY DEF Basics, IdsSound
<1>2. SUFFICES ASSUME Clean', NEW e \in queue', Unposted(e)', NEW d \in Dc
               PROVE  about'[d] \cap events'[e].ids = {}
  BY DEF Fresh
<1>3. /\ Clean /\ ~Crash /\ \A f : ~AckLost(f)
      /\ \A f, k : ~PostAgain(f, k)
  BY <1>1, <1>2, CleanNext
<1>4. CASE e \notin queue
  <2>1. External /\ events'[e].ids = {nextTg}
    BY <1>1, <1>2, <1>4, QueueGrows DEF Unposted
  <2>2. about' = about
    BY <2>1, ExternalFrame
  <2> QED  BY <1>1, <2>1, <2>2 DEF TgKnown, Before, Types
<1>5. CASE e \in queue
  <2>1. Unposted(e) /\ events'[e] = events[e] /\ e \in DOMAIN events
    BY <1>1, <1>2, <1>3, <1>5, UnpostedBefore
  <2>2. about[d] \cap events[e].ids = {}
    BY <1>3, <1>5, <2>1 DEF Fresh
  <2>3. ASSUME NEW k \in Dc, PlaceMessage(k)
        PROVE  about'[d] \cap events[e].ids = {}
    <3>1. \A t \in about'[k] : nextTg <= t /\ t \in Nat /\ nextTg \in Nat
      BY <1>1, <2>3, PlaceType DEF Types
    <3>2. \A t \in events[e].ids : t < nextTg
      BY <1>1, <2>1 DEF EventSound, Before
    <3>3. about'[k] \cap events[e].ids = {}
      <4>1. \A t \in about'[k] : ~(t < nextTg)
        BY <3>1
      <4> QED  BY <3>2, <4>1
    <3> QED  BY <1>1, <2>2, <2>3, <3>3, PlaceType
  <2>4. ASSUME NEW f \in DOMAIN events, NEW k \in Dc, Post(f, k)
        PROVE  about'[d] \cap events[e].ids = {}
    <3>1. f # e /\ events[f].kind = "message" /\ events[e].kind = "message"
      BY <1>2, <2>1, <2>4, PostUnposted DEF Unposted
    <3>2. events[f].ids \cap events[e].ids = {}
      BY <2>1, <3>1 DEF MessagesDiffer
    <3>3. about'[d] \in {about[d], events[f].ids}
      BY <1>1, <2>4 DEF Post, PostCopy, Types
    <3> QED  BY <2>2, <3>2, <3>3
  <2> QED  BY <1>3, <2>1, <2>2, <2>3, <2>4, AboutStep
<1> QED  BY <1>4, <1>5

\* How messages leave Telegram.
LEMMA TgStep ==
    ASSUME [Next]_vars
    PROVE  \/ tg \subseteq tg'
           \/ \E tgs \in SUBSET Tg : RelayDeletion(tgs)
           \/ \E d \in Dc : SendDeletion(d)
<1>1. CASE External
  BY <1>1 DEF External, RelayMessage, RelayEdit, UserWrites, UserDeletes, server
<1>2. ASSUME NEW d \in Dc, SenderStep(d)
      PROVE  tg \subseteq tg'
  BY <1>2 DEF SenderStep, PlaceMessage, Answered, SendFails, StoreSent, server
<1>3. ASSUME NEW d \in Dc, RemoverStep(d), ~SendDeletion(d)
      PROVE  tg' = tg
  BY <1>3 DEF RemoverStep, OnRawDelete, LookupDeleted, ExecuteDelete, SendDeletionFails, DeleteRows, server
<1> QED
  BY <1>1, <1>2, <1>3, HandleFrame, DeletionFrame, PollFrame DEF Next, PollerStep, Crash, vars, server

LEMMA StepPending ==
    ASSUME Basics, EditInv, AskedSound, StoreUnreported, Disjoint, Fresh, MessagePending, [Next]_vars
    PROVE  MessagePending'
<1>1. TypeOK /\ Types /\ EventSound /\ PostSound /\ BatchQueued
  BY DEF Basics, IdsSound, EditInv
<1>2. SUFFICES ASSUME Clean', NEW e \in queue', Unstored(e)', NEW t \in events'[e].ids, t \notin tg'
               PROVE  \E f \in queue' : e < f /\ DeletionOf(f, t)'
  BY DEF MessagePending
<1>3. Clean /\ ~Crash /\ \A f : ~AckLost(f)
  BY <1>1, <1>2, CleanNext
<1>4. e \in queue
  <2>1. SUFFICES ASSUME e \notin queue
                 PROVE  FALSE
    OBVIOUS
  <2>2. RelayMessage /\ events'[e].ids = {nextTg}
    BY <1>1, <1>2, <2>1, QueueGrows DEF Unstored
  <2> QED  BY <1>2, <2>2 DEF RelayMessage
<1>5. Unstored(e) /\ events'[e] = events[e] /\ e \in DOMAIN events
  BY <1>1, <1>2, <1>3, <1>4, UnpostedBefore
<1>6. CASE t \notin tg
  <2>1. PICK f \in queue : e < f /\ DeletionOf(f, t)
    BY <1>2, <1>3, <1>4, <1>5, <1>6 DEF MessagePending
  <2>2. f \in DOMAIN events /\ events'[f] = events[f]
    BY <1>1, EventsGrow DEF TypeOK
  <2>3. ~Ack(f)
    <3>1. SUFFICES ASSUME Handling(f)
                   PROVE  FALSE
      BY DEF Ack
    <3>2. f <= e
      BY <1>1, <1>3, <1>4, <3>1, OldestHandled, CleanWithout
    <3> QED  BY <1>1, <1>5, <2>1, <2>2, <3>2 DEF Types
  <2>4. f \in queue'
    <3>1. \A g \in DOMAIN events : Ack(g) => queue' = queue \ {g}
      BY DEF Ack
    <3> QED  BY <1>1, <2>3, <3>1, QueueStep
  <2> QED  BY <2>1, <2>2, <2>4 DEF DeletionOf
<1>7. CASE t \in tg
  <2>1. ASSUME NEW tgs \in SUBSET Tg, RelayDeletion(tgs)
        PROVE  \E f \in queue' : e < f /\ DeletionOf(f, t)'
    <3>1. t \in tgs
      BY <1>2, <1>7, <2>1 DEF RelayDeletion
    <3> QED  BY <1>1, <1>5, <2>1, <3>1, NewDeletion
  <2>2. ASSUME NEW d \in Dc, SendDeletion(d)
        PROVE  FALSE
    <3>1. dpc[d] = "send" /\ t \in about[d]
      BY <1>2, <1>7, <2>2 DEF SendDeletion, AskedSound
    <3>2. CASE Unposted(e)
      BY <1>3, <1>4, <1>2, <1>5, <3>1, <3>2 DEF Fresh
    <3>3. CASE ~Unposted(e)
      <4>1. Handling(e) /\ bpc = "store"
        BY <1>5, <3>3 DEF Unposted, Unstored
      <4>2. found \in Dc /\ t \in about[found]
        BY <1>1, <1>2, <1>5, <4>1 DEF PostSound, TypeOK
      <4>3. d = found
        BY <1>3, <3>1, <4>2 DEF Disjoint
      <4> QED  BY <3>1, <4>1, <4>3 DEF StoreUnreported
    <3> QED  BY <3>2, <3>3
  <2> QED  BY <1>2, <1>7, <2>1, <2>2, TgStep
<1> QED  BY <1>6, <1>7

\* An id is unmapped only when the rows of its message are all there: those that are left
\* are told of in torn.
LeastSettled ==
    Clean /\ bpc \in {"unmap", "siblings", "erase"} =>
        \A t \in todo : IsLeast(t, todo) => \A d \in Dc \ torn : t \in about[d] =>
            /\ Settled(d)
            /\ map[t] = d => bpc = "unmap" /\ d = found

\* A deletion that is still to be handled, or is being handled and has not come to id t.
Pending(t) == \E f \in queue : DeletionOf(f, t) /\ (Handling(f) /\ bpc # "event" => t \in todo)

\* A row that is there, or is still to be stored.
Due(d, t) == map[t] = d \/ t \in rest[d] \/ spc[d] = "placed"

\* The row of a message that is gone will be removed by a deletion to come.
RowPending ==
    Clean => \A d \in discord \ torn : \A t \in about[d] \ tg : Due(d, t) => Pending(t)

\* A message that lost its last row is being erased.
RowLeft ==
    Clean => \A d \in discord \ torn : Settled(d) /\ about[d] # {} =>
        RowsOf(d) # {} \/ (bpc \in {"store", "siblings", "erase"} /\ found = d)

LEMMA LeastOne ==
    ASSUME Types, NEW t, NEW k, IsLeast(t, todo), IsLeast(k, todo)
    PROVE  t = k
<1>1. t \in Nat /\ k \in Nat /\ t <= k /\ k <= t
  BY DEF IsLeast, Types
<1> QED  BY <1>1

LEMMA StepLeast ==
    ASSUME Basics, LeastSettled, [Next]_vars
    PROVE  LeastSettled'
<1>1. TypeOK /\ Types /\ DcKnown /\ TgKnown /\ RowSound
  BY DEF Basics, IdsSound
<1>2. SUFFICES ASSUME Clean', bpc' \in {"unmap", "siblings", "erase"}, NEW t \in todo', IsLeast(t, todo'),
                      NEW d \in Dc, d \notin torn', t \in about'[d]
               PROVE  Settled(d)' /\ (map'[t] = d => bpc' = "unmap" /\ d = found')
  BY DEF LeastSettled, IsLeast
<1>3. Clean /\ ~Crash /\ d \notin torn
  BY <1>1, <1>2, CleanNext, StepTorn
<1>4. CASE UNCHANGED <<bpc, todo, found>>
  <2>1. t \in Tg /\ t < nextTg
    BY <1>1, <1>2, <1>4 DEF Types, TgKnown, Before
  <2>2. t \in about[d]
    <3>1. ASSUME NEW k \in Dc, PlaceMessage(k)
          PROVE  t \in about[d]
      <4>1. ~(nextTg <= t)
        BY <1>1, <2>1 DEF Types
      <4> QED  BY <1>1, <1>2, <3>1, <4>1, PlaceType
    <3> QED  BY <1>2, <1>4, <3>1, AboutStep DEF Post, PostAgain
  <2>3. Settled(d) /\ (map[t] = d => bpc = "unmap" /\ d = found)
    BY <1>2, <1>3, <1>4, <2>2 DEF LeastSettled
  <2>4. Settled(d)'
    <3>1. UserWrites(d) => about[d] = {}
      BY <1>1 DEF UserWrites, NewDc, DcKnown, Types
    <3> QED  BY <1>1, <2>2, <2>3, <3>1, StepSettled
  <2>5. map'[t] = d => map[t] = d
    <3>1. ASSUME NEW n \in Dc, NEW k \in Tg, StoreSent(n, k), map'[t] = d
          PROVE  map[t] = d
      <4>1. n # d
        BY <2>3, <3>1 DEF StoreSent, Settled
      <4> QED  BY <1>1, <2>1, <3>1, <4>1 DEF StoreSent, Types
    <3>2. ASSUME NEW n \in Dc, DeleteRows(n), map'[t] = d
          PROVE  map[t] = d
      BY <2>1, <3>2, NoneDc DEF DeleteRows
    <3> QED  BY <1>2, <1>4, <3>1, <3>2, MapStep DEF StoreCopy, UnmapDeleted
  <2> QED  BY <1>4, <2>3, <2>4, <2>5
<1>5. ASSUME NEW k \in Tg, FindDeleted(k)
      PROVE  Settled(d)' /\ (map'[t] = d => bpc' = "unmap" /\ d = found')
  <2>1. /\ IsLeast(k, todo) /\ found' = map[k] /\ todo' = todo /\ bpc' = "unmap"
        /\ torn' = torn \cup Torn(k) /\ UNCHANGED <<map, about, spc>>
    BY <1>2, <1>5 DEF FindDeleted, channel, sender
  <2>2. t = k
    BY <1>1, <1>2, <2>1, LeastOne
  <2> QED  BY <1>2, <2>1, <2>2 DEF Torn, Settled
<1>6. ASSUME NEW k \in Tg, UnmapDeleted(k)
      PROVE  Settled(d)' /\ (map'[t] = d => bpc' = "unmap" /\ d = found')
  <2>1. /\ bpc = "unmap" /\ IsLeast(k, todo) /\ todo' = todo /\ map' = [map EXCEPT ![k] = None]
        /\ UNCHANGED <<about, spc>>
    BY <1>6 DEF UnmapDeleted, channel, sender
  <2>2. t = k
    BY <1>1, <1>2, <2>1, LeastOne
  <2>3. map'[t] = None
    BY <1>1, <1>6, <2>1, <2>2 DEF Types
  <2> QED  BY <1>2, <1>3, <2>1, <2>3, NoneDc DEF LeastSettled, Settled
<1>7. ASSUME NEW k \in Tg, CheckSiblings(k)
      PROVE  Settled(d)' /\ (map'[t] = d => bpc' = "unmap" /\ d = found')
  <2>1. bpc = "siblings" /\ todo' = todo /\ UNCHANGED <<map, about, spc>>
    BY <1>2, <1>7 DEF CheckSiblings, DecideToErase, channel, sender
  <2> QED  BY <1>2, <1>3, <2>1 DEF LeastSettled, Settled
<1> QED
  BY <1>2, <1>3, <1>4, <1>5, <1>6, <1>7, HandStep DEF Erase, EraseFails, StoreCopy, Post

\* A deletion to come is still to come, unless the poll loop has come to its id.
LEMMA PendingKept ==
    ASSUME TypeOK, Types, TodoEmpty, [Next]_vars, Clean', NEW t, Pending(t), t \in todo => t \in todo'
    PROVE  Pending(t)'
<1>1. /\ ~Crash /\ \A e : ~Unroutable(e) /\ ~PostFails(e) /\ ~AckLost(e)
      /\ \A e, d : ~PostAgain(e, d)
  BY CleanNext
<1>2. PICK f \in queue : DeletionOf(f, t) /\ (Handling(f) /\ bpc # "event" => t \in todo)
  BY DEF Pending
<1>3. f \in DOMAIN events /\ events'[f] = events[f]
  BY EventsGrow DEF TypeOK
<1>4. ~Ack(f)
  BY <1>2 DEF Ack, TodoEmpty, Deleting
<1>5. f \in queue'
  <2>1. \A g \in DOMAIN events : Ack(g) => queue' = queue \ {g}
    BY DEF Ack
  <2> QED  BY <1>4, <2>1, QueueStep
<1>6. ASSUME Handling(f)', bpc' # "event"
      PROVE  t \in todo'
  <2>1. CASE batch' = batch
    <3>1. Handling(f)
      BY <1>6, <2>1 DEF Handling, IsLeast
    <3>2. bpc = "event" => StartDeletion(f) \/ bpc' = "event"
      <4>1. ASSUME NEW e \in DOMAIN events, HandleStep(e), bpc = "event"
            PROVE  StartDeletion(f)
        <5>1. Handling(e) /\ (StartDeletion(e) \/ events[e].kind # "deletion")
          BY <1>1, <4>1 DEF HandleStep, FindMessage, StoreCopy, Post, FindEdited, EditCopy, StartDeletion, Ack
        <5>2. e = f
          BY <3>1, <5>1, HandlingOne
        <5> QED  BY <1>2, <5>1, <5>2 DEF DeletionOf
      <4>2. bpc = "event" => ~DeletionStep /\ ~Poll
        BY DEF DeletionStep, FindDeleted, UnmapDeleted, CheckSiblings, Erase, EraseFails, EndDeletion, Poll
      <4> QED
        BY <1>1, <4>1, <4>2, ExternalFrame, SenderFrame, RemoverFrame DEF Next, PollerStep, vars, poller
    <3>3. StartDeletion(f) => t \in todo'
      BY <1>2 DEF StartDeletion, DeletionOf
    <3> QED  BY <1>2, <1>6, <3>1, <3>2, <3>3
  <2>2. CASE batch' # batch
    <3>1. PICK e \in DOMAIN events : Ack(e)
      BY <1>1, <1>6, <2>2, BatchStep, ExternalFrame, SenderFrame, RemoverFrame, HandleFrame, DeletionFrame
         DEF Next, PollerStep, vars, poller, Poll, HandleStep, FindMessage, StoreCopy, Post, FindEdited, EditCopy,
             StartDeletion
    <3> QED  BY <1>6, <3>1 DEF Ack, After, Handling, IsLeast
  <2> QED  BY <2>1, <2>2
<1> QED  BY <1>2, <1>3, <1>5, <1>6 DEF Pending, DeletionOf

\* The invariant of the runs in which nothing fails.
QuietInv ==
    /\ MessagesDiffer /\ TodoEmpty /\ RestEmpty /\ AskedSound /\ StoreUnreported
    /\ Disjoint /\ Fresh /\ MessagePending /\ LeastSettled /\ RowPending /\ RowLeft

\* How the ids that are still to be stored change.
LEMMA RestStep ==
    ASSUME [Next]_vars
    PROVE  \/ rest' = rest
           \/ \E d \in Dc : Answered(d)
           \/ \E d \in Dc, t \in Tg : StoreSent(d, t)
           \/ Crash
<1>1. ASSUME NEW d \in Dc, SenderStep(d), ~Answered(d), \A t \in Tg : ~StoreSent(d, t)
      PROVE  rest' = rest
  BY <1>1 DEF SenderStep, PlaceMessage, SendFails, sender
<1> QED
  BY <1>1, ExternalFrame, HandleFrame, DeletionFrame, RemoverFrame, PollFrame DEF Next, PollerStep, vars, sender

\* What a copy stands for in the next state, if the message is gone by then.
LEMMA AboutBefore ==
    ASSUME Basics, [Next]_vars, NEW d \in discord, NEW t \in about'[d], t \notin tg'
    PROVE  t \in about[d]
<1>1. TypeOK /\ Types /\ DcKnown
  BY DEF Basics
<1>2. d \in Dc /\ d < nextDc
  BY <1>1 DEF Types, DcKnown
<1>3. ASSUME NEW k \in Dc, PlaceMessage(k)
      PROVE  t \in about[d]
  BY <1>1, <1>2, <1>3, PlaceType
<1>4. ASSUME NEW e \in DOMAIN events, NEW k \in Dc, Post(e, k) \/ PostAgain(e, k)
      PROVE  t \in about[d]
  <2>1. k = nextDc /\ about' = [about EXCEPT ![k] = events[e].ids]
    BY <1>4 DEF Post, PostAgain, PostCopy, NewDc
  <2> QED  BY <1>1, <1>2, <2>1 DEF Types
<1> QED  BY <1>3, <1>4, AboutStep

\* Nor is a row due that was not due before, but of the message that is stored.
LEMMA DueBefore ==
    ASSUME Basics, [Next]_vars, ~Crash, NEW d \in discord, NEW t \in about'[d], t \notin tg', Due(d, t)',
           \A e \in DOMAIN events : StoreCopy(e) => t \notin events[e].ids
    PROVE  Due(d, t)
<1>1. TypeOK /\ Types /\ DcKnown
  BY DEF Basics
<1>2. d \in Dc /\ d < nextDc /\ t \in Tg
  BY <1>1, AboutBefore DEF Types, DcKnown
<1>3. CASE map'[t] = d
  <2>1. ASSUME NEW n \in Dc, NEW k \in Tg, StoreSent(n, k)
        PROVE  Due(d, t)
    <3>1. map' = [map EXCEPT ![k] = n] /\ k \in rest[n]
      BY <2>1 DEF StoreSent, IsLeast
    <3>2. CASE k = t
      BY <1>1, <1>2, <1>3, <3>1, <3>2 DEF Types, Due
    <3>3. CASE k # t
      BY <1>1, <1>2, <1>3, <3>1, <3>3 DEF Types, Due
    <3> QED  BY <3>2, <3>3
  <2>2. ASSUME NEW e \in DOMAIN events, StoreCopy(e)
        PROVE  Due(d, t)
    BY <1>2, <1>3, <2>2 DEF StoreCopy, Due
  <2>3. ASSUME NEW k \in Tg, UnmapDeleted(k)
        PROVE  Due(d, t)
    BY <1>1, <1>2, <1>3, <2>3, NoneDc DEF UnmapDeleted, Types, Due
  <2>4. ASSUME NEW n \in Dc, DeleteRows(n)
        PROVE  Due(d, t)
    BY <1>2, <1>3, <2>4, NoneDc DEF DeleteRows, Due
  <2> QED  BY <1>3, <2>1, <2>2, <2>3, <2>4, MapStep DEF Due
<1>4. CASE t \in rest'[d]
  <2>1. ASSUME NEW n \in Dc, Answered(n)
        PROVE  Due(d, t)
    BY <1>1, <1>2, <1>4, <2>1 DEF Answered, Types, Due
  <2>2. ASSUME NEW n \in Dc, NEW k \in Tg, StoreSent(n, k)
        PROVE  Due(d, t)
    BY <1>1, <1>2, <1>4, <2>2 DEF StoreSent, Types, Due
  <2> QED  BY <1>4, <2>1, <2>2, RestStep DEF Due
<1>5. CASE spc'[d] = "placed"
  <2>1. ASSUME NEW n \in Dc, SenderStep(n)
        PROVE  spc[d] = "placed"
    <3>1. ~PlaceMessage(d)
      BY <1>1, <1>2, PlaceType
    <3> QED  BY <1>1, <1>2, <1>5, <2>1, <3>1 DEF SenderStep, PlaceMessage, Answered, SendFails, StoreSent, Types
  <2>2. CASE External
    <3>1. ASSUME NEW n \in Dc, UserWrites(n)
          PROVE  spc[d] = "placed"
      BY <1>1, <1>2, <1>5, <3>1 DEF UserWrites, NewDc, Types
    <3> QED
      BY <1>5, <2>2, <3>1 DEF External, RelayMessage, RelayEdit, RelayDeletion, UserDeletes, sender, Due
  <2> QED
    BY <1>5, <2>1, <2>2, HandleFrame, DeletionFrame, RemoverFrame, PollFrame
       DEF Next, PollerStep, vars, sender, Due
<1> QED  BY <1>3, <1>4, <1>5 DEF Due

\* A new copy, or a message that was just written, has no row.
LEMMA NewUndue ==
    ASSUME Basics, RestEmpty, [Next]_vars, ~Crash, NEW d \in discord', d \notin discord, \A e, k : ~PostAgain(e, k),
           NEW t \in about'[d]
    PROVE  ~Due(d, t)'
<1>1. TypeOK /\ Types /\ DcKnown
  BY DEF Basics
<1>2. ASSUME NEW n \in Dc, UserWrites(n)
      PROVE  FALSE
  <2>1. n = d /\ d = nextDc /\ about' = about
    BY <1>2 DEF UserWrites, NewDc
  <2> QED  BY <1>1, <1>2, <2>1 DEF DcKnown, Types
<1>3. PICK e \in DOMAIN events, n \in Dc : Post(e, n)
  BY <1>2, DiscordStep
<1>4. n = d /\ d = nextDc /\ d \in Dc /\ map' = map /\ UNCHANGED <<spc, rest>>
  BY <1>3 DEF Post, PostCopy, NewDc, sender
<1>5. spc[d] = "none"
  BY <1>1, <1>4 DEF DcKnown, Types
<1>6. about'[d] \subseteq Tg
  BY <1>1, <1>3, <1>4 DEF Post, PostCopy, Types
<1>7. map[t] # d
  <2>1. t \in Tg
    BY <1>6
  <2>2. map[t] < nextDc /\ map[t] \in Nat
    BY <1>1, <2>1 DEF DcKnown, Types
  <2> QED  BY <1>4, <2>2
<1> QED  BY <1>4, <1>5, <1>7 DEF Due, RestEmpty

LEMMA StepRowPending ==
    ASSUME Basics, EditInv, QuietInv, [Next]_vars
    PROVE  RowPending'
<1>1. TypeOK /\ Types /\ PostSound /\ ReportedGone /\ BatchQueued
  BY DEF Basics, EditInv
<1>2. TodoEmpty /\ RestEmpty /\ AskedSound /\ Disjoint /\ MessagePending /\ LeastSettled /\ RowPending
  BY DEF QuietInv
<1>3. SUFFICES ASSUME Clean', NEW d \in discord', d \notin torn', NEW t \in about'[d], t \notin tg', Due(d, t)'
               PROVE  Pending(t)'
  BY DEF RowPending
<1>4. /\ Clean /\ ~Crash /\ \A k : ~EraseFails(k)
      /\ \A e, k : ~PostAgain(e, k)
  BY <1>1, <1>3, CleanNext
<1>5. d \in discord /\ d \notin torn /\ d \in Dc
  BY <1>1, <1>2, <1>3, <1>4, NewUndue, StepTorn DEF Types
<1>6. t \in about[d]
  BY <1>3, <1>5, AboutBefore
<1>7. CASE t \notin tg /\ \E e \in DOMAIN events : StoreCopy(e) /\ t \in events[e].ids
  <2>1. PICK e \in DOMAIN events : StoreCopy(e) /\ t \in events[e].ids
    BY <1>7
  <2>2. Handling(e) /\ e \in queue /\ Unstored(e) /\ UNCHANGED <<events, queue, batch>>
    BY <1>1, <2>1 DEF StoreCopy, PostSound, Unstored, Handling, IsLeast, BatchQueued, server
  <2>3. PICK f \in queue : e < f /\ DeletionOf(f, t)
    BY <1>2, <1>4, <1>7, <2>1, <2>2 DEF MessagePending
  <2>4. ~Handling(f)
    <3>1. e \in Nat /\ f = e => FALSE
      BY <1>1, <2>3 DEF Types
    <3> QED  BY <1>1, <2>2, <3>1, HandlingOne DEF Types
  <2> QED  BY <2>2, <2>3, <2>4 DEF Pending, DeletionOf, Handling, IsLeast
<1>8. CASE t \notin tg /\ ~\E e \in DOMAIN events : StoreCopy(e) /\ t \in events[e].ids
  <2>1. Due(d, t)
    BY <1>3, <1>4, <1>5, <1>8, DueBefore
  <2>2. Pending(t)
    BY <1>2, <1>4, <1>5, <1>6, <1>8, <2>1 DEF RowPending
  <2>3. Settled(d) => t \notin rest[d] /\ spc[d] # "placed"
    BY <1>2, <1>5 DEF Settled, RestEmpty
  <2>4. ASSUME t \in todo, t \notin todo'
        PROVE  FALSE
    <3>1. PICK k \in Tg : FindDeleted(k) \/ CheckSiblings(k) \/ Erase(k)
      <4>1. ASSUME NEW e \in DOMAIN events, HandleStep(e)
            PROVE  FALSE
        BY <1>2, <2>4, <4>1 DEF HandleStep, Unroutable, FindMessage, PostFails, StoreCopy, Post, PostAgain,
           FindEdited, EditCopy, StartDeletion, Ack, AckLost, poller, TodoEmpty, Deleting
      <4> QED
        BY <1>4, <2>4, <4>1, ExternalFrame, SenderFrame, RemoverFrame, PollFrame
           DEF Next, PollerStep, DeletionStep, UnmapDeleted, EndDeletion, vars, poller
    <3>2. k = t /\ IsLeast(t, todo)
      BY <2>4, <3>1 DEF FindDeleted, CheckSiblings, DecideToErase, Erase
    <3>3. CASE FindDeleted(k)
      <4>1. map[t] = None /\ torn' = torn \cup Torn(t)
        BY <2>4, <3>2, <3>3 DEF FindDeleted
      <4>2. ~Settled(d)
        BY <1>5, <2>1, <2>3, <4>1, NoneDc DEF Due
      <4> QED  BY <1>3, <1>5, <1>6, <4>1, <4>2 DEF Torn
    <3>4. CASE CheckSiblings(k) \/ Erase(k)
      <4>1. bpc \in {"siblings", "erase"}
        BY <3>4 DEF CheckSiblings, Erase
      <4>2. Settled(d) /\ map[t] # d
        BY <1>2, <1>4, <1>5, <1>6, <2>4, <3>2, <4>1 DEF LeastSettled
      <4> QED  BY <2>1, <2>3, <4>2 DEF Due
    <3> QED  BY <3>1, <3>3, <3>4
  <2> QED  BY <1>1, <1>2, <1>3, <2>2, <2>4, PendingKept
<1>9. CASE t \in tg
  <2>1. ASSUME NEW tgs \in SUBSET Tg, RelayDeletion(tgs)
        PROVE  Pending(t)'
    <3>1. t \in tgs /\ batch' = batch
      BY <1>3, <1>9, <2>1 DEF RelayDeletion, poller
    <3>2. PICK f \in queue' : f \notin DOMAIN events /\ DeletionOf(f, t)'
      BY <1>1, <2>1, <3>1, NewDeletion
    <3>3. ~Handling(f)'
      BY <1>1, <3>1, <3>2 DEF Handling, IsLeast, Types
    <3> QED  BY <3>2, <3>3 DEF Pending
  <2>2. ASSUME NEW k \in Dc, SendDeletion(k)
        PROVE  FALSE
    <3>1. dpc[k] = "send" /\ t \in about[k]
      BY <1>2, <1>3, <1>9, <2>2 DEF SendDeletion, AskedSound
    <3>2. k # d
      BY <1>1, <1>5, <3>1 DEF ReportedGone
    <3> QED  BY <1>2, <1>4, <1>5, <1>6, <3>1, <3>2 DEF Disjoint
  <2> QED  BY <1>3, <1>9, <2>1, <2>2, TgStep
<1> QED  BY <1>7, <1>8, <1>9

\* A task is over with the last id that it stores.
LEMMA SettlingStep ==
    ASSUME Types, [Next]_vars, ~Crash, NEW d \in Dc, ~Settled(d), Settled(d)'
    PROVE  \E t \in Tg : StoreSent(d, t)
<1>1. ASSUME NEW n \in Dc, SenderStep(n)
      PROVE  \E t \in Tg : StoreSent(d, t)
  <2>1. CASE n = d
    BY <1>1, <2>1 DEF SenderStep, PlaceMessage, Answered, SendFails, Settled, Types
  <2>2. CASE n # d
    BY <1>1, <2>2 DEF SenderStep, PlaceMessage, Answered, SendFails, StoreSent, Settled, Types
  <2> QED  BY <2>1, <2>2
<1>2. ASSUME NEW n \in Dc, UserWrites(n)
      PROVE  FALSE
  BY <1>2 DEF UserWrites, Settled, Types
<1>3. CASE External
  BY <1>2, <1>3 DEF External, RelayMessage, RelayEdit, RelayDeletion, UserDeletes, sender, Settled
<1> QED
  BY <1>1, <1>3, HandleFrame, DeletionFrame, RemoverFrame, PollFrame DEF Next, PollerStep, vars, sender, Settled

\* A row goes with a deletion of its id, or of its message.
LEMMA RowKept ==
    ASSUME Basics, LeastSettled, Clean, [Next]_vars, NEW d \in discord, d \notin torn, Settled(d),
           NEW t \in Tg, map[t] = d
    PROVE  map'[t] = d \/ (bpc' = "siblings" /\ found' = d)
<1>1. Types /\ PostSound /\ RowSound /\ ReportedGone /\ d \in Dc
  BY DEF Basics, IdsSound, Types
<1>2. t \in about[d] /\ d # None
  BY <1>1, NoneDc DEF RowSound
<1>3. ASSUME NEW n \in Dc, NEW k \in Tg, StoreSent(n, k)
      PROVE  map'[t] = d
  <2>1. n # d /\ spc[n] # "none" /\ k \in about[n] /\ map' = [map EXCEPT ![k] = n]
    BY <1>1, <1>3 DEF StoreSent, Settled, IsLeast, RowSound
  <2>2. k # t
    BY <1>1, <1>2, <2>1 DEF RowSound
  <2> QED  BY <1>1, <2>1, <2>2 DEF Types
<1>4. ASSUME NEW e \in DOMAIN events, StoreCopy(e)
      PROVE  map'[t] = d
  <2>1. t \notin events[e].ids
    BY <1>1, <1>2, <1>4 DEF StoreCopy, PostSound
  <2> QED  BY <1>4, <2>1 DEF StoreCopy
<1>5. ASSUME NEW k \in Tg, UnmapDeleted(k)
      PROVE  map'[t] = d \/ (bpc' = "siblings" /\ found' = d)
  <2>1. /\ bpc = "unmap" /\ IsLeast(k, todo) /\ map' = [map EXCEPT ![k] = None]
        /\ bpc' = "siblings" /\ found' = found
    BY <1>5 DEF UnmapDeleted
  <2>2. CASE k = t
    BY <1>1, <1>2, <2>1, <2>2 DEF LeastSettled, IsLeast
  <2>3. CASE k # t
    BY <1>1, <2>1, <2>3 DEF Types
  <2> QED  BY <2>2, <2>3
<1>6. ASSUME NEW n \in Dc, DeleteRows(n)
      PROVE  map'[t] = d
  <2>1. n # d
    BY <1>6, <1>1 DEF DeleteRows, ReportedGone
  <2> QED  BY <1>6, <2>1 DEF DeleteRows
<1> QED  BY <1>3, <1>4, <1>5, <1>6, MapStep

LEMMA StepRowLeft ==
    ASSUME Basics, QuietInv, [Next]_vars
    PROVE  RowLeft'
<1>1. TypeOK /\ Types /\ DcKnown /\ PostSound /\ RowSound /\ LeastSettled /\ RowLeft
  BY DEF Basics, IdsSound, QuietInv
<1>2. SUFFICES ASSUME Clean', NEW d \in discord', d \notin torn', Settled(d)', about'[d] # {}
               PROVE  RowsOf(d)' # {} \/ (bpc' \in {"store", "siblings", "erase"} /\ found' = d)
  BY DEF RowLeft
<1>3. /\ Clean /\ ~Crash /\ \A k : ~EraseFails(k)
      /\ \A e, k : ~PostAgain(e, k)
  BY <1>1, <1>2, CleanNext
<1>4. CASE d \notin discord
  <2>1. ASSUME NEW n \in Dc, UserWrites(n)
        PROVE  FALSE
    BY <1>1, <1>2, <1>4, <2>1 DEF UserWrites, Settled, Types
  <2>2. ASSUME NEW e \in DOMAIN events, NEW n \in Dc, Post(e, n)
        PROVE  bpc' = "store" /\ found' = d
    BY <1>4, <2>2 DEF Post, PostCopy
  <2> QED  BY <1>3, <1>4, <2>1, <2>2, DiscordStep
<1>5. CASE d \in discord /\ ~Settled(d)
  <2>1. PICK t \in Tg : StoreSent(d, t)
    BY <1>1, <1>2, <1>3, <1>5, SettlingStep DEF Types
  <2>2. map'[t] = d
    BY <1>1, <2>1 DEF StoreSent, Types
  <2> QED  BY <2>2 DEF RowsOf
<1>6. CASE d \in discord /\ Settled(d)
  <2>1. d \in Dc /\ d < nextDc /\ d \notin torn
    BY <1>1, <1>2, <1>6, StepTorn DEF Types, DcKnown
  <2>2. about[d] # {}
    <3>1. ASSUME NEW n \in Dc, PlaceMessage(n)
          PROVE  about'[d] = about[d]
      <4>1. n # d
        BY <1>6, <3>1 DEF PlaceMessage, Settled
      <4> QED  BY <1>1, <2>1, <3>1, <4>1, PlaceType
    <3>2. ASSUME NEW e \in DOMAIN events, NEW n \in Dc, Post(e, n)
          PROVE  about'[d] = about[d]
      <4>1. n = nextDc /\ about' = [about EXCEPT ![n] = events[e].ids]
        BY <3>2 DEF Post, PostCopy, NewDc
      <4> QED  BY <1>1, <2>1, <4>1 DEF Types
    <3> QED  BY <1>2, <1>3, <3>1, <3>2, AboutStep
  <2>3. CASE RowsOf(d) # {}
    <3>1. PICK t \in Tg : map[t] = d
      BY <2>3 DEF RowsOf
    <3>2. map'[t] = d \/ (bpc' = "siblings" /\ found' = d)
      BY <1>1, <1>3, <1>6, <2>1, <3>1, RowKept
    <3> QED  BY <3>2 DEF RowsOf
  <2>4. CASE bpc \in {"store", "siblings", "erase"} /\ found = d
    <3>1. ASSUME NEW e \in DOMAIN events, StoreCopy(e)
          PROVE  RowsOf(d)' # {}
      <4>1. /\ about[d] = events[e].ids
            /\ map' = [t \in Tg |-> IF t \in events[e].ids THEN d ELSE map[t]]
        BY <1>1, <2>4, <3>1 DEF StoreCopy, PostSound
      <4>2. PICK t \in about[d] : TRUE
        BY <2>2
      <4>3. t \in Tg
        BY <1>1, <2>1 DEF Types
      <4> QED  BY <4>1, <4>2, <4>3 DEF RowsOf
    <3>2. ASSUME NEW k \in Tg, CheckSiblings(k)
          PROVE  RowsOf(d)' # {} \/ (bpc' = "erase" /\ found' = d)
      BY <2>4, <3>2 DEF CheckSiblings, DecideToErase, RowsOf
    <3>3. ASSUME NEW k \in Tg, Erase(k)
          PROVE  FALSE
      BY <1>2, <2>4, <3>3 DEF Erase
    <3> QED
      BY <1>3, <2>4, <3>1, <3>2, <3>3, HandStep DEF FindDeleted, UnmapDeleted, Post
  <2> QED  BY <1>1, <1>3, <1>6, <2>1, <2>2, <2>3, <2>4 DEF RowLeft
<1> QED  BY <1>4, <1>5, <1>6

LEMMA InitQuiet ==
    ASSUME Init
    PROVE  QuietInv
<1>1. DOMAIN events = {} /\ queue = {} /\ todo = {} /\ discord = {} /\ bpc = "poll"
  BY DEF Init
<1>2. MessagesDiffer /\ TodoEmpty /\ Fresh /\ MessagePending /\ StoreUnreported
  BY <1>1 DEF MessagesDiffer, TodoEmpty, Fresh, MessagePending, StoreUnreported
<1>3. LeastSettled /\ RowPending /\ RowLeft
  BY <1>1 DEF LeastSettled, RowPending, RowLeft
<1>4. RestEmpty /\ AskedSound /\ Disjoint
  BY DEF Init, RestEmpty, AskedSound, Disjoint
<1> QED  BY <1>2, <1>3, <1>4 DEF QuietInv

LEMMA StepQuiet ==
    ASSUME IInv, CopyInv, EditInv, QuietInv, [Next]_vars
    PROVE  QuietInv'
<1>1. Basics /\ TypeOK /\ Types /\ DcKnown /\ BatchQueued
  BY BasicsHold DEF Basics, EditInv
<1>2. MessagesDiffer' /\ TodoEmpty' /\ RestEmpty' /\ AskedSound' /\ StoreUnreported'
  BY <1>1, StepDiffer, StepTodo, StepRest, StepAsked, StepUnreported DEF QuietInv
<1>3. Disjoint' /\ Fresh' /\ MessagePending'
  BY <1>1, StepDisjoint, StepFresh, StepPending DEF QuietInv
<1>4. LeastSettled' /\ RowPending' /\ RowLeft'
  BY <1>1, StepLeast, StepRowPending, StepRowLeft DEF QuietInv
<1> QED  BY <1>2, <1>3, <1>4 DEF QuietInv

THEOREM QuietInvariance == Spec => []QuietInv
<1>1. Init => QuietInv
  BY InitQuiet
<1>2. IInv /\ CopyInv /\ EditInv /\ QuietInv /\ [Next]_vars => QuietInv'
  BY StepQuiet
<1> QED  BY <1>1, <1>2, Invariance, CopyInvariance, EditInvariance, PTL DEF Spec

\* When every task is done and nothing failed, a Discord message is mapped to exactly
\* those of its Telegram messages that are left, and to one at least, torn messages aside.
THEOREM IdleAgrees == Spec => []IdleAgreement
<1>1. ASSUME IInv, QuietInv
      PROVE  IdleAgreement
  <2>1. Types /\ RowSound /\ Whole /\ RowPending /\ RowLeft /\ RestEmpty
    BY <1>1, BasicsHold DEF Basics, IdsSound, QuietInv
  <2>2. SUFFICES ASSUME Idle, Clean, NEW d \in discord \ torn
                 PROVE  RowsOf(d) = about[d] \cap tg /\ (about[d] # {} => RowsOf(d) # {})
    BY DEF IdleAgreement, Clean
  <2>3. d \in Dc /\ Settled(d) /\ queue = {} /\ bpc = "poll"
    BY <2>1, <2>2 DEF Idle, Types
  <2>4. about[d] # {} => RowsOf(d) # {}
    BY <2>1, <2>2, <2>3 DEF RowLeft
  <2>5. ASSUME NEW t \in RowsOf(d)
        PROVE  t \in about[d] \cap tg
    <3>1. map[t] = d /\ t \in about[d]
      BY <2>1, <2>3, <2>5, NoneDc DEF RowsOf, RowSound
    <3>2. ~Pending(t)
      BY <2>3 DEF Pending
    <3> QED  BY <2>1, <2>2, <3>1, <3>2 DEF RowPending, Due
  <2>6. ASSUME NEW t \in about[d] \cap tg
        PROVE  t \in RowsOf(d)
    <3>1. map[t] = d
      BY <2>1, <2>2, <2>3, <2>4, <2>6 DEF Whole, Settled
    <3>2. t \in Tg
      BY <2>1, <2>3, <2>6 DEF Types
    <3> QED  BY <3>1, <3>2 DEF RowsOf
  <2> QED  BY <2>4, <2>5, <2>6
<1> QED  BY <1>1, Invariance, QuietInvariance, PTL
================================================================================
