--------------------------- MODULE NativeBridgeProofs ---------------------------
(***************************************************************************)
(* Proofs about the native side of bot.py, however many users, clients and *)
(* faults there are and however the tasks interleave:                      *)
(*                                                                         *)
(*   DeletionsReach        a deletion is taken for an echo only when no    *)
(*                         mapped Telegram message is left to delete;      *)
(*   DeletionsAreRelayed   the clients are told of what was deleted;       *)
(*   SiblingsKept          a Discord message goes with its last sibling;   *)
(*   IdleAgrees            when nothing failed and every task is done, the *)
(*                         two sides agree.                                *)
(***************************************************************************)
EXTENDS NativeBridge, FiniteSetTheorems, TLAPS

\* Nobody knows a Discord message before it is there.
DcKnown ==
    /\ ufound < nextDc
    /\ \A r \in Request : rfound[r] < nextDc
    /\ \A t \in Tg : map[t] < nextDc
    /\ \A d \in Dc : d \in suppress \/ spc[d] # "none" => d < nextDc

\* Nor a Telegram message.
Before(set) == \A t \in set : t < nextTg

UpdatesKnown ==
    \A i \in DOMAIN updates : updates[i].id < nextTg /\ updates[i].parent < nextTg

TgKnown ==
    /\ Before(tg) /\ Before(relayed)
    /\ \A t \in Tg : map[t] # None => t < nextTg
    /\ \A d \in Dc : Before(about[d]) /\ Before(rest[d])
    /\ \A r \in Request : Before(rids[r]) /\ Before(rtodo[r])

\* A task that deletes has found the message, or has marked it.
Found(d) ==
    \/ d \in suppress
    \/ upc \in {"delete", "recall", "siblings", "fetch", "erase", "unmap"} /\ ufound = d
    \/ \E r \in Request : rpc[r] \in {"unmap", "siblings", "erase"} /\ rfound[r] = d

\* Of what was found while rows were still to be stored it is known.
FoundTorn == \A d \in Dc : Found(d) /\ ToStore(d) => d \in torn

\* The parent of a delete command has been deleted, and stays so.
ParentGone ==
    upc \in {"recall", "siblings", "fetch", "erase", "unmap"} => Head(updates).parent \notin tg

\* The siblings have been looked at: there is the row of the parent at most.
OnlyParent ==
    upc = "fetch" /\ ufound \notin torn => \A t \in RowsOf(ufound) : t = Head(updates).parent

\* What is marked has no mapped Telegram message left.
SuppressedGone == \A d \in suppress \ torn : RowsOf(d) \cap tg = {}

\* The inductive invariant.
IInv ==
    /\ TypeOK /\ DcKnown /\ TgKnown /\ UpdatesKnown
    /\ FoundTorn /\ ParentGone /\ OnlyParent /\ SuppressedGone

--------------------------------------------------------------------------------
(* Types *)

LEMMA FaultType ==
    ASSUME TypeOK, NEW kind, Fault(kind)
    PROVE  faults' \subseteq Faults
BY DEF TypeOK, Fault

\* A new message of a user.
LEMMA NewTgType ==
    ASSUME TypeOK, NEW t \in Tg, NewTg(t)
    PROVE  /\ tg' \subseteq Tg /\ nextTg' \in 1..(MaxTg + 1)
           /\ nextTg' = nextTg + 1 /\ t = nextTg
BY NativeBridgeAssumption DEF TypeOK, NewTg, Tg

\* The messages of a send.
LEMMA NewTgsType ==
    ASSUME TypeOK, NEW set \in SUBSET Tg, NewTgs(set)
    PROVE  /\ tg' \subseteq Tg /\ nextTg' \in 1..(MaxTg + 1)
           /\ nextTg' > nextTg
           /\ \A t \in set : nextTg <= t /\ t < nextTg'
<1> DEFINE n == Cardinality(set)
<1>1. IsFiniteSet(set) /\ n \in Nat
  <2>1. IsFiniteSet(Tg)
    BY NativeBridgeAssumption, FS_Interval DEF Tg
  <2> QED  BY <2>1, FS_Subset, FS_CardinalityType
<1>2. set # {} /\ set = nextTg..(nextTg + n - 1) /\ nextTg' = nextTg + n /\ tg' = tg \cup set
  BY DEF NewTgs
<1>3. n # 0
  BY <1>1, <1>2, FS_EmptySet
<1> HIDE DEF n
<1>4. nextTg \in 1..(MaxTg + 1) /\ tg \subseteq Tg /\ MaxTg \in Nat
  BY NativeBridgeAssumption DEF TypeOK
<1>5. nextTg + n - 1 \in set
  BY <1>1, <1>2, <1>3, <1>4
<1>6. nextTg + n - 1 \in 1..MaxTg
  BY <1>5 DEF Tg
<1> QED  BY <1>1, <1>2, <1>3, <1>4, <1>6 DEF Tg

\* A new message in Discord.
LEMMA NewDcType ==
    ASSUME TypeOK, NEW d \in Dc, NewDc(d)
    PROVE  /\ discord' \subseteq Dc /\ nextDc' \in 1..(MaxDc + 1)
           /\ nextDc' = nextDc + 1 /\ d = nextDc /\ d # None
BY NativeBridgeAssumption DEF TypeOK, NewDc, Dc, None

\* What is queued for the dispatcher, and what it takes.
LEMMA QueueType ==
    ASSUME TypeOK, NEW kind \in {"message", "edit", "command"}, NEW id \in Tg,
           NEW parent \in Tg \cup {None}, Queue(kind, id, parent)
    PROVE  /\ updates' \in Seq(Update) /\ updates' # <<>>
           /\ updates # <<>> => Head(updates') = Head(updates)
           /\ \A i \in DOMAIN updates' :
                 \/ i \in DOMAIN updates /\ updates'[i] = updates[i]
                 \/ updates'[i] = [kind |-> kind, id |-> id, parent |-> parent]
<1> DEFINE u == [kind |-> kind, id |-> id, parent |-> parent]
<1>1. updates \in Seq(Update) /\ u \in Update /\ updates' = Append(updates, u)
  BY DEF TypeOK, Queue, Update
<1> HIDE DEF u
<1>2. /\ updates' \in Seq(Update) /\ updates' # <<>>
      /\ updates # <<>> => Head(updates') = Head(updates)
      /\ DOMAIN updates' = 1..(Len(updates) + 1) /\ DOMAIN updates = 1..Len(updates)
      /\ Len(updates) \in Nat
  BY <1>1
<1>3. \A i \in DOMAIN updates' :
          (i \in DOMAIN updates /\ updates'[i] = updates[i]) \/ updates'[i] = u
  BY <1>1, <1>2
<1> QED  BY <1>2, <1>3 DEF u

LEMMA HeadType ==
    ASSUME TypeOK, updates # <<>>
    PROVE  /\ Head(updates) \in Update /\ Tail(updates) \in Seq(Update)
           /\ 1 \in DOMAIN updates /\ Head(updates) = updates[1]
           /\ \A i \in DOMAIN Tail(updates) :
                 i + 1 \in DOMAIN updates /\ Tail(updates)[i] = updates[i + 1]
<1>1. updates \in Seq(Update)
  BY DEF TypeOK
<1> QED  BY <1>1

LEMMA InitType ==
    ASSUME Init
    PROVE  TypeOK
<1>1. nextTg \in 1..(MaxTg + 1) /\ nextDc \in 1..(MaxDc + 1) /\ stimuli \in 0..MaxStimuli
  BY NativeBridgeAssumption DEF Init
<1>2. updates \in Seq(Update)
  BY DEF Init
<1> QED  BY <1>1, <1>2 DEF Init, TypeOK

\* Users and clients.
LEMMA StimulusType ==
    ASSUME TypeOK, Stimulus
    PROVE  stimuli' \in 0..MaxStimuli
BY NativeBridgeAssumption DEF TypeOK, Stimulus

LEMMA ExternalType ==
    ASSUME TypeOK, External
    PROVE  TypeOK'
<1> USE DEF telegram, channel, shared, updater, sender, remover, server, seen
<1>1. stimuli' \in 0..MaxStimuli
  <2>1. Stimulus
    BY DEF External, Writes, Edits, Commands, WritesDc, DeletesDc, AsksToSend, AsksToDelete
  <2> QED  BY <2>1, StimulusType
<1>2. ASSUME NEW t \in Tg, Writes(t)
      PROVE  TypeOK'
  <2>1. tg' \subseteq Tg /\ nextTg' \in 1..(MaxTg + 1)
    BY <1>2, NewTgType DEF Writes
  <2>2. updates' \in Seq(Update) /\ updates' # <<>>
    BY <1>2, QueueType DEF Writes
  <2> QED  BY <1>1, <1>2, <2>1, <2>2 DEF TypeOK, Writes
<1>3. ASSUME NEW t \in Tg, Edits(t)
      PROVE  TypeOK'
  <2>1. updates' \in Seq(Update) /\ updates' # <<>>
    BY <1>3, QueueType DEF Edits
  <2> QED  BY <1>1, <1>3, <2>1 DEF TypeOK, Edits
<1>4. ASSUME NEW c \in Tg, NEW t \in Tg, Commands(c, t)
      PROVE  TypeOK'
  <2>1. tg' \subseteq Tg /\ nextTg' \in 1..(MaxTg + 1)
    BY <1>4, NewTgType DEF Commands
  <2>2. updates' \in Seq(Update) /\ updates' # <<>>
    BY <1>4, QueueType DEF Commands
  <2> QED  BY <1>1, <1>4, <2>1, <2>2 DEF TypeOK, Commands
<1>5. ASSUME NEW d \in Dc, WritesDc(d)
      PROVE  TypeOK'
  <2>1. discord' \subseteq Dc /\ nextDc' \in 1..(MaxDc + 1)
    BY <1>5, NewDcType DEF WritesDc
  <2> QED  BY <1>1, <1>5, <2>1 DEF TypeOK, WritesDc
<1>6. ASSUME NEW d \in Dc, DeletesDc(d)
      PROVE  TypeOK'
  BY <1>1, <1>6 DEF TypeOK, DeletesDc, Delete
<1>7. ASSUME NEW r \in Request, AsksToSend(r)
      PROVE  TypeOK'
  BY <1>1, <1>7 DEF TypeOK, AsksToSend
<1>8. ASSUME NEW r \in Request, NEW tgs \in SUBSET Tg, AsksToDelete(r, tgs)
      PROVE  TypeOK'
  BY <1>1, <1>8 DEF TypeOK, AsksToDelete
<1> QED  BY <1>2, <1>3, <1>4, <1>5, <1>6, <1>7, <1>8 DEF External

\* The updates of Telegram.
LEMMA NextUpdateType ==
    ASSUME TypeOK, NextUpdate, updates # <<>>
    PROVE  updates' \in Seq(Update) /\ upc' = "next" /\ ufound' = None
BY HeadType DEF NextUpdate

LEMMA RouteType ==
    ASSUME TypeOK, NEW t \in Tg, RouteStep(t)
    PROVE  TypeOK'
<1> USE DEF telegram, channel, shared, updater, sender, remover, server, seen, Handled, Bridges
<1>1. CASE RouteDropped(t)
  <2>1. updates' \in Seq(Update) /\ upc' = "next" /\ ufound' = None /\ faults' \subseteq Faults
    BY <1>1, NextUpdateType, FaultType DEF RouteDropped
  <2> QED  BY <1>1, <2>1 DEF TypeOK, RouteDropped
<1>2. CASE PostFails(t)
  <2>1. faults' \subseteq Faults
    BY <1>2, FaultType DEF PostFails
  <2> QED  BY <1>2, <2>1 DEF TypeOK, PostFails
<1>3. CASE Store(t)
  BY <1>3 DEF TypeOK, Store
<1>4. CASE Relay(t)
  <2>1. updates' \in Seq(Update) /\ upc' = "next" /\ ufound' = None
    BY <1>4, NextUpdateType DEF Relay
  <2> QED  BY <1>4, <2>1 DEF TypeOK, Relay
<1>5. ASSUME NEW d \in Dc, Post(t, d)
      PROVE  TypeOK'
  <2>1. discord' \subseteq Dc /\ nextDc' \in 1..(MaxDc + 1) /\ d # None
    BY <1>5, NewDcType DEF Post, PostCopy
  <2> QED  BY <1>5, <2>1 DEF TypeOK, Post, PostCopy
<1> QED  BY <1>1, <1>2, <1>3, <1>4, <1>5 DEF RouteStep

LEMMA CommandType ==
    ASSUME TypeOK, NEW t \in Tg, CommandStep(t)
    PROVE  TypeOK'
<1> USE DEF telegram, channel, shared, updater, sender, remover, server, seen, Handled, Deletes
<1>1. CASE FindParent(t)
  <2>1. CASE map[t] = None
    <3>1. updates' \in Seq(Update) /\ upc' = "next" /\ ufound' = None
      BY <1>1, <2>1, NextUpdateType DEF FindParent
    <3> QED  BY <1>1, <2>1, <3>1 DEF TypeOK, FindParent
  <2>2. CASE map[t] # None
    <3>1. torn' \subseteq Dc
      BY <1>1, <2>2 DEF TypeOK, FindParent, Tear
    <3> QED  BY <1>1, <2>2, <3>1 DEF TypeOK, FindParent
  <2> QED  BY <2>1, <2>2
<1>2. CASE DeleteParent(t)
  BY <1>2 DEF TypeOK, DeleteParent
<1>3. CASE DeleteParentFails(t)
  <2>1. updates' \in Seq(Update) /\ upc' = "next" /\ ufound' = None
    BY <1>3, NextUpdateType DEF DeleteParentFails
  <2>2. faults' \subseteq Faults
    BY <1>3, FaultType DEF DeleteParentFails, TypeOK
  <2> QED  BY <1>3, <2>1, <2>2 DEF TypeOK, DeleteParentFails
<1>4. CASE RecallParent(t)
  BY <1>4 DEF TypeOK, RecallParent
<1>5. CASE CheckSiblings(t)
  BY <1>5 DEF TypeOK, CheckSiblings, Cross
<1>6. CASE Fetch(t)
  BY <1>6 DEF TypeOK, Fetch, Mark
<1>7. CASE Erase(t)
  BY <1>7 DEF TypeOK, Erase, Delete
<1>8. CASE EraseFails(t)
  <2>1. updates' \in Seq(Update) /\ upc' = "next" /\ ufound' = None /\ faults' \subseteq Faults
    BY <1>8, NextUpdateType, FaultType DEF EraseFails
  <2> QED  BY <1>8, <2>1 DEF TypeOK, EraseFails
<1>9. CASE Unmap(t)
  BY <1>9 DEF TypeOK, Unmap
<1>10. CASE EndCommand(t)
  <2>1. updates' \in Seq(Update) /\ upc' = "next" /\ ufound' = None
    BY <1>10, NextUpdateType DEF EndCommand
  <2>2. tg' \subseteq Tg /\ faults' \subseteq Faults
    BY <1>10, FaultType DEF EndCommand, TypeOK
  <2> QED  BY <1>10, <2>1, <2>2 DEF TypeOK, EndCommand
<1> QED
  BY <1>1, <1>2, <1>3, <1>4, <1>5, <1>6, <1>7, <1>8, <1>9, <1>10 DEF CommandStep

\* The tasks of Discord events.
LEMMA SenderType ==
    ASSUME TypeOK, NEW d \in Dc, SenderStep(d)
    PROVE  TypeOK'
<1> USE DEF telegram, channel, shared, updater, sender, remover, server, seen
<1>1. CASE NotSent(d)
  <2>1. faults' \subseteq Faults
    BY <1>1, FaultType DEF NotSent
  <2> QED  BY <1>1, <2>1 DEF TypeOK, NotSent
<1>2. CASE Sent(d)
  BY <1>2 DEF TypeOK, Sent
<1>3. ASSUME NEW tgs \in SUBSET Tg, Send(d, tgs)
      PROVE  TypeOK'
  <2>1. tg' \subseteq Tg /\ nextTg' \in 1..(MaxTg + 1)
    BY <1>3, NewTgsType DEF Send
  <2> QED  BY <1>3, <2>1 DEF TypeOK, Send
<1>4. ASSUME NEW t \in Tg, StoreSent(d, t)
      PROVE  TypeOK'
  BY <1>4 DEF TypeOK, StoreSent
<1>5. ASSUME NEW t \in Tg, RelaySent(d, t)
      PROVE  TypeOK'
  BY <1>5 DEF TypeOK, RelaySent
<1> QED  BY <1>1, <1>2, <1>3, <1>4, <1>5 DEF SenderStep

LEMMA RemoverType ==
    ASSUME TypeOK, NEW d \in Dc, RemoverStep(d)
    PROVE  TypeOK'
<1> USE DEF telegram, channel, shared, updater, sender, remover, server, seen
<1>1. CASE OnRawDelete(d)
  BY <1>1 DEF TypeOK, OnRawDelete
<1>2. CASE LookupDeleted(d)
  BY <1>2 DEF TypeOK, LookupDeleted, Tear
<1>3. CASE ExecuteDelete(d)
  BY <1>3 DEF TypeOK, ExecuteDelete, Tear, RowsOf
<1>4. ASSUME NEW t \in Tg, DeleteSent(d, t)
      PROVE  TypeOK'
  <2>1. tg' \subseteq Tg /\ faults' \subseteq Faults
    BY <1>4, FaultType DEF DeleteSent, TypeOK
  <2> QED  BY <1>4, <2>1 DEF TypeOK, DeleteSent
<1>5. CASE RecallSent(d)
  BY <1>5 DEF TypeOK, RecallSent
<1>6. CASE DeleteRows(d)
  BY <1>6 DEF TypeOK, DeleteRows
<1> QED  BY <1>1, <1>2, <1>3, <1>4, <1>5, <1>6 DEF RemoverStep

\* The tasks of gateway requests.
LEMMA RequestType ==
    ASSUME TypeOK, NEW r \in Request, RequestStep(r)
    PROVE  TypeOK'
<1> USE DEF telegram, channel, shared, updater, sender, remover, server, seen
<1>1. CASE NotPlaced(r)
  <2>1. faults' \subseteq Faults
    BY <1>1, FaultType DEF NotPlaced
  <2> QED  BY <1>1, <2>1 DEF TypeOK, NotPlaced
<1>2. CASE Placed(r)
  BY <1>2 DEF TypeOK, Placed
<1>3. CASE PostRequestFails(r)
  <2>1. faults' \subseteq Faults
    BY <1>3, FaultType DEF PostRequestFails
  <2> QED  BY <1>3, <2>1 DEF TypeOK, PostRequestFails
<1>4. ASSUME NEW tgs \in SUBSET Tg, Place(r, tgs)
      PROVE  TypeOK'
  <2>1. tg' \subseteq Tg /\ nextTg' \in 1..(MaxTg + 1)
    BY <1>4, NewTgsType DEF Place
  <2> QED  BY <1>4, <2>1 DEF TypeOK, Place
<1>5. ASSUME NEW d \in Dc, PostRequest(r, d)
      PROVE  TypeOK'
  <2>1. discord' \subseteq Dc /\ nextDc' \in 1..(MaxDc + 1) /\ d # None
    BY <1>5, NewDcType DEF PostRequest, PostCopy
  <2> QED  BY <1>5, <2>1 DEF TypeOK, PostRequest, PostCopy
<1>6. ASSUME NEW t \in Tg, StoreRequest(r, t)
      PROVE  TypeOK'
  BY <1>6 DEF TypeOK, StoreRequest
<1> QED  BY <1>1, <1>2, <1>3, <1>4, <1>5, <1>6 DEF RequestStep

\* A deletion that goes on with its next id.
LEMMA AfterAskedType ==
    ASSUME TypeOK, NEW r \in Request, NEW t \in Tg, AfterAsked(r, t)
    PROVE  /\ rpc' \in [Request -> {"none", "place", "post", "store", "delete", "find", "unmap",
                                     "siblings", "erase", "done", "failed"}]
           /\ rtodo' \in [Request -> SUBSET Tg] /\ rfound' \in [Request -> Dc \cup {None}]
           /\ \A q \in Request :
                 rpc'[q] \in {"store", "unmap", "siblings", "erase"} => rfound'[q] # None
<1>1. /\ rtodo' = [rtodo EXCEPT ![r] = @ \ {t}] /\ rfound' = [rfound EXCEPT ![r] = None]
      /\ rpc' = [rpc EXCEPT ![r] = rpc'[r]] /\ rpc'[r] \in {"done", "delete"}
  BY DEF TypeOK, AfterAsked
<1> QED  BY <1>1 DEF TypeOK

LEMMA DeletionType ==
    ASSUME TypeOK, NEW r \in Request, NEW t \in Tg, DeletionStep(r, t)
    PROVE  TypeOK'
<1> USE DEF telegram, channel, shared, updater, sender, remover, server, seen
<1>1. CASE DeleteAsked(r, t)
  <2>1. tg' \subseteq Tg /\ faults' \subseteq Faults
    BY <1>1, FaultType DEF DeleteAsked, TypeOK
  <2> QED  BY <1>1, <2>1 DEF TypeOK, DeleteAsked
<1>2. CASE FindAsked(r, t)
  <2>1. CASE map[t] = None
    BY <1>2, <2>1, AfterAskedType DEF TypeOK, FindAsked
  <2>2. CASE map[t] # None
    <3>1. torn' \subseteq Dc /\ map[t] \in Dc
      BY <1>2, <2>2 DEF TypeOK, FindAsked, Tear
    <3> QED  BY <1>2, <2>2, <3>1 DEF TypeOK, FindAsked
  <2> QED  BY <2>1, <2>2
<1>3. CASE UnmapAsked(r, t)
  BY <1>3 DEF TypeOK, UnmapAsked
<1>4. CASE CheckAsked(r, t)
  <2>1. crossed' \subseteq Dc /\ rfound[r] \in Dc
    BY <1>4 DEF TypeOK, CheckAsked, Cross
  <2>2. CASE RowsOf(rfound[r]) # {}
    BY <1>4, <2>1, <2>2, AfterAskedType DEF TypeOK, CheckAsked
  <2>3. CASE RowsOf(rfound[r]) = {}
    <3>1. suppress' \subseteq Dc
      BY <1>4, <2>1, <2>3 DEF TypeOK, CheckAsked, Mark
    <3> QED  BY <1>4, <2>1, <2>3, <3>1 DEF TypeOK, CheckAsked
  <2> QED  BY <2>2, <2>3
<1>5. CASE EraseAsked(r, t)
  BY <1>5, AfterAskedType DEF TypeOK, EraseAsked, Delete
<1>6. CASE EraseAskedFails(r, t)
  <2>1. faults' \subseteq Faults
    BY <1>6, FaultType DEF EraseAskedFails
  <2> QED  BY <1>6, <2>1, AfterAskedType DEF TypeOK, EraseAskedFails
<1> QED  BY <1>1, <1>2, <1>3, <1>4, <1>5, <1>6 DEF DeletionStep

\* A crash keeps a last part of the updates.
LEMMA CrashUpdates ==
    ASSUME TypeOK, Crash
    PROVE  /\ updates' \in Seq(Update)
           /\ \A i \in DOMAIN updates' : \E j \in DOMAIN updates : updates'[i] = updates[j]
<1>1. PICK n \in 1..(Len(updates) + 1) : updates' = SubSeq(updates, n, Len(updates))
  BY DEF Crash
<1>2. updates \in Seq(Update) /\ Len(updates) \in Nat /\ DOMAIN updates = 1..Len(updates)
  BY DEF TypeOK
<1>3. /\ updates' \in Seq(Update) /\ Len(updates') = Len(updates) + 1 - n
      /\ \A i \in 1..(Len(updates) + 1 - n) : updates'[i] = updates[n + i - 1]
  BY <1>1, <1>2
<1>4. ASSUME NEW i \in DOMAIN updates'
      PROVE  \E j \in DOMAIN updates : updates'[i] = updates[j]
  <2>1. i \in 1..(Len(updates) + 1 - n)
    BY <1>3
  <2>2. n + i - 1 \in DOMAIN updates
    BY <1>2, <2>1
  <2> QED  BY <1>3, <2>1, <2>2
<1> QED  BY <1>3, <1>4

LEMMA CrashType ==
    ASSUME TypeOK, Crash
    PROVE  TypeOK'
<1>1. updates' \in Seq(Update)
  BY CrashUpdates
<1>2. faults' \subseteq Faults
  BY FaultType DEF Crash
<1> QED  BY <1>1, <1>2 DEF TypeOK, Crash

LEMMA StepType ==
    ASSUME TypeOK, [Next]_vars
    PROVE  TypeOK'
<1>1. CASE Next
  BY <1>1, ExternalType, RouteType, CommandType, SenderType, RemoverType, RequestType,
     DeletionType, CrashType DEF Next
<1>2. CASE UNCHANGED vars
  BY <1>2 DEF TypeOK, vars, telegram, channel, shared, updater, sender, remover, server, seen
<1> QED  BY <1>1, <1>2

--------------------------------------------------------------------------------
(* No task knows an id before it is used *)

\* Of the types, what counts here.
DcTypes ==
    /\ Dc \subseteq Nat /\ nextDc \in Nat /\ 0 < nextDc
    /\ ufound \in Nat /\ rfound \in [Request -> Nat] /\ map \in [Tg -> Nat]
    /\ spc \in [Dc -> {"none", "sending", "storing", "relay", "done"}]

LEMMA NewDcDc ==
    ASSUME DcTypes, NEW d \in Dc, NewDc(d)
    PROVE  d = nextDc /\ nextDc' = nextDc + 1
BY DEF NewDc

LEMMA ExternalDc ==
    ASSUME DcTypes, DcKnown, External
    PROVE  DcKnown'
<1> USE DEF None, telegram, channel, shared, updater, sender, remover, server, seen
<1>1. ASSUME NEW t \in Tg, Writes(t)
      PROVE  DcKnown'
  BY <1>1 DEF DcTypes, DcKnown, Writes
<1>2. ASSUME NEW t \in Tg, Edits(t)
      PROVE  DcKnown'
  BY <1>2 DEF DcTypes, DcKnown, Edits
<1>3. ASSUME NEW c \in Tg, NEW t \in Tg, Commands(c, t)
      PROVE  DcKnown'
  BY <1>3 DEF DcTypes, DcKnown, Commands
<1>4. ASSUME NEW d \in Dc, WritesDc(d)
      PROVE  DcKnown'
  BY <1>4, NewDcDc DEF DcTypes, DcKnown, WritesDc
<1>5. ASSUME NEW d \in Dc, DeletesDc(d)
      PROVE  DcKnown'
  BY <1>5 DEF DcTypes, DcKnown, DeletesDc, Delete
<1>6. ASSUME NEW r \in Request, AsksToSend(r)
      PROVE  DcKnown'
  BY <1>6 DEF DcTypes, DcKnown, AsksToSend
<1>7. ASSUME NEW r \in Request, NEW tgs \in SUBSET Tg, AsksToDelete(r, tgs)
      PROVE  DcKnown'
  BY <1>7 DEF DcTypes, DcKnown, AsksToDelete
<1> QED  BY <1>1, <1>2, <1>3, <1>4, <1>5, <1>6, <1>7 DEF External

LEMMA RouteDc ==
    ASSUME DcTypes, DcKnown, NEW t \in Tg, RouteStep(t)
    PROVE  DcKnown'
<1> USE DEF None, telegram, channel, shared, updater, sender, remover, server, seen
<1>1. CASE RouteDropped(t)
  BY <1>1 DEF DcTypes, DcKnown, RouteDropped, NextUpdate
<1>2. CASE PostFails(t)
  BY <1>2 DEF DcTypes, DcKnown, PostFails
<1>3. CASE Store(t)
  BY <1>3 DEF DcTypes, DcKnown, Store
<1>4. CASE Relay(t)
  BY <1>4 DEF DcTypes, DcKnown, Relay, NextUpdate
<1>5. ASSUME NEW d \in Dc, Post(t, d)
      PROVE  DcKnown'
  BY <1>5, NewDcDc DEF DcTypes, DcKnown, Post, PostCopy
<1> QED  BY <1>1, <1>2, <1>3, <1>4, <1>5 DEF RouteStep

LEMMA CommandDc ==
    ASSUME DcTypes, DcKnown, NEW t \in Tg, CommandStep(t)
    PROVE  DcKnown'
<1> USE DEF None, telegram, channel, shared, updater, sender, remover, server, seen
<1>1. CASE FindParent(t)
  BY <1>1 DEF DcTypes, DcKnown, FindParent, NextUpdate
<1>2. CASE DeleteParent(t)
  BY <1>2 DEF DcTypes, DcKnown, DeleteParent
<1>3. CASE DeleteParentFails(t)
  BY <1>3 DEF DcTypes, DcKnown, DeleteParentFails, NextUpdate
<1>4. CASE RecallParent(t)
  BY <1>4 DEF DcTypes, DcKnown, RecallParent
<1>5. CASE CheckSiblings(t)
  BY <1>5 DEF DcTypes, DcKnown, CheckSiblings
<1>6. CASE Fetch(t)
  BY <1>6 DEF DcTypes, DcKnown, Fetch, Mark
<1>7. CASE Erase(t)
  BY <1>7 DEF DcTypes, DcKnown, Erase, Delete
<1>8. CASE EraseFails(t)
  BY <1>8 DEF DcTypes, DcKnown, EraseFails, NextUpdate
<1>9. CASE Unmap(t)
  BY <1>9 DEF DcTypes, DcKnown, Unmap
<1>10. CASE EndCommand(t)
  BY <1>10 DEF DcTypes, DcKnown, EndCommand, NextUpdate
<1> QED  BY <1>1, <1>2, <1>3, <1>4, <1>5, <1>6, <1>7, <1>8, <1>9, <1>10 DEF CommandStep

LEMMA SenderDc ==
    ASSUME DcTypes, DcKnown, NEW d \in Dc, SenderStep(d)
    PROVE  DcKnown'
<1> USE DEF None, telegram, channel, shared, updater, sender, remover, server, seen
<1>1. CASE NotSent(d)
  BY <1>1 DEF DcTypes, DcKnown, NotSent
<1>2. CASE Sent(d)
  BY <1>2 DEF DcTypes, DcKnown, Sent
<1>3. ASSUME NEW tgs \in SUBSET Tg, Send(d, tgs)
      PROVE  DcKnown'
  BY <1>3 DEF DcTypes, DcKnown, Send
<1>4. ASSUME NEW t \in Tg, StoreSent(d, t)
      PROVE  DcKnown'
  BY <1>4 DEF DcTypes, DcKnown, StoreSent
<1>5. ASSUME NEW t \in Tg, RelaySent(d, t)
      PROVE  DcKnown'
  BY <1>5 DEF DcTypes, DcKnown, RelaySent
<1> QED  BY <1>1, <1>2, <1>3, <1>4, <1>5 DEF SenderStep

LEMMA RemoverDc ==
    ASSUME DcTypes, DcKnown, NEW d \in Dc, RemoverStep(d)
    PROVE  DcKnown'
<1> USE DEF None, telegram, channel, shared, updater, sender, remover, server, seen
<1>1. CASE OnRawDelete(d)
  BY <1>1 DEF DcTypes, DcKnown, OnRawDelete
<1>2. CASE LookupDeleted(d)
  BY <1>2 DEF DcTypes, DcKnown, LookupDeleted
<1>3. CASE ExecuteDelete(d)
  BY <1>3 DEF DcTypes, DcKnown, ExecuteDelete
<1>4. ASSUME NEW t \in Tg, DeleteSent(d, t)
      PROVE  DcKnown'
  BY <1>4 DEF DcTypes, DcKnown, DeleteSent
<1>5. CASE RecallSent(d)
  BY <1>5 DEF DcTypes, DcKnown, RecallSent
<1>6. CASE DeleteRows(d)
  BY <1>6 DEF DcTypes, DcKnown, DeleteRows
<1> QED  BY <1>1, <1>2, <1>3, <1>4, <1>5, <1>6 DEF RemoverStep

LEMMA RequestDc ==
    ASSUME DcTypes, DcKnown, NEW r \in Request, RequestStep(r)
    PROVE  DcKnown'
<1> USE DEF None, telegram, channel, shared, updater, sender, remover, server, seen
<1>1. CASE NotPlaced(r)
  BY <1>1 DEF DcTypes, DcKnown, NotPlaced
<1>2. CASE Placed(r)
  BY <1>2 DEF DcTypes, DcKnown, Placed
<1>3. CASE PostRequestFails(r)
  BY <1>3 DEF DcTypes, DcKnown, PostRequestFails
<1>4. ASSUME NEW tgs \in SUBSET Tg, Place(r, tgs)
      PROVE  DcKnown'
  BY <1>4 DEF DcTypes, DcKnown, Place
<1>5. ASSUME NEW d \in Dc, PostRequest(r, d)
      PROVE  DcKnown'
  BY <1>5, NewDcDc DEF DcTypes, DcKnown, PostRequest, PostCopy
<1>6. ASSUME NEW t \in Tg, StoreRequest(r, t)
      PROVE  DcKnown'
  BY <1>6 DEF DcTypes, DcKnown, StoreRequest
<1> QED  BY <1>1, <1>2, <1>3, <1>4, <1>5, <1>6 DEF RequestStep

LEMMA DeletionDc ==
    ASSUME DcTypes, DcKnown, NEW r \in Request, NEW t \in Tg, DeletionStep(r, t)
    PROVE  DcKnown'
<1> USE DEF None, telegram, channel, shared, updater, sender, remover, server, seen
<1>1. CASE DeleteAsked(r, t)
  BY <1>1 DEF DcTypes, DcKnown, DeleteAsked
<1>2. CASE FindAsked(r, t)
  BY <1>2 DEF DcTypes, DcKnown, FindAsked, AfterAsked
<1>3. CASE UnmapAsked(r, t)
  BY <1>3 DEF DcTypes, DcKnown, UnmapAsked
<1>4. CASE CheckAsked(r, t)
  BY <1>4 DEF DcTypes, DcKnown, CheckAsked, Mark, AfterAsked
<1>5. CASE EraseAsked(r, t)
  BY <1>5 DEF DcTypes, DcKnown, EraseAsked, AfterAsked, Delete
<1>6. CASE EraseAskedFails(r, t)
  BY <1>6 DEF DcTypes, DcKnown, EraseAskedFails, AfterAsked
<1> QED  BY <1>1, <1>2, <1>3, <1>4, <1>5, <1>6 DEF DeletionStep

LEMMA StepDc ==
    ASSUME TypeOK, DcKnown, [Next]_vars
    PROVE  DcKnown'
<1>1. DcTypes
  BY DEF TypeOK, DcTypes, Dc, None
<1>2. CASE Crash
  BY <1>1, <1>2 DEF None, DcTypes, DcKnown, Crash
<1>3. CASE UNCHANGED vars
  BY <1>3 DEF DcKnown, vars, telegram, channel, shared, updater, sender, remover, server, seen
<1> QED
  BY <1>1, <1>2, <1>3, ExternalDc, RouteDc, CommandDc, SenderDc, RemoverDc, RequestDc, DeletionDc DEF Next

\* Telegram messages: what is in the queue of the dispatcher.
LEMMA HeadKnown ==
    ASSUME TypeOK, UpdatesKnown, updates # <<>>
    PROVE  Head(updates).id < nextTg /\ Head(updates).parent < nextTg
BY HeadType DEF UpdatesKnown

LEMMA TailKnown ==
    ASSUME TypeOK, UpdatesKnown, NextUpdate, updates # <<>>, nextTg' = nextTg
    PROVE  UpdatesKnown'
BY HeadType DEF UpdatesKnown, NextUpdate

LEMMA QueueKnown ==
    ASSUME TypeOK, UpdatesKnown, NEW kind \in {"message", "edit", "command"}, NEW id \in Tg,
           NEW parent \in Tg \cup {None}, Queue(kind, id, parent),
           nextTg' \in Nat, nextTg <= nextTg', id < nextTg', parent < nextTg'
    PROVE  UpdatesKnown'
<1>1. ASSUME NEW i \in DOMAIN updates'
      PROVE  updates'[i].id < nextTg' /\ updates'[i].parent < nextTg'
  <2>1. CASE updates'[i] = [kind |-> kind, id |-> id, parent |-> parent]
    BY <2>1
  <2>2. CASE i \in DOMAIN updates /\ updates'[i] = updates[i]
    <3>1. updates \in Seq(Update) /\ nextTg \in Nat
      BY NativeBridgeAssumption DEF TypeOK
    <3>2. updates[i] \in Update
      BY <2>2, <3>1
    <3>3. updates[i].id \in Nat /\ updates[i].parent \in Nat
      BY <3>2 DEF Update, Tg, None
    <3>4. updates[i].id < nextTg /\ updates[i].parent < nextTg
      BY <2>2 DEF UpdatesKnown
    <3> QED  BY <2>2, <3>1, <3>3, <3>4
  <2> QED  BY <1>1, <2>1, <2>2, QueueType
<1> QED  BY <1>1 DEF UpdatesKnown

LEMMA KeptKnown ==
    ASSUME TypeOK, UpdatesKnown, updates' = updates, nextTg' \in Nat, nextTg <= nextTg'
    PROVE  UpdatesKnown'
<1>1. updates \in Seq(Update) /\ nextTg \in Nat
  BY NativeBridgeAssumption DEF TypeOK
<1>2. \A i \in DOMAIN updates : updates[i] \in Update
  BY <1>1
<1>3. \A i \in DOMAIN updates : updates[i].id \in Nat /\ updates[i].parent \in Nat
  BY <1>2 DEF Update, Tg, None
<1> QED  BY <1>1, <1>3 DEF UpdatesKnown

LEMMA StepUpdates ==
    ASSUME TypeOK, UpdatesKnown, TgKnown, [Next]_vars
    PROVE  UpdatesKnown'
<1> USE DEF telegram, channel, shared, updater, sender, remover, server, seen
<1>1. nextTg \in Nat /\ 0 < nextTg
  BY NativeBridgeAssumption DEF TypeOK
<1>2. CASE External
  <2>1. ASSUME NEW t \in Tg, Writes(t)
        PROVE  UpdatesKnown'
    <3>1. nextTg' = nextTg + 1 /\ t = nextTg
      BY <2>1, NewTgType DEF Writes
    <3> QED  BY <1>1, <2>1, <3>1, QueueKnown DEF Writes, None
  <2>2. ASSUME NEW t \in Tg, Edits(t)
        PROVE  UpdatesKnown'
    BY <1>1, <2>2, QueueKnown DEF Edits, None, TgKnown, Before
  <2>3. ASSUME NEW c \in Tg, NEW t \in Tg, Commands(c, t)
        PROVE  UpdatesKnown'
    <3>1. nextTg' = nextTg + 1 /\ c = nextTg /\ t < nextTg
      BY <2>3, NewTgType DEF Commands, TgKnown, Before
    <3>2. t \in Nat
      BY DEF Tg
    <3> QED  BY <1>1, <2>3, <3>1, <3>2, QueueKnown DEF Commands
  <2>4. CASE UNCHANGED <<updates, nextTg>>
    BY <2>4 DEF UpdatesKnown
  <2> QED
    BY <1>2, <2>1, <2>2, <2>3, <2>4
       DEF External, WritesDc, DeletesDc, AsksToSend, AsksToDelete
<1>3. ASSUME NEW t \in Tg, RouteStep(t) \/ CommandStep(t)
      PROVE  UpdatesKnown'
  <2>1. nextTg' = nextTg /\ (updates' = updates \/ (NextUpdate /\ updates # <<>>))
    BY <1>3 DEF RouteStep, RouteDropped, PostFails, Store, Relay, Post, PostCopy, Bridges, Handled,
         CommandStep, FindParent, DeleteParent, DeleteParentFails, RecallParent, CheckSiblings,
         Fetch, Erase, EraseFails, Unmap, EndCommand, Deletes
  <2> QED  BY <1>1, <2>1, TailKnown, KeptKnown
<1>4. ASSUME NEW d \in Dc, SenderStep(d) \/ RemoverStep(d)
      PROVE  UpdatesKnown'
  <2>1. updates' = updates /\ (nextTg' = nextTg \/ (\E tgs \in SUBSET Tg : NewTgs(tgs)))
    BY <1>4 DEF SenderStep, NotSent, Sent, Send, StoreSent, RelaySent, RemoverStep, OnRawDelete,
         LookupDeleted, ExecuteDelete, DeleteSent, RecallSent, DeleteRows
  <2> QED  BY <1>1, <2>1, NewTgsType, KeptKnown
<1>5. ASSUME NEW r \in Request, RequestStep(r) \/ \E t \in Tg : DeletionStep(r, t)
      PROVE  UpdatesKnown'
  <2>1. updates' = updates /\ (nextTg' = nextTg \/ (\E tgs \in SUBSET Tg : NewTgs(tgs)))
    BY <1>5 DEF RequestStep, NotPlaced, Placed, PostRequestFails, Place, PostRequest, StoreRequest,
         DeletionStep, DeleteAsked, FindAsked, UnmapAsked, CheckAsked, EraseAsked, EraseAskedFails
  <2> QED  BY <1>1, <2>1, NewTgsType, KeptKnown
<1>6. CASE Crash
  <2>1. nextTg' = nextTg
    BY <1>6 DEF Crash
  <2> QED  BY <1>6, <2>1, CrashUpdates DEF UpdatesKnown
<1>7. CASE UNCHANGED vars
  BY <1>7 DEF UpdatesKnown, vars
<1> QED  BY <1>2, <1>3, <1>4, <1>5, <1>6, <1>7 DEF Next

\* Of the types, what the lemmas on known ids need.
TgTypes ==
    /\ Tg \subseteq Nat /\ nextTg \in Nat /\ 0 < nextTg
    /\ tg \subseteq Tg /\ relayed \subseteq Tg /\ map \in [Tg -> Nat]
    /\ about \in [Dc -> SUBSET Tg] /\ rest \in [Dc -> SUBSET Tg]
    /\ rids \in [Request -> SUBSET Tg] /\ rtodo \in [Request -> SUBSET Tg]

\* The ids a deletion has still to handle.
LEMMA AfterAskedTodo ==
    ASSUME TgTypes, NEW r \in Request, NEW t \in Tg, AfterAsked(r, t)
    PROVE  \A q \in Request : rtodo'[q] \subseteq rtodo[q]
<1>1. rtodo' = [rtodo EXCEPT ![r] = @ \ {t}]
  BY DEF AfterAsked
<1> QED  BY <1>1 DEF TgTypes

LEMMA ExternalTg ==
    ASSUME TypeOK, TgTypes, TgKnown, UpdatesKnown, External
    PROVE  TgKnown'
<1> USE DEF None, telegram, channel, shared, updater, sender, remover, server, seen
<1>1. ASSUME NEW t \in Tg, Writes(t)
      PROVE  TgKnown'
  BY <1>1, NewTgType DEF TgTypes, TgKnown, Before, Writes, NewTg
<1>2. ASSUME NEW t \in Tg, Edits(t)
      PROVE  TgKnown'
  BY <1>2 DEF TgTypes, TgKnown, Before, Edits
<1>3. ASSUME NEW c \in Tg, NEW t \in Tg, Commands(c, t)
      PROVE  TgKnown'
  BY <1>3, NewTgType DEF TgTypes, TgKnown, Before, Commands, NewTg
<1>4. ASSUME NEW d \in Dc, WritesDc(d)
      PROVE  TgKnown'
  BY <1>4 DEF TgTypes, TgKnown, Before, WritesDc
<1>5. ASSUME NEW d \in Dc, DeletesDc(d)
      PROVE  TgKnown'
  BY <1>5 DEF TgTypes, TgKnown, Before, DeletesDc, Delete
<1>6. ASSUME NEW r \in Request, AsksToSend(r)
      PROVE  TgKnown'
  BY <1>6 DEF TgTypes, TgKnown, Before, AsksToSend
<1>7. ASSUME NEW r \in Request, NEW tgs \in SUBSET Tg, AsksToDelete(r, tgs)
      PROVE  TgKnown'
  BY <1>7 DEF TgTypes, TgKnown, Before, AsksToDelete, Known
<1> QED  BY <1>1, <1>2, <1>3, <1>4, <1>5, <1>6, <1>7 DEF External

LEMMA RouteTg ==
    ASSUME TypeOK, TgTypes, TgKnown, UpdatesKnown, NEW t \in Tg, RouteStep(t)
    PROVE  TgKnown'
<1> USE DEF None, telegram, channel, shared, updater, sender, remover, server, seen
<1>1. CASE RouteDropped(t)
  BY <1>1 DEF TgTypes, TgKnown, Before, RouteDropped
<1>2. CASE PostFails(t)
  BY <1>2 DEF TgTypes, TgKnown, Before, PostFails
<1>3. CASE Store(t)
  BY <1>3, HeadKnown DEF TgTypes, TgKnown, Before, Store, Handled
<1>4. CASE Relay(t)
  BY <1>4, HeadKnown DEF TgTypes, TgKnown, Before, Relay, Handled
<1>5. ASSUME NEW d \in Dc, Post(t, d)
      PROVE  TgKnown'
  BY <1>5, HeadKnown DEF TgTypes, TgKnown, Before, Post, Handled, Bridges, PostCopy
<1> QED  BY <1>1, <1>2, <1>3, <1>4, <1>5 DEF RouteStep

LEMMA CommandTg ==
    ASSUME TypeOK, TgTypes, TgKnown, UpdatesKnown, NEW t \in Tg, CommandStep(t)
    PROVE  TgKnown'
<1> USE DEF None, telegram, channel, shared, updater, sender, remover, server, seen
<1>1. CASE FindParent(t)
  BY <1>1 DEF TgTypes, TgKnown, Before, FindParent
<1>2. CASE DeleteParent(t)
  BY <1>2 DEF TgTypes, TgKnown, Before, DeleteParent
<1>3. CASE DeleteParentFails(t)
  BY <1>3 DEF TgTypes, TgKnown, Before, DeleteParentFails
<1>4. CASE RecallParent(t)
  BY <1>4 DEF TgTypes, TgKnown, Before, RecallParent
<1>5. CASE CheckSiblings(t)
  BY <1>5 DEF TgTypes, TgKnown, Before, CheckSiblings
<1>6. CASE Fetch(t)
  BY <1>6 DEF TgTypes, TgKnown, Before, Fetch
<1>7. CASE Erase(t)
  BY <1>7 DEF TgTypes, TgKnown, Before, Erase, Delete
<1>8. CASE EraseFails(t)
  BY <1>8 DEF TgTypes, TgKnown, Before, EraseFails
<1>9. CASE Unmap(t)
  BY <1>9 DEF TgTypes, TgKnown, Before, Unmap
<1>10. CASE EndCommand(t)
  BY <1>10 DEF TgTypes, TgKnown, Before, EndCommand
<1> QED  BY <1>1, <1>2, <1>3, <1>4, <1>5, <1>6, <1>7, <1>8, <1>9, <1>10 DEF CommandStep

LEMMA SenderTg ==
    ASSUME TypeOK, TgTypes, TgKnown, UpdatesKnown, NEW d \in Dc, SenderStep(d)
    PROVE  TgKnown'
<1> USE DEF None, telegram, channel, shared, updater, sender, remover, server, seen
<1>1. CASE NotSent(d)
  BY <1>1 DEF TgTypes, TgKnown, Before, NotSent
<1>2. CASE Sent(d)
  BY <1>2 DEF TgTypes, TgKnown, Before, Sent
<1>3. ASSUME NEW tgs \in SUBSET Tg, Send(d, tgs)
      PROVE  TgKnown'
  BY <1>3, NewTgsType DEF TgTypes, TgKnown, Before, Send, NewTgs
<1>4. ASSUME NEW t \in Tg, StoreSent(d, t)
      PROVE  TgKnown'
  BY <1>4 DEF TgTypes, TgKnown, Before, StoreSent, IsLeast
<1>5. ASSUME NEW t \in Tg, RelaySent(d, t)
      PROVE  TgKnown'
  BY <1>5 DEF TgTypes, TgKnown, Before, RelaySent, IsLeast
<1> QED  BY <1>1, <1>2, <1>3, <1>4, <1>5 DEF SenderStep

LEMMA RemoverTg ==
    ASSUME TypeOK, TgTypes, TgKnown, UpdatesKnown, NEW d \in Dc, RemoverStep(d)
    PROVE  TgKnown'
<1> USE DEF None, telegram, channel, shared, updater, sender, remover, server, seen
<1>1. CASE OnRawDelete(d)
  BY <1>1 DEF TgTypes, TgKnown, Before, OnRawDelete
<1>2. CASE LookupDeleted(d)
  BY <1>2 DEF TgTypes, TgKnown, Before, LookupDeleted
<1>3. CASE ExecuteDelete(d)
  BY <1>3 DEF TgTypes, TgKnown, Before, ExecuteDelete
<1>4. ASSUME NEW t \in Tg, DeleteSent(d, t)
      PROVE  TgKnown'
  BY <1>4 DEF TgTypes, TgKnown, Before, DeleteSent
<1>5. CASE RecallSent(d)
  BY <1>5 DEF TgTypes, TgKnown, Before, RecallSent
<1>6. CASE DeleteRows(d)
  BY <1>6 DEF TgTypes, TgKnown, Before, DeleteRows
<1> QED  BY <1>1, <1>2, <1>3, <1>4, <1>5, <1>6 DEF RemoverStep

LEMMA RequestTg ==
    ASSUME TypeOK, TgTypes, TgKnown, UpdatesKnown, NEW r \in Request, RequestStep(r)
    PROVE  TgKnown'
<1> USE DEF None, telegram, channel, shared, updater, sender, remover, server, seen
<1>1. CASE NotPlaced(r)
  BY <1>1 DEF TgTypes, TgKnown, Before, NotPlaced
<1>2. CASE Placed(r)
  BY <1>2 DEF TgTypes, TgKnown, Before, Placed
<1>3. CASE PostRequestFails(r)
  BY <1>3 DEF TgTypes, TgKnown, Before, PostRequestFails
<1>4. ASSUME NEW tgs \in SUBSET Tg, Place(r, tgs)
      PROVE  TgKnown'
  BY <1>4, NewTgsType DEF TgTypes, TgKnown, Before, Place, NewTgs
<1>5. ASSUME NEW d \in Dc, PostRequest(r, d)
      PROVE  TgKnown'
  BY <1>5 DEF TgTypes, TgKnown, Before, PostRequest, PostCopy
<1>6. ASSUME NEW t \in Tg, StoreRequest(r, t)
      PROVE  TgKnown'
  BY <1>6 DEF TgTypes, TgKnown, Before, StoreRequest, IsLeast
<1> QED  BY <1>1, <1>2, <1>3, <1>4, <1>5, <1>6 DEF RequestStep

LEMMA DeletionTg ==
    ASSUME TypeOK, TgTypes, TgKnown, UpdatesKnown, NEW r \in Request, NEW t \in Tg, DeletionStep(r, t)
    PROVE  TgKnown'
<1> USE DEF None, telegram, channel, shared, updater, sender, remover, server, seen
<1>1. CASE DeleteAsked(r, t)
  BY <1>1 DEF TgTypes, TgKnown, Before, DeleteAsked
<1>2. CASE FindAsked(r, t)
  BY <1>2, AfterAskedTodo DEF TgTypes, TgKnown, Before, FindAsked
<1>3. CASE UnmapAsked(r, t)
  BY <1>3 DEF TgTypes, TgKnown, Before, UnmapAsked
<1>4. CASE CheckAsked(r, t)
  BY <1>4, AfterAskedTodo DEF TgTypes, TgKnown, Before, CheckAsked
<1>5. CASE EraseAsked(r, t)
  BY <1>5, AfterAskedTodo DEF TgTypes, TgKnown, Before, EraseAsked, Delete
<1>6. CASE EraseAskedFails(r, t)
  BY <1>6, AfterAskedTodo DEF TgTypes, TgKnown, Before, EraseAskedFails
<1> QED  BY <1>1, <1>2, <1>3, <1>4, <1>5, <1>6 DEF DeletionStep

LEMMA StepTg ==
    ASSUME TypeOK, TgKnown, UpdatesKnown, [Next]_vars
    PROVE  TgKnown'
<1>1. TgTypes
  BY NativeBridgeAssumption DEF TypeOK, TgTypes, Tg, Dc, None
<1>2. CASE Crash
  BY <1>1, <1>2 DEF TgTypes, TgKnown, Before, Crash
<1>3. CASE UNCHANGED vars
  BY <1>3 DEF TgKnown, Before, vars, telegram, channel, shared, updater, sender, remover, server, seen
<1> QED
  BY <1>1, <1>2, <1>3, ExternalTg, RouteTg, CommandTg, SenderTg, RemoverTg, RequestTg, DeletionTg
     DEF Next

--------------------------------------------------------------------------------
(* What a step does to the messages found, and to those still to be stored *)

\* Of the types, what the lemmas on found messages need.
FoundTypes ==
    /\ Dc \subseteq Nat /\ nextDc \in Nat /\ 0 < nextDc
    /\ map \in [Tg -> Nat] /\ rfound \in [Request -> Nat]
    /\ spc \in [Dc -> {"none", "sending", "storing", "relay", "done"}]
    /\ rpc \in [Request -> {"none", "place", "post", "store", "delete", "find", "unmap",
                            "siblings", "erase", "done", "failed"}]

\* Rows are to be stored of new messages, and a message that is found then is torn.
FoundStep ==
    /\ torn \subseteq torn'
    /\ \A d \in Dc : ToStore(d)' => ToStore(d) \/ d = nextDc
    /\ \A d \in Dc : Found(d)' => Found(d) \/ (d < nextDc /\ (ToStore(d) => d \in torn'))

LEMMA ExternalFound ==
    ASSUME FoundTypes, DcKnown, External
    PROVE  FoundStep
<1> USE DEF None, telegram, channel, shared, updater, sender, remover, server, seen
<1>1. ASSUME NEW t \in Tg, Writes(t)
      PROVE  FoundStep
  BY <1>1 DEF FoundTypes, FoundStep, DcKnown, ToStore, Found, Writes
<1>2. ASSUME NEW t \in Tg, Edits(t)
      PROVE  FoundStep
  BY <1>2 DEF FoundTypes, FoundStep, DcKnown, ToStore, Found, Edits
<1>3. ASSUME NEW c \in Tg, NEW t \in Tg, Commands(c, t)
      PROVE  FoundStep
  BY <1>3 DEF FoundTypes, FoundStep, DcKnown, ToStore, Found, Commands
<1>4. ASSUME NEW d \in Dc, WritesDc(d)
      PROVE  FoundStep
  BY <1>4 DEF FoundTypes, FoundStep, DcKnown, ToStore, Found, WritesDc, NewDc
<1>5. ASSUME NEW d \in Dc, DeletesDc(d)
      PROVE  FoundStep
  BY <1>5 DEF FoundTypes, FoundStep, DcKnown, ToStore, Found, DeletesDc
<1>6. ASSUME NEW r \in Request, AsksToSend(r)
      PROVE  FoundStep
  BY <1>6 DEF FoundTypes, FoundStep, DcKnown, ToStore, Found, AsksToSend
<1>7. ASSUME NEW r \in Request, NEW tgs \in SUBSET Tg, AsksToDelete(r, tgs)
      PROVE  FoundStep
  BY <1>7 DEF FoundTypes, FoundStep, DcKnown, ToStore, Found, AsksToDelete
<1> QED  BY <1>1, <1>2, <1>3, <1>4, <1>5, <1>6, <1>7 DEF External

LEMMA RouteFound ==
    ASSUME FoundTypes, DcKnown, NEW t \in Tg, RouteStep(t)
    PROVE  FoundStep
<1> USE DEF None, telegram, channel, shared, updater, sender, remover, server, seen
<1>1. CASE RouteDropped(t)
  BY <1>1 DEF FoundTypes, FoundStep, DcKnown, ToStore, Found, RouteDropped, NextUpdate
<1>2. CASE PostFails(t)
  BY <1>2 DEF FoundTypes, FoundStep, DcKnown, ToStore, Found, PostFails
<1>3. CASE Store(t)
  BY <1>3 DEF FoundTypes, FoundStep, DcKnown, ToStore, Found, Store
<1>4. CASE Relay(t)
  BY <1>4 DEF FoundTypes, FoundStep, DcKnown, ToStore, Found, Relay, NextUpdate
<1>5. ASSUME NEW d \in Dc, Post(t, d)
      PROVE  FoundStep
  BY <1>5 DEF FoundTypes, FoundStep, DcKnown, ToStore, Found, Post, PostCopy, NewDc
<1> QED  BY <1>1, <1>2, <1>3, <1>4, <1>5 DEF RouteStep

LEMMA CommandFound ==
    ASSUME FoundTypes, DcKnown, NEW t \in Tg, CommandStep(t)
    PROVE  FoundStep
<1> USE DEF None, telegram, channel, shared, updater, sender, remover, server, seen
<1>1. CASE FindParent(t)
  BY <1>1 DEF FoundTypes, FoundStep, DcKnown, ToStore, Found, FindParent, NextUpdate, Tear
<1>2. CASE DeleteParent(t)
  BY <1>2 DEF FoundTypes, FoundStep, DcKnown, ToStore, Found, DeleteParent
<1>3. CASE DeleteParentFails(t)
  BY <1>3 DEF FoundTypes, FoundStep, DcKnown, ToStore, Found, DeleteParentFails, NextUpdate
<1>4. CASE RecallParent(t)
  BY <1>4 DEF FoundTypes, FoundStep, DcKnown, ToStore, Found, RecallParent
<1>5. CASE CheckSiblings(t)
  BY <1>5 DEF FoundTypes, FoundStep, DcKnown, ToStore, Found, CheckSiblings
<1>6. CASE Fetch(t)
  BY <1>6 DEF FoundTypes, FoundStep, DcKnown, ToStore, Found, Fetch, Mark
<1>7. CASE Erase(t)
  BY <1>7 DEF FoundTypes, FoundStep, DcKnown, ToStore, Found, Erase
<1>8. CASE EraseFails(t)
  BY <1>8 DEF FoundTypes, FoundStep, DcKnown, ToStore, Found, EraseFails, NextUpdate
<1>9. CASE Unmap(t)
  BY <1>9 DEF FoundTypes, FoundStep, DcKnown, ToStore, Found, Unmap
<1>10. CASE EndCommand(t)
  BY <1>10 DEF FoundTypes, FoundStep, DcKnown, ToStore, Found, EndCommand, NextUpdate
<1> QED  BY <1>1, <1>2, <1>3, <1>4, <1>5, <1>6, <1>7, <1>8, <1>9, <1>10 DEF CommandStep

LEMMA SenderFound ==
    ASSUME FoundTypes, DcKnown, NEW d \in Dc, SenderStep(d)
    PROVE  FoundStep
<1> USE DEF None, telegram, channel, shared, updater, sender, remover, server, seen
<1>1. CASE NotSent(d)
  BY <1>1 DEF FoundTypes, FoundStep, DcKnown, ToStore, Found, NotSent
<1>2. CASE Sent(d)
  BY <1>2 DEF FoundTypes, FoundStep, DcKnown, ToStore, Found, Sent
<1>3. ASSUME NEW tgs \in SUBSET Tg, Send(d, tgs)
      PROVE  FoundStep
  BY <1>3 DEF FoundTypes, FoundStep, DcKnown, ToStore, Found, Send
<1>4. ASSUME NEW t \in Tg, StoreSent(d, t)
      PROVE  FoundStep
  BY <1>4 DEF FoundTypes, FoundStep, DcKnown, ToStore, Found, StoreSent
<1>5. ASSUME NEW t \in Tg, RelaySent(d, t)
      PROVE  FoundStep
  BY <1>5 DEF FoundTypes, FoundStep, DcKnown, ToStore, Found, RelaySent
<1> QED  BY <1>1, <1>2, <1>3, <1>4, <1>5 DEF SenderStep

LEMMA RemoverFound ==
    ASSUME FoundTypes, DcKnown, NEW d \in Dc, RemoverStep(d)
    PROVE  FoundStep
<1> USE DEF None, telegram, channel, shared, updater, sender, remover, server, seen
<1>1. CASE OnRawDelete(d)
  BY <1>1 DEF FoundTypes, FoundStep, DcKnown, ToStore, Found, OnRawDelete
<1>2. CASE LookupDeleted(d)
  BY <1>2 DEF FoundTypes, FoundStep, DcKnown, ToStore, Found, LookupDeleted, Tear
<1>3. CASE ExecuteDelete(d)
  BY <1>3 DEF FoundTypes, FoundStep, DcKnown, ToStore, Found, ExecuteDelete, Tear
<1>4. ASSUME NEW t \in Tg, DeleteSent(d, t)
      PROVE  FoundStep
  BY <1>4 DEF FoundTypes, FoundStep, DcKnown, ToStore, Found, DeleteSent
<1>5. CASE RecallSent(d)
  BY <1>5 DEF FoundTypes, FoundStep, DcKnown, ToStore, Found, RecallSent
<1>6. CASE DeleteRows(d)
  BY <1>6 DEF FoundTypes, FoundStep, DcKnown, ToStore, Found, DeleteRows
<1> QED  BY <1>1, <1>2, <1>3, <1>4, <1>5, <1>6 DEF RemoverStep

LEMMA RequestFound ==
    ASSUME FoundTypes, DcKnown, NEW r \in Request, RequestStep(r)
    PROVE  FoundStep
<1> USE DEF None, telegram, channel, shared, updater, sender, remover, server, seen
<1>1. CASE NotPlaced(r)
  BY <1>1 DEF FoundTypes, FoundStep, DcKnown, ToStore, Found, NotPlaced
<1>2. CASE Placed(r)
  BY <1>2 DEF FoundTypes, FoundStep, DcKnown, ToStore, Found, Placed
<1>3. CASE PostRequestFails(r)
  BY <1>3 DEF FoundTypes, FoundStep, DcKnown, ToStore, Found, PostRequestFails
<1>4. ASSUME NEW tgs \in SUBSET Tg, Place(r, tgs)
      PROVE  FoundStep
  BY <1>4 DEF FoundTypes, FoundStep, DcKnown, ToStore, Found, Place
<1>5. ASSUME NEW d \in Dc, PostRequest(r, d)
      PROVE  FoundStep
  BY <1>5 DEF FoundTypes, FoundStep, DcKnown, ToStore, Found, PostRequest, PostCopy, NewDc
<1>6. ASSUME NEW t \in Tg, StoreRequest(r, t)
      PROVE  FoundStep
  BY <1>6 DEF FoundTypes, FoundStep, DcKnown, ToStore, Found, StoreRequest
<1> QED  BY <1>1, <1>2, <1>3, <1>4, <1>5, <1>6 DEF RequestStep

LEMMA DeletionFound ==
    ASSUME FoundTypes, DcKnown, NEW r \in Request, NEW t \in Tg, DeletionStep(r, t)
    PROVE  FoundStep
<1> USE DEF None, telegram, channel, shared, updater, sender, remover, server, seen
<1>1. CASE DeleteAsked(r, t)
  BY <1>1 DEF FoundTypes, FoundStep, DcKnown, ToStore, Found, DeleteAsked
<1>2. CASE FindAsked(r, t)
  BY <1>2 DEF FoundTypes, FoundStep, DcKnown, ToStore, Found, FindAsked, Tear, AfterAsked
<1>3. CASE UnmapAsked(r, t)
  BY <1>3 DEF FoundTypes, FoundStep, DcKnown, ToStore, Found, UnmapAsked
<1>4. CASE CheckAsked(r, t)
  BY <1>4 DEF FoundTypes, FoundStep, DcKnown, ToStore, Found, CheckAsked, AfterAsked, Mark
<1>5. CASE EraseAsked(r, t)
  BY <1>5 DEF FoundTypes, FoundStep, DcKnown, ToStore, Found, EraseAsked, AfterAsked
<1>6. CASE EraseAskedFails(r, t)
  BY <1>6 DEF FoundTypes, FoundStep, DcKnown, ToStore, Found, EraseAskedFails, AfterAsked
<1> QED  BY <1>1, <1>2, <1>3, <1>4, <1>5, <1>6 DEF DeletionStep

LEMMA StepFound ==
    ASSUME TypeOK, DcKnown, FoundTorn, [Next]_vars
    PROVE  FoundStep /\ FoundTorn'
<1>1. FoundTypes
  BY DEF TypeOK, FoundTypes, Dc, None
<1>2. ASSUME Crash
      PROVE  FoundStep
  <2>1. \A d \in Dc : ~ToStore(d)' /\ ~Found(d)'
    BY <1>1, <1>2 DEF FoundTypes, Crash, ToStore, Found
  <2>2. torn \subseteq torn'
    BY <1>2 DEF Crash
  <2> QED  BY <2>1, <2>2 DEF FoundStep
<1>3. ASSUME UNCHANGED vars
      PROVE  FoundStep
  <2>1. UNCHANGED <<suppress, upc, ufound, spc, rpc, rfound, torn>>
    BY <1>3 DEF vars, shared, updater, sender, server, seen
  <2> QED  BY <2>1 DEF FoundStep, ToStore, Found
<1>4. FoundStep
  BY <1>1, <1>2, <1>3, ExternalFound, RouteFound, CommandFound, SenderFound, RemoverFound,
     RequestFound, DeletionFound DEF Next
<1>5. ASSUME NEW d \in Dc, Found(d)', ToStore(d)'
      PROVE  d \in torn'
  <2>1. CASE Found(d)
    <3>1. d < nextDc
      BY <2>1 DEF Found, DcKnown
    <3>2. d # nextDc
      BY <1>1, <3>1 DEF FoundTypes
    <3> QED  BY <1>4, <1>5, <2>1, <3>2 DEF FoundStep, FoundTorn
  <2>2. CASE d < nextDc /\ (ToStore(d) => d \in torn')
    <3>1. d # nextDc
      BY <1>1, <2>2 DEF FoundTypes
    <3> QED  BY <1>4, <1>5, <2>2, <3>1 DEF FoundStep
  <2> QED  BY <1>4, <1>5, <2>1, <2>2 DEF FoundStep
<1>6. FoundTorn'
  BY <1>5 DEF FoundTorn
<1> QED  BY <1>4, <1>6

--------------------------------------------------------------------------------
(* What a step does to the rows, and to what the group holds *)

\* Of the types, what the lemmas on rows need.
GoneTypes ==
    /\ Tg \subseteq Nat /\ nextTg \in Nat /\ map \in [Tg -> Nat] /\ rfound \in [Request -> Nat]

\* Rows are added only of messages still to be stored.
RowStep == \A t \in Tg : map'[t] = map[t] \/ map'[t] = None \/ ToStore(map'[t])

\* A message that was deleted does not come back.
GroupStep == \A t \in tg' : t \in tg \/ nextTg <= t

\* A mark is set when the rows have been looked at.
MarkStep ==
    \A d \in suppress' \ suppress :
        UNCHANGED <<map, tg>> /\ ((upc = "fetch" /\ ufound = d) \/ RowsOf(d) = {})

RowFacts == RowStep /\ GroupStep /\ MarkStep

LEMMA ExternalRows ==
    ASSUME TypeOK, GoneTypes, External
    PROVE  RowFacts
<1> USE DEF None, telegram, channel, shared, updater, sender, remover, server, seen
<1>1. ASSUME NEW t \in Tg, Writes(t)
      PROVE  RowFacts
  BY <1>1 DEF GoneTypes, RowFacts, RowStep, GroupStep, MarkStep, ToStore, Writes, NewTg, NewTgs
<1>2. ASSUME NEW t \in Tg, Edits(t)
      PROVE  RowFacts
  BY <1>2 DEF GoneTypes, RowFacts, RowStep, GroupStep, MarkStep, ToStore, Edits
<1>3. ASSUME NEW c \in Tg, NEW t \in Tg, Commands(c, t)
      PROVE  RowFacts
  BY <1>3 DEF GoneTypes, RowFacts, RowStep, GroupStep, MarkStep, ToStore, Commands, NewTg, NewTgs
<1>4. ASSUME NEW d \in Dc, WritesDc(d)
      PROVE  RowFacts
  BY <1>4 DEF GoneTypes, RowFacts, RowStep, GroupStep, MarkStep, ToStore, WritesDc
<1>5. ASSUME NEW d \in Dc, DeletesDc(d)
      PROVE  RowFacts
  BY <1>5 DEF GoneTypes, RowFacts, RowStep, GroupStep, MarkStep, ToStore, DeletesDc
<1>6. ASSUME NEW r \in Request, AsksToSend(r)
      PROVE  RowFacts
  BY <1>6 DEF GoneTypes, RowFacts, RowStep, GroupStep, MarkStep, ToStore, AsksToSend
<1>7. ASSUME NEW r \in Request, NEW tgs \in SUBSET Tg, AsksToDelete(r, tgs)
      PROVE  RowFacts
  BY <1>7 DEF GoneTypes, RowFacts, RowStep, GroupStep, MarkStep, ToStore, AsksToDelete
<1> QED  BY <1>1, <1>2, <1>3, <1>4, <1>5, <1>6, <1>7 DEF External

LEMMA RouteRows ==
    ASSUME TypeOK, GoneTypes, NEW t \in Tg, RouteStep(t)
    PROVE  RowFacts
<1> USE DEF None, telegram, channel, shared, updater, sender, remover, server, seen
<1>1. CASE RouteDropped(t)
  BY <1>1 DEF GoneTypes, RowFacts, RowStep, GroupStep, MarkStep, ToStore, RouteDropped
<1>2. CASE PostFails(t)
  BY <1>2 DEF GoneTypes, RowFacts, RowStep, GroupStep, MarkStep, ToStore, PostFails
<1>3. CASE Store(t)
  BY <1>3 DEF GoneTypes, RowFacts, RowStep, GroupStep, MarkStep, ToStore, Store
<1>4. CASE Relay(t)
  BY <1>4 DEF GoneTypes, RowFacts, RowStep, GroupStep, MarkStep, ToStore, Relay
<1>5. ASSUME NEW d \in Dc, Post(t, d)
      PROVE  RowFacts
  BY <1>5 DEF GoneTypes, RowFacts, RowStep, GroupStep, MarkStep, ToStore, Post
<1> QED  BY <1>1, <1>2, <1>3, <1>4, <1>5 DEF RouteStep

LEMMA CommandRows ==
    ASSUME TypeOK, GoneTypes, NEW t \in Tg, CommandStep(t)
    PROVE  RowFacts
<1> USE DEF None, telegram, channel, shared, updater, sender, remover, server, seen
<1>1. CASE FindParent(t)
  BY <1>1 DEF GoneTypes, RowFacts, RowStep, GroupStep, MarkStep, ToStore, FindParent
<1>2. CASE DeleteParent(t)
  BY <1>2 DEF GoneTypes, RowFacts, RowStep, GroupStep, MarkStep, ToStore, DeleteParent
<1>3. CASE DeleteParentFails(t)
  BY <1>3 DEF GoneTypes, RowFacts, RowStep, GroupStep, MarkStep, ToStore, DeleteParentFails
<1>4. CASE RecallParent(t)
  BY <1>4 DEF GoneTypes, RowFacts, RowStep, GroupStep, MarkStep, ToStore, RecallParent
<1>5. CASE CheckSiblings(t)
  BY <1>5 DEF GoneTypes, RowFacts, RowStep, GroupStep, MarkStep, ToStore, CheckSiblings
<1>6. CASE Fetch(t)
  BY <1>6 DEF GoneTypes, RowFacts, RowStep, GroupStep, MarkStep, ToStore, Fetch, Mark
<1>7. CASE Erase(t)
  BY <1>7 DEF GoneTypes, RowFacts, RowStep, GroupStep, MarkStep, ToStore, Erase
<1>8. CASE EraseFails(t)
  BY <1>8 DEF GoneTypes, RowFacts, RowStep, GroupStep, MarkStep, ToStore, EraseFails
<1>9. CASE Unmap(t)
  BY <1>9 DEF GoneTypes, RowFacts, RowStep, GroupStep, MarkStep, ToStore, Unmap
<1>10. CASE EndCommand(t)
  BY <1>10 DEF GoneTypes, RowFacts, RowStep, GroupStep, MarkStep, ToStore, EndCommand
<1> QED  BY <1>1, <1>2, <1>3, <1>4, <1>5, <1>6, <1>7, <1>8, <1>9, <1>10 DEF CommandStep

LEMMA SenderRows ==
    ASSUME TypeOK, GoneTypes, NEW d \in Dc, SenderStep(d)
    PROVE  RowFacts
<1> USE DEF None, telegram, channel, shared, updater, sender, remover, server, seen
<1>1. CASE NotSent(d)
  BY <1>1 DEF GoneTypes, RowFacts, RowStep, GroupStep, MarkStep, ToStore, NotSent
<1>2. CASE Sent(d)
  BY <1>2 DEF GoneTypes, RowFacts, RowStep, GroupStep, MarkStep, ToStore, Sent
<1>3. ASSUME NEW tgs \in SUBSET Tg, Send(d, tgs)
      PROVE  RowFacts
  BY <1>3, NewTgsType DEF GoneTypes, RowFacts, RowStep, GroupStep, MarkStep, ToStore, Send, NewTg, NewTgs
<1>4. ASSUME NEW t \in Tg, StoreSent(d, t)
      PROVE  RowFacts
  BY <1>4 DEF GoneTypes, RowFacts, RowStep, GroupStep, MarkStep, ToStore, StoreSent
<1>5. ASSUME NEW t \in Tg, RelaySent(d, t)
      PROVE  RowFacts
  BY <1>5 DEF GoneTypes, RowFacts, RowStep, GroupStep, MarkStep, ToStore, RelaySent
<1> QED  BY <1>1, <1>2, <1>3, <1>4, <1>5 DEF SenderStep

LEMMA RemoverRows ==
    ASSUME TypeOK, GoneTypes, NEW d \in Dc, RemoverStep(d)
    PROVE  RowFacts
<1> USE DEF None, telegram, channel, shared, updater, sender, remover, server, seen
<1>1. CASE OnRawDelete(d)
  BY <1>1 DEF GoneTypes, RowFacts, RowStep, GroupStep, MarkStep, ToStore, OnRawDelete
<1>2. CASE LookupDeleted(d)
  BY <1>2 DEF GoneTypes, RowFacts, RowStep, GroupStep, MarkStep, ToStore, LookupDeleted
<1>3. CASE ExecuteDelete(d)
  BY <1>3 DEF GoneTypes, RowFacts, RowStep, GroupStep, MarkStep, ToStore, ExecuteDelete
<1>4. ASSUME NEW t \in Tg, DeleteSent(d, t)
      PROVE  RowFacts
  BY <1>4 DEF GoneTypes, RowFacts, RowStep, GroupStep, MarkStep, ToStore, DeleteSent
<1>5. CASE RecallSent(d)
  BY <1>5 DEF GoneTypes, RowFacts, RowStep, GroupStep, MarkStep, ToStore, RecallSent
<1>6. CASE DeleteRows(d)
  BY <1>6 DEF GoneTypes, RowFacts, RowStep, GroupStep, MarkStep, ToStore, DeleteRows
<1> QED  BY <1>1, <1>2, <1>3, <1>4, <1>5, <1>6 DEF RemoverStep

LEMMA RequestRows ==
    ASSUME TypeOK, GoneTypes, NEW r \in Request, RequestStep(r)
    PROVE  RowFacts
<1> USE DEF None, telegram, channel, shared, updater, sender, remover, server, seen
<1>1. CASE NotPlaced(r)
  BY <1>1 DEF GoneTypes, RowFacts, RowStep, GroupStep, MarkStep, ToStore, NotPlaced
<1>2. CASE Placed(r)
  BY <1>2 DEF GoneTypes, RowFacts, RowStep, GroupStep, MarkStep, ToStore, Placed
<1>3. CASE PostRequestFails(r)
  BY <1>3 DEF GoneTypes, RowFacts, RowStep, GroupStep, MarkStep, ToStore, PostRequestFails
<1>4. ASSUME NEW tgs \in SUBSET Tg, Place(r, tgs)
      PROVE  RowFacts
  BY <1>4, NewTgsType DEF GoneTypes, RowFacts, RowStep, GroupStep, MarkStep, ToStore, Place, NewTg, NewTgs
<1>5. ASSUME NEW d \in Dc, PostRequest(r, d)
      PROVE  RowFacts
  BY <1>5 DEF GoneTypes, RowFacts, RowStep, GroupStep, MarkStep, ToStore, PostRequest
<1>6. ASSUME NEW t \in Tg, StoreRequest(r, t)
      PROVE  RowFacts
  BY <1>6 DEF GoneTypes, RowFacts, RowStep, GroupStep, MarkStep, ToStore, StoreRequest
<1> QED  BY <1>1, <1>2, <1>3, <1>4, <1>5, <1>6 DEF RequestStep

LEMMA DeletionRows ==
    ASSUME TypeOK, GoneTypes, NEW r \in Request, NEW t \in Tg, DeletionStep(r, t)
    PROVE  RowFacts
<1> USE DEF None, telegram, channel, shared, updater, sender, remover, server, seen
<1>1. CASE DeleteAsked(r, t)
  BY <1>1 DEF GoneTypes, RowFacts, RowStep, GroupStep, MarkStep, ToStore, DeleteAsked
<1>2. CASE FindAsked(r, t)
  BY <1>2 DEF GoneTypes, RowFacts, RowStep, GroupStep, MarkStep, ToStore, FindAsked
<1>3. CASE UnmapAsked(r, t)
  BY <1>3 DEF GoneTypes, RowFacts, RowStep, GroupStep, MarkStep, ToStore, UnmapAsked
<1>4. CASE CheckAsked(r, t)
  BY <1>4 DEF GoneTypes, RowFacts, RowStep, GroupStep, MarkStep, ToStore, CheckAsked, Mark
<1>5. CASE EraseAsked(r, t)
  BY <1>5 DEF GoneTypes, RowFacts, RowStep, GroupStep, MarkStep, ToStore, EraseAsked
<1>6. CASE EraseAskedFails(r, t)
  BY <1>6 DEF GoneTypes, RowFacts, RowStep, GroupStep, MarkStep, ToStore, EraseAskedFails
<1> QED  BY <1>1, <1>2, <1>3, <1>4, <1>5, <1>6 DEF DeletionStep

LEMMA StepRows ==
    ASSUME TypeOK, [Next]_vars
    PROVE  RowFacts
<1>1. GoneTypes
  BY NativeBridgeAssumption DEF TypeOK, GoneTypes, Dc, Tg, None
<1>2. CASE Crash
  BY <1>1, <1>2 DEF GoneTypes, Crash, RowFacts, RowStep, GroupStep, MarkStep
<1>3. CASE UNCHANGED vars
  BY <1>3 DEF RowFacts, RowStep, GroupStep, MarkStep, vars, telegram, shared
<1> QED
  BY <1>1, <1>2, <1>3, ExternalRows, RouteRows, CommandRows, SenderRows, RemoverRows, RequestRows,
     DeletionRows DEF Next

\* The delete command goes on with the same update, and looks at the siblings when
\* the parent is gone.
CommandGoes ==
    updates # <<>> /\ updates' # <<>> /\ Head(updates') = Head(updates)

ParentStep ==
    upc' \in {"recall", "siblings", "fetch", "erase", "unmap"} =>
        /\ CommandGoes
        /\ \/ upc \in {"recall", "siblings", "fetch", "erase", "unmap"}
           \/ tg' = tg \ {Head(updates).parent}

SiblingStep ==
    upc' = "fetch" =>
        /\ CommandGoes
        /\ ufound' = ufound
        /\ \/ upc = "fetch"
           \/ upc = "siblings" /\ map' = map /\ RowsOf(ufound) \ {Head(updates).parent} = {}

LEMMA StepCommand ==
    ASSUME TypeOK, [Next]_vars
    PROVE  ParentStep /\ SiblingStep
<1> USE DEF telegram, channel, shared, updater, sender, remover, server, seen
<1>1. ASSUME UNCHANGED <<upc, ufound>>,
             \/ updates' = updates
             \/ \E t \in Tg : Writes(t) \/ Edits(t) \/ \E c \in Tg : Commands(c, t)
      PROVE  ParentStep /\ SiblingStep
  <2>1. ASSUME upc # "next"
        PROVE  CommandGoes
    <3>1. updates # <<>>
      BY <2>1 DEF TypeOK
    <3>2. CASE updates' = updates
      BY <3>1, <3>2 DEF CommandGoes
    <3>3. ASSUME NEW t \in Tg, Writes(t)
          PROVE  CommandGoes
      BY <3>1, <3>3, QueueType DEF CommandGoes, Writes
    <3>4. ASSUME NEW t \in Tg, Edits(t)
          PROVE  CommandGoes
      BY <3>1, <3>4, QueueType DEF CommandGoes, Edits
    <3>5. ASSUME NEW t \in Tg, NEW c \in Tg, Commands(c, t)
          PROVE  CommandGoes
      BY <3>1, <3>5, QueueType DEF CommandGoes, Commands
    <3> QED  BY <1>1, <3>2, <3>3, <3>4, <3>5
  <2> QED  BY <1>1, <2>1 DEF ParentStep, SiblingStep
<1>2. CASE External
  BY <1>1, <1>2 DEF External, Writes, Edits, Commands, WritesDc, DeletesDc, AsksToSend, AsksToDelete
<1>3. ASSUME NEW t \in Tg, RouteStep(t)
      PROVE  ParentStep /\ SiblingStep
  <2>1. upc' \in {"next", "relay", "store"}
    BY <1>3 DEF RouteStep, RouteDropped, PostFails, Store, Relay, Post, NextUpdate
  <2> QED  BY <2>1 DEF ParentStep, SiblingStep
<1>4. ASSUME NEW t \in Tg, CommandStep(t)
      PROVE  ParentStep /\ SiblingStep
  <2>1. CASE upc' \in {"next", "delete", "end"}
    BY <2>1 DEF ParentStep, SiblingStep
  <2>2. CASE DeleteParent(t)
    BY <2>2 DEF DeleteParent, Deletes, ParentStep, SiblingStep, CommandGoes
  <2>3. CASE RecallParent(t)
    BY <2>3 DEF RecallParent, Deletes, ParentStep, SiblingStep, CommandGoes
  <2>4. CASE CheckSiblings(t)
    BY <2>4 DEF CheckSiblings, Deletes, ParentStep, SiblingStep, CommandGoes
  <2>5. CASE Fetch(t)
    BY <2>5 DEF Fetch, Deletes, ParentStep, SiblingStep, CommandGoes
  <2>6. CASE Erase(t)
    BY <2>6 DEF Erase, Deletes, ParentStep, SiblingStep, CommandGoes
  <2> QED
    BY <1>4, <2>1, <2>2, <2>3, <2>4, <2>5, <2>6
       DEF CommandStep, FindParent, DeleteParentFails, EraseFails, Unmap, EndCommand, NextUpdate
<1>5. ASSUME NEW d \in Dc, SenderStep(d) \/ RemoverStep(d)
      PROVE  ParentStep /\ SiblingStep
  <2>1. UNCHANGED <<upc, ufound, updates>>
    BY <1>5 DEF SenderStep, NotSent, Sent, Send, StoreSent, RelaySent, RemoverStep, OnRawDelete,
         LookupDeleted, ExecuteDelete, DeleteSent, RecallSent, DeleteRows
  <2> QED  BY <1>1, <2>1
<1>6. ASSUME NEW r \in Request, RequestStep(r) \/ \E t \in Tg : DeletionStep(r, t)
      PROVE  ParentStep /\ SiblingStep
  <2>1. UNCHANGED <<upc, ufound, updates>>
    BY <1>6 DEF RequestStep, NotPlaced, Placed, PostRequestFails, Place, PostRequest, StoreRequest,
         DeletionStep, DeleteAsked, FindAsked, UnmapAsked, CheckAsked, EraseAsked, EraseAskedFails
  <2> QED  BY <1>1, <2>1
<1>7. CASE Crash
  BY <1>7 DEF Crash, ParentStep, SiblingStep
<1>8. CASE UNCHANGED vars
  BY <1>1, <1>8 DEF vars
<1> QED  BY <1>2, <1>3, <1>4, <1>5, <1>6, <1>7, <1>8 DEF Next

--------------------------------------------------------------------------------
(* The invariant *)

LEMMA InitInv ==
    ASSUME Init
    PROVE  IInv
<1>1. TypeOK
  BY InitType
<1>2. DcKnown /\ TgKnown /\ UpdatesKnown
  BY DEF Init, DcKnown, TgKnown, UpdatesKnown, Before, None
<1>3. FoundTorn /\ ParentGone /\ OnlyParent /\ SuppressedGone
  BY DEF Init, FoundTorn, Found, ToStore, ParentGone, OnlyParent, SuppressedGone
<1> QED  BY <1>1, <1>2, <1>3 DEF IInv

\* The parent stays away: its id has been given.
LEMMA StepParent ==
    ASSUME IInv, [Next]_vars
    PROVE  ParentGone'
<1> SUFFICES ASSUME upc' \in {"recall", "siblings", "fetch", "erase", "unmap"}
             PROVE  Head(updates').parent \notin tg'
  BY DEF ParentGone
<1> DEFINE p == Head(updates).parent
<1>1. CommandGoes
  BY StepCommand DEF IInv, ParentStep
<1>2. p < nextTg /\ p \in Nat /\ nextTg \in Nat
  <2>1. Head(updates) \in Update
    BY <1>1, HeadType DEF IInv, CommandGoes
  <2>2. p \in Nat
    BY <2>1 DEF Update, Tg, None
  <2>3. p < nextTg
    BY <1>1, HeadKnown DEF IInv, CommandGoes
  <2>4. nextTg \in Nat
    BY NativeBridgeAssumption DEF IInv, TypeOK
  <2> QED  BY <2>2, <2>3, <2>4
<1> HIDE DEF p
<1>3. ASSUME p \in tg'
      PROVE  FALSE
  <2>1. p \in tg \/ nextTg <= p
    BY <1>3, StepRows DEF IInv, RowFacts, GroupStep
  <2>2. p \in tg
    BY <1>2, <2>1
  <2> QED  BY <1>3, <2>2, StepCommand DEF IInv, ParentStep, ParentGone, p
<1> QED  BY <1>1, <1>3 DEF CommandGoes, p

\* A row of a message that a task found is an old one, or the message is torn.
LEMMA FoundRows ==
    ASSUME IInv, [Next]_vars, NEW d \in Dc \ torn', Found(d), NEW t \in Tg, map'[t] = d
    PROVE  map[t] = d
<1>1. FoundStep
  BY StepFound DEF IInv
<1>2. ~ToStore(d)
  BY <1>1 DEF IInv, FoundStep, FoundTorn
<1>3. d # None
  BY DEF Dc, None
<1> QED  BY <1>2, <1>3, StepRows DEF IInv, RowFacts, RowStep

LEMMA StepOnly ==
    ASSUME IInv, [Next]_vars
    PROVE  OnlyParent'
<1> SUFFICES ASSUME upc' = "fetch", ufound' \notin torn', NEW t \in Tg, map'[t] = ufound'
             PROVE  t = Head(updates').parent
  BY DEF OnlyParent, RowsOf
<1>1. /\ CommandGoes /\ ufound' = ufound
      /\ \/ upc = "fetch"
         \/ upc = "siblings" /\ map' = map /\ RowsOf(ufound) \ {Head(updates).parent} = {}
  BY StepCommand DEF IInv, SiblingStep
<1>2. Head(updates') = Head(updates)
  BY <1>1 DEF CommandGoes
<1>3. CASE upc = "fetch"
  <2>1. ufound \in Dc \ torn' /\ Found(ufound)
    BY <1>1, <1>3 DEF IInv, TypeOK, Found
  <2>2. map[t] = ufound
    BY <1>1, <2>1, FoundRows
  <2>3. ufound \notin torn
    BY <2>1, StepFound DEF IInv, FoundStep
  <2> QED  BY <1>2, <1>3, <2>2, <2>3 DEF IInv, OnlyParent, RowsOf
<1>4. CASE map' = map /\ RowsOf(ufound) \ {Head(updates).parent} = {}
  BY <1>1, <1>2, <1>4 DEF RowsOf
<1> QED  BY <1>1, <1>3, <1>4

LEMMA StepSuppressed ==
    ASSUME IInv, [Next]_vars
    PROVE  SuppressedGone'
<1> SUFFICES ASSUME NEW d \in suppress' \ torn', NEW t \in Tg, map'[t] = d, t \in tg'
             PROVE  FALSE
  BY DEF SuppressedGone, RowsOf
<1>1. d \in Dc /\ d \notin torn
  <2>1. TypeOK'
    BY StepType DEF IInv
  <2> QED  BY <2>1, StepFound DEF IInv, TypeOK, FoundStep
<1>2. CASE d \in suppress
  <2>1. map[t] = d
    BY <1>1, <1>2, FoundRows DEF Found
  <2>2. t < nextTg
    BY <1>1, <2>1 DEF IInv, TgKnown, Dc, None
  <2>3. t \in tg \/ nextTg <= t
    BY StepRows DEF IInv, RowFacts, GroupStep
  <2>4. t \in Nat /\ nextTg \in Nat
    BY NativeBridgeAssumption DEF IInv, TypeOK, Tg
  <2>5. t \in tg
    BY <2>2, <2>3, <2>4
  <2> QED  BY <1>1, <1>2, <2>1, <2>5 DEF IInv, SuppressedGone, RowsOf
<1>3. CASE d \notin suppress
  <2>1. UNCHANGED <<map, tg>> /\ ((upc = "fetch" /\ ufound = d) \/ RowsOf(d) = {})
    BY <1>3, StepRows DEF IInv, RowFacts, MarkStep
  <2>2. t \in RowsOf(d)
    BY <2>1 DEF RowsOf
  <2>3. upc = "fetch" /\ ufound = d
    BY <2>1, <2>2
  <2>4. t = Head(updates).parent
    BY <1>1, <2>2, <2>3 DEF IInv, OnlyParent
  <2> QED  BY <2>1, <2>3, <2>4 DEF IInv, ParentGone
<1> QED  BY <1>2, <1>3

LEMMA StepInv ==
    ASSUME IInv, [Next]_vars
    PROVE  IInv'
<1>1. TypeOK' /\ DcKnown' /\ TgKnown' /\ UpdatesKnown' /\ FoundTorn'
  BY StepType, StepDc, StepTg, StepUpdates, StepFound DEF IInv
<1> QED  BY <1>1, StepParent, StepOnly, StepSuppressed DEF IInv

\* The invariant holds throughout.
THEOREM Invariance == Spec => []IInv
<1>1. Init => IInv
  BY InitInv
<1>2. IInv /\ [Next]_vars => IInv'
  BY StepInv
<1> QED  BY <1>1, <1>2, PTL DEF Spec

\* Every variable keeps its type, and a task that deletes knows what it deletes.
THEOREM TypeCorrect == Spec => []TypeOK
<1>1. IInv => TypeOK
  BY DEF IInv
<1> QED  BY <1>1, Invariance, PTL

\* A mark is dropped, as an echo, only when no mapped Telegram message is left to
\* delete: a user's deletion in Discord reaches Telegram, though marks outlive
\* failed deletions and are dropped all at once when there are too many.
THEOREM DeletionsReach == Spec => UserDeletionKept
<1>1. IInv => \A d \in suppress \ torn : RowsOf(d) \cap tg = {}
  BY DEF IInv, SuppressedGone
<1>2. ASSUME \A d \in suppress \ torn : RowsOf(d) \cap tg = {}
      PROVE  [\A d \in suppress \ (suppress' \cup torn) :
                 d \in raw => RowsOf(d) \cap tg = {}]_vars
  BY <1>2
<1> QED  BY <1>1, <1>2, Invariance, PTL DEF UserDeletionKept

--------------------------------------------------------------------------------
(* Who changes what *)

\* A fault is not forgotten, nor is what was recalled, asked or relayed.
LEMMA OnlyGrow ==
    ASSUME [Next]_vars
    PROVE  /\ faults \subseteq faults' /\ torn \subseteq torn' /\ crossed \subseteq crossed'
           /\ recalled \subseteq recalled' /\ asked \subseteq asked' /\ nextDc' \in {nextDc, nextDc + 1}
<1> USE DEF telegram, channel, shared, updater, sender, remover, server, seen, Fault
<1>1. CASE External
  BY <1>1 DEF External, Writes, Edits, Commands, WritesDc, DeletesDc, AsksToSend, AsksToDelete, NewDc
<1>2. ASSUME NEW t \in Tg, RouteStep(t)
      PROVE  /\ faults \subseteq faults' /\ torn \subseteq torn' /\ crossed \subseteq crossed'
             /\ recalled \subseteq recalled' /\ asked \subseteq asked' /\ nextDc' \in {nextDc, nextDc + 1}
  BY <1>2 DEF RouteStep, RouteDropped, PostFails, Store, Relay, Post, PostCopy, NewDc
<1>3. ASSUME NEW t \in Tg, CommandStep(t)
      PROVE  /\ faults \subseteq faults' /\ torn \subseteq torn' /\ crossed \subseteq crossed'
             /\ recalled \subseteq recalled' /\ asked \subseteq asked' /\ nextDc' \in {nextDc, nextDc + 1}
  BY <1>3 DEF CommandStep, FindParent, DeleteParent, DeleteParentFails, RecallParent, CheckSiblings,
              Fetch, Erase, EraseFails, Unmap, EndCommand, Tear, Cross
<1>4. ASSUME NEW d \in Dc, SenderStep(d) \/ RemoverStep(d)
      PROVE  /\ faults \subseteq faults' /\ torn \subseteq torn' /\ crossed \subseteq crossed'
             /\ recalled \subseteq recalled' /\ asked \subseteq asked' /\ nextDc' \in {nextDc, nextDc + 1}
  BY <1>4 DEF SenderStep, NotSent, Sent, Send, StoreSent, RelaySent, RemoverStep, OnRawDelete,
              LookupDeleted, ExecuteDelete, DeleteSent, RecallSent, DeleteRows, Tear
<1>5. ASSUME NEW r \in Request, RequestStep(r)
      PROVE  /\ faults \subseteq faults' /\ torn \subseteq torn' /\ crossed \subseteq crossed'
             /\ recalled \subseteq recalled' /\ asked \subseteq asked' /\ nextDc' \in {nextDc, nextDc + 1}
  BY <1>5 DEF RequestStep, NotPlaced, Placed, PostRequestFails, Place, PostRequest, StoreRequest, PostCopy, NewDc
<1>6. ASSUME NEW r \in Request, NEW t \in Tg, DeletionStep(r, t)
      PROVE  /\ faults \subseteq faults' /\ torn \subseteq torn' /\ crossed \subseteq crossed'
             /\ recalled \subseteq recalled' /\ asked \subseteq asked' /\ nextDc' \in {nextDc, nextDc + 1}
  BY <1>6 DEF DeletionStep, DeleteAsked, FindAsked, UnmapAsked, CheckAsked, EraseAsked, EraseAskedFails, Tear, Cross
<1>7. CASE Crash \/ UNCHANGED vars
  BY <1>7 DEF Crash, vars
<1> QED  BY <1>1, <1>2, <1>3, <1>4, <1>5, <1>6, <1>7 DEF Next

\* Four tasks delete a Telegram message, and a user's message is a new one.
LEMMA TgMoves ==
    ASSUME [Next]_vars
    PROVE  /\ \A t \in tg \ tg' :
                 \/ DeleteParent(t) \/ EndCommand(t)
                 \/ \E d \in Dc : DeleteSent(d, t)
                 \/ \E r \in Request : DeleteAsked(r, t)
           /\ users' = users \/ (\E t \in Tg : Writes(t))
<1> USE DEF telegram, channel, shared, updater, sender, remover, server, seen
<1>1. CASE External
  BY <1>1 DEF External, Writes, Edits, Commands, WritesDc, DeletesDc, AsksToSend, AsksToDelete, NewTg
<1>2. ASSUME NEW t \in Tg, RouteStep(t)
      PROVE  tg' = tg /\ users' = users
  BY <1>2 DEF RouteStep, RouteDropped, PostFails, Store, Relay, Post
<1>3. ASSUME NEW t \in Tg, CommandStep(t)
      PROVE  users' = users /\ (tg' = tg \/ (tg' = tg \ {t} /\ (DeleteParent(t) \/ EndCommand(t))))
  BY <1>3 DEF CommandStep, FindParent, DeleteParent, DeleteParentFails, RecallParent, CheckSiblings,
              Fetch, Erase, EraseFails, Unmap, EndCommand
<1>4. ASSUME NEW d \in Dc, SenderStep(d)
      PROVE  users' = users /\ tg \subseteq tg'
  BY <1>4 DEF SenderStep, NotSent, Sent, Send, StoreSent, RelaySent, NewTgs
<1>5. ASSUME NEW d \in Dc, RemoverStep(d)
      PROVE  users' = users /\ (tg' = tg \/ \E t \in Tg : tg' = tg \ {t} /\ DeleteSent(d, t))
  <2>1. ASSUME NEW t \in Tg, DeleteSent(d, t)
        PROVE  users' = users /\ (tg' = tg \/ tg' = tg \ {t})
    BY <2>1 DEF DeleteSent
  <2>2. CASE ~\E t \in Tg : DeleteSent(d, t)
    BY <1>5, <2>2 DEF RemoverStep, OnRawDelete, LookupDeleted, ExecuteDelete, RecallSent, DeleteRows
  <2> QED  BY <2>1, <2>2
<1>6. ASSUME NEW r \in Request, RequestStep(r)
      PROVE  users' = users /\ tg \subseteq tg'
  BY <1>6 DEF RequestStep, NotPlaced, Placed, PostRequestFails, Place, PostRequest, StoreRequest, NewTgs
<1>7. ASSUME NEW r \in Request, NEW t \in Tg, DeletionStep(r, t)
      PROVE  users' = users /\ (tg' = tg \/ (tg' = tg \ {t} /\ DeleteAsked(r, t)))
  <2>1. CASE DeleteAsked(r, t)
    BY <2>1 DEF DeleteAsked
  <2> QED  BY <1>7, <2>1 DEF DeletionStep, FindAsked, UnmapAsked, CheckAsked, EraseAsked, EraseAskedFails
<1>8. CASE Crash \/ UNCHANGED vars
  BY <1>8 DEF Crash, vars
<1> QED  BY <1>1, <1>2, <1>3, <1>4, <1>5, <1>6, <1>7, <1>8 DEF Next

\* Three tasks store a row, and three remove rows.
LEMMA MapMoves ==
    ASSUME TypeOK, [Next]_vars, NEW t \in Tg
    PROVE  \/ map'[t] = map[t]
           \/ Store(t) \/ (\E d \in Dc : StoreSent(d, t)) \/ \E r \in Request : StoreRequest(r, t)
           \/ Unmap(t) /\ map'[t] = None
           \/ \E r \in Request : UnmapAsked(r, t) /\ map'[t] = None
           \/ \E d \in Dc : DeleteRows(d) /\ map[t] = d /\ map'[t] = None
<1> USE DEF telegram, channel, shared, updater, sender, remover, server, seen, TypeOK
<1>1. CASE External
  BY <1>1 DEF External, Writes, Edits, Commands, WritesDc, DeletesDc, AsksToSend, AsksToDelete
<1>2. ASSUME NEW u \in Tg, RouteStep(u)
      PROVE  map'[t] = map[t] \/ (u = t /\ Store(t))
  <2>1. CASE Store(u)
    BY <2>1 DEF Store
  <2> QED  BY <1>2, <2>1 DEF RouteStep, RouteDropped, PostFails, Relay, Post
<1>3. ASSUME NEW u \in Tg, CommandStep(u)
      PROVE  map'[t] = map[t] \/ (u = t /\ Unmap(t) /\ map'[t] = None)
  <2>1. CASE Unmap(u)
    BY <2>1 DEF Unmap
  <2> QED  BY <1>3, <2>1 DEF CommandStep, FindParent, DeleteParent, DeleteParentFails, RecallParent,
     CheckSiblings, Fetch, Erase, EraseFails, EndCommand
<1>4. ASSUME NEW d \in Dc, SenderStep(d)
      PROVE  map'[t] = map[t] \/ StoreSent(d, t)
  <2>1. ASSUME NEW u \in Tg, StoreSent(d, u)
        PROVE  map'[t] = map[t] \/ u = t
    BY <2>1 DEF StoreSent
  <2>2. CASE ~\E u \in Tg : StoreSent(d, u)
    BY <1>4, <2>2 DEF SenderStep, NotSent, Sent, Send, RelaySent
  <2> QED  BY <2>1, <2>2
<1>5. ASSUME NEW d \in Dc, RemoverStep(d)
      PROVE  map'[t] = map[t] \/ (DeleteRows(d) /\ map[t] = d /\ map'[t] = None)
  <2>1. CASE DeleteRows(d)
    BY <2>1 DEF DeleteRows
  <2> QED  BY <1>5, <2>1 DEF RemoverStep, OnRawDelete, LookupDeleted, ExecuteDelete, DeleteSent, RecallSent
<1>6. ASSUME NEW r \in Request, RequestStep(r)
      PROVE  map'[t] = map[t] \/ StoreRequest(r, t)
  <2>1. ASSUME NEW u \in Tg, StoreRequest(r, u)
        PROVE  map'[t] = map[t] \/ u = t
    BY <2>1 DEF StoreRequest
  <2>2. CASE ~\E u \in Tg : StoreRequest(r, u)
    BY <1>6, <2>2 DEF RequestStep, NotPlaced, Placed, PostRequestFails, Place, PostRequest
  <2> QED  BY <2>1, <2>2
<1>7. ASSUME NEW r \in Request, NEW u \in Tg, DeletionStep(r, u)
      PROVE  map'[t] = map[t] \/ (u = t /\ UnmapAsked(r, t) /\ map'[t] = None)
  <2>1. CASE UnmapAsked(r, u)
    BY <2>1 DEF UnmapAsked
  <2> QED  BY <1>7, <2>1 DEF DeletionStep, DeleteAsked, FindAsked, CheckAsked, EraseAsked, EraseAskedFails
<1>8. CASE Crash \/ UNCHANGED vars
  BY <1>8 DEF Crash, vars
<1> QED  BY <1>1, <1>2, <1>3, <1>4, <1>5, <1>6, <1>7, <1>8 DEF Next

\* What a Discord message is about: set when it is posted, and while it is sent.
LEMMA AboutMoves ==
    ASSUME TypeOK, [Next]_vars, NEW d \in Dc
    PROVE  \/ about'[d] = about[d]
           \/ \E t \in Tg : Post(t, d)
           \/ \E r \in Request : PostRequest(r, d)
           \/ \E tgs \in SUBSET Tg : Send(d, tgs)
<1> USE DEF telegram, channel, shared, updater, sender, remover, server, seen, TypeOK
<1>1. CASE External
  BY <1>1 DEF External, Writes, Edits, Commands, WritesDc, DeletesDc, AsksToSend, AsksToDelete
<1>2. ASSUME NEW u \in Tg, RouteStep(u)
      PROVE  about'[d] = about[d] \/ Post(u, d)
  <2>1. ASSUME NEW c \in Dc, Post(u, c)
        PROVE  about'[d] = about[d] \/ c = d
    BY <2>1 DEF Post, PostCopy
  <2>2. CASE ~\E c \in Dc : Post(u, c)
    BY <1>2, <2>2 DEF RouteStep, RouteDropped, PostFails, Store, Relay
  <2> QED  BY <2>1, <2>2
<1>3. ASSUME NEW u \in Tg, CommandStep(u)
      PROVE  about' = about
  BY <1>3 DEF CommandStep, FindParent, DeleteParent, DeleteParentFails, RecallParent,
     CheckSiblings, Fetch, Erase, EraseFails, Unmap, EndCommand
<1>4. ASSUME NEW c \in Dc, SenderStep(c)
      PROVE  about'[d] = about[d] \/ \E tgs \in SUBSET Tg : Send(d, tgs)
  <2>1. ASSUME NEW tgs \in SUBSET Tg, Send(c, tgs)
        PROVE  about'[d] = about[d] \/ c = d
    BY <2>1 DEF Send
  <2>2. CASE ~\E tgs \in SUBSET Tg : Send(c, tgs)
    BY <1>4, <2>2 DEF SenderStep, NotSent, Sent, StoreSent, RelaySent
  <2> QED  BY <2>1, <2>2
<1>5. ASSUME NEW c \in Dc, RemoverStep(c)
      PROVE  about' = about
  BY <1>5 DEF RemoverStep, OnRawDelete, LookupDeleted, ExecuteDelete, DeleteSent, RecallSent, DeleteRows
<1>6. ASSUME NEW r \in Request, RequestStep(r)
      PROVE  about'[d] = about[d] \/ PostRequest(r, d)
  <2>1. ASSUME NEW c \in Dc, PostRequest(r, c)
        PROVE  about'[d] = about[d] \/ c = d
    BY <2>1 DEF PostRequest, PostCopy
  <2>2. CASE ~\E c \in Dc : PostRequest(r, c)
    BY <1>6, <2>2 DEF RequestStep, NotPlaced, Placed, PostRequestFails, Place, StoreRequest
  <2> QED  BY <2>1, <2>2
<1>7. ASSUME NEW r \in Request, NEW u \in Tg, DeletionStep(r, u)
      PROVE  about' = about
  BY <1>7 DEF DeletionStep, DeleteAsked, FindAsked, UnmapAsked, CheckAsked, EraseAsked, EraseAskedFails
<1>8. CASE Crash \/ UNCHANGED vars
  BY <1>8 DEF Crash, vars
<1> QED  BY <1>1, <1>2, <1>3, <1>4, <1>5, <1>6, <1>7, <1>8 DEF Next

\* The update task goes by its own steps; the others at most queue an update for it.
LEMMA UpdateMoves ==
    ASSUME TypeOK, [Next]_vars
    PROVE  \/ /\ upc' = upc /\ ufound' = ufound
              /\ \/ updates' = updates
                 \/ \E t \in Tg : Writes(t) \/ Edits(t) \/ \E c \in Tg : Commands(c, t)
              /\ upc # "next" => CommandGoes
           \/ \E t \in Tg : RouteStep(t) \/ CommandStep(t)
           \/ Crash
<1> USE DEF telegram, channel, shared, updater, sender, remover, server, seen
<1> DEFINE Queues == \E t \in Tg : Writes(t) \/ Edits(t) \/ \E c \in Tg : Commands(c, t)
<1>1. ASSUME updates' = updates \/ Queues, upc # "next"
      PROVE  CommandGoes
  <2>1. updates # <<>>
    BY <1>1 DEF TypeOK
  <2>2. CASE updates' = updates
    BY <2>1, <2>2 DEF CommandGoes
  <2>3. ASSUME NEW t \in Tg, Writes(t)
        PROVE  CommandGoes
    BY <2>1, <2>3, QueueType DEF CommandGoes, Writes
  <2>4. ASSUME NEW t \in Tg, Edits(t)
        PROVE  CommandGoes
    BY <2>1, <2>4, QueueType DEF CommandGoes, Edits
  <2>5. ASSUME NEW t \in Tg, NEW c \in Tg, Commands(c, t)
        PROVE  CommandGoes
    BY <2>1, <2>5, QueueType DEF CommandGoes, Commands
  <2> QED  BY <1>1, <2>2, <2>3, <2>4, <2>5
<1>2. CASE External
  <2>1. upc' = upc /\ ufound' = ufound /\ (updates' = updates \/ Queues)
    BY <1>2 DEF External, Writes, Edits, Commands, WritesDc, DeletesDc, AsksToSend, AsksToDelete
  <2> QED  BY <1>1, <2>1
<1>3. ASSUME NEW d \in Dc, SenderStep(d) \/ RemoverStep(d)
      PROVE  UNCHANGED <<upc, ufound, updates>>
  BY <1>3 DEF SenderStep, NotSent, Sent, Send, StoreSent, RelaySent, RemoverStep, OnRawDelete,
       LookupDeleted, ExecuteDelete, DeleteSent, RecallSent, DeleteRows
<1>4. ASSUME NEW r \in Request, RequestStep(r) \/ \E t \in Tg : DeletionStep(r, t)
      PROVE  UNCHANGED <<upc, ufound, updates>>
  BY <1>4 DEF RequestStep, NotPlaced, Placed, PostRequestFails, Place, PostRequest, StoreRequest,
       DeletionStep, DeleteAsked, FindAsked, UnmapAsked, CheckAsked, EraseAsked, EraseAskedFails
<1>5. CASE UNCHANGED vars
  BY <1>1, <1>5 DEF vars
<1> QED  BY <1>1, <1>2, <1>3, <1>4, <1>5 DEF Next

\* So do the task that sends a Discord message, and the task of its deletion.
LEMMA SenderMoves ==
    ASSUME TypeOK, [Next]_vars, NEW d \in Dc
    PROVE  \/ spc'[d] = spc[d] /\ rest'[d] = rest[d]
           \/ WritesDc(d) \/ SenderStep(d) \/ Crash
<1> USE DEF telegram, channel, shared, updater, sender, remover, server, seen
<1> USE DEF TypeOK
<1>1. CASE External
  <2>1. ASSUME NEW c \in Dc, WritesDc(c)
        PROVE  (spc'[d] = spc[d] /\ rest'[d] = rest[d]) \/ c = d
    BY <2>1 DEF WritesDc
  <2>2. CASE ~\E c \in Dc : WritesDc(c)
    BY <1>1, <2>2 DEF External, Writes, Edits, Commands, DeletesDc, AsksToSend, AsksToDelete
  <2> QED  BY <2>1, <2>2
<1>2. ASSUME NEW t \in Tg, RouteStep(t) \/ CommandStep(t)
      PROVE  spc'[d] = spc[d] /\ rest'[d] = rest[d]
  BY <1>2 DEF RouteStep, RouteDropped, PostFails, Store, Relay, Post, CommandStep, FindParent,
       DeleteParent, DeleteParentFails, RecallParent, CheckSiblings, Fetch, Erase, EraseFails,
       Unmap, EndCommand
<1>3. ASSUME NEW c \in Dc, SenderStep(c)
      PROVE  (spc'[d] = spc[d] /\ rest'[d] = rest[d]) \/ c = d
  <2>1. ASSUME NEW t \in Tg, StoreSent(c, t)
        PROVE  (spc'[d] = spc[d] /\ rest'[d] = rest[d]) \/ c = d
    BY <2>1 DEF StoreSent
  <2>2. CASE ~\E t \in Tg : StoreSent(c, t)
    BY <1>3, <2>2 DEF SenderStep, NotSent, Sent, Send, RelaySent
  <2> QED  BY <2>1, <2>2
<1>4. ASSUME NEW c \in Dc, RemoverStep(c)
      PROVE  spc'[d] = spc[d] /\ rest'[d] = rest[d]
  BY <1>4 DEF RemoverStep, OnRawDelete, LookupDeleted, ExecuteDelete, DeleteSent, RecallSent,
       DeleteRows
<1>5. ASSUME NEW r \in Request, RequestStep(r) \/ \E t \in Tg : DeletionStep(r, t)
      PROVE  spc'[d] = spc[d] /\ rest'[d] = rest[d]
  BY <1>5 DEF RequestStep, NotPlaced, Placed, PostRequestFails, Place, PostRequest, StoreRequest,
       DeletionStep, DeleteAsked, FindAsked, UnmapAsked, CheckAsked, EraseAsked, EraseAskedFails
<1>6. CASE UNCHANGED vars
  BY <1>6 DEF vars
<1> QED  BY <1>1, <1>2, <1>3, <1>4, <1>5, <1>6 DEF Next

LEMMA RemoverMoves ==
    ASSUME TypeOK, [Next]_vars, NEW d \in Dc
    PROVE  \/ dpc'[d] = dpc[d] /\ ids'[d] = ids[d] /\ held'[d] = held[d]
           \/ RemoverStep(d) \/ Crash
<1> USE DEF telegram, channel, shared, updater, sender, remover, server, seen
<1> USE DEF TypeOK
<1>1. CASE External
  BY <1>1 DEF External, Writes, Edits, Commands, WritesDc, DeletesDc, AsksToSend, AsksToDelete
<1>2. ASSUME NEW t \in Tg, RouteStep(t) \/ CommandStep(t)
      PROVE  UNCHANGED remover
  BY <1>2 DEF RouteStep, RouteDropped, PostFails, Store, Relay, Post, CommandStep, FindParent,
       DeleteParent, DeleteParentFails, RecallParent, CheckSiblings, Fetch, Erase, EraseFails,
       Unmap, EndCommand
<1>3. ASSUME NEW c \in Dc, SenderStep(c)
      PROVE  UNCHANGED remover
  BY <1>3 DEF SenderStep, NotSent, Sent, Send, StoreSent, RelaySent
<1>4. ASSUME NEW c \in Dc, RemoverStep(c)
      PROVE  (dpc'[d] = dpc[d] /\ ids'[d] = ids[d] /\ held'[d] = held[d]) \/ c = d
  BY <1>4 DEF RemoverStep, OnRawDelete, LookupDeleted, ExecuteDelete, DeleteSent, RecallSent,
       DeleteRows
<1>5. ASSUME NEW r \in Request, RequestStep(r) \/ \E t \in Tg : DeletionStep(r, t)
      PROVE  UNCHANGED remover
  BY <1>5 DEF RequestStep, NotPlaced, Placed, PostRequestFails, Place, PostRequest, StoreRequest,
       DeletionStep, DeleteAsked, FindAsked, UnmapAsked, CheckAsked, EraseAsked, EraseAskedFails
<1>6. CASE UNCHANGED vars
  BY <1>6 DEF vars
<1> QED  BY <1>1, <1>2, <1>3, <1>4, <1>5, <1>6 DEF Next

\* And the task of a request.
RequestKept(r) ==
    rpc'[r] = rpc[r] /\ rids'[r] = rids[r] /\ rtodo'[r] = rtodo[r] /\ rfound'[r] = rfound[r]

\* Where a request is that makes messages.
Early == {"place", "post", "store", "done", "failed"}

LEMMA RequestGoes ==
    ASSUME TypeOK, NEW r \in Request, RequestStep(r)
    PROVE  rpc'[r] \in Early
<1>1. rpc = [q \in Request |-> rpc[q]]
  BY DEF TypeOK
<1>2. ASSUME NEW t \in Tg, StoreRequest(r, t)
      PROVE  rpc'[r] \in Early
  <2>1. rpc[r] = "store" /\ rpc'[r] \in {"done", rpc[r]}
    BY <1>1, <1>2, Zenon DEF StoreRequest
  <2> QED  BY <2>1 DEF Early
<1>3. ASSUME NEW tgs \in SUBSET Tg, Place(r, tgs)
      PROVE  rpc'[r] \in Early
  BY <1>3 DEF Place, Early
<1>4. ASSUME NEW d \in Dc, PostRequest(r, d)
      PROVE  rpc'[r] \in Early
  BY <1>1, <1>4 DEF PostRequest, Early
<1>5. CASE NotPlaced(r) \/ Placed(r) \/ PostRequestFails(r)
  BY <1>1, <1>5 DEF NotPlaced, Placed, PostRequestFails, Early
<1> QED  BY <1>2, <1>3, <1>4, <1>5 DEF RequestStep

LEMMA RequestMoves ==
    ASSUME TypeOK, [Next]_vars, NEW r \in Request
    PROVE  \/ RequestKept(r)
           \/ AsksToSend(r) \/ (\E tgs \in SUBSET Tg : AsksToDelete(r, tgs))
           \/ RequestStep(r) \/ (\E t \in Tg : DeletionStep(r, t)) \/ Crash
<1> USE DEF telegram, channel, shared, updater, sender, remover, server, seen
<1> USE DEF TypeOK, RequestKept
<1>1. CASE External
  <2>1. ASSUME NEW q \in Request, AsksToSend(q)
        PROVE  RequestKept(r) \/ q = r
    BY <2>1 DEF AsksToSend
  <2>2. ASSUME NEW q \in Request, NEW tgs \in SUBSET Tg, AsksToDelete(q, tgs)
        PROVE  RequestKept(r) \/ q = r
    BY <2>2 DEF AsksToDelete
  <2>3. CASE ~\E q \in Request : AsksToSend(q) \/ \E tgs \in SUBSET Tg : AsksToDelete(q, tgs)
    BY <1>1, <2>3 DEF External, Writes, Edits, Commands, DeletesDc, WritesDc
  <2> QED  BY <2>1, <2>2, <2>3
<1>2. ASSUME NEW t \in Tg, RouteStep(t) \/ CommandStep(t)
      PROVE  UNCHANGED server
  BY <1>2 DEF RouteStep, RouteDropped, PostFails, Store, Relay, Post, CommandStep, FindParent,
       DeleteParent, DeleteParentFails, RecallParent, CheckSiblings, Fetch, Erase, EraseFails,
       Unmap, EndCommand
<1>3. ASSUME NEW c \in Dc, SenderStep(c) \/ RemoverStep(c)
      PROVE  UNCHANGED server
  BY <1>3 DEF SenderStep, NotSent, Sent, Send, StoreSent, RelaySent, RemoverStep, OnRawDelete,
       LookupDeleted, ExecuteDelete, DeleteSent, RecallSent, DeleteRows
<1>4. ASSUME NEW q \in Request, RequestStep(q)
      PROVE  RequestKept(r) \/ q = r
  <2>1. ASSUME NEW u \in Tg, StoreRequest(q, u)
        PROVE  RequestKept(r) \/ q = r
    BY <2>1 DEF StoreRequest
  <2>2. ASSUME NEW d \in Dc, PostRequest(q, d)
        PROVE  RequestKept(r) \/ q = r
    BY <2>2 DEF PostRequest
  <2>3. CASE ~\E u \in Tg : StoreRequest(q, u)
    BY <1>4, <2>2, <2>3 DEF RequestStep, NotPlaced, Placed, PostRequestFails, Place
  <2> QED  BY <2>1, <2>3
<1>5. ASSUME NEW q \in Request, NEW t \in Tg, DeletionStep(q, t)
      PROVE  RequestKept(r) \/ q = r
  BY <1>5 DEF DeletionStep, DeleteAsked, FindAsked, UnmapAsked, CheckAsked, EraseAsked,
       EraseAskedFails, AfterAsked
<1>6. CASE UNCHANGED vars
  BY <1>6 DEF vars
<1> QED  BY <1>1, <1>2, <1>3, <1>4, <1>5, <1>6 DEF Next

\* Discord reports what was deleted, and a task takes the report once.
DcStep(d) ==
    /\ d \in discord' => d \in discord \/ (d = nextDc /\ nextDc' = nextDc + 1)
    /\ d \in raw' => d \in raw \/ d \in discord \ discord'
    /\ d \in discord \ discord' => d \in raw'
    /\ d \in raw \ raw' => OnRawDelete(d) \/ Crash

LEMMA DcMoves ==
    ASSUME TypeOK, [Next]_vars, NEW d \in Dc
    PROVE  DcStep(d)
<1> USE DEF telegram, channel, shared, updater, sender, remover, server, seen, DcStep
<1>1. CASE External
  BY <1>1 DEF External, Writes, Edits, Commands, WritesDc, DeletesDc, AsksToSend, AsksToDelete, NewDc, Delete
<1>2. ASSUME NEW t \in Tg, RouteStep(t)
      PROVE  DcStep(d)
  BY <1>2 DEF RouteStep, RouteDropped, PostFails, Store, Relay, Post, PostCopy, NewDc
<1>3. ASSUME NEW t \in Tg, CommandStep(t)
      PROVE  DcStep(d)
  BY <1>3 DEF CommandStep, FindParent, DeleteParent, DeleteParentFails, RecallParent, CheckSiblings,
       Fetch, Erase, EraseFails, Unmap, EndCommand, Delete
<1>4. ASSUME NEW c \in Dc, SenderStep(c)
      PROVE  DcStep(d)
  BY <1>4 DEF SenderStep, NotSent, Sent, Send, StoreSent, RelaySent
<1>5. ASSUME NEW c \in Dc, RemoverStep(c)
      PROVE  DcStep(d)
  <2>1. CASE OnRawDelete(c)
    BY <2>1 DEF OnRawDelete
  <2> QED
    BY <1>5, <2>1 DEF RemoverStep, LookupDeleted, ExecuteDelete, DeleteSent, RecallSent, DeleteRows
<1>6. ASSUME NEW r \in Request, RequestStep(r)
      PROVE  DcStep(d)
  BY <1>6 DEF RequestStep, NotPlaced, Placed, PostRequestFails, Place, PostRequest, StoreRequest,
       PostCopy, NewDc
<1>7. ASSUME NEW r \in Request, NEW t \in Tg, DeletionStep(r, t)
      PROVE  DcStep(d)
  BY <1>7 DEF DeletionStep, DeleteAsked, FindAsked, UnmapAsked, CheckAsked, EraseAsked,
       EraseAskedFails, Delete
<1>8. CASE Crash
  BY <1>8 DEF Crash
<1>9. CASE UNCHANGED vars
  BY <1>9 DEF vars
<1> QED  BY <1>1, <1>2, <1>3, <1>4, <1>5, <1>6, <1>7, <1>8, <1>9 DEF Next

\* A message is deleted once: what is in Discord, or not there yet, has no task.
RawOnce ==
    \A d \in Dc :
        /\ d \in raw => d \notin discord
        /\ d \in raw \/ d \in discord => d < nextDc
        /\ d \in discord \/ d \in raw \/ nextDc <= d => dpc[d] = "none"

LEMMA StepRawOnce ==
    ASSUME TypeOK, RawOnce, [Next]_vars
    PROVE  RawOnce'
<1> SUFFICES ASSUME NEW d \in Dc
             PROVE  /\ d \in raw' => d \notin discord'
                    /\ d \in raw' \/ d \in discord' => d < nextDc'
                    /\ d \in discord' \/ d \in raw' \/ nextDc' <= d => dpc'[d] = "none"
  BY DEF RawOnce
<1>1. /\ d \in raw => d \notin discord
      /\ d \in raw \/ d \in discord => d < nextDc
      /\ d \in discord \/ d \in raw \/ nextDc <= d => dpc[d] = "none"
  BY DEF RawOnce
<1>2. DcStep(d) /\ nextDc' \in {nextDc, nextDc + 1}
  BY DcMoves, OnlyGrow
<1>3. d \in Nat /\ nextDc \in Nat
  BY NativeBridgeAssumption DEF TypeOK, Dc
<1>4. d \in raw' => d \notin discord'
  BY <1>1, <1>2, <1>3 DEF DcStep
<1>5. d \in raw' \/ d \in discord' => d < nextDc'
  <2>1. d \in raw' \/ d \in discord' => d < nextDc \/ (d = nextDc /\ nextDc' = nextDc + 1)
    BY <1>1, <1>2 DEF DcStep
  <2> QED  BY <1>2, <1>3, <2>1
<1>6. d \in discord' \/ d \in raw' \/ nextDc' <= d => d \in discord \/ d \in raw \/ nextDc <= d
  BY <1>2, <1>3 DEF DcStep
<1>7. ASSUME d \in discord' \/ d \in raw' \/ nextDc' <= d
      PROVE  dpc'[d] = "none"
  <2>1. dpc[d] = "none"
    BY <1>1, <1>6, <1>7
  <2>2. CASE Crash
    BY <2>1, <2>2 DEF Crash
  <2>3. CASE OnRawDelete(d)
    <3>1. d \in raw /\ d \notin raw' /\ discord' = discord /\ nextDc' = nextDc
      BY <2>3 DEF OnRawDelete
    <3> QED  BY <1>1, <1>3, <1>7, <3>1
  <2>4. CASE RemoverStep(d) /\ ~OnRawDelete(d)
    BY <2>1, <2>4 DEF RemoverStep, LookupDeleted, ExecuteDelete, DeleteSent, RecallSent, DeleteRows
  <2> QED  BY <2>1, <2>2, <2>3, <2>4, RemoverMoves
<1> QED  BY <1>4, <1>5, <1>7

\* What is new in the group has a new id.
TgStep == nextTg <= nextTg' /\ \A t \in tg' \ tg : nextTg <= t

LEMMA TgGrows ==
    ASSUME TypeOK, [Next]_vars
    PROVE  TgStep
<1> USE DEF telegram, channel, shared, updater, sender, remover, server, seen
<1>1. nextTg \in Nat
  BY NativeBridgeAssumption DEF TypeOK
<1>2. ASSUME tg' \subseteq tg, nextTg' = nextTg
      PROVE  TgStep
  BY <1>1, <1>2 DEF TgStep
<1>3. ASSUME NEW t \in Tg, NewTg(t)
      PROVE  TgStep
  <2>1. nextTg' = nextTg + 1 /\ t = nextTg /\ tg' = tg \cup {t}
    BY <1>3, NewTgType DEF NewTg
  <2> QED  BY <1>1, <2>1 DEF TgStep
<1>4. ASSUME NEW tgs \in SUBSET Tg, NewTgs(tgs)
      PROVE  TgStep
  <2>1. nextTg' > nextTg /\ nextTg' \in Nat /\ \A t \in tgs : nextTg <= t
    BY <1>4, NewTgsType, NativeBridgeAssumption
  <2>2. tg' = tg \cup tgs
    BY <1>4 DEF NewTgs
  <2> QED  BY <1>1, <2>1, <2>2 DEF TgStep
<1>5. CASE External
  BY <1>2, <1>3, <1>5 DEF External, Writes, Edits, Commands, WritesDc, DeletesDc, AsksToSend, AsksToDelete
<1>6. ASSUME NEW t \in Tg, RouteStep(t) \/ CommandStep(t)
      PROVE  TgStep
  BY <1>2, <1>6 DEF RouteStep, RouteDropped, PostFails, Store, Relay, Post, CommandStep, FindParent,
       DeleteParent, DeleteParentFails, RecallParent, CheckSiblings, Fetch, Erase, EraseFails,
       Unmap, EndCommand
<1>7. ASSUME NEW c \in Dc, SenderStep(c)
      PROVE  TgStep
  BY <1>2, <1>4, <1>7 DEF SenderStep, NotSent, Sent, Send, StoreSent, RelaySent
<1>8. ASSUME NEW c \in Dc, RemoverStep(c)
      PROVE  TgStep
  BY <1>2, <1>8 DEF RemoverStep, OnRawDelete, LookupDeleted, ExecuteDelete, DeleteSent, RecallSent,
       DeleteRows
<1>9. ASSUME NEW r \in Request, RequestStep(r)
      PROVE  TgStep
  BY <1>2, <1>4, <1>9 DEF RequestStep, NotPlaced, Placed, PostRequestFails, Place, PostRequest, StoreRequest
<1>10. ASSUME NEW r \in Request, NEW t \in Tg, DeletionStep(r, t)
       PROVE  TgStep
  BY <1>2, <1>10 DEF DeletionStep, DeleteAsked, FindAsked, UnmapAsked, CheckAsked, EraseAsked,
       EraseAskedFails
<1>11. CASE Crash \/ UNCHANGED vars
  BY <1>2, <1>11 DEF Crash, vars
<1> QED  BY <1>5, <1>6, <1>7, <1>8, <1>9, <1>10, <1>11 DEF Next

--------------------------------------------------------------------------------
(* What is deleted is relayed *)

Parent == Head(updates).parent
OfCommand == {"delete", "recall", "siblings", "fetch", "erase", "unmap", "end"}
Placing == {"place", "post"}
Deleting == {"delete", "find", "unmap", "siblings", "erase"}

\* A message that the bridge has a copy of, or is about to have one of.
Bridged(t) ==
    \/ t \in users
    \/ \E d \in Dc : t \in about[d]
    \/ \E r \in Request : rpc[r] \in Placing /\ t \in rids[r]

UpdateTask ==
    /\ upc \in {"store", "relay"} => Head(updates).kind # "command"
    /\ upc \in OfCommand => Head(updates).kind = "command"

\* The commands themselves are not bridged.
UpdatesBridged ==
    \A i \in DOMAIN updates :
        IF updates[i].kind = "command" THEN ~Bridged(updates[i].id) ELSE updates[i].id \in users

UsersKnown == \A t \in users : t < nextTg
RidsFresh  == \A r \in Request : rpc[r] = "none" => rids[r] = {}
TodoAsked  == \A r \in Request : rpc[r] \in Deleting => rtodo[r] \subseteq asked
IdsHeld    == \A d \in Dc : dpc[d] = "delete" => ids[d] \subseteq held[d]

\* The task that deleted the message has still to tell the clients.
InHand(t) ==
    \/ upc = "recall" /\ Parent = t
    \/ \E d \in Dc : dpc[d] \in {"delete", "recall"} /\ t \in held[d]

Reported ==
    "crash" \notin faults =>
        \A t \in Tg : Bridged(t) /\ t \notin tg => t \in recalled \cup asked \/ InHand(t)

\* The inductive invariant of the relay of deletions.
RelInv ==
    /\ RawOnce /\ UpdateTask /\ UpdatesBridged /\ UsersKnown /\ RidsFresh
    /\ TodoAsked /\ IdsHeld /\ Reported

LEMMA StepUpdateTask ==
    ASSUME TypeOK, UpdateTask, [Next]_vars
    PROVE  UpdateTask'
<1>1. ASSUME upc' = upc, upc # "next" => CommandGoes
      PROVE  UpdateTask'
  <2>1. CASE upc = "next"
    BY <1>1, <2>1 DEF UpdateTask, OfCommand
  <2>2. CASE upc # "next"
    BY <1>1, <2>2 DEF UpdateTask, CommandGoes
  <2> QED  BY <2>1, <2>2
<1>2. CASE Crash
  BY <1>2 DEF Crash, UpdateTask, OfCommand
<1>3. ASSUME NEW t \in Tg, RouteStep(t)
      PROVE  UpdateTask'
  BY <1>3 DEF UpdateTask, OfCommand, RouteStep, RouteDropped, PostFails, Store, Relay, Post, NextUpdate,
              Bridges, Handled, telegram
<1>4. ASSUME NEW t \in Tg, CommandStep(t)
      PROVE  UpdateTask'
  BY <1>4 DEF UpdateTask, OfCommand, CommandStep, FindParent, DeleteParent, DeleteParentFails,
              RecallParent, CheckSiblings, Fetch, Erase, EraseFails, Unmap, EndCommand, NextUpdate,
              Deletes, Handled, telegram
<1> QED  BY <1>1, <1>2, <1>3, <1>4, UpdateMoves

LEMMA StepUsersKnown ==
    ASSUME TypeOK, UsersKnown, [Next]_vars
    PROVE  UsersKnown'
<1>1. nextTg \in Nat /\ users \subseteq Nat
  BY NativeBridgeAssumption DEF TypeOK, Tg
<1>2. nextTg <= nextTg'
  BY TgGrows DEF TgStep
<1>3. nextTg' \in Nat
  BY StepType, NativeBridgeAssumption DEF TypeOK
<1>4. ASSUME NEW t \in Tg, Writes(t)
      PROVE  UsersKnown'
  <2>1. nextTg' = nextTg + 1 /\ t = nextTg /\ users' = users \cup {t}
    BY <1>4, NewTgType DEF Writes
  <2> QED  BY <1>1, <2>1 DEF UsersKnown
<1>5. CASE users' = users
  BY <1>1, <1>2, <1>3, <1>5 DEF UsersKnown
<1> QED  BY <1>4, <1>5, TgMoves

LEMMA StepRidsFresh ==
    ASSUME TypeOK, RidsFresh, [Next]_vars
    PROVE  RidsFresh'
<1> SUFFICES ASSUME NEW r \in Request, rpc'[r] = "none"
             PROVE  rids'[r] = {}
  BY DEF RidsFresh
<1>1. CASE RequestKept(r)
  BY <1>1 DEF RequestKept, RidsFresh
<1>2. CASE Crash
  BY <1>2 DEF Crash, RidsFresh, TypeOK
<1>3. CASE AsksToSend(r) \/ \E tgs \in SUBSET Tg : AsksToDelete(r, tgs)
  BY <1>3 DEF AsksToSend, AsksToDelete, TypeOK
<1>4. CASE RequestStep(r)
  <2>1. rpc'[r] # "none"
    BY <1>4, RequestGoes DEF Early
  <2> QED  BY <2>1
<1>5. CASE \E t \in Tg : DeletionStep(r, t)
  BY <1>5 DEF DeletionStep, DeleteAsked, FindAsked, UnmapAsked, CheckAsked, EraseAsked,
              EraseAskedFails, AfterAsked, TypeOK
<1> QED  BY <1>1, <1>2, <1>3, <1>4, <1>5, RequestMoves

LEMMA StepTodoAsked ==
    ASSUME TypeOK, TodoAsked, [Next]_vars
    PROVE  TodoAsked'
<1> SUFFICES ASSUME NEW r \in Request, rpc'[r] \in Deleting
             PROVE  rtodo'[r] \subseteq asked'
  BY DEF TodoAsked
<1> USE DEF Deleting
<1>1. asked \subseteq asked'
  BY OnlyGrow
<1>2. CASE RequestKept(r)
  BY <1>1, <1>2 DEF RequestKept, TodoAsked
<1>3. CASE Crash
  BY <1>3 DEF Crash, TypeOK
<1>4. CASE AsksToSend(r) \/ \E tgs \in SUBSET Tg : AsksToDelete(r, tgs)
  BY <1>4 DEF AsksToSend, AsksToDelete, TypeOK
<1>5. CASE RequestStep(r)
  <2>1. rpc'[r] \notin Deleting
    BY <1>5, RequestGoes DEF Early
  <2> QED  BY <2>1
<1>6. CASE \E t \in Tg : DeletionStep(r, t)
  <2>1. rpc[r] \in Deleting /\ rtodo'[r] \subseteq rtodo[r]
    BY <1>6 DEF DeletionStep, DeleteAsked, FindAsked, UnmapAsked, CheckAsked, EraseAsked,
              EraseAskedFails, AfterAsked, TypeOK
  <2> QED  BY <1>1, <2>1 DEF TodoAsked
<1> QED  BY <1>2, <1>3, <1>4, <1>5, <1>6, RequestMoves

LEMMA StepIdsHeld ==
    ASSUME TypeOK, IdsHeld, [Next]_vars
    PROVE  IdsHeld'
<1> SUFFICES ASSUME NEW d \in Dc, dpc'[d] = "delete"
             PROVE  ids'[d] \subseteq held'[d]
  BY DEF IdsHeld
<1>1. CASE dpc'[d] = dpc[d] /\ ids'[d] = ids[d] /\ held'[d] = held[d]
  BY <1>1 DEF IdsHeld
<1>2. CASE Crash
  BY <1>2 DEF Crash, TypeOK
<1>3. CASE RemoverStep(d)
  BY <1>3 DEF IdsHeld, RemoverStep, OnRawDelete, LookupDeleted, ExecuteDelete, DeleteSent, RecallSent,
              DeleteRows, TypeOK
<1> QED  BY <1>1, <1>2, <1>3, RemoverMoves

\* A message becomes a bridged one when it is new.
LEMMA BridgedStep ==
    ASSUME TypeOK, UpdatesBridged, RidsFresh, [Next]_vars, NEW t \in Tg, Bridged(t)'
    PROVE  Bridged(t) \/ (nextTg <= t /\ t \in tg')
<1>1. ASSUME t \in users'
      PROVE  Bridged(t) \/ (nextTg <= t /\ t \in tg')
  <2>1. ASSUME NEW u \in Tg, Writes(u)
        PROVE  Bridged(t) \/ (nextTg <= t /\ t \in tg')
    <3>1. u = nextTg /\ u \in tg' /\ users' = users \cup {u}
      BY <2>1, NewTgType DEF Writes, NewTg
    <3>2. nextTg \in Nat
      BY NativeBridgeAssumption DEF TypeOK
    <3> QED  BY <1>1, <3>1, <3>2 DEF Bridged
  <2> QED  BY <1>1, <2>1, TgMoves DEF Bridged
<1>2. ASSUME NEW d \in Dc, t \in about'[d]
      PROVE  Bridged(t) \/ (nextTg <= t /\ t \in tg')
  <2>1. CASE about'[d] = about[d]
    BY <1>2, <2>1 DEF Bridged
  <2>2. ASSUME NEW u \in Tg, Post(u, d)
        PROVE  Bridged(t)
    <3>1. updates # <<>> /\ Head(updates).id = u /\ Head(updates).kind # "command" /\ about'[d] = {u}
      BY <2>2 DEF Post, PostCopy, Bridges, Handled, TypeOK
    <3>2. 1 \in DOMAIN updates /\ Head(updates) = updates[1]
      BY <3>1, HeadType
    <3>3. u \in users
      BY <3>1, <3>2 DEF UpdatesBridged
    <3> QED  BY <1>2, <3>1, <3>3 DEF Bridged
  <2>3. ASSUME NEW r \in Request, PostRequest(r, d)
        PROVE  Bridged(t)
    BY <1>2, <2>3 DEF PostRequest, PostCopy, TypeOK, Bridged, Placing
  <2>4. ASSUME NEW tgs \in SUBSET Tg, Send(d, tgs)
        PROVE  Bridged(t) \/ (nextTg <= t /\ t \in tg')
    <3>1. about'[d] = about[d] \cup tgs
      BY <2>4 DEF Send, TypeOK
    <3>2. tgs \subseteq tg' /\ \A u \in tgs : nextTg <= u
      BY <2>4, NewTgsType DEF Send, NewTgs
    <3> QED  BY <1>2, <3>1, <3>2 DEF Bridged
  <2> QED  BY <2>1, <2>2, <2>3, <2>4, AboutMoves
<1>3. ASSUME NEW r \in Request, rpc'[r] \in Placing, t \in rids'[r]
      PROVE  Bridged(t) \/ (nextTg <= t /\ t \in tg')
  <2>1. CASE RequestKept(r)
    BY <1>3, <2>1 DEF RequestKept, Bridged
  <2>2. CASE Crash
    BY <1>3, <2>2 DEF Crash, TypeOK, Placing
  <2>3. CASE AsksToSend(r)
    BY <1>3, <2>3 DEF AsksToSend, NewRequest, RidsFresh
  <2>4. CASE \E tgs \in SUBSET Tg : AsksToDelete(r, tgs)
    BY <1>3, <2>4 DEF AsksToDelete, TypeOK, Placing
  <2>5. ASSUME NEW tgs \in SUBSET Tg, Place(r, tgs)
        PROVE  Bridged(t) \/ (nextTg <= t /\ t \in tg')
    <3>1. rids'[r] = rids[r] \cup tgs /\ rpc[r] \in Placing
      BY <2>5 DEF Place, TypeOK, Placing
    <3>2. tgs \subseteq tg' /\ \A u \in tgs : nextTg <= u
      BY <2>5, NewTgsType DEF Place, NewTgs
    <3> QED  BY <1>3, <3>1, <3>2 DEF Bridged
  <2>6. CASE RequestStep(r) /\ ~\E tgs \in SUBSET Tg : Place(r, tgs)
    <3>1. rids' = rids /\ rpc[r] \in Placing
      BY <1>3, <2>6 DEF RequestStep, NotPlaced, Placed, PostRequestFails, PostRequest, StoreRequest,
                        TypeOK, Placing
    <3> QED  BY <1>3, <3>1 DEF Bridged
  <2>7. CASE \E u \in Tg : DeletionStep(r, u)
    BY <1>3, <2>7 DEF DeletionStep, DeleteAsked, FindAsked, UnmapAsked, CheckAsked, EraseAsked,
                      EraseAskedFails, AfterAsked, TypeOK, Placing
  <2> QED  BY <2>1, <2>2, <2>3, <2>4, <2>5, <2>6, <2>7, RequestMoves
<1> QED  BY <1>1, <1>2, <1>3 DEF Bridged

LEMMA BridgedKnown ==
    ASSUME TgKnown, UsersKnown, NEW t, Bridged(t)
    PROVE  t < nextTg
BY DEF TgKnown, Before, UsersKnown, Bridged

\* What waits in the queue: what waited before, or something new.
LEMMA StepUpdatesBridged ==
    ASSUME TypeOK, TgKnown, UpdatesKnown, UsersKnown, UpdatesBridged, RidsFresh, [Next]_vars
    PROVE  UpdatesBridged'
<1> DEFINE Ok(u) == IF u.kind = "command" THEN ~Bridged(u.id) ELSE u.id \in users
<1>1. ASSUME NEW u \in Update, NEW i \in DOMAIN updates, u = updates[i]
      PROVE  Ok(u)'
  <2>1. u.id \in Tg /\ u.id < nextTg /\ nextTg \in Nat
    BY <1>1, NativeBridgeAssumption DEF Update, UpdatesKnown, TypeOK
  <2>2. users \subseteq users'
    BY TgMoves DEF Writes
  <2>3. Bridged(u.id)' => Bridged(u.id)
    <3>1. ~(nextTg <= u.id)
      BY <2>1 DEF Tg
    <3> QED  BY <2>1, <3>1, BridgedStep
  <2>4. IF u.kind = "command" THEN ~Bridged(u.id) ELSE u.id \in users
    BY <1>1 DEF UpdatesBridged
  <2> QED  BY <2>2, <2>3, <2>4
<1> HIDE DEF Ok
<1>2. ASSUME \A i \in DOMAIN updates' : (\E j \in DOMAIN updates : updates'[i] = updates[j])
                                         \/ Ok(updates[i])'
      PROVE  UpdatesBridged'
  <2>1. ASSUME NEW i \in DOMAIN updates', NEW j \in DOMAIN updates, updates'[i] = updates[j]
        PROVE  Ok(updates[i])'
    <3>1. updates[j] \in Update
      BY DEF TypeOK
    <3>2. PICK u \in Update : u = updates[j]
      BY <3>1
    <3>3. Ok(u)'
      BY <1>1, <3>2
    <3> QED  BY <2>1, <3>2, <3>3 DEF Ok
  <2>2. \A i \in DOMAIN updates' : Ok(updates[i])'
    BY <1>2, <2>1
  <2> QED  BY <2>2 DEF UpdatesBridged, Ok
<1>3. CASE updates' = updates
  BY <1>2, <1>3
<1>4. CASE Crash
  BY <1>2, <1>4, CrashUpdates
<1>5. ASSUME NEW t \in Tg, RouteStep(t) \/ CommandStep(t)
      PROVE  UpdatesBridged'
  <2>1. updates' = updates \/ (updates' = Tail(updates) /\ updates # <<>>)
    BY <1>5 DEF RouteStep, RouteDropped, PostFails, Store, Relay, Post, PostCopy, Bridges, Handled,
         CommandStep, FindParent, DeleteParent, DeleteParentFails, RecallParent, CheckSiblings,
         Fetch, Erase, EraseFails, Unmap, EndCommand, Deletes, NextUpdate, telegram
  <2>2. CASE updates' = Tail(updates) /\ updates # <<>>
    BY <1>2, <2>2, HeadType
  <2> QED  BY <1>3, <2>1, <2>2
<1>6. ASSUME NEW t \in Tg, Writes(t)
      PROVE  UpdatesBridged'
  <2>1. \A i \in DOMAIN updates' : \/ i \in DOMAIN updates /\ updates'[i] = updates[i]
                                   \/ updates'[i] = [kind |-> "message", id |-> t, parent |-> None]
    BY <1>6, QueueType DEF Writes
  <2>2. t \in users'
    BY <1>6 DEF Writes
  <2>3. \A i \in DOMAIN updates' : (\E j \in DOMAIN updates : updates'[i] = updates[j])
                                      \/ Ok(updates[i])'
    BY <2>1, <2>2 DEF Ok
  <2> QED  BY <1>2, <2>3
<1>7. ASSUME NEW t \in Tg, Edits(t)
      PROVE  UpdatesBridged'
  <2>1. \A i \in DOMAIN updates' : \/ i \in DOMAIN updates /\ updates'[i] = updates[i]
                                   \/ updates'[i] = [kind |-> "edit", id |-> t, parent |-> None]
    BY <1>7, QueueType DEF Edits
  <2>2. t \in users'
    BY <1>7 DEF Edits
  <2>3. \A i \in DOMAIN updates' : (\E j \in DOMAIN updates : updates'[i] = updates[j])
                                      \/ Ok(updates[i])'
    BY <2>1, <2>2 DEF Ok
  <2> QED  BY <1>2, <2>3
<1>8. ASSUME NEW c \in Tg, NEW t \in Tg, Commands(c, t)
      PROVE  UpdatesBridged'
  <2>1. \A i \in DOMAIN updates' : \/ i \in DOMAIN updates /\ updates'[i] = updates[i]
                                   \/ updates'[i] = [kind |-> "command", id |-> c, parent |-> t]
    BY <1>8, QueueType DEF Commands
  <2>2. ~Bridged(c)'
    <3>1. Bridged(c)' => Bridged(c)
      BY <1>8 DEF Commands, Bridged, channel, server
    <3>2. c = nextTg /\ nextTg \in Nat
      BY <1>8, NewTgType, NativeBridgeAssumption DEF Commands, TypeOK
    <3> QED  BY <3>1, <3>2, BridgedKnown
  <2>3. \A i \in DOMAIN updates' : (\E j \in DOMAIN updates : updates'[i] = updates[j])
                                      \/ Ok(updates[i])'
    BY <2>1, <2>2 DEF Ok
  <2> QED  BY <1>2, <2>3
<1> QED  BY <1>3, <1>4, <1>5, <1>6, <1>7, <1>8, UpdateMoves

\* The hand that holds a deleted message passes it to the clients.
LEMMA InHandStep ==
    ASSUME TypeOK, RawOnce, [Next]_vars, "crash" \notin faults', NEW t \in Tg, InHand(t)
    PROVE  InHand(t)' \/ t \in recalled'
<1>1. ~Crash
  BY DEF Crash, Fault
<1>2. ASSUME upc = "recall", Parent = t
      PROVE  InHand(t)' \/ t \in recalled'
  <2>1. CASE upc' = upc /\ CommandGoes
    BY <1>2, <2>1 DEF CommandGoes, Parent, InHand
  <2>2. ASSUME NEW u \in Tg, RouteStep(u) \/ CommandStep(u)
        PROVE  t \in recalled'
    BY <1>2, <2>2 DEF RouteStep, RouteDropped, PostFails, Store, Relay, Post, CommandStep, FindParent,
         DeleteParent, DeleteParentFails, RecallParent, CheckSiblings, Fetch, Erase, EraseFails,
         Unmap, EndCommand, Deletes, Parent
  <2> QED  BY <1>1, <1>2, <2>1, <2>2, UpdateMoves
<1>3. ASSUME NEW d \in Dc, dpc[d] \in {"delete", "recall"}, t \in held[d]
      PROVE  InHand(t)' \/ t \in recalled'
  <2>1. CASE dpc'[d] = dpc[d] /\ ids'[d] = ids[d] /\ held'[d] = held[d]
    BY <1>3, <2>1 DEF InHand
  <2>2. CASE RemoverStep(d)
    <3>1. d \notin raw
      BY <1>3 DEF RawOnce
    <3>2. CASE RecallSent(d)
      BY <1>3, <3>2 DEF RecallSent
    <3>3. CASE ~RecallSent(d)
      <4>1. dpc'[d] \in {"delete", "recall"} /\ held' = held
        BY <1>3, <2>2, <3>1, <3>3 DEF RemoverStep, OnRawDelete, LookupDeleted, ExecuteDelete, DeleteSent,
                    DeleteRows, TypeOK
      <4> QED  BY <1>3, <4>1 DEF InHand
    <3> QED  BY <3>2, <3>3
  <2> QED  BY <1>1, <2>1, <2>2, RemoverMoves
<1> QED  BY <1>2, <1>3 DEF InHand

LEMMA StepReported ==
    ASSUME TypeOK, RelInv, [Next]_vars
    PROVE  Reported'
<1> SUFFICES ASSUME "crash" \notin faults', NEW t \in Tg, Bridged(t)', t \notin tg'
             PROVE  t \in recalled' \cup asked' \/ InHand(t)'
  BY DEF Reported
<1>1. "crash" \notin faults /\ recalled \subseteq recalled' /\ asked \subseteq asked'
  BY OnlyGrow
<1>2. Bridged(t)
  BY BridgedStep DEF RelInv
<1>3. CASE t \notin tg
  <2>1. t \in recalled \cup asked \/ InHand(t)
    BY <1>1, <1>2, <1>3 DEF RelInv, Reported
  <2> QED  BY <1>1, <2>1, InHandStep DEF RelInv
<1>4. CASE t \in tg
  <2>1. CASE DeleteParent(t)
    BY <2>1 DEF DeleteParent, Deletes, InHand, Parent
  <2>2. CASE EndCommand(t)
    <3>1. updates # <<>> /\ Head(updates).id = t /\ Head(updates).kind = "command"
      BY <2>2 DEF EndCommand, Handled, RelInv, UpdateTask, OfCommand
    <3>2. 1 \in DOMAIN updates /\ Head(updates) = updates[1]
      BY <3>1, HeadType
    <3> QED  BY <1>2, <3>1, <3>2 DEF RelInv, UpdatesBridged
  <2>3. ASSUME NEW d \in Dc, DeleteSent(d, t)
        PROVE  InHand(t)'
    <3>1. t \in held[d] /\ held' = held /\ dpc'[d] \in {"delete", "recall"}
      BY <2>3 DEF DeleteSent, IsGreatest, RelInv, IdsHeld, TypeOK
    <3> QED  BY <3>1 DEF InHand
  <2>4. ASSUME NEW r \in Request, DeleteAsked(r, t)
        PROVE  t \in asked
    BY <2>4 DEF DeleteAsked, IsLeast, RelInv, TodoAsked, Deleting
  <2> QED  BY <1>1, <1>4, <2>1, <2>2, <2>3, <2>4, TgMoves
<1> QED  BY <1>3, <1>4

LEMMA InitRel ==
    ASSUME Init
    PROVE  RelInv
<1>1. nextDc = 1 /\ MaxDc \in Nat
  BY NativeBridgeAssumption DEF Init
<1>2. RawOnce
  BY <1>1 DEF Init, RawOnce, Dc
<1>3. UpdateTask /\ UsersKnown /\ RidsFresh /\ TodoAsked /\ IdsHeld
  BY DEF Init, UpdateTask, OfCommand, UsersKnown, RidsFresh, TodoAsked, Deleting, IdsHeld
<1>4. UpdatesBridged
  BY DEF Init, UpdatesBridged
<1>5. Reported
  BY DEF Init, Reported, Bridged, Placing
<1> QED  BY <1>2, <1>3, <1>4, <1>5 DEF RelInv

LEMMA StepRel ==
    ASSUME IInv, RelInv, [Next]_vars
    PROVE  RelInv'
<1>1. TypeOK /\ TgKnown /\ UpdatesKnown
  BY DEF IInv
<1>2. RawOnce' /\ UpdateTask' /\ UsersKnown' /\ RidsFresh' /\ TodoAsked' /\ IdsHeld'
  BY <1>1, StepRawOnce, StepUpdateTask, StepUsersKnown, StepRidsFresh, StepTodoAsked, StepIdsHeld
     DEF RelInv
<1>3. UpdatesBridged'
  BY <1>1, StepUpdatesBridged DEF RelInv
<1> QED  BY <1>1, <1>2, <1>3, StepReported DEF RelInv

\* A deleted message is known to the clients, or in the hand of the task that is
\* about to tell them.
THEOREM RelayInvariance == Spec => []RelInv
<1>1. Init => RelInv
  BY InitRel
<1>2. IInv /\ RelInv /\ [Next]_vars => RelInv'
  BY StepRel
<1> QED  BY <1>1, <1>2, Invariance, PTL DEF Spec

\* What the bridge has deleted its clients were told of, or have asked for: with any
\* number of messages, tasks and faults, while the process does not stop.
THEOREM DeletionsAreRelayed == Spec => []DeletionsRelayed
<1>1. TypeOK /\ RelInv => DeletionsRelayed
  <2> SUFFICES ASSUME TypeOK, RelInv, Idle, "crash" \notin faults
               PROVE  (UNION {about[d] : d \in Dc}) \ tg \subseteq recalled \cup asked
    BY DEF DeletionsRelayed
  <2>1. ASSUME NEW d \in Dc, NEW t \in about[d], t \notin tg
        PROVE  t \in recalled \cup asked
    <3>1. t \in Tg /\ Bridged(t)
      BY <2>1 DEF TypeOK, Bridged
    <3>2. ~InHand(t)
      BY DEF Idle, InHand
    <3> QED  BY <2>1, <3>1, <3>2 DEF RelInv, Reported
  <2>2. ASSUME NEW t \in UNION {about[d] : d \in Dc}, t \notin tg
        PROVE  t \in recalled \cup asked
    <3>1. \E d \in Dc : t \in about[d]
      BY <2>2, SMT
    <3> QED  BY <2>1, <2>2, <3>1, Zenon
  <2> QED  BY <2>2
<1> QED  BY <1>1, TypeCorrect, RelayInvariance, PTL

--------------------------------------------------------------------------------
(* A Discord message goes with its last sibling *)

AboutFresh == \A d \in Dc : about[d] # {} => d < nextDc

\* What two messages share is the message of a user that was edited, all of both.
AboutApart == \A c, d \in Dc : c # d => about[c] \cap about[d] \subseteq users
UserAlone  == \A d \in Dc : \A t \in about[d] \cap users : about[d] = {t}
SentApart  == \A d \in Dc : spc[d] # "none" => about[d] \cap users = {}

\* The messages of a request that has not posted yet are its own.
RidsApart ==
    \A r \in Request : rpc[r] \in Placing =>
        /\ rids[r] \cap users = {}
        /\ \A d \in Dc : rids[r] \cap about[d] = {}
        /\ \A q \in Request \ {r} : rpc[q] \in Placing => rids[r] \cap rids[q] = {}

ApartInv == AboutFresh /\ AboutApart /\ UserAlone /\ SentApart /\ RidsApart

\* What is stored, found, held or still to be stored is of the message.
MapSound  == \A t \in Tg : map[t] # None => t \in about[map[t]]
RestAbout == \A d \in Dc : spc[d] = "storing" => rest[d] \subseteq about[d]

StoreAbout ==
    \A r \in Request : rpc[r] = "store" =>
        /\ spc[rfound[r]] = "none" /\ rtodo[r] \subseteq about[rfound[r]]
        /\ about[rfound[r]] \cap users = {}

UpdateAbout == upc = "store" => spc[ufound] = "none" /\ about[ufound] = {Head(updates).id}

OfParent == {"delete", "recall", "siblings", "fetch", "erase", "unmap"}
OfRow    == {"unmap", "siblings", "erase"}

FoundAbout ==
    /\ upc \in OfParent => Parent \in about[ufound]
    /\ \A r \in Request : rpc[r] \in OfRow =>
          \A t \in Tg : IsLeast(t, rtodo[r]) => t \in about[rfound[r]]
    /\ \A d \in Dc : ids[d] \subseteq about[d]

AboutInv == MapSound /\ RestAbout /\ StoreAbout /\ UpdateAbout /\ FoundAbout

\* Where a message that is about a Telegram message got it from.
LEMMA AboutFrom ==
    ASSUME TypeOK, UpdatesBridged, [Next]_vars, NEW d \in Dc, NEW t \in about'[d]
    PROVE  \/ t \in about[d]
           \/ Post(t, d) /\ t \in users
           \/ \E r \in Request : PostRequest(r, d) /\ t \in rids[r]
           \/ \E tgs \in SUBSET Tg : Send(d, tgs) /\ nextTg <= t
<1>1. ASSUME NEW u \in Tg, Post(u, d)
      PROVE  Post(t, d) /\ t \in users
  <2>1. updates # <<>> /\ Head(updates).id = u /\ Head(updates).kind # "command" /\ about'[d] = {u}
    BY <1>1 DEF Post, PostCopy, Bridges, Handled, TypeOK
  <2>2. 1 \in DOMAIN updates /\ Head(updates) = updates[1]
    BY <2>1, HeadType
  <2>3. u \in users
    BY <2>1, <2>2 DEF UpdatesBridged
  <2> QED  BY <1>1, <2>1, <2>3
<1>2. ASSUME NEW r \in Request, PostRequest(r, d)
      PROVE  t \in rids[r]
  BY <1>2 DEF PostRequest, PostCopy, TypeOK
<1>3. ASSUME NEW tgs \in SUBSET Tg, Send(d, tgs)
      PROVE  t \in about[d] \/ nextTg <= t
  <2>1. about'[d] = about[d] \cup tgs
    BY <1>3 DEF Send, TypeOK
  <2> QED  BY <1>3, <2>1, NewTgsType DEF Send
<1> QED  BY <1>1, <1>2, <1>3, AboutMoves

\* Where a request that places its messages got one from.
LEMMA PlacedFrom ==
    ASSUME TypeOK, RidsFresh, [Next]_vars, NEW r \in Request, rpc'[r] \in Placing, NEW t \in rids'[r]
    PROVE  \/ rpc[r] \in Placing /\ t \in rids[r]
           \/ \E tgs \in SUBSET Tg : Place(r, tgs) /\ nextTg <= t
<1>1. CASE RequestKept(r)
  BY <1>1 DEF RequestKept
<1>2. CASE Crash
  BY <1>2 DEF Crash, TypeOK, Placing
<1>3. CASE AsksToSend(r)
  BY <1>3 DEF AsksToSend, NewRequest, RidsFresh
<1>4. CASE \E tgs \in SUBSET Tg : AsksToDelete(r, tgs)
  BY <1>4 DEF AsksToDelete, TypeOK, Placing
<1>5. ASSUME NEW tgs \in SUBSET Tg, Place(r, tgs)
      PROVE  \/ rpc[r] \in Placing /\ t \in rids[r]
             \/ Place(r, tgs) /\ nextTg <= t
  <2>1. rids'[r] = rids[r] \cup tgs /\ rpc[r] \in Placing
    BY <1>5 DEF Place, TypeOK, Placing
  <2> QED  BY <1>5, <2>1, NewTgsType DEF Place
<1>6. CASE RequestStep(r) /\ ~\E tgs \in SUBSET Tg : Place(r, tgs)
  BY <1>6 DEF RequestStep, NotPlaced, Placed, PostRequestFails, PostRequest, StoreRequest, TypeOK, Placing
<1>7. CASE \E u \in Tg : DeletionStep(r, u)
  BY <1>7 DEF DeletionStep, DeleteAsked, FindAsked, UnmapAsked, CheckAsked, EraseAsked,
              EraseAskedFails, AfterAsked, TypeOK, Placing
<1> QED  BY <1>1, <1>2, <1>3, <1>4, <1>5, <1>6, <1>7, RequestMoves

\* A user's message is new.
LEMMA UsersFrom ==
    ASSUME TypeOK, [Next]_vars
    PROVE  /\ users \subseteq users'
           /\ \A t \in users' \ users : nextTg <= t /\ Writes(t)
<1>1. nextTg \in Nat
  BY NativeBridgeAssumption DEF TypeOK
<1>2. ASSUME NEW u \in Tg, Writes(u)
      PROVE  users' = users \cup {u} /\ nextTg <= u
  BY <1>1, <1>2, NewTgType DEF Writes
<1> QED  BY <1>2, TgMoves

\* What a message is about stays so.
LEMMA AboutGrows ==
    ASSUME TypeOK, AboutFresh, [Next]_vars, NEW d \in Dc
    PROVE  /\ about[d] \subseteq about'[d]
           /\ d < nextDc /\ about'[d] # about[d] => spc[d] = "sending"
<1>1. nextDc \in Nat /\ d \in Nat
  BY NativeBridgeAssumption DEF TypeOK, Dc
<1>2. ASSUME NEW u \in Tg, Post(u, d)
      PROVE  ~(d < nextDc)
  BY <1>1, <1>2 DEF Post, PostCopy, NewDc
<1>3. ASSUME NEW r \in Request, PostRequest(r, d)
      PROVE  ~(d < nextDc)
  BY <1>1, <1>3 DEF PostRequest, PostCopy, NewDc
<1>4. ASSUME NEW tgs \in SUBSET Tg, Send(d, tgs)
      PROVE  about[d] \subseteq about'[d] /\ spc[d] = "sending"
  BY <1>4 DEF Send, TypeOK
<1> QED  BY <1>2, <1>3, <1>4, AboutMoves DEF AboutFresh

\* A message that no user wrote is not sent any more.
LEMMA Settled ==
    ASSUME TypeOK, AboutFresh, [Next]_vars, NEW d \in Dc, d < nextDc, spc[d] = "none"
    PROVE  spc'[d] = "none" /\ about'[d] = about[d]
<1>1. about'[d] = about[d]
  BY AboutGrows
<1>2. ~WritesDc(d)
  BY NativeBridgeAssumption DEF WritesDc, NewDc, TypeOK, Dc
<1>3. ~SenderStep(d)
  BY DEF SenderStep, NotSent, Sent, Send, StoreSent, RelaySent
<1>4. CASE Crash
  BY <1>4 DEF Crash
<1> QED  BY <1>1, <1>2, <1>3, <1>4, SenderMoves

--------------------------------------------------------------------------------

LEMMA StepAboutFresh ==
    ASSUME TypeOK, DcKnown, AboutFresh, [Next]_vars
    PROVE  AboutFresh'
<1> SUFFICES ASSUME NEW d \in Dc, about'[d] # {}
             PROVE  d < nextDc'
  BY DEF AboutFresh
<1>1. nextDc \in Nat /\ d \in Nat /\ nextDc' \in {nextDc, nextDc + 1}
  BY OnlyGrow, NativeBridgeAssumption DEF TypeOK, Dc
<1>2. CASE about'[d] = about[d]
  BY <1>1, <1>2 DEF AboutFresh
<1>3. CASE (\E u \in Tg : Post(u, d)) \/ \E r \in Request : PostRequest(r, d)
  BY <1>1, <1>3, NewDcType DEF Post, PostRequest, PostCopy
<1>4. CASE \E tgs \in SUBSET Tg : Send(d, tgs)
  BY <1>1, <1>4 DEF Send, DcKnown
<1> QED  BY <1>2, <1>3, <1>4, AboutMoves

\* The ids in use are old ones.
LEMMA InUse ==
    ASSUME TypeOK, TgKnown, UsersKnown, NEW t \in Tg,
           \/ t \in users
           \/ \E d \in Dc : t \in about[d]
           \/ \E r \in Request : t \in rids[r]
    PROVE  ~(nextTg <= t)
<1>1. nextTg \in Nat /\ t \in Nat
  BY NativeBridgeAssumption DEF TypeOK, Tg
<1>2. t < nextTg
  BY DEF TgKnown, Before, UsersKnown
<1> QED  BY <1>1, <1>2

LEMMA StepAboutApart ==
    ASSUME TypeOK, TgKnown, RelInv, ApartInv, [Next]_vars
    PROVE  AboutApart'
<1>1. ASSUME NEW c \in Dc, NEW d \in Dc \ {c}, NEW t \in Tg, t \in about'[c], t \in about[d],
             t \notin users
      PROVE  t \in about[c]
  <2>1. ~(nextTg <= t)
    BY <1>1, InUse DEF RelInv
  <2>2. ASSUME NEW r \in Request, PostRequest(r, c), t \in rids[r]
        PROVE  FALSE
    BY <1>1, <2>2 DEF ApartInv, RidsApart, PostRequest, Placing
  <2> QED  BY <1>1, <2>1, <2>2, AboutFrom DEF RelInv
<1>2. ASSUME NEW c \in Dc, NEW d \in Dc \ {c}, about'[c] # about[c], about'[d] # about[d]
      PROVE  FALSE
  <2>1. ASSUME NEW u \in Tg, Post(u, c)
        PROVE  about'[d] = about[d]
    BY <2>1 DEF Post, PostCopy, TypeOK
  <2>2. ASSUME NEW r \in Request, PostRequest(r, c)
        PROVE  about'[d] = about[d]
    BY <2>2 DEF PostRequest, PostCopy, TypeOK
  <2>3. ASSUME NEW tgs \in SUBSET Tg, Send(c, tgs)
        PROVE  about'[d] = about[d]
    BY <2>3 DEF Send, TypeOK
  <2> QED  BY <1>2, <2>1, <2>2, <2>3, AboutMoves
<1> SUFFICES ASSUME NEW c \in Dc, NEW d \in Dc, c # d, NEW t \in about'[c] \cap about'[d], t \notin users'
             PROVE  FALSE
  BY DEF AboutApart
<1>3. t \notin users /\ t \in Tg
  <2>1. TypeOK'
    BY StepType
  <2> QED  BY <2>1, UsersFrom DEF TypeOK
<1>4. t \in about[c] /\ t \in about[d]
  <2>1. t \in about[c] \/ t \in about[d]
    BY <1>2
  <2> QED  BY <1>1, <1>3, <2>1
<1> QED  BY <1>3, <1>4 DEF ApartInv, AboutApart

LEMMA StepUserAlone ==
    ASSUME TypeOK, TgKnown, RelInv, ApartInv, [Next]_vars
    PROVE  UserAlone'
<1> SUFFICES ASSUME NEW d \in Dc, NEW t \in about'[d] \cap users'
             PROVE  about'[d] = {t}
  BY DEF UserAlone
<1>1. t \in Tg
  BY StepType DEF TypeOK
<1>2. t \in users \/ nextTg <= t
  BY UsersFrom
<1>3. CASE about'[d] = about[d]
  <2>1. t \in users
    BY <1>1, <1>2, <1>3, InUse DEF RelInv
  <2> QED  BY <1>3, <2>1 DEF ApartInv, UserAlone
<1>4. ASSUME NEW u \in Tg, Post(u, d)
      PROVE  about'[d] = {t}
  BY <1>4 DEF Post, PostCopy, TypeOK
<1>5. ASSUME NEW r \in Request, PostRequest(r, d)
      PROVE  FALSE
  <2>1. about'[d] = rids[r] /\ users' = users /\ rpc[r] \in Placing
    BY <1>5 DEF PostRequest, PostCopy, TypeOK, telegram, Placing
  <2> QED  BY <2>1 DEF ApartInv, RidsApart
<1>6. ASSUME NEW tgs \in SUBSET Tg, Send(d, tgs)
      PROVE  FALSE
  <2>1. about'[d] = about[d] \cup tgs /\ users' = users /\ spc[d] = "sending"
    BY <1>6 DEF Send, TypeOK
  <2>2. t \notin tgs
    BY <1>1, <1>6, <2>1, NewTgsType, InUse DEF Send, RelInv
  <2> QED  BY <2>1, <2>2 DEF ApartInv, SentApart
<1> QED  BY <1>3, <1>4, <1>5, <1>6, AboutMoves

LEMMA StepSentApart ==
    ASSUME TypeOK, DcKnown, TgKnown, RelInv, ApartInv, [Next]_vars
    PROVE  SentApart'
<1> SUFFICES ASSUME NEW d \in Dc, spc'[d] # "none", NEW t \in about'[d], t \in users'
             PROVE  FALSE
  BY DEF SentApart
<1>1. t \in Tg
  BY StepType DEF TypeOK
<1>2. t \in users \/ nextTg <= t
  BY UsersFrom
<1>3. CASE about'[d] = about[d]
  <2>1. t \in users /\ t \in about[d]
    BY <1>1, <1>2, <1>3, InUse DEF RelInv
  <2>2. d < nextDc /\ spc[d] = "none"
    BY <2>1 DEF ApartInv, AboutFresh, SentApart
  <2> QED  BY <2>2, Settled DEF ApartInv
<1>4. CASE (\E u \in Tg : Post(u, d)) \/ \E r \in Request : PostRequest(r, d)
  <2>1. d = nextDc /\ spc' = spc /\ nextDc \in Nat
    BY <1>4, NativeBridgeAssumption DEF Post, PostRequest, PostCopy, NewDc, TypeOK, sender
  <2> QED  BY <2>1 DEF DcKnown
<1>5. ASSUME NEW tgs \in SUBSET Tg, Send(d, tgs)
      PROVE  FALSE
  <2>1. about'[d] = about[d] \cup tgs /\ users' = users /\ spc[d] = "sending"
    BY <1>5 DEF Send, TypeOK
  <2>2. t \notin tgs
    BY <1>1, <1>5, <2>1, NewTgsType, InUse DEF Send, RelInv
  <2> QED  BY <2>1, <2>2 DEF ApartInv, SentApart
<1> QED  BY <1>3, <1>4, <1>5, AboutMoves

LEMMA StepRidsApart ==
    ASSUME TypeOK, TgKnown, RelInv, ApartInv, [Next]_vars
    PROVE  RidsApart'
<1> SUFFICES ASSUME NEW r \in Request, rpc'[r] \in Placing, NEW t \in rids'[r]
             PROVE  /\ t \notin users'
                    /\ \A d \in Dc : t \notin about'[d]
                    /\ \A q \in Request \ {r} : rpc'[q] \in Placing => t \notin rids'[q]
  BY DEF RidsApart
<1>1. t \in Tg
  BY StepType DEF TypeOK
<1>2. ASSUME NEW tgs \in SUBSET Tg, Place(r, tgs), nextTg <= t
      PROVE  /\ t \notin users'
             /\ \A d \in Dc : t \notin about'[d]
             /\ \A q \in Request \ {r} : rpc'[q] \in Placing => t \notin rids'[q]
  <2>1. users' = users /\ about' = about /\ \A q \in Request \ {r} : rids'[q] = rids[q]
    BY <1>2 DEF Place, channel, TypeOK
  <2> QED  BY <1>1, <1>2, <2>1, InUse DEF RelInv
<1>3. ASSUME rpc[r] \in Placing, t \in rids[r]
      PROVE  /\ t \notin users'
             /\ \A d \in Dc : t \notin about'[d]
             /\ \A q \in Request \ {r} : rpc'[q] \in Placing => t \notin rids'[q]
  <2>1. ~(nextTg <= t)
    BY <1>1, <1>3, InUse DEF RelInv
  <2>2. /\ t \notin users /\ \A d \in Dc : t \notin about[d]
        /\ \A q \in Request \ {r} : rpc[q] \in Placing => t \notin rids[q]
    BY <1>3 DEF ApartInv, RidsApart
  <2>3. t \notin users'
    BY <2>1, <2>2, UsersFrom
  <2>4. ASSUME NEW d \in Dc, t \in about'[d]
        PROVE  FALSE
    <3>1. ASSUME NEW q \in Request, PostRequest(q, d), t \in rids[q]
          PROVE  FALSE
      <4>1. q # r
        BY <1>3, <3>1 DEF PostRequest, TypeOK, Placing
      <4> QED  BY <2>2, <3>1, <4>1 DEF PostRequest, Placing
    <3> QED  BY <2>1, <2>2, <2>4, <3>1, AboutFrom DEF RelInv
  <2>5. ASSUME NEW q \in Request \ {r}, rpc'[q] \in Placing, t \in rids'[q]
        PROVE  FALSE
    BY <2>1, <2>2, <2>5, PlacedFrom DEF RelInv
  <2> QED  BY <2>3, <2>4, <2>5
<1> QED  BY <1>2, <1>3, PlacedFrom DEF RelInv

LEMMA StepApart ==
    ASSUME IInv, RelInv, ApartInv, [Next]_vars
    PROVE  ApartInv'
<1>1. TypeOK /\ DcKnown /\ TgKnown /\ AboutFresh
  BY DEF IInv, ApartInv
<1> QED
  BY <1>1, StepAboutFresh, StepAboutApart, StepUserAlone, StepSentApart, StepRidsApart DEF ApartInv

LEMMA LeastOne ==
    ASSUME NEW S \in SUBSET Tg, NEW t, NEW u, IsLeast(t, S), IsLeast(u, S)
    PROVE  t = u
<1>1. t \in Nat /\ u \in Nat /\ t <= u /\ u <= t
  BY DEF IsLeast, Tg
<1> QED  BY <1>1

LEMMA StepMapSound ==
    ASSUME IInv, ApartInv, AboutInv, [Next]_vars
    PROVE  MapSound'
<1> SUFFICES ASSUME NEW t \in Tg, map'[t] # None
             PROVE  t \in about'[map'[t]]
  BY DEF MapSound
<1>1. TypeOK /\ AboutFresh
  BY DEF IInv, ApartInv
<1>2. \E d \in Dc : d = map'[t] /\ t \in about[d]
  <2>1. CASE map'[t] = map[t]
    <3>1. map[t] \in Dc
      BY <1>1, <2>1 DEF TypeOK
    <3> QED  BY <2>1, <3>1 DEF AboutInv, MapSound
  <2>2. CASE Store(t)
    <3>1. map'[t] = ufound /\ ufound \in Dc /\ about[ufound] = {t}
      BY <1>1, <2>2 DEF Store, TypeOK, AboutInv, UpdateAbout, Handled
    <3> QED  BY <3>1
  <2>3. ASSUME NEW d \in Dc, StoreSent(d, t)
        PROVE  d = map'[t] /\ t \in about[d]
    BY <1>1, <2>3 DEF StoreSent, TypeOK, AboutInv, RestAbout, IsLeast
  <2>4. ASSUME NEW r \in Request, StoreRequest(r, t)
        PROVE  rfound[r] \in Dc /\ rfound[r] = map'[t] /\ t \in about[rfound[r]]
    BY <1>1, <2>4 DEF StoreRequest, TypeOK, AboutInv, StoreAbout, IsLeast
  <2> QED  BY <1>1, <2>1, <2>2, <2>3, <2>4, MapMoves
<1> QED  BY <1>1, <1>2, AboutGrows

LEMMA StepRestAbout ==
    ASSUME TypeOK, AboutFresh, RestAbout, [Next]_vars
    PROVE  RestAbout'
<1> SUFFICES ASSUME NEW d \in Dc, spc'[d] = "storing"
             PROVE  rest'[d] \subseteq about'[d]
  BY DEF RestAbout
<1>1. about[d] \subseteq about'[d]
  BY AboutGrows
<1>2. CASE spc'[d] = spc[d] /\ rest'[d] = rest[d]
  BY <1>1, <1>2 DEF RestAbout
<1>3. CASE WritesDc(d) \/ Crash
  BY <1>3 DEF WritesDc, Crash, TypeOK
<1>4. CASE SenderStep(d)
  <2>1. CASE Sent(d)
    BY <2>1 DEF Sent, TypeOK, channel
  <2>2. CASE ~Sent(d)
    <3>1. spc[d] = "storing" /\ rest'[d] \subseteq rest[d]
      <4>1. ASSUME NEW t \in Tg, StoreSent(d, t)
            PROVE  spc[d] = "storing" /\ rest'[d] \subseteq rest[d]
        BY <4>1 DEF StoreSent, TypeOK
      <4>2. ~NotSent(d) /\ (\A t \in Tg : ~RelaySent(d, t)) /\ \A tgs \in SUBSET Tg : ~Send(d, tgs)
        BY DEF NotSent, RelaySent, Send, TypeOK, sender
      <4> QED  BY <1>4, <2>2, <4>1, <4>2 DEF SenderStep
    <3> QED  BY <1>1, <3>1 DEF RestAbout
  <2> QED  BY <2>1, <2>2
<1> QED  BY <1>2, <1>3, <1>4, SenderMoves

LEMMA StepStoreAbout ==
    ASSUME IInv, RelInv, ApartInv, StoreAbout, [Next]_vars
    PROVE  StoreAbout'
<1> SUFFICES ASSUME NEW r \in Request, rpc'[r] = "store"
             PROVE  /\ spc'[rfound'[r]] = "none" /\ rtodo'[r] \subseteq about'[rfound'[r]]
                    /\ about'[rfound'[r]] \cap users' = {}
  BY DEF StoreAbout
<1>1. TypeOK /\ AboutFresh /\ DcKnown /\ TgKnown
  BY DEF IInv, ApartInv
<1>2. ASSUME rpc[r] = "store", rfound'[r] = rfound[r], rtodo'[r] \subseteq rtodo[r]
      PROVE  /\ spc'[rfound'[r]] = "none" /\ rtodo'[r] \subseteq about'[rfound'[r]]
             /\ about'[rfound'[r]] \cap users' = {}
  <2>1. PICK d \in Dc : d = rfound[r]
    BY <1>1, <1>2 DEF TypeOK
  <2>2. d < nextDc /\ spc[d] = "none" /\ rtodo[r] \subseteq about[d] /\ about[d] \cap users = {}
    BY <1>1, <1>2, <2>1 DEF DcKnown, StoreAbout
  <2>3. spc'[d] = "none" /\ about'[d] = about[d]
    BY <1>1, <2>2, Settled
  <2>4. ASSUME NEW t \in about[d], t \in users'
        PROVE  FALSE
    BY <1>1, <2>2, <2>4, UsersFrom, InUse DEF RelInv, TypeOK
  <2> QED  BY <1>2, <2>1, <2>2, <2>3, <2>4
<1>3. CASE RequestKept(r)
  BY <1>2, <1>3 DEF RequestKept
<1>4. CASE Crash
  BY <1>1, <1>4 DEF Crash, TypeOK
<1>5. CASE AsksToSend(r) \/ \E tgs \in SUBSET Tg : AsksToDelete(r, tgs)
  BY <1>1, <1>5 DEF AsksToSend, AsksToDelete, TypeOK
<1>6. CASE RequestStep(r)
  <2>1. ASSUME NEW d \in Dc, PostRequest(r, d)
        PROVE  /\ spc'[rfound'[r]] = "none" /\ rtodo'[r] \subseteq about'[rfound'[r]]
               /\ about'[rfound'[r]] \cap users' = {}
    <3>1. rfound'[r] = d /\ about'[d] = rids[r] /\ rtodo'[r] = rids[r] /\ spc' = spc /\ users' = users
      BY <1>1, <2>1 DEF PostRequest, PostCopy, TypeOK, telegram, sender
    <3>2. rids[r] \cap users = {}
      BY <2>1 DEF PostRequest, ApartInv, RidsApart, Placing
    <3>3. spc[d] = "none"
      <4>1. ~(d < nextDc)
        BY <1>1, <2>1, NativeBridgeAssumption DEF PostRequest, PostCopy, NewDc, TypeOK
      <4> QED  BY <1>1, <4>1 DEF DcKnown
    <3> QED  BY <3>1, <3>2, <3>3
  <2>2. CASE ~\E d \in Dc : PostRequest(r, d)
    <3>1. rpc[r] = "store" /\ rfound'[r] = rfound[r] /\ rtodo'[r] \subseteq rtodo[r]
      <4>1. ASSUME NEW t \in Tg, StoreRequest(r, t)
            PROVE  rpc[r] = "store" /\ rfound'[r] = rfound[r] /\ rtodo'[r] \subseteq rtodo[r]
        <5>1. rpc[r] = "store" /\ rtodo'[r] \subseteq rtodo[r] /\ rtodo'[r] # {}
          BY <1>1, <4>1 DEF StoreRequest, TypeOK
        <5> QED  BY <1>1, <4>1, <5>1 DEF StoreRequest, TypeOK
      <4>2. /\ ~NotPlaced(r) /\ ~Placed(r) /\ ~PostRequestFails(r)
            /\ \A tgs \in SUBSET Tg : ~Place(r, tgs)
        BY <1>1 DEF NotPlaced, Placed, PostRequestFails, Place, TypeOK
      <4> QED  BY <1>6, <2>2, <4>1, <4>2 DEF RequestStep
    <3> QED  BY <1>2, <3>1
  <2> QED  BY <2>1, <2>2
<1>7. CASE \E u \in Tg : DeletionStep(r, u)
  BY <1>1, <1>7 DEF DeletionStep, DeleteAsked, FindAsked, UnmapAsked, CheckAsked, EraseAsked,
              EraseAskedFails, AfterAsked, TypeOK
<1> QED  BY <1>1, <1>3, <1>4, <1>5, <1>6, <1>7, RequestMoves

LEMMA StepUpdateAbout ==
    ASSUME IInv, ApartInv, UpdateAbout, [Next]_vars
    PROVE  UpdateAbout'
<1> SUFFICES ASSUME upc' = "store"
             PROVE  spc'[ufound'] = "none" /\ about'[ufound'] = {Head(updates').id}
  BY DEF UpdateAbout
<1>1. TypeOK /\ AboutFresh /\ DcKnown
  BY DEF IInv, ApartInv
<1>2. CASE upc' = upc /\ ufound' = ufound /\ CommandGoes
  <2>1. PICK d \in Dc : d = ufound
    BY <1>1, <1>2 DEF TypeOK
  <2>2. d < nextDc /\ spc[d] = "none" /\ about[d] = {Head(updates).id}
    BY <1>1, <1>2, <2>1 DEF DcKnown, UpdateAbout
  <2> QED  BY <1>1, <1>2, <2>1, <2>2, Settled DEF CommandGoes
<1>3. CASE Crash
  BY <1>3 DEF Crash
<1>4. ASSUME NEW t \in Tg, CommandStep(t)
      PROVE  FALSE
  BY <1>4 DEF CommandStep, FindParent, DeleteParent, DeleteParentFails,
              RecallParent, CheckSiblings, Fetch, Erase, EraseFails, Unmap, EndCommand, NextUpdate
<1>5. ASSUME NEW t \in Tg, RouteStep(t)
      PROVE  spc'[ufound'] = "none" /\ about'[ufound'] = {Head(updates').id}
  <2>1. PICK d \in Dc : Post(t, d)
    BY <1>5 DEF RouteStep, RouteDropped, PostFails, Store, Relay, NextUpdate
  <2>2. ufound' = d /\ about'[d] = {t} /\ spc' = spc /\ updates' = updates /\ Head(updates).id = t
    BY <1>1, <2>1 DEF Post, PostCopy, TypeOK, telegram, sender, Bridges, Handled
  <2>3. ~(d < nextDc)
    BY <1>1, <2>1, NativeBridgeAssumption DEF Post, PostCopy, NewDc, TypeOK
  <2> QED  BY <1>1, <2>2, <2>3 DEF DcKnown
<1> QED  BY <1>1, <1>2, <1>3, <1>4, <1>5, UpdateMoves

LEMMA StepFoundAbout ==
    ASSUME IInv, ApartInv, AboutInv, [Next]_vars
    PROVE  FoundAbout'
<1>1. TypeOK /\ AboutFresh /\ TypeOK'
  BY StepType DEF IInv, ApartInv
<1>2. ASSUME NEW t, NEW d \in Dc, t \in about[d]
      PROVE  t \in about'[d]
  BY <1>1, <1>2, AboutGrows
<1>3. ASSUME upc' \in OfParent
      PROVE  Parent' \in about'[ufound']
  <2>1. CASE upc \in OfParent /\ ufound' = ufound /\ Head(updates') = Head(updates)
    <3>1. ufound \in Dc /\ Parent \in about[ufound]
      BY <1>1, <2>1 DEF TypeOK, OfParent, AboutInv, FoundAbout
    <3> QED  BY <1>2, <2>1, <3>1 DEF Parent
  <2>2. CASE upc' = upc /\ ufound' = ufound /\ (upc # "next" => CommandGoes)
    <3>1. upc \in OfParent /\ ufound' = ufound /\ Head(updates') = Head(updates)
      BY <1>3, <2>2 DEF OfParent, CommandGoes
    <3> QED  BY <2>1, <3>1
  <2>3. CASE Crash
    BY <1>3, <2>3 DEF Crash, OfParent
  <2>4. ASSUME NEW t \in Tg, RouteStep(t)
        PROVE  FALSE
    BY <1>3, <2>4 DEF RouteStep, RouteDropped, PostFails, Store, Relay, Post, NextUpdate, OfParent
  <2>5. ASSUME NEW t \in Tg, CommandStep(t)
        PROVE  Parent' \in about'[ufound']
    <3>1. CASE FindParent(t)
      <4>1. ufound' = map[t] /\ map[t] # None /\ map[t] \in Dc /\ Parent' = t
        BY <1>1, <1>3, <3>1 DEF FindParent, NextUpdate, OfParent, TypeOK, Deletes, Parent
      <4> QED  BY <1>2, <4>1 DEF AboutInv, MapSound
    <3>2. CASE ~FindParent(t)
      <4>1. upc \in OfParent /\ ufound' = ufound /\ updates' = updates
        BY <1>3, <2>5, <3>2 DEF CommandStep, DeleteParent, DeleteParentFails,
              RecallParent, CheckSiblings, Fetch, Erase, EraseFails, Unmap, EndCommand, NextUpdate,
              OfParent, telegram
      <4> QED  BY <2>1, <4>1
    <3> QED  BY <3>1, <3>2
  <2> QED  BY <1>1, <2>2, <2>3, <2>4, <2>5, UpdateMoves
<1>4. ASSUME NEW r \in Request, rpc'[r] \in OfRow, NEW t \in Tg, IsLeast(t, rtodo'[r])
      PROVE  t \in about'[rfound'[r]]
  <2>1. CASE rpc[r] \in OfRow /\ rfound'[r] = rfound[r] /\ rtodo'[r] = rtodo[r]
    <3>1. rfound[r] \in Dc /\ t \in about[rfound[r]]
      BY <1>1, <1>4, <2>1 DEF TypeOK, OfRow, AboutInv, FoundAbout
    <3> QED  BY <1>2, <2>1, <3>1
  <2>2. CASE RequestKept(r)
    BY <1>4, <2>1, <2>2 DEF RequestKept
  <2>3. CASE Crash
    BY <1>1, <1>4, <2>3 DEF Crash, TypeOK, OfRow
  <2>4. CASE AsksToSend(r) \/ \E tgs \in SUBSET Tg : AsksToDelete(r, tgs)
    BY <1>1, <1>4, <2>4 DEF AsksToSend, AsksToDelete, TypeOK, OfRow
  <2>5. CASE RequestStep(r)
    <3>1. rpc'[r] \notin OfRow
      BY <1>1, <2>5, RequestGoes DEF Early, OfRow
    <3> QED  BY <1>4, <3>1
  <2>6. ASSUME NEW u \in Tg, DeletionStep(r, u)
        PROVE  t \in about'[rfound'[r]]
    <3>1. CASE FindAsked(r, u)
      <4>1. rfound'[r] = map[u] /\ map[u] \in Dc /\ map[u] # None /\ rtodo'[r] = rtodo[r] /\ IsLeast(u, rtodo[r])
        BY <1>1, <1>4, <3>1 DEF FindAsked, AfterAsked, TypeOK, OfRow
      <4>2. t = u
        BY <1>1, <1>4, <4>1, LeastOne DEF TypeOK
      <4> QED  BY <1>2, <4>1, <4>2 DEF AboutInv, MapSound
    <3>2. CASE ~FindAsked(r, u)
      <4>1. rpc[r] \in OfRow /\ rfound'[r] = rfound[r] /\ rtodo'[r] = rtodo[r]
        BY <1>1, <1>4, <2>6, <3>2 DEF DeletionStep, DeleteAsked, UnmapAsked, CheckAsked, EraseAsked,
              EraseAskedFails, AfterAsked, TypeOK, OfRow
      <4> QED  BY <2>1, <4>1
    <3> QED  BY <3>1, <3>2
  <2> QED  BY <1>1, <2>2, <2>3, <2>4, <2>5, <2>6, RequestMoves
<1>5. ASSUME NEW d \in Dc
      PROVE  ids'[d] \subseteq about'[d]
  <2>1. ids[d] \subseteq about[d] /\ about[d] \subseteq about'[d]
    BY <1>1, AboutGrows DEF AboutInv, FoundAbout
  <2>2. CASE Crash
    BY <1>1, <2>2 DEF Crash, TypeOK
  <2>3. CASE RemoverStep(d)
    <3>1. CASE ExecuteDelete(d)
      <4>1. RowsOf(d) \subseteq about[d]
        BY DEF RowsOf, AboutInv, MapSound, Dc, None
      <4> QED  BY <1>1, <2>1, <3>1, <4>1 DEF ExecuteDelete, TypeOK
    <3>2. CASE ~ExecuteDelete(d)
      <4>1. ids'[d] \subseteq ids[d]
        BY <1>1, <2>3, <3>2 DEF RemoverStep, OnRawDelete, LookupDeleted, DeleteSent, RecallSent,
              DeleteRows, TypeOK
      <4> QED  BY <2>1, <4>1
    <3> QED  BY <3>1, <3>2
  <2> QED  BY <1>1, <2>1, <2>2, <2>3, RemoverMoves
<1> QED  BY <1>3, <1>4, <1>5 DEF FoundAbout

LEMMA StepAbout ==
    ASSUME IInv, RelInv, ApartInv, AboutInv, [Next]_vars
    PROVE  AboutInv'
<1>1. TypeOK /\ AboutFresh /\ RestAbout /\ StoreAbout /\ UpdateAbout
  BY DEF IInv, ApartInv, AboutInv
<1> QED
  BY <1>1, StepMapSound, StepRestAbout, StepStoreAbout, StepUpdateAbout, StepFoundAbout DEF AboutInv

--------------------------------------------------------------------------------
\* Telegram has refused no deletion.
Clean == "telegram" \notin faults

\* What a client's deletion has gone past is gone.
Gone == {"find", "unmap", "siblings", "erase"}
AskedGone ==
    Clean => \A r \in Request : rpc[r] \in Gone =>
                \A t \in Tg : IsLeast(t, rtodo[r]) => t \notin tg

\* The task of a deletion has all the mapped messages that are left, unless the
\* message is torn.
Removing == {"delete", "recall", "unmap"}
RemoverTorn == \A d \in Dc : dpc[d] \in Removing /\ ToStore(d) => d \in torn
RemoverGone ==
    \A d \in Dc \ torn : dpc[d] \in Removing =>
        /\ Clean => RowsOf(d) \cap tg \subseteq ids[d]
        /\ dpc[d] # "delete" => ids[d] = {}

\* What has been stored of a message is mapped to it while it is there.
Stored ==
    Clean =>
        /\ \A d \in Dc \ torn : spc[d] = "storing" =>
              \A t \in (about[d] \ rest[d]) \cap tg : map[t] = d
        /\ \A r \in Request : rpc[r] = "store" /\ rfound[r] \notin torn =>
              \A t \in (about[rfound[r]] \ rtodo[r]) \cap tg : map[t] = rfound[r]

\* All of a message is mapped, or all of it to a newer copy.
Recopy(d) == RowsOf(d) = {} /\ Recopied(d)
Mapped(d) == \A t \in about[d] \cap tg : map[t] = d
Whole     == Clean => \A d \in Dc \ torn : ToStore(d) \/ Recopy(d) \/ Mapped(d)

GoneInv == AskedGone /\ RemoverTorn /\ RemoverGone /\ Stored /\ Whole

\* The inductive invariant of the siblings of a message.
SibInv == ApartInv /\ AboutInv /\ GoneInv

LEMMA CleanStays ==
    ASSUME [Next]_vars, Clean'
    PROVE  Clean
BY OnlyGrow DEF Clean

LEMMA StepAskedGone ==
    ASSUME TypeOK, TgKnown, AskedGone, [Next]_vars
    PROVE  AskedGone'
<1> SUFFICES ASSUME Clean', NEW r \in Request, rpc'[r] \in Gone, NEW t \in Tg, IsLeast(t, rtodo'[r])
             PROVE  t \notin tg'
  BY DEF AskedGone
<1>1. Clean
  BY CleanStays
<1>2. CASE rpc[r] \in Gone /\ rtodo'[r] = rtodo[r]
  <2>1. t \notin tg /\ t < nextTg
    BY <1>1, <1>2 DEF AskedGone, TgKnown, Before, IsLeast
  <2>2. ~(nextTg <= t)
    BY <2>1, NativeBridgeAssumption DEF TypeOK, Tg
  <2> QED  BY <2>1, <2>2, TgGrows DEF TgStep
<1>3. CASE RequestKept(r)
  BY <1>2, <1>3 DEF RequestKept
<1>4. CASE Crash
  BY <1>4 DEF Crash, TypeOK, Gone
<1>5. CASE AsksToSend(r) \/ \E tgs \in SUBSET Tg : AsksToDelete(r, tgs)
  BY <1>5 DEF AsksToSend, AsksToDelete, TypeOK, Gone
<1>6. CASE RequestStep(r)
  <2>1. rpc'[r] \notin Gone
    BY <1>6, RequestGoes DEF Early, Gone
  <2> QED  BY <2>1
<1>7. ASSUME NEW u \in Tg, DeletionStep(r, u)
      PROVE  t \notin tg'
  <2>1. CASE DeleteAsked(r, u)
    <3>1. tg' = tg \ {u} /\ IsLeast(u, rtodo[r]) /\ rtodo' = rtodo
      BY <2>1 DEF DeleteAsked, Fault, Clean
    <3>2. t = u
      BY <3>1, LeastOne DEF TypeOK
    <3> QED  BY <3>1, <3>2
  <2>2. CASE ~DeleteAsked(r, u)
    <3>1. rpc[r] \in Gone /\ rtodo'[r] = rtodo[r]
      BY <1>7, <2>2 DEF DeletionStep, FindAsked, UnmapAsked, CheckAsked, EraseAsked,
              EraseAskedFails, AfterAsked, TypeOK, Gone
    <3> QED  BY <1>2, <3>1
  <2> QED  BY <2>1, <2>2
<1> QED  BY <1>3, <1>4, <1>5, <1>6, <1>7, RequestMoves

LEMMA StepRemoverTorn ==
    ASSUME TypeOK, DcKnown, FoundTorn, RawOnce, RemoverTorn, [Next]_vars
    PROVE  RemoverTorn'
<1> SUFFICES ASSUME NEW d \in Dc, dpc'[d] \in Removing, ToStore(d)'
             PROVE  d \in torn'
  BY DEF RemoverTorn
<1>1. FoundStep
  BY StepFound
<1>2. CASE dpc[d] \in Removing
  <2>1. nextDc \in Nat
    BY DEF TypeOK, Dc
  <2>2. dpc[d] # "none"
    BY <1>2 DEF Removing
  <2>3. d # nextDc
    BY <2>1, <2>2 DEF RawOnce
  <2>4. ToStore(d)
    BY <1>1, <2>3 DEF FoundStep
  <2> QED  BY <1>1, <1>2, <2>4 DEF RemoverTorn, FoundStep
<1>3. CASE Crash
  BY <1>3 DEF Crash, TypeOK, Removing
<1>4. CASE RemoverStep(d) /\ dpc[d] \notin Removing
  <2>1. ExecuteDelete(d)
    BY <1>4 DEF RemoverStep, OnRawDelete, LookupDeleted, DeleteSent, RecallSent, DeleteRows, TypeOK, Removing
  <2>2. torn' = torn \cup {c \in {d} : ToStore(c)} /\ (ToStore(d)' <=> ToStore(d))
    BY <2>1 DEF ExecuteDelete, Tear, ToStore, sender, updater, server
  <2> QED  BY <2>2
<1> QED  BY <1>2, <1>3, <1>4, RemoverMoves

LEMMA StepRemoverGone ==
    ASSUME TypeOK, DcKnown, TgKnown, FoundTorn, RawOnce, RemoverTorn, RemoverGone, [Next]_vars
    PROVE  RemoverGone'
<1> SUFFICES ASSUME NEW d \in Dc, d \notin torn', dpc'[d] \in Removing
             PROVE  /\ Clean' => \A t \in Tg : map'[t] = d /\ t \in tg' => t \in ids'[d]
                    /\ dpc'[d] # "delete" => ids'[d] = {}
  BY DEF RemoverGone, RowsOf
<1>1. d \notin torn /\ (Clean' => Clean)
  BY OnlyGrow, CleanStays
<1>2. ASSUME dpc[d] \in Removing, Clean, NEW t \in Tg, map'[t] = d, t \in tg'
      PROVE  t \in ids[d] /\ t \in tg /\ map[t] = d
  <2>1. ~ToStore(d)
    BY <1>1, <1>2 DEF RemoverTorn
  <2>2. map[t] = d
    <3>1. RowStep
      BY StepRows DEF RowFacts
    <3> QED  BY <1>2, <2>1, <3>1 DEF RowStep, Dc, None
  <2>3. t \in tg
    <3>1. t < nextTg
      BY <2>2 DEF TgKnown, Dc, None
    <3>2. ~(nextTg <= t)
      BY <3>1, NativeBridgeAssumption DEF TypeOK, Tg
    <3> QED  BY <1>2, <3>2, TgGrows DEF TgStep
  <2> QED  BY <1>1, <1>2, <2>2, <2>3 DEF RemoverGone, RowsOf
<1>3. CASE dpc'[d] = dpc[d] /\ ids'[d] = ids[d] /\ held'[d] = held[d]
  BY <1>1, <1>2, <1>3 DEF RemoverGone
<1>4. CASE Crash
  BY <1>4 DEF Crash, TypeOK, Removing
<1>5. CASE RemoverStep(d)
  <2>1. CASE ExecuteDelete(d)
    BY <2>1 DEF ExecuteDelete, RowsOf, shared, TypeOK, Removing
  <2>2. ASSUME NEW u \in Tg, DeleteSent(d, u)
        PROVE  /\ Clean' => \A t \in Tg : map'[t] = d /\ t \in tg' => t \in ids'[d]
               /\ dpc'[d] # "delete" => ids'[d] = {}
    <3>1. ids'[d] = ids[d] \ {u} /\ dpc[d] \in Removing /\ (Clean' => tg' = tg \ {u})
      BY <2>2 DEF DeleteSent, TypeOK, Removing, Fault, Clean
    <3>2. dpc'[d] # "delete" => ids'[d] = {}
      BY <2>2 DEF DeleteSent, TypeOK
    <3> QED  BY <1>1, <1>2, <3>1, <3>2
  <2>3. CASE RecallSent(d)
    <3>1. ids'[d] = ids[d] /\ dpc[d] \in Removing /\ dpc[d] # "delete"
      BY <2>3 DEF RecallSent, Removing
    <3> QED  BY <1>1, <1>2, <3>1 DEF RemoverGone
  <2>4. ~OnRawDelete(d) /\ ~LookupDeleted(d) /\ ~DeleteRows(d)
    BY DEF OnRawDelete, LookupDeleted, DeleteRows, TypeOK, Removing
  <2> QED  BY <1>5, <2>1, <2>2, <2>3, <2>4 DEF RemoverStep
<1> QED  BY <1>3, <1>4, <1>5, RemoverMoves

\* A message that was deleted does not come back.
LEMMA StillThere ==
    ASSUME TypeOK, TgKnown, [Next]_vars, NEW d \in Dc, NEW t \in about[d], t \in tg'
    PROVE  t \in Tg /\ t \in tg
<1>1. t \in Tg /\ t < nextTg
  BY DEF TgKnown, Before, TypeOK
<1>2. ~(nextTg <= t)
  BY <1>1, NativeBridgeAssumption DEF TypeOK, Tg
<1> QED  BY <1>1, <1>2, TgGrows DEF TgStep

\* The row of a message that is there stays, unless a user edited the message.
LEMMA RowKept ==
    ASSUME IInv, RelInv, SibInv, [Next]_vars, Clean, NEW d \in Dc \ torn, NEW t \in Tg,
           map[t] = d, t \in tg
    PROVE  map'[t] = d \/ (Store(t) /\ t \in users)
<1>1. TypeOK /\ t \in about[d]
  BY DEF IInv, SibInv, AboutInv, MapSound, Dc, None
<1>2. ~Unmap(t)
  BY DEF Unmap, Deletes, IInv, ParentGone
<1>3. ASSUME NEW r \in Request, UnmapAsked(r, t)
      PROVE  FALSE
  BY <1>3 DEF UnmapAsked, SibInv, GoneInv, AskedGone, Gone
<1>4. ASSUME NEW c \in Dc, DeleteRows(c), map[t] = c
      PROVE  FALSE
  BY <1>4 DEF DeleteRows, SibInv, GoneInv, RemoverGone, Removing, RowsOf
<1>5. ASSUME Store(t)
      PROVE  t \in users
  <2>1. updates # <<>> /\ Head(updates).id = t /\ Head(updates).kind # "command"
    BY <1>5 DEF Store, Handled, RelInv, UpdateTask
  <2>2. 1 \in DOMAIN updates /\ Head(updates) = updates[1]
    BY <1>1, <2>1, HeadType
  <2> QED  BY <2>1, <2>2 DEF RelInv, UpdatesBridged
<1>6. ASSUME NEW c \in Dc, StoreSent(c, t)
      PROVE  map'[t] = d
  <2>1. map'[t] = c /\ spc[c] = "storing" /\ t \in about[c]
    BY <1>1, <1>6 DEF StoreSent, TypeOK, IsLeast, SibInv, AboutInv, RestAbout
  <2>2. CASE c # d
    BY <1>1, <2>1, <2>2 DEF SibInv, ApartInv, AboutApart, SentApart
  <2> QED  BY <2>1, <2>2
<1>7. ASSUME NEW r \in Request, StoreRequest(r, t)
      PROVE  map'[t] = d
  <2>1. PICK c \in Dc : c = rfound[r]
    BY <1>1, <1>7 DEF StoreRequest, TypeOK
  <2>2. map'[t] = c /\ t \in about[c] /\ about[c] \cap users = {}
    BY <1>1, <1>7, <2>1 DEF StoreRequest, TypeOK, IsLeast, SibInv, AboutInv, StoreAbout
  <2>3. CASE c # d
    BY <1>1, <2>2, <2>3 DEF SibInv, ApartInv, AboutApart
  <2> QED  BY <2>2, <2>3
<1> QED  BY <1>1, <1>2, <1>3, <1>4, <1>5, <1>6, <1>7, MapMoves

LEMMA StepStored ==
    ASSUME IInv, RelInv, SibInv, [Next]_vars
    PROVE  Stored'
<1>1. TypeOK /\ TgKnown /\ DcKnown /\ AboutFresh
  BY DEF IInv, SibInv, ApartInv
<1>2. Clean' => Clean
  BY CleanStays
<1>3. ASSUME Clean, NEW d \in Dc \ torn, about[d] \cap users = {}, NEW t \in about[d], t \in tg',
             map[t] = d
      PROVE  map'[t] = d
  BY <1>1, <1>3, StillThere, RowKept
<1>4. ASSUME Clean', NEW d \in Dc, d \notin torn', spc'[d] = "storing", NEW t \in about'[d],
             t \notin rest'[d], t \in tg'
      PROVE  map'[t] = d
  <2>1. d \notin torn
    BY <1>4, OnlyGrow
  <2>2. ASSUME spc[d] = "storing"
        PROVE  t \in about[d] /\ about[d] \cap users = {} /\ (t \notin rest[d] => map[t] = d)
    <3>1. t \in about[d] /\ about[d] \cap users = {}
      BY <1>1, <1>4, <2>2, AboutGrows DEF DcKnown, SibInv, ApartInv, SentApart
    <3>2. t \in tg
      BY <1>1, <1>4, <3>1, StillThere
    <3> QED  BY <1>2, <1>4, <2>1, <2>2, <3>1, <3>2 DEF SibInv, GoneInv, Stored
  <2>3. CASE spc'[d] = spc[d] /\ rest'[d] = rest[d]
    BY <1>2, <1>3, <1>4, <2>1, <2>2, <2>3
  <2>4. ~WritesDc(d) /\ ~Crash
    <3>1. spc \in [Dc -> {"none", "sending", "storing", "relay", "done"}]
      BY <1>1 DEF TypeOK
    <3> QED  BY <1>4, <3>1 DEF WritesDc, Crash
  <2>5. ASSUME NEW u \in Tg, StoreSent(d, u)
        PROVE  map'[t] = d
    <3>1. spc[d] = "storing" /\ (t = u => map'[t] = d) /\ (t # u => t \notin rest[d])
      BY <1>1, <1>4, <2>5 DEF StoreSent, TypeOK
    <3> QED  BY <1>2, <1>3, <1>4, <2>1, <2>2, <3>1
  <2>6. CASE Sent(d)
    BY <1>1, <1>4, <2>6 DEF Sent, TypeOK, channel
  <2>7. ~NotSent(d) /\ (\A u \in Tg : ~RelaySent(d, u)) /\ \A tgs \in SUBSET Tg : ~Send(d, tgs)
    BY <1>1, <1>4 DEF NotSent, RelaySent, Send, TypeOK, sender
  <2> QED  BY <1>1, <2>3, <2>4, <2>5, <2>6, <2>7, SenderMoves DEF SenderStep
<1>5. ASSUME Clean', NEW r \in Request, rpc'[r] = "store", rfound'[r] \notin torn',
             NEW t \in about'[rfound'[r]], t \notin rtodo'[r], t \in tg'
      PROVE  map'[t] = rfound'[r]
  <2>1. torn \subseteq torn'
    BY OnlyGrow
  <2>2. ASSUME rpc[r] = "store", rfound'[r] = rfound[r], t \notin rtodo[r]
        PROVE  map'[t] = rfound'[r]
    <3>1. PICK d \in Dc : d = rfound[r]
      BY <1>1, <2>2 DEF TypeOK
    <3>2. d < nextDc /\ spc[d] = "none" /\ about[d] \cap users = {}
      BY <1>1, <2>2, <3>1 DEF DcKnown, SibInv, AboutInv, StoreAbout
    <3>3. t \in about[d]
      BY <1>1, <1>5, <2>2, <3>1, <3>2, Settled
    <3>4. t \in tg
      BY <1>1, <1>5, <3>3, StillThere
    <3>5. d \notin torn /\ map[t] = d
      BY <1>2, <1>5, <2>1, <2>2, <3>1, <3>3, <3>4 DEF SibInv, GoneInv, Stored
    <3> QED  BY <1>2, <1>3, <1>5, <2>2, <3>1, <3>2, <3>3, <3>5
  <2>3. CASE RequestKept(r)
    BY <1>5, <2>2, <2>3 DEF RequestKept
  <2>4. CASE Crash
    BY <1>1, <1>5, <2>4 DEF Crash, TypeOK
  <2>5. CASE AsksToSend(r) \/ \E tgs \in SUBSET Tg : AsksToDelete(r, tgs)
    BY <1>1, <1>5, <2>5 DEF AsksToSend, AsksToDelete, TypeOK
  <2>6. ASSUME NEW d \in Dc, PostRequest(r, d)
        PROVE  FALSE
    BY <1>1, <1>5, <2>6 DEF PostRequest, PostCopy, TypeOK
  <2>7. ASSUME NEW u \in Tg, StoreRequest(r, u)
        PROVE  map'[t] = rfound'[r]
    <3>1. rpc[r] = "store" /\ rtodo'[r] = rtodo[r] \ {u} /\ rtodo'[r] # {} /\ map' = [map EXCEPT ![u] = rfound[r]]
      BY <1>1, <1>5, <2>7 DEF StoreRequest, TypeOK
    <3>2. rfound'[r] = rfound[r]
      BY <1>1, <2>7, <3>1 DEF StoreRequest, TypeOK
    <3>3. CASE t = u
      BY <1>1, <3>1, <3>2, <3>3 DEF TypeOK
    <3>4. CASE t # u
      BY <1>5, <2>2, <3>1, <3>2, <3>4
    <3> QED  BY <3>3, <3>4
  <2>8. /\ ~NotPlaced(r) /\ ~Placed(r) /\ ~PostRequestFails(r)
        /\ \A tgs \in SUBSET Tg : ~Place(r, tgs)
    BY <1>1, <1>5 DEF NotPlaced, Placed, PostRequestFails, Place, TypeOK
  <2>9. CASE \E u \in Tg : DeletionStep(r, u)
    BY <1>1, <1>5, <2>9 DEF DeletionStep, DeleteAsked, FindAsked, UnmapAsked, CheckAsked, EraseAsked,
              EraseAskedFails, AfterAsked, TypeOK
  <2> QED
    BY <1>1, <2>3, <2>4, <2>5, <2>6, <2>7, <2>8, <2>9, RequestMoves DEF RequestStep
<1>6. Clean' => /\ \A d \in Dc \ torn' : spc'[d] = "storing" =>
                      \A t \in (about'[d] \ rest'[d]) \cap tg' : map'[t] = d
                /\ \A r \in Request : rpc'[r] = "store" /\ rfound'[r] \notin torn' =>
                      \A t \in (about'[rfound'[r]] \ rtodo'[r]) \cap tg' : map'[t] = rfound'[r]
  BY <1>4, <1>5
<1> QED  BY <1>6 DEF Stored

\* The last row is stored: the message is mapped as a whole.
LEMMA StoredWhole ==
    ASSUME IInv, RelInv, SibInv, [Next]_vars, Clean', NEW d \in Dc, d \notin torn', ToStore(d), ~ToStore(d)'
    PROVE  Mapped(d)'
<1>1. TypeOK /\ TgKnown /\ DcKnown /\ AboutFresh
  BY DEF IInv, SibInv, ApartInv
<1>2. Clean /\ d \notin torn
  BY CleanStays, OnlyGrow
<1>3. ~Crash
  BY DEF Crash
<1>4. d < nextDc
  BY <1>1 DEF ToStore, DcKnown
<1>5. ASSUME about[d] \cap users = {}, about'[d] = about[d], NEW u \in Tg, map' = [map EXCEPT ![u] = d],
             \A t \in (about[d] \ {u}) \cap tg : map[t] = d
      PROVE  Mapped(d)'
  <2> SUFFICES ASSUME NEW t \in about[d], t \in tg'
               PROVE  map'[t] = d
    BY <1>5 DEF Mapped
  <2>1. t \in Tg /\ t \in tg
    BY <1>1, StillThere
  <2> QED  BY <1>1, <1>5, <2>1 DEF TypeOK
<1>6. ASSUME spc[d] \in {"sending", "storing"}
      PROVE  Mapped(d)'
  <2>1. spc'[d] \notin {"sending", "storing"}
    BY DEF ToStore
  <2>2. SenderStep(d)
    BY <1>1, <1>3, <1>6, <2>1, SenderMoves DEF WritesDc, TypeOK
  <2>3. CASE NotSent(d)
    BY <2>3 DEF NotSent, channel, Mapped
  <2>4. ASSUME NEW u \in Tg, StoreSent(d, u)
        PROVE  Mapped(d)'
    <3>1. /\ map' = [map EXCEPT ![u] = d] /\ about' = about /\ rest[d] \ {u} = {} /\ spc[d] = "storing"
      BY <1>1, <2>1, <2>4 DEF StoreSent, TypeOK, channel
    <3>2. about[d] \cap users = {}
      BY <3>1 DEF SibInv, ApartInv, SentApart
    <3>3. \A t \in (about[d] \ rest[d]) \cap tg : map[t] = d
      BY <1>2, <3>1 DEF SibInv, GoneInv, Stored
    <3> QED  BY <1>5, <3>1, <3>2, <3>3
  <2>5. ~Sent(d) /\ \A tgs \in SUBSET Tg : ~Send(d, tgs)
    BY <1>1, <1>6, <2>1 DEF Sent, Send, TypeOK, sender
  <2>6. \A u \in Tg : ~RelaySent(d, u)
    BY <1>6 DEF RelaySent
  <2> QED  BY <2>2, <2>3, <2>4, <2>5, <2>6 DEF SenderStep
<1>7. ASSUME upc = "store", ufound = d
      PROVE  Mapped(d)'
  <2>1. ~(upc' = "store" /\ ufound' = d)
    BY DEF ToStore
  <2>2. PICK t \in Tg : Store(t)
    <3>1. PICK t \in Tg : RouteStep(t) \/ CommandStep(t)
      BY <1>1, <1>3, <1>7, <2>1, UpdateMoves
    <3> QED
      BY <1>7, <3>1 DEF RouteStep, RouteDropped, PostFails, Relay, Post, CommandStep, FindParent,
           DeleteParent, DeleteParentFails, RecallParent, CheckSiblings, Fetch, Erase, EraseFails,
           Unmap, EndCommand
  <2>3. about'[d] = {t} /\ map'[t] = d
    BY <1>1, <1>7, <2>2 DEF Store, Handled, channel, SibInv, AboutInv, UpdateAbout, TypeOK
  <2> QED  BY <2>3 DEF Mapped
<1>8. ASSUME NEW r \in Request, rpc[r] = "store", rfound[r] = d
      PROVE  Mapped(d)'
  <2>1. ~(rpc'[r] = "store" /\ rfound'[r] = d)
    BY DEF ToStore
  <2>2. ~RequestKept(r) /\ ~AsksToSend(r) /\ ~\E tgs \in SUBSET Tg : AsksToDelete(r, tgs)
    BY <1>8, <2>1 DEF RequestKept, AsksToSend, AsksToDelete, NewRequest
  <2>3. ~\E t \in Tg : DeletionStep(r, t)
    BY <1>8 DEF DeletionStep, DeleteAsked, FindAsked, UnmapAsked, CheckAsked, EraseAsked, EraseAskedFails
  <2>4. PICK u \in Tg : StoreRequest(r, u)
    <3>1. RequestStep(r)
      BY <1>1, <1>3, <2>2, <2>3, RequestMoves
    <3> QED
      BY <1>8, <3>1 DEF RequestStep, NotPlaced, Placed, PostRequestFails, Place, PostRequest
  <2>5. /\ map' = [map EXCEPT ![u] = d] /\ about' = about /\ rtodo[r] \ {u} = {}
    <3>1. map' = [map EXCEPT ![u] = d] /\ about' = about /\ rtodo'[r] = rtodo[r] \ {u}
      BY <1>1, <1>8, <2>4 DEF StoreRequest, TypeOK, channel
    <3>2. rtodo'[r] = {}
      BY <1>1, <1>8, <2>1, <2>4 DEF StoreRequest, TypeOK
    <3> QED  BY <3>1, <3>2
  <2>6. about[d] \cap users = {}
    BY <1>8 DEF SibInv, AboutInv, StoreAbout
  <2>7. \A t \in (about[d] \ rtodo[r]) \cap tg : map[t] = d
    BY <1>2, <1>8 DEF SibInv, GoneInv, Stored
  <2> QED  BY <1>5, <2>5, <2>6, <2>7
<1> QED  BY <1>6, <1>7, <1>8 DEF ToStore

LEMMA StepWhole ==
    ASSUME IInv, RelInv, SibInv, [Next]_vars
    PROVE  Whole'
<1> SUFFICES ASSUME Clean', NEW d \in Dc, d \notin torn', ~ToStore(d)'
             PROVE  Recopy(d)' \/ Mapped(d)'
  BY DEF Whole
<1>1. TypeOK /\ TgKnown /\ DcKnown /\ AboutFresh
  BY DEF IInv, SibInv, ApartInv
<1>2. Clean /\ d \notin torn
  BY CleanStays, OnlyGrow
<1>3. CASE ToStore(d)
  BY <1>3, StoredWhole
<1>4. ASSUME ~ToStore(d)
      PROVE  Recopy(d)' \/ Mapped(d)'
  <2>1. about'[d] = about[d]
    <3>1. ASSUME NEW t \in Tg, Post(t, d)
          PROVE  ToStore(d)'
      BY <3>1 DEF Post, ToStore
    <3>2. ASSUME NEW r \in Request, PostRequest(r, d)
          PROVE  ToStore(d)'
      <4>1. rpc'[r] = "store" /\ rfound'[r] = d
        BY <1>1, <3>2 DEF PostRequest, TypeOK
      <4> QED  BY <4>1 DEF ToStore
    <3>3. ASSUME NEW tgs \in SUBSET Tg, Send(d, tgs)
          PROVE  ToStore(d)'
      BY <3>3 DEF Send, ToStore, sender
    <3> QED  BY <1>1, <3>1, <3>2, <3>3, AboutMoves
  <2>2. \A t \in Tg : map'[t] = d => map[t] = d
    <3>1. RowStep
      BY <1>1, StepRows DEF RowFacts
    <3> QED  BY <1>4, <3>1 DEF RowStep, Dc, None
  <2>3. \A n \in Dc : about[n] \subseteq about'[n]
    BY <1>1, AboutGrows
  <2>4. CASE Recopy(d)
    <3>1. RowsOf(d)' = {}
      BY <2>2, <2>4 DEF Recopy, RowsOf
    <3>2. Recopied(d)'
      BY <2>3, <2>4 DEF Recopy, Recopied
    <3> QED  BY <3>1, <3>2 DEF Recopy
  <2>5. CASE Mapped(d)
    <3>1. ASSUME NEW t \in about[d], t \in tg', map'[t] # d
          PROVE  Recopy(d)'
      <4>1. t \in Tg /\ t \in tg /\ map[t] = d
        BY <1>1, <2>5, <3>1, StillThere DEF Mapped
      <4>2. Store(t) /\ t \in users
        BY <1>2, <3>1, <4>1, RowKept
      <4>3. PICK n \in Dc : n = ufound
        BY <1>1, <4>2 DEF Store, TypeOK
      <4>4. map'[t] = n /\ t \in about[n]
        BY <1>1, <4>2, <4>3 DEF Store, Handled, TypeOK, SibInv, AboutInv, UpdateAbout
      <4>5. about[d] = {t}
        BY <3>1, <4>2 DEF SibInv, ApartInv, UserAlone
      <4>6. Recopied(d)'
        <5>1. n # d /\ t \in about'[n] \cap about'[d]
          BY <2>3, <3>1, <4>4
        <5> QED  BY <5>1 DEF Recopied
      <4>7. ASSUME NEW u \in Tg, map'[u] = d
            PROVE  FALSE
        <5>1. u \in about[d]
          BY <2>2, <4>7 DEF SibInv, AboutInv, MapSound, Dc, None
        <5> QED  BY <3>1, <4>5, <4>7, <5>1
      <4>8. RowsOf(d)' = {}
        BY <4>7 DEF RowsOf
      <4> QED  BY <4>6, <4>8 DEF Recopy
    <3> QED  BY <2>1, <3>1 DEF Mapped
  <2> QED  BY <1>2, <1>4, <2>4, <2>5 DEF SibInv, GoneInv, Whole
<1> QED  BY <1>3, <1>4

LEMMA InitSib ==
    ASSUME Init
    PROVE  SibInv
<1>1. ApartInv
  BY DEF Init, ApartInv, AboutFresh, AboutApart, UserAlone, SentApart, RidsApart, Placing
<1>2. AboutInv
  BY DEF Init, AboutInv, MapSound, RestAbout, StoreAbout, UpdateAbout, FoundAbout, OfParent, OfRow
<1>3. AskedGone /\ RemoverTorn /\ RemoverGone /\ Stored
  BY DEF Init, AskedGone, RemoverTorn, RemoverGone, Stored, Gone, Removing
<1>4. Whole
  BY DEF Init, Whole, Mapped
<1> QED  BY <1>1, <1>2, <1>3, <1>4 DEF SibInv, GoneInv

LEMMA StepSib ==
    ASSUME IInv, RelInv, SibInv, [Next]_vars
    PROVE  SibInv'
<1>1. ApartInv' /\ AboutInv'
  BY StepApart, StepAbout DEF SibInv
<1>2. TypeOK /\ TgKnown /\ DcKnown /\ FoundTorn /\ RawOnce /\ AskedGone /\ RemoverTorn /\ RemoverGone
  BY DEF IInv, RelInv, SibInv, GoneInv
<1>3. AskedGone' /\ RemoverTorn' /\ RemoverGone' /\ Stored' /\ Whole'
  BY <1>2, StepAskedGone, StepRemoverTorn, StepRemoverGone, StepStored, StepWhole
<1> QED  BY <1>1, <1>3 DEF SibInv, GoneInv

\* While Telegram refuses no deletion, every message is mapped as a whole, to itself or
\* to a newer copy, and what the deleting tasks have found is what is left of it.
THEOREM SiblingInvariance == Spec => []SibInv
<1>1. Init => SibInv
  BY InitSib
<1>2. IInv /\ RelInv /\ SibInv /\ [Next]_vars => SibInv'
  BY StepSib
<1> QED  BY <1>1, <1>2, Invariance, RelayInvariance, PTL DEF Spec

\* A message that is mapped as a whole, whose parent or asked id is gone and which has
\* no other row, has nothing left.
LEMMA NothingLeft ==
    ASSUME IInv, SibInv, Clean, NEW d \in Dc \ torn, Found(d), NEW t \in about[d], t \notin tg,
           \A u \in RowsOf(d) : u = t
    PROVE  about[d] \cap tg = {}
<1>1. ~ToStore(d)
  BY DEF IInv, FoundTorn
<1>2. CASE Mapped(d)
  BY <1>2 DEF Mapped, RowsOf, IInv, TypeOK
<1>3. CASE Recopied(d)
  <2>1. PICK n \in Dc \ {d} : about[d] \cap about[n] # {}
    BY <1>3 DEF Recopied
  <2>2. PICK u \in about[d] : u \in users
    BY <2>1 DEF SibInv, ApartInv, AboutApart
  <2>3. about[d] = {u}
    BY <2>2 DEF SibInv, ApartInv, UserAlone
  <2> QED  BY <2>3
<1> QED  BY <1>1, <1>2, <1>3 DEF SibInv, GoneInv, Whole, Recopy

LEMMA DecidesLast ==
    ASSUME IInv, SibInv, [Next]_vars, Clean, NEW d \in discord \ torn, Decides(d)
    PROVE  about[d] \cap tg = {}
<1>1. TypeOK /\ d \in Dc
  BY DEF IInv, TypeOK
<1>2. ASSUME upc = "siblings", upc' = "fetch", ufound = d
      PROVE  about[d] \cap tg = {}
  <2>1. RowsOf(d) \ {Parent} = {}
    BY <1>1, <1>2, StepCommand DEF SiblingStep, Parent
  <2>2. Parent \notin tg /\ Parent \in about[d]
    BY <1>2 DEF IInv, ParentGone, Parent, SibInv, AboutInv, FoundAbout, OfParent
  <2>3. Found(d)
    BY <1>2 DEF Found
  <2> QED  BY <1>1, <2>1, <2>2, <2>3, NothingLeft
<1>3. ASSUME NEW r \in Request, rpc[r] = "siblings", rpc'[r] = "erase", rfound[r] = d
      PROVE  about[d] \cap tg = {}
  <2>1. ~RequestKept(r) /\ ~Crash /\ ~AsksToSend(r) /\ ~\E tgs \in SUBSET Tg : AsksToDelete(r, tgs)
    BY <1>1, <1>3 DEF RequestKept, Crash, AsksToSend, AsksToDelete, NewRequest, TypeOK
  <2>2. ~RequestStep(r)
    BY <1>3 DEF RequestStep, NotPlaced, Placed, PostRequestFails, Place, PostRequest, StoreRequest
  <2>3. PICK t \in Tg : DeletionStep(r, t)
    BY <1>1, <2>1, <2>2, RequestMoves
  <2>4. CheckAsked(r, t)
    BY <1>1, <1>3, <2>3 DEF DeletionStep, DeleteAsked, FindAsked, UnmapAsked, EraseAsked, EraseAskedFails,
         AfterAsked, TypeOK
  <2>5. IsLeast(t, rtodo[r]) /\ RowsOf(d) = {}
    BY <1>1, <1>3, <2>4 DEF CheckAsked, AfterAsked, TypeOK
  <2>6. t \in about[d] /\ t \notin tg
    BY <1>3, <2>5 DEF SibInv, AboutInv, FoundAbout, OfRow, GoneInv, AskedGone, Gone
  <2>7. Found(d)
    BY <1>3 DEF Found
  <2> QED  BY <1>1, <2>5, <2>6, <2>7, NothingLeft
<1> QED  BY <1>2, <1>3 DEF Decides

\* The bot decides to delete a Discord message only when none of its Telegram messages
\* is left, whichever tasks delete them at a time.
THEOREM SiblingsKept == Spec => LastSibling
<1>1. ASSUME IInv, SibInv, [Next]_vars
      PROVE  [\A d \in discord \ torn :
                 Decides(d) /\ "telegram" \notin faults => about[d] \cap tg = {}]_vars
  BY <1>1, DecidesLast DEF Clean
<1> QED  BY <1>1, Invariance, SiblingInvariance, PTL DEF Spec, LastSibling

--------------------------------------------------------------------------------
(* When every task is done *)

\* A message that is sent, placed or stored: nobody has been told of it.
Young(t) ==
    \/ \E d \in Dc : spc[d] \in {"sending", "storing"} /\ t \in about[d]
    \/ \E r \in Request : rpc[r] \in {"place", "post", "store"} /\ t \in rids[r]

Told == {"done"} \cup Deleting
YoungUnknown ==
    \A t \in Tg : Young(t) => t \notin relayed /\ \A r \in Request : rpc[r] \in Told => t \notin rids[r]

TodoOf   == \A r \in Request : rpc[r] \in Deleting => rtodo[r] \subseteq rids[r]
OneStore ==
    \A r \in Request : \A q \in Request \ {r} :
        rpc[r] = "store" /\ rpc[q] = "store" => rfound[r] # rfound[q]

\* So nobody has deleted it, unless the message is torn.
SentThere == \A d \in Dc \ torn : spc[d] \in {"sending", "storing"} => about[d] \subseteq tg
PlacedThere ==
    \A r \in Request :
        /\ rpc[r] \in Placing => rids[r] \subseteq tg
        /\ rpc[r] = "store" => /\ about[rfound[r]] = rids[r]
                               /\ rfound[r] \notin torn => rids[r] \subseteq tg

YoungInv == YoungUnknown /\ TodoOf /\ OneStore /\ SentThere /\ PlacedThere

\* A message that is neither torn nor edited.
Alone(d) == d \notin torn /\ ~Recopied(d)

\* The task that deleted a mapped message has still to remove the row.
Unmaps(d, t) ==
    \/ upc \in {"recall", "siblings", "fetch", "erase", "unmap"} /\ Parent = t
    \/ \E r \in Request : rpc[r] \in {"find", "unmap"} /\ IsLeast(t, rtodo[r])
    \/ dpc[d] \in Removing
RowPending == \A d \in Dc : \A t \in RowsOf(d) \ tg : Alone(d) => Unmaps(d, t)

\* The task of a deletion has still to delete the Telegram messages, or there are none.
DcGone ==
    \A d \in Dc \ discord : d < nextDc /\ Alone(d) =>
        \/ d \in raw \/ dpc[d] \in {"lookup", "exec", "delete"}
        \/ ~ToStore(d) /\ about[d] \cap tg = {}

\* The task that deleted the last Telegram message has still to look at the siblings.
Looks(d) ==
    \/ upc \in {"recall", "siblings", "fetch", "erase"} /\ ufound = d
    \/ \E r \in Request : rpc[r] \in OfRow /\ rfound[r] = d
    \/ \E r \in Request : rpc[r] = "find" /\ \E t \in Tg :
          IsLeast(t, rtodo[r]) /\ map[t] = d /\ ~(upc = "unmap" /\ Parent = t)
LastPending ==
    \A d \in discord \ crossed :
        Alone(d) /\ ~ToStore(d) /\ about[d] # {} /\ about[d] \cap tg = {} => Looks(d)

\* The inductive invariant of the runs in which nothing fails.
QuietInv == faults = {} => YoungInv /\ RowPending /\ DcGone /\ LastPending

\* Nothing fails in this step.
LEMMA QuietStep ==
    ASSUME [Next]_vars, faults' = {}
    PROVE  /\ faults = {} /\ Clean /\ Clean' /\ ~Crash
           /\ \A t : ~RouteDropped(t) /\ ~PostFails(t) /\ ~EraseFails(t)
           /\ \A d : ~NotSent(d)
           /\ \A r : ~NotPlaced(r) /\ ~PostRequestFails(r) /\ \A t : ~EraseAskedFails(r, t)
<1>1. \A kind : ~Fault(kind)
  BY DEF Fault
<1> QED
  BY <1>1, OnlyGrow DEF Clean, Crash, RouteDropped, PostFails, EraseFails, NotSent, NotPlaced,
     PostRequestFails, EraseAskedFails

\* Where a message that is being sent got one from, and who stores for a request.
LEMMA SentFrom ==
    ASSUME TypeOK, DcKnown, AboutFresh, [Next]_vars, NEW d \in Dc,
           spc'[d] \in {"sending", "storing"}, NEW t \in about'[d]
    PROVE  \/ spc[d] \in {"sending", "storing"} /\ t \in about[d]
           \/ \E tgs \in SUBSET Tg : Send(d, tgs) /\ t \in tgs /\ nextTg <= t
<1>1. CASE about'[d] # about[d]
  <2>1. ASSUME NEW tgs \in SUBSET Tg, Send(d, tgs)
        PROVE  \/ spc[d] \in {"sending", "storing"} /\ t \in about[d]
               \/ Send(d, tgs) /\ t \in tgs /\ nextTg <= t
    <3>1. about'[d] = about[d] \cup tgs /\ spc[d] = "sending"
      BY <2>1 DEF Send, TypeOK
    <3> QED  BY <2>1, <3>1, NewTgsType DEF Send
  <2>2. CASE (\E u \in Tg : Post(u, d)) \/ \E r \in Request : PostRequest(r, d)
    <3>1. d = nextDc /\ spc' = spc /\ nextDc \in Nat
      BY <2>2, NativeBridgeAssumption DEF Post, PostRequest, PostCopy, NewDc, TypeOK, sender
    <3> QED  BY <3>1 DEF DcKnown
  <2> QED  BY <1>1, <2>1, <2>2, AboutMoves
<1>2. CASE about'[d] = about[d]
  <2>1. CASE SenderStep(d)
    <3>1. spc[d] \in {"sending", "storing"}
      BY <2>1 DEF SenderStep, NotSent, Sent, Send, StoreSent, RelaySent, TypeOK, sender
    <3> QED  BY <1>2, <3>1
  <2>2. ~WritesDc(d)
    BY <1>2, NativeBridgeAssumption DEF WritesDc, NewDc, AboutFresh, TypeOK
  <2>3. CASE Crash
    BY <2>3 DEF Crash, TypeOK
  <2> QED  BY <1>2, <2>1, <2>2, <2>3, SenderMoves
<1> QED  BY <1>1, <1>2

LEMMA StoreFrom ==
    ASSUME TypeOK, [Next]_vars, NEW r \in Request, rpc'[r] = "store"
    PROVE  /\ rids'[r] = rids[r]
           /\ \/ rpc[r] = "store" /\ rfound'[r] = rfound[r] /\ rtodo'[r] \subseteq rtodo[r]
              \/ \E d \in Dc : PostRequest(r, d)
<1>1. /\ rpc \in [Request -> {"none", "place", "post", "store", "delete", "find", "unmap",
                              "siblings", "erase", "done", "failed"}]
      /\ rtodo \in [Request -> SUBSET Tg] /\ rfound \in [Request -> Dc \cup {None}]
  BY DEF TypeOK
<1>2. CASE RequestKept(r)
  BY <1>2 DEF RequestKept
<1>3. ASSUME NEW u \in Tg, StoreRequest(r, u)
      PROVE  rids'[r] = rids[r] /\ rpc[r] = "store" /\ rfound'[r] = rfound[r] /\ rtodo'[r] \subseteq rtodo[r]
  <2>1. rids'[r] = rids[r] /\ rpc[r] = "store" /\ rtodo'[r] \subseteq rtodo[r] /\ rtodo'[r] # {}
    BY <1>1, <1>3 DEF StoreRequest
  <2> QED  BY <1>1, <1>3, <2>1 DEF StoreRequest
<1>4. ASSUME NEW d \in Dc, PostRequest(r, d)
      PROVE  rids'[r] = rids[r]
  BY <1>4 DEF PostRequest
<1>5. /\ ~NotPlaced(r) /\ ~Placed(r) /\ ~PostRequestFails(r) /\ ~Crash /\ ~AsksToSend(r)
      /\ \A tgs \in SUBSET Tg : ~Place(r, tgs) /\ ~AsksToDelete(r, tgs)
  BY <1>1 DEF NotPlaced, Placed, PostRequestFails, Place, Crash, AsksToSend, AsksToDelete
<1>6. \A u \in Tg : ~DeletionStep(r, u)
  BY <1>1 DEF DeletionStep, DeleteAsked, FindAsked, UnmapAsked, CheckAsked, EraseAsked,
        EraseAskedFails, AfterAsked
<1> QED  BY <1>2, <1>3, <1>4, <1>5, <1>6, RequestMoves DEF RequestStep

\* A message is young from the call on that sends it.
LEMMA YoungFrom ==
    ASSUME TypeOK, DcKnown, AboutFresh, RidsFresh, [Next]_vars, NEW t \in Tg, Young(t)'
    PROVE  Young(t) \/ (nextTg <= t /\ relayed' = relayed /\ rpc' = rpc
                        /\ \A r \in Request : rpc[r] \in Told => rids'[r] = rids[r])
<1> DEFINE New == nextTg <= t /\ relayed' = relayed /\ rpc' = rpc
                  /\ \A r \in Request : rpc[r] \in Told => rids'[r] = rids[r]
<1>1. ASSUME NEW d \in Dc, NEW tgs \in SUBSET Tg, Send(d, tgs), nextTg <= t
      PROVE  New
  BY <1>1 DEF Send, shared, server
<1>2. ASSUME NEW r \in Request, NEW tgs \in SUBSET Tg, Place(r, tgs), nextTg <= t
      PROVE  New
  <2>1. relayed' = relayed /\ rpc' = rpc /\ rpc[r] \notin Told /\ rids' = [rids EXCEPT ![r] = @ \cup tgs]
    BY <1>2 DEF Place, shared, Told, Deleting
  <2> QED  BY <1>2, <2>1 DEF TypeOK
<1>3. ASSUME NEW d \in Dc, spc'[d] \in {"sending", "storing"}, t \in about'[d]
      PROVE  Young(t) \/ New
  BY <1>1, <1>3, SentFrom DEF Young
<1>4. ASSUME NEW r \in Request, rpc'[r] \in Placing, t \in rids'[r]
      PROVE  Young(t) \/ New
  <2>1. CASE rpc[r] \in Placing /\ t \in rids[r]
    BY <2>1 DEF Young, Placing
  <2> QED  BY <1>2, <1>4, <2>1, PlacedFrom
<1>5. ASSUME NEW r \in Request, rpc'[r] = "store", t \in rids'[r]
      PROVE  Young(t)
  <2>1. rpc[r] \in {"post", "store"} /\ t \in rids[r]
    BY <1>5, StoreFrom DEF PostRequest
  <2> QED  BY <2>1 DEF Young
<1> QED  BY <1>3, <1>4, <1>5 DEF Young, Placing

\* A young message is of the message that is being sent or stored, and no user's.
LEMMA YoungOwner ==
    ASSUME SibInv, YoungInv, TypeOK, NEW t, Young(t)
    PROVE  /\ t \notin users /\ Bridged(t)
           /\ \A d \in Dc : t \in about[d] => ToStore(d) /\ spc[d] # "relay"
<1>1. ASSUME NEW c \in Dc, spc[c] # "none", t \in about[c]
      PROVE  t \notin users /\ \A d \in Dc : t \in about[d] => d = c
  <2>1. t \notin users
    BY <1>1 DEF SibInv, ApartInv, SentApart
  <2> QED  BY <1>1, <2>1 DEF SibInv, ApartInv, AboutApart
<1>2. ASSUME NEW r \in Request, rpc[r] \in Placing, t \in rids[r]
      PROVE  t \notin users /\ \A d \in Dc : t \notin about[d]
  BY <1>2 DEF SibInv, ApartInv, RidsApart
<1>3. ASSUME NEW r \in Request, rpc[r] = "store", t \in rids[r]
      PROVE  /\ t \notin users /\ rfound[r] \in Dc /\ t \in about[rfound[r]] /\ spc[rfound[r]] = "none"
             /\ \A d \in Dc : t \in about[d] => d = rfound[r]
  <2>1. /\ rfound[r] \in Dc /\ t \in about[rfound[r]] /\ spc[rfound[r]] = "none" /\ t \notin users
    BY <1>3 DEF TypeOK, YoungInv, PlacedThere, SibInv, AboutInv, StoreAbout
  <2> QED  BY <2>1 DEF SibInv, ApartInv, AboutApart
<1>4. CASE \E d \in Dc : spc[d] \in {"sending", "storing"} /\ t \in about[d]
  <2>1. PICK c \in Dc : spc[c] \in {"sending", "storing"} /\ t \in about[c]
    BY <1>4
  <2> QED  BY <1>1, <2>1 DEF ToStore, Bridged
<1>5. CASE \E r \in Request : rpc[r] \in Placing /\ t \in rids[r]
  BY <1>2, <1>5 DEF Bridged
<1>6. CASE \E r \in Request : rpc[r] = "store" /\ t \in rids[r]
  <2>1. PICK r \in Request : rpc[r] = "store" /\ t \in rids[r]
    BY <1>6
  <2> QED  BY <1>3, <2>1 DEF ToStore, Bridged
<1> QED  BY <1>4, <1>5, <1>6 DEF Young, Placing

\* Whoever deletes a young message tears it.
LEMMA YoungKept ==
    ASSUME IInv, RelInv, SibInv, YoungInv, [Next]_vars, NEW t \in tg, t \notin tg', Young(t)
    PROVE  \E d \in torn : t \in about[d]
<1>1. TypeOK /\ t \in Tg
  BY DEF IInv, TypeOK
<1>2. t \notin users /\ Bridged(t) /\ \A d \in Dc : t \in about[d] => ToStore(d)
  BY <1>1, YoungOwner
<1>3. ASSUME DeleteParent(t)
      PROVE  \E d \in torn : t \in about[d]
  <2>1. ufound \in Dc /\ t \in about[ufound] /\ Found(ufound)
    BY <1>1, <1>3 DEF DeleteParent, Deletes, TypeOK, SibInv, AboutInv, FoundAbout, OfParent, Parent, Found
  <2> QED  BY <1>2, <2>1 DEF IInv, FoundTorn
<1>4. ~EndCommand(t)
  <2>1. ASSUME EndCommand(t)
        PROVE  FALSE
    <3>1. updates # <<>> /\ Head(updates).id = t /\ Head(updates).kind = "command"
      BY <2>1 DEF EndCommand, Handled, RelInv, UpdateTask, OfCommand
    <3>2. 1 \in DOMAIN updates /\ Head(updates) = updates[1]
      BY <1>1, <3>1, HeadType
    <3> QED  BY <1>2, <3>1, <3>2 DEF RelInv, UpdatesBridged
  <2> QED  BY <2>1
<1>5. ASSUME NEW d \in Dc, DeleteSent(d, t)
      PROVE  d \in torn /\ t \in about[d]
  <2>1. dpc[d] \in Removing /\ t \in about[d]
    BY <1>5 DEF DeleteSent, IsGreatest, SibInv, AboutInv, FoundAbout, Removing
  <2> QED  BY <1>2, <2>1 DEF SibInv, GoneInv, RemoverTorn
<1>6. ASSUME NEW r \in Request, DeleteAsked(r, t)
      PROVE  FALSE
  <2>1. rpc[r] \in Told /\ t \in rids[r]
    BY <1>6 DEF DeleteAsked, IsLeast, YoungInv, TodoOf, Told, Deleting
  <2> QED  BY <1>1, <2>1 DEF YoungInv, YoungUnknown
<1> QED  BY <1>3, <1>4, <1>5, <1>6, TgMoves

LEMMA RelayedMoves ==
    ASSUME [Next]_vars, NEW t \in relayed', t \notin relayed
    PROVE  Relay(t) \/ \E d \in Dc : RelaySent(d, t)
<1> USE DEF telegram, channel, shared, updater, sender, remover, server, seen
<1>1. CASE External
  BY <1>1 DEF External, Writes, Edits, Commands, WritesDc, DeletesDc, AsksToSend, AsksToDelete
<1>2. ASSUME NEW u \in Tg, RouteStep(u)
      PROVE  Relay(t)
  BY <1>2 DEF RouteStep, RouteDropped, PostFails, Store, Relay, Post
<1>3. ASSUME NEW u \in Tg, CommandStep(u)
      PROVE  FALSE
  BY <1>3 DEF CommandStep, FindParent, DeleteParent, DeleteParentFails, RecallParent,
     CheckSiblings, Fetch, Erase, EraseFails, Unmap, EndCommand
<1>4. ASSUME NEW c \in Dc, SenderStep(c)
      PROVE  RelaySent(c, t)
  <2>1. ASSUME NEW u \in Tg, RelaySent(c, u)
        PROVE  t = u
    BY <2>1 DEF RelaySent
  <2>2. CASE ~\E u \in Tg : RelaySent(c, u)
    BY <1>4, <2>2 DEF SenderStep, NotSent, Sent, StoreSent, Send
  <2> QED  BY <2>1, <2>2
<1>5. ASSUME NEW c \in Dc, RemoverStep(c)
      PROVE  FALSE
  BY <1>5 DEF RemoverStep, OnRawDelete, LookupDeleted, ExecuteDelete, DeleteSent, RecallSent, DeleteRows
<1>6. ASSUME NEW r \in Request, RequestStep(r) \/ \E u \in Tg : DeletionStep(r, u)
      PROVE  FALSE
  BY <1>6 DEF RequestStep, NotPlaced, Placed, PostRequestFails, Place, PostRequest, StoreRequest,
     DeletionStep, DeleteAsked, FindAsked, UnmapAsked, CheckAsked, EraseAsked, EraseAskedFails
<1>7. CASE Crash \/ UNCHANGED vars
  BY <1>7 DEF Crash, vars
<1> QED  BY <1>1, <1>2, <1>3, <1>4, <1>5, <1>6, <1>7 DEF Next

LEMMA StepYoungUnknown ==
    ASSUME IInv, RelInv, SibInv, YoungInv, [Next]_vars, faults' = {}
    PROVE  YoungUnknown'
<1>1. TypeOK /\ DcKnown /\ TgKnown /\ AboutFresh /\ RidsFresh /\ YoungUnknown
  BY DEF IInv, RelInv, SibInv, ApartInv, YoungInv
<1>2. ASSUME NEW t \in Tg, Young(t)', ~Young(t)
      PROVE  t \notin relayed' /\ \A r \in Request : rpc'[r] \in Told => t \notin rids'[r]
  <2>1. /\ nextTg <= t /\ relayed' = relayed /\ rpc' = rpc
        /\ \A r \in Request : rpc[r] \in Told => rids'[r] = rids[r]
    BY <1>1, <1>2, YoungFrom
  <2>2. nextTg \in Nat /\ t \in Nat
    BY <1>1 DEF TypeOK, Tg
  <2>3. t \notin relayed /\ \A r \in Request : t \notin rids[r]
    BY <1>1, <2>1, <2>2 DEF TgKnown, Before
  <2> QED  BY <2>1, <2>3
<1>3. ASSUME NEW t \in Tg, Young(t)
      PROVE  t \notin relayed'
  <2>1. t \notin relayed /\ t \notin users /\ \A d \in Dc : t \in about[d] => spc[d] # "relay"
    BY <1>1, <1>3, YoungOwner DEF YoungUnknown
  <2>2. ASSUME Relay(t)
        PROVE  FALSE
    <3>1. updates # <<>> /\ Head(updates).id = t /\ Head(updates).kind # "command"
      BY <2>2 DEF Relay, Handled, RelInv, UpdateTask
    <3>2. 1 \in DOMAIN updates /\ Head(updates) = updates[1]
      BY <1>1, <3>1, HeadType
    <3> QED  BY <2>1, <3>1, <3>2 DEF RelInv, UpdatesBridged
  <2>3. ASSUME NEW d \in Dc, RelaySent(d, t)
        PROVE  FALSE
    BY <2>1, <2>3 DEF RelaySent, IsLeast
  <2> QED  BY <2>1, <2>2, <2>3, RelayedMoves
<1>4. ASSUME NEW t \in Tg, Young(t), Young(t)', NEW r \in Request, rpc'[r] \in Told
      PROVE  t \notin rids'[r]
  <2>1. t \notin relayed /\ \A q \in Request : rpc[q] \in Told => t \notin rids[q]
    BY <1>1, <1>4 DEF YoungUnknown
  <2>2. CASE RequestKept(r)
    BY <1>4, <2>1, <2>2 DEF RequestKept
  <2>3. ASSUME NEW tgs \in SUBSET Tg, AsksToDelete(r, tgs)
        PROVE  t \notin rids'[r]
    <3>1. rids'[r] = tgs /\ tgs \subseteq Known
      BY <1>1, <2>3 DEF AsksToDelete, TypeOK
    <3> QED  BY <2>1, <3>1 DEF Known, Told
  <2>4. ASSUME NEW u \in Tg, DeletionStep(r, u)
        PROVE  t \notin rids'[r]
    <3>1. rids' = rids /\ rpc[r] \in Deleting
      BY <2>4 DEF DeletionStep, DeleteAsked, FindAsked, UnmapAsked, CheckAsked, EraseAsked,
         EraseAskedFails, Deleting
    <3> QED  BY <2>1, <3>1 DEF Told
  <2>5. ASSUME NEW u \in Tg, StoreRequest(r, u), t \in rids[r]
        PROVE  FALSE
    <3>1. rpc[r] = "store" /\ spc' = spc /\ about' = about /\ rids' = rids /\ rpc'[r] = "done"
      BY <1>1, <1>4, <2>5 DEF StoreRequest, TypeOK, sender, channel, Told, Deleting
    <3>2. \A q \in Request \ {r} : rpc'[q] = rpc[q]
      BY <1>1, <2>5 DEF StoreRequest, TypeOK
    <3>3. /\ rfound[r] \in Dc /\ t \in about[rfound[r]] /\ spc[rfound[r]] = "none" /\ t \notin users
      BY <1>1, <2>5, <3>1 DEF TypeOK, YoungInv, PlacedThere, SibInv, AboutInv, StoreAbout
    <3>4. \A d \in Dc : t \in about[d] => d = rfound[r]
      BY <3>3 DEF SibInv, ApartInv, AboutApart
    <3>5. ASSUME NEW q \in Request \ {r}, rpc[q] = "store", t \in rids[q]
          PROVE  FALSE
      <4>1. rfound[q] \in Dc /\ about[rfound[q]] = rids[q] /\ rfound[q] # rfound[r]
        BY <1>1, <3>1, <3>5 DEF TypeOK, YoungInv, PlacedThere, OneStore
      <4> QED  BY <3>4, <3>5, <4>1
    <3>6. ASSUME NEW q \in Request, rpc[q] \in Placing, t \in rids[q]
          PROVE  FALSE
      BY <3>3, <3>6 DEF SibInv, ApartInv, RidsApart
    <3>7. \A d \in Dc : ~(spc'[d] \in {"sending", "storing"} /\ t \in about'[d])
      BY <3>1, <3>3, <3>4
    <3>8. \A q \in Request : ~(rpc'[q] \in {"place", "post", "store"} /\ t \in rids'[q])
      BY <3>1, <3>2, <3>5, <3>6 DEF Placing
    <3> QED  BY <1>4, <3>7, <3>8 DEF Young
  <2>6. CASE RequestStep(r)
    <3>1. ~NotPlaced(r) /\ ~PostRequestFails(r)
      BY QuietStep
    <3>2. ~Placed(r) /\ (\A tgs \in SUBSET Tg : ~Place(r, tgs)) /\ (\A d \in Dc : ~PostRequest(r, d))
      BY <1>1, <1>4 DEF Placed, Place, PostRequest, Told, Deleting, TypeOK
    <3>3. PICK u \in Tg : StoreRequest(r, u)
      BY <2>6, <3>1, <3>2 DEF RequestStep
    <3> QED  BY <2>5, <3>3 DEF StoreRequest
  <2>7. ~AsksToSend(r) /\ ~Crash
    BY <1>1, <1>4, QuietStep DEF AsksToSend, TypeOK, Told, Deleting
  <2> QED  BY <1>1, <2>2, <2>3, <2>4, <2>6, <2>7, RequestMoves
<1> QED  BY <1>2, <1>3, <1>4 DEF YoungUnknown

LEMMA StepTodoOf ==
    ASSUME TypeOK, TodoOf, [Next]_vars
    PROVE  TodoOf'
<1>1. SUFFICES ASSUME NEW r \in Request, rpc'[r] \in Deleting
               PROVE  rtodo'[r] \subseteq rids'[r]
  BY DEF TodoOf
<1>2. CASE RequestKept(r)
  BY <1>1, <1>2 DEF RequestKept, TodoOf
<1>3. ASSUME NEW tgs \in SUBSET Tg, AsksToDelete(r, tgs)
      PROVE  rtodo'[r] \subseteq rids'[r]
  BY <1>3 DEF AsksToDelete, TypeOK
<1>4. ASSUME NEW t \in Tg, DeletionStep(r, t)
      PROVE  rtodo'[r] \subseteq rids'[r]
  <2>1. rpc[r] \in Deleting /\ rids' = rids /\ rtodo'[r] \subseteq rtodo[r]
    BY <1>4 DEF DeletionStep, DeleteAsked, FindAsked, UnmapAsked, CheckAsked, EraseAsked,
       EraseAskedFails, AfterAsked, TypeOK, Deleting
  <2> QED  BY <2>1 DEF TodoOf
<1>5. ~RequestStep(r) /\ ~AsksToSend(r) /\ ~Crash
  BY <1>1, RequestGoes DEF AsksToSend, Crash, TypeOK, Deleting, Early
<1> QED  BY <1>2, <1>3, <1>4, <1>5, RequestMoves

LEMMA StepOneStore ==
    ASSUME TypeOK, DcKnown, OneStore, [Next]_vars
    PROVE  OneStore'
<1>1. SUFFICES ASSUME NEW r \in Request, NEW q \in Request \ {r}, rpc'[r] = "store", rpc'[q] = "store"
               PROVE  rfound'[r] # rfound'[q]
  BY DEF OneStore
<1>2. ASSUME NEW a \in Request, NEW b \in Request \ {a}, NEW d \in Dc, PostRequest(a, d), rpc'[b] = "store"
      PROVE  rfound'[a] # rfound'[b]
  <2>1. rfound'[a] = nextDc /\ rfound'[b] = rfound[b] /\ nextDc \in Nat
    BY <1>2 DEF PostRequest, PostCopy, NewDc, TypeOK, Dc
  <2> QED  BY <2>1 DEF DcKnown
<1>3. CASE (\E d \in Dc : PostRequest(r, d)) \/ \E d \in Dc : PostRequest(q, d)
  BY <1>1, <1>2, <1>3
<1>4. CASE ~\E d \in Dc : PostRequest(r, d) \/ PostRequest(q, d)
  BY <1>1, <1>4, StoreFrom DEF OneStore
<1> QED  BY <1>3, <1>4

LEMMA StepSentThere ==
    ASSUME IInv, RelInv, SibInv, YoungInv, [Next]_vars
    PROVE  SentThere'
<1>1. TypeOK /\ DcKnown /\ AboutFresh
  BY DEF IInv, SibInv, ApartInv
<1>2. SUFFICES ASSUME NEW d \in Dc \ torn', spc'[d] \in {"sending", "storing"}, NEW t \in about'[d]
               PROVE  t \in tg'
  BY DEF SentThere
<1>3. ASSUME NEW tgs \in SUBSET Tg, Send(d, tgs), t \in tgs
      PROVE  t \in tg'
  BY <1>3 DEF Send, NewTgs
<1>4. CASE spc[d] \in {"sending", "storing"} /\ t \in about[d]
  <2>1. t \in tg /\ Young(t)
    BY <1>4, OnlyGrow DEF YoungInv, SentThere, Young
  <2>2. \A c \in Dc : t \in about[c] => c = d
    BY <1>4 DEF SibInv, ApartInv, AboutApart, SentApart
  <2>3. \A c \in torn : t \notin about[c]
    BY <1>1, <2>2, OnlyGrow DEF TypeOK
  <2> QED  BY <2>1, <2>3, YoungKept
<1> QED  BY <1>1, <1>2, <1>3, <1>4, SentFrom

LEMMA StepPlacedThere ==
    ASSUME IInv, RelInv, SibInv, YoungInv, [Next]_vars
    PROVE  PlacedThere'
<1>1. TypeOK /\ DcKnown /\ TgKnown /\ AboutFresh /\ RidsFresh /\ PlacedThere
  BY DEF IInv, RelInv, SibInv, ApartInv, YoungInv
<1>2. ASSUME NEW r \in Request, rpc'[r] \in Placing, NEW t \in rids'[r]
      PROVE  t \in tg'
  <2>1. ASSUME NEW tgs \in SUBSET Tg, Place(r, tgs), nextTg <= t
        PROVE  t \in tg'
    <3>1. rids'[r] = rids[r] \cup tgs /\ tgs \subseteq tg' /\ nextTg \in Nat /\ rids[r] \subseteq Nat
      BY <1>1, <2>1 DEF Place, NewTgs, TypeOK, Tg
    <3> QED  BY <1>1, <1>2, <2>1, <3>1 DEF TgKnown, Before
  <2>2. CASE rpc[r] \in Placing /\ t \in rids[r]
    <3>1. t \in tg /\ Young(t)
      BY <1>1, <2>2 DEF PlacedThere, Young, Placing
    <3>2. \A c \in torn : t \notin about[c]
      BY <1>1, <2>2 DEF TypeOK, SibInv, ApartInv, RidsApart
    <3> QED  BY <3>1, <3>2, YoungKept
  <2> QED  BY <1>1, <1>2, <2>1, <2>2, PlacedFrom
<1>3. ASSUME NEW r \in Request, rpc'[r] = "store"
      PROVE  about'[rfound'[r]] = rids'[r] /\ (rfound'[r] \notin torn' => rids'[r] \subseteq tg')
  <2>1. rids'[r] = rids[r]
    BY <1>1, <1>3, StoreFrom
  <2>2. ASSUME NEW d \in Dc, PostRequest(r, d)
        PROVE  about'[rfound'[r]] = rids'[r] /\ rids'[r] \subseteq tg'
    <3>1. rfound'[r] = d /\ about'[d] = rids[r] /\ tg' = tg /\ rids[r] \subseteq tg
      BY <1>1, <2>2 DEF PostRequest, PostCopy, TypeOK, telegram, PlacedThere, Placing
    <3> QED  BY <2>1, <3>1
  <2>3. CASE rpc[r] = "store" /\ rfound'[r] = rfound[r]
    <3>1. rfound[r] \in Dc /\ rfound[r] < nextDc /\ spc[rfound[r]] = "none"
      BY <1>1, <2>3 DEF TypeOK, DcKnown, SibInv, AboutInv, StoreAbout
    <3>2. about'[rfound[r]] = about[rfound[r]] /\ about[rfound[r]] = rids[r]
      BY <1>1, <2>3, <3>1, Settled DEF PlacedThere
    <3>3. ASSUME rfound[r] \notin torn', NEW t \in rids[r]
          PROVE  t \in tg'
      <4>1. t \in tg /\ Young(t) /\ rfound[r] \notin torn
        BY <1>1, <2>3, <3>3, OnlyGrow DEF PlacedThere, Young
      <4>2. t \notin users /\ \A c \in Dc : t \in about[c] => c = rfound[r]
        BY <2>3, <3>1, <3>2, <3>3 DEF SibInv, ApartInv, AboutApart, AboutInv, StoreAbout
      <4>3. \A c \in torn : t \notin about[c]
        BY <1>1, <4>1, <4>2 DEF TypeOK
      <4> QED  BY <4>1, <4>3, YoungKept
    <3> QED  BY <2>1, <2>3, <3>2, <3>3
  <2> QED  BY <1>1, <1>3, <2>2, <2>3, StoreFrom
<1> QED  BY <1>2, <1>3 DEF PlacedThere

LEMMA StepYoung ==
    ASSUME IInv, RelInv, SibInv, YoungInv, [Next]_vars, faults' = {}
    PROVE  YoungInv'
<1>1. TypeOK /\ DcKnown /\ TodoOf /\ OneStore
  BY DEF IInv, YoungInv
<1> QED
  BY <1>1, StepYoungUnknown, StepTodoOf, StepOneStore, StepSentThere, StepPlacedThere DEF YoungInv

--------------------------------------------------------------------------------
(* The rows of deleted messages *)

\* What is neither torn nor edited was not before.
LEMMA AloneBefore ==
    ASSUME TypeOK, AboutFresh, [Next]_vars, NEW d \in Dc, Alone(d)'
    PROVE  Alone(d)
<1>1. d \notin torn' /\ d \notin torn
  BY OnlyGrow DEF Alone
<1>2. \A n \in Dc : about[n] \subseteq about'[n]
  BY AboutGrows
<1> QED  BY <1>1, <1>2 DEF Alone, Recopied

\* All of it is mapped to it.
LEMMA AloneMapped ==
    ASSUME SibInv, Clean, NEW d \in Dc, Alone(d), ~ToStore(d)
    PROVE  Mapped(d)
BY DEF SibInv, GoneInv, Whole, Alone, Recopy

\* A Telegram message of one is of no other.
LEMMA AloneOwner ==
    ASSUME NEW d \in Dc, Alone(d), NEW t \in about[d], NEW c \in Dc, t \in about[c]
    PROVE  c = d
BY DEF Alone, Recopied

\* The task that has still to remove a row goes on, until it has.
LEMMA UnmapsOn ==
    ASSUME TypeOK, RawOnce, [Next]_vars, faults' = {}, NEW d \in Dc, NEW t \in Tg,
           map[t] = d, map'[t] = d, Unmaps(d, t)
    PROVE  Unmaps(d, t)'
<1>1. CASE upc \in {"recall", "siblings", "fetch", "erase", "unmap"} /\ Parent = t
  <2>1. CASE upc' = upc /\ (upc # "next" => CommandGoes)
    BY <1>1, <2>1 DEF Unmaps, Parent, CommandGoes
  <2>2. ASSUME NEW u \in Tg, CommandStep(u)
        PROVE  Unmaps(d, t)'
    <3>1. ~FindParent(u) /\ ~DeleteParent(u) /\ ~DeleteParentFails(u) /\ ~EraseFails(u) /\ ~EndCommand(u)
      BY <1>1, QuietStep DEF FindParent, DeleteParent, DeleteParentFails, EndCommand
    <3>2. ~Unmap(u)
      BY <1>1 DEF Unmap, Deletes, Parent, TypeOK, None, Dc
    <3>3. RecallParent(u) \/ CheckSiblings(u) \/ Fetch(u) \/ Erase(u)
      BY <2>2, <3>1, <3>2 DEF CommandStep
    <3>4. updates' = updates /\ upc' \in {"siblings", "fetch", "erase", "unmap"}
      BY <3>3 DEF RecallParent, CheckSiblings, Fetch, Erase, telegram
    <3> QED  BY <1>1, <3>4 DEF Unmaps, Parent
  <2>3. \A u \in Tg : ~RouteStep(u)
    BY <1>1 DEF RouteStep, RouteDropped, PostFails, Store, Relay, Post
  <2> QED  BY <2>1, <2>2, <2>3, QuietStep, UpdateMoves
<1>2. ASSUME NEW r \in Request, rpc[r] \in {"find", "unmap"}, IsLeast(t, rtodo[r])
      PROVE  Unmaps(d, t)'
  <2>1. CASE RequestKept(r)
    BY <1>2, <2>1 DEF RequestKept, Unmaps, IsLeast
  <2>2. ASSUME NEW u \in Tg, DeletionStep(r, u)
        PROVE  Unmaps(d, t)'
    <3>1. u = t
      <4>1. IsLeast(u, rtodo[r]) /\ rtodo[r] \in SUBSET Tg
        BY <2>2 DEF DeletionStep, DeleteAsked, FindAsked, UnmapAsked, CheckAsked, EraseAsked,
           EraseAskedFails, TypeOK
      <4> QED  BY <1>2, <4>1, LeastOne
    <3>2. ~DeleteAsked(r, u) /\ ~CheckAsked(r, u) /\ ~EraseAsked(r, u) /\ ~EraseAskedFails(r, u)
      BY <1>2, QuietStep DEF DeleteAsked, CheckAsked, EraseAsked
    <3>3. ~UnmapAsked(r, u)
      BY <3>1 DEF UnmapAsked, TypeOK, None, Dc
    <3>4. FindAsked(r, t) /\ map[t] # None
      BY <2>2, <3>1, <3>2, <3>3 DEF DeletionStep, None, Dc
    <3>5. rpc'[r] = "unmap" /\ rtodo'[r] = rtodo[r]
      BY <3>4 DEF FindAsked, TypeOK
    <3> QED  BY <1>2, <3>5 DEF Unmaps, IsLeast
  <2>3. ~RequestStep(r) /\ ~AsksToSend(r) /\ ~\E tgs \in SUBSET Tg : AsksToDelete(r, tgs)
    BY <1>2 DEF RequestStep, NotPlaced, Placed, Place, PostRequest, PostRequestFails, StoreRequest,
       AsksToSend, AsksToDelete, NewRequest
  <2> QED  BY <2>1, <2>2, <2>3, QuietStep, RequestMoves
<1>3. CASE dpc[d] \in Removing
  <2>1. CASE dpc'[d] = dpc[d]
    BY <1>3, <2>1 DEF Unmaps, Removing
  <2>2. CASE RemoverStep(d)
    <3>1. ~OnRawDelete(d) /\ ~LookupDeleted(d) /\ ~ExecuteDelete(d)
      BY <1>3 DEF OnRawDelete, LookupDeleted, ExecuteDelete, RawOnce, Removing
    <3>2. ~DeleteRows(d)
      BY DEF DeleteRows, None, Dc
    <3>3. dpc'[d] \in Removing
      BY <1>3, <2>2, <3>1, <3>2 DEF RemoverStep, DeleteSent, RecallSent, Removing, TypeOK
    <3> QED  BY <3>3 DEF Unmaps, Removing
  <2> QED  BY <2>1, <2>2, QuietStep, RemoverMoves
<1> QED  BY <1>1, <1>2, <1>3 DEF Unmaps

\* A new row is of a message that is there, unless it is torn.
LEMMA StoredThere ==
    ASSUME IInv, RelInv, SibInv, YoungInv, [Next]_vars, NEW d \in Dc \ torn', NEW t \in Tg,
           map[t] # d, map'[t] = d
    PROVE  t \in tg'
<1>1. TypeOK /\ d \notin torn
  BY OnlyGrow DEF IInv
<1>2. ASSUME Store(t)
      PROVE  t \in tg'
  BY <1>1, <1>2 DEF Store, TypeOK, telegram
<1>3. ASSUME NEW c \in Dc, StoreSent(c, t)
      PROVE  t \in tg'
  <2>1. c = d /\ spc[d] = "storing" /\ t \in rest[d] /\ tg' = tg
    BY <1>1, <1>3 DEF StoreSent, IsLeast, TypeOK, telegram
  <2> QED  BY <1>1, <2>1 DEF SibInv, AboutInv, RestAbout, YoungInv, SentThere
<1>4. ASSUME NEW r \in Request, StoreRequest(r, t)
      PROVE  t \in tg'
  <2>1. rfound[r] = d /\ rpc[r] = "store" /\ t \in rtodo[r] /\ tg' = tg
    BY <1>1, <1>4 DEF StoreRequest, IsLeast, TypeOK, telegram
  <2> QED  BY <1>1, <2>1 DEF SibInv, AboutInv, StoreAbout, YoungInv, PlacedThere
<1>5. d # None
  BY DEF None, Dc
<1> QED  BY <1>1, <1>2, <1>3, <1>4, <1>5, MapMoves

LEMMA StepRowPending ==
    ASSUME IInv, RelInv, SibInv, YoungInv, RowPending, [Next]_vars, faults' = {}
    PROVE  RowPending'
<1>1. TypeOK /\ AboutFresh /\ RawOnce
  BY DEF IInv, SibInv, ApartInv, RelInv
<1>2. SUFFICES ASSUME NEW d \in Dc, NEW t \in Tg, map'[t] = d, t \notin tg', Alone(d)'
               PROVE  Unmaps(d, t)'
  BY DEF RowPending, RowsOf
<1>3. Alone(d)
  BY <1>1, <1>2, AloneBefore
<1>4. map[t] = d
  BY <1>2, StoredThere DEF Alone
<1>5. CASE t \notin tg
  <2>1. Unmaps(d, t)
    BY <1>3, <1>4, <1>5 DEF RowPending, RowsOf
  <2> QED  BY <1>1, <1>2, <1>4, <2>1, UnmapsOn
<1>6. CASE t \in tg
  <2>1. t \in about[d]
    BY <1>4 DEF SibInv, AboutInv, MapSound, None, Dc
  <2>2. ASSUME DeleteParent(t)
        PROVE  Unmaps(d, t)'
    <3>1. upc' = "recall" /\ Parent' = t
      BY <2>2 DEF DeleteParent, Deletes, Parent
    <3> QED  BY <3>1 DEF Unmaps
  <2>3. ~EndCommand(t)
    <3>1. ASSUME EndCommand(t)
          PROVE  FALSE
      <4>1. updates # <<>> /\ Head(updates).id = t /\ Head(updates).kind = "command"
        BY <3>1 DEF EndCommand, Handled, RelInv, UpdateTask, OfCommand
      <4>2. 1 \in DOMAIN updates /\ Head(updates) = updates[1]
        BY <1>1, <4>1, HeadType
      <4> QED  BY <2>1, <4>1, <4>2 DEF RelInv, UpdatesBridged, Bridged
    <3> QED  BY <3>1
  <2>4. ASSUME NEW c \in Dc, DeleteSent(c, t)
        PROVE  Unmaps(d, t)'
    <3>1. t \in about[c] /\ dpc'[c] \in Removing
      BY <1>1, <2>4 DEF DeleteSent, IsGreatest, SibInv, AboutInv, FoundAbout, Removing, TypeOK
    <3>2. c = d
      BY <1>3, <2>1, <3>1, AloneOwner
    <3> QED  BY <3>1, <3>2 DEF Unmaps, Removing
  <2>5. ASSUME NEW r \in Request, DeleteAsked(r, t)
        PROVE  Unmaps(d, t)'
    <3>1. rpc'[r] = "find" /\ IsLeast(t, rtodo'[r])
      BY <1>1, <2>5 DEF DeleteAsked, IsLeast, TypeOK
    <3> QED  BY <3>1 DEF Unmaps, IsLeast
  <2> QED  BY <1>2, <1>6, <2>2, <2>3, <2>4, <2>5, TgMoves
<1> QED  BY <1>5, <1>6

--------------------------------------------------------------------------------
(* The deletions in Discord *)

\* What is neither torn nor edited, stored, and has no row of a message left, has none left.
LEMMA NoneLeft ==
    ASSUME TypeOK, SibInv, Clean, NEW d \in Dc, Alone(d), ~ToStore(d), RowsOf(d) \cap tg = {}
    PROVE  about[d] \cap tg = {}
<1>1. Mapped(d) /\ about[d] \subseteq Tg
  BY AloneMapped DEF TypeOK
<1> QED  BY <1>1 DEF Mapped, RowsOf

\* What is stored stays so, with what it is about; nothing of it comes back.
LEMMA StaysGone ==
    ASSUME IInv, SibInv, [Next]_vars, NEW d \in Dc, d < nextDc, ~ToStore(d)
    PROVE  ~ToStore(d)' /\ about'[d] = about[d] /\ about[d] \cap tg' \subseteq about[d] \cap tg
<1>1. TypeOK /\ DcKnown /\ TgKnown /\ AboutFresh /\ FoundTorn
  BY DEF IInv, SibInv, ApartInv
<1>2. nextDc \in Nat /\ d \in Nat
  BY <1>1 DEF TypeOK, Dc
<1>3. ~ToStore(d)'
  BY <1>1, <1>2, StepFound DEF FoundStep
<1>4. about'[d] = about[d]
  BY <1>1, AboutGrows DEF ToStore
<1>5. \A t \in about[d] : t \in tg' => t \in tg
  BY <1>1, StillThere
<1> QED  BY <1>3, <1>4, <1>5

\* A new message is there.
LEMMA NewThere ==
    ASSUME TypeOK, [Next]_vars, nextDc' # nextDc
    PROVE  nextDc \in discord'
<1> USE DEF telegram, channel, shared, updater, sender, remover, server, seen
<1>1. CASE \E d \in Dc : NewDc(d)
  BY <1>1 DEF NewDc
<1>2. CASE ~\E d \in Dc : NewDc(d)
  <2>1. ~External
    BY <1>2 DEF External, Writes, Edits, Commands, WritesDc, DeletesDc, AsksToSend, AsksToDelete
  <2>2. \A t \in Tg : ~RouteStep(t)
    BY <1>2 DEF RouteStep, RouteDropped, PostFails, Store, Relay, Post, PostCopy
  <2>3. \A t \in Tg : ~CommandStep(t)
    BY DEF CommandStep, FindParent, DeleteParent, DeleteParentFails, RecallParent, CheckSiblings,
       Fetch, Erase, EraseFails, Unmap, EndCommand
  <2>4. \A d \in Dc : ~SenderStep(d)
    BY DEF SenderStep, NotSent, Sent, Send, StoreSent, RelaySent
  <2>5. \A d \in Dc : ~RemoverStep(d)
    BY DEF RemoverStep, OnRawDelete, LookupDeleted, ExecuteDelete, DeleteSent, RecallSent, DeleteRows
  <2>6. \A r \in Request : ~RequestStep(r)
    BY <1>2 DEF RequestStep, NotPlaced, Placed, PostRequestFails, Place, PostRequest, StoreRequest, PostCopy
  <2>7. \A r \in Request : \A t \in Tg : ~DeletionStep(r, t)
    BY DEF DeletionStep, DeleteAsked, FindAsked, UnmapAsked, CheckAsked, EraseAsked, EraseAskedFails
  <2>8. ~Crash /\ ~UNCHANGED vars
    BY DEF Crash, vars
  <2> QED  BY <2>1, <2>2, <2>3, <2>4, <2>5, <2>6, <2>7, <2>8 DEF Next
<1> QED  BY <1>1, <1>2

\* The task of a deletion has the mapped messages, when it has not found any it is done.
LEMMA RemoverOn ==
    ASSUME IInv, RelInv, SibInv, [Next]_vars, faults' = {}, NEW d \in Dc, Alone(d), Alone(d)',
           dpc[d] \in {"lookup", "exec", "delete"}
    PROVE  \/ dpc'[d] \in {"lookup", "exec", "delete"}
           \/ ~ToStore(d)' /\ about'[d] \cap tg' = {}
<1>1. TypeOK /\ RawOnce /\ Clean /\ Clean' /\ SibInv'
  BY StepSib, QuietStep DEF IInv, RelInv
<1>2. d < nextDc
  <2>1. nextDc \in Nat /\ d \in Nat
    BY <1>1 DEF TypeOK, Dc
  <2> QED  BY <1>1, <2>1 DEF RawOnce
<1>3. ASSUME RowsOf(d) = {}, ~ToStore(d)
      PROVE  ~ToStore(d)' /\ about'[d] \cap tg' = {}
  <2>1. about[d] \cap tg = {}
    BY <1>1, <1>3, NoneLeft
  <2> QED  BY <1>2, <1>3, <2>1, StaysGone
<1>4. CASE LookupDeleted(d) \/ ExecuteDelete(d)
  <2>1. dpc'[d] \in {"exec", "delete"} \/ RowsOf(d) = {}
    BY <1>1, <1>4 DEF LookupDeleted, ExecuteDelete, TypeOK
  <2>2. ~ToStore(d)
    BY <1>4 DEF LookupDeleted, ExecuteDelete, Tear, Alone
  <2> QED  BY <1>3, <2>1, <2>2
<1>5. ASSUME NEW t \in Tg, DeleteSent(d, t), dpc'[d] # "delete"
      PROVE  ~ToStore(d)' /\ about'[d] \cap tg' = {}
  <2>1. dpc'[d] = "recall"
    BY <1>1, <1>5 DEF DeleteSent, TypeOK
  <2>2. ~ToStore(d)'
    BY <1>1, <2>1 DEF SibInv, GoneInv, RemoverTorn, Removing, Alone
  <2>3. RowsOf(d)' \cap tg' = {}
    BY <1>1, <2>1 DEF SibInv, GoneInv, RemoverGone, Removing, Alone
  <2>4. Mapped(d)'
    BY <1>1, <2>2 DEF SibInv, GoneInv, Whole, Alone, Recopy
  <2>5. about'[d] \in SUBSET Tg
    BY <1>1, StepType DEF TypeOK
  <2> QED  BY <2>2, <2>3, <2>4, <2>5 DEF Mapped, RowsOf
<1>6. CASE RemoverStep(d)
  <2>1. ~OnRawDelete(d) /\ ~RecallSent(d) /\ ~DeleteRows(d)
    BY <1>1 DEF OnRawDelete, RecallSent, DeleteRows, RawOnce
  <2> QED  BY <1>4, <1>5, <1>6, <2>1 DEF RemoverStep
<1> QED  BY <1>1, <1>6, QuietStep, RemoverMoves

LEMMA StepDcGone ==
    ASSUME IInv, RelInv, SibInv, DcGone, [Next]_vars, faults' = {}
    PROVE  DcGone'
<1>1. TypeOK /\ AboutFresh /\ RawOnce /\ Clean /\ ~Crash
  BY QuietStep DEF IInv, SibInv, ApartInv, RelInv
<1>2. SUFFICES ASSUME NEW d \in Dc, d \notin discord', d < nextDc', Alone(d)'
               PROVE  \/ d \in raw' \/ dpc'[d] \in {"lookup", "exec", "delete"}
                      \/ ~ToStore(d)' /\ about'[d] \cap tg' = {}
  BY DEF DcGone
<1>3. Alone(d)
  BY <1>1, <1>2, AloneBefore
<1>4. d < nextDc
  <2>1. nextDc \in Nat /\ d \in Nat /\ nextDc' \in {nextDc, nextDc + 1}
    BY <1>1, OnlyGrow DEF TypeOK, Dc
  <2>2. d # nextDc
    BY <1>1, <1>2, <2>1, NewThere
  <2> QED  BY <1>2, <2>1, <2>2
<1>5. CASE d \in discord
  BY <1>1, <1>2, <1>5, DcMoves DEF DcStep
<1>6. ASSUME ~ToStore(d), about[d] \cap tg = {}
      PROVE  ~ToStore(d)' /\ about'[d] \cap tg' = {}
  BY <1>4, <1>6, StaysGone
<1>7. CASE d \in raw
  <2>1. CASE OnRawDelete(d)
    <3>1. CASE d \in suppress
      <4>1. ~ToStore(d) /\ RowsOf(d) \cap tg = {}
        BY <1>3, <3>1 DEF IInv, FoundTorn, Found, SuppressedGone, Alone
      <4>2. about[d] \cap tg = {}
        BY <1>1, <1>3, <4>1, NoneLeft
      <4> QED  BY <1>6, <4>1, <4>2
    <3>2. CASE d \notin suppress
      BY <1>1, <2>1, <3>2 DEF OnRawDelete, TypeOK
    <3> QED  BY <3>1, <3>2
  <2> QED  BY <1>1, <1>7, <2>1, DcMoves DEF DcStep
<1>8. CASE dpc[d] \in {"lookup", "exec", "delete"}
  BY <1>2, <1>3, <1>8, RemoverOn
<1> QED  BY <1>3, <1>4, <1>5, <1>6, <1>7, <1>8 DEF DcGone

--------------------------------------------------------------------------------
(* The last Telegram message *)

\* What has just been stored is there.
LEMMA StoredLeft ==
    ASSUME IInv, RelInv, SibInv, YoungInv, [Next]_vars, faults' = {}, NEW d \in Dc, d \notin torn',
           ToStore(d), ~ToStore(d)', about'[d] # {}
    PROVE  about'[d] \cap tg' # {}
<1>1. TypeOK /\ DcKnown /\ d \notin torn
  BY OnlyGrow DEF IInv
<1>2. ASSUME tg' = tg, about' = about, about[d] \subseteq tg
      PROVE  about'[d] \cap tg' # {}
  BY <1>2
<1>3. CASE spc[d] \in {"sending", "storing"}
  <2>1. spc'[d] \notin {"sending", "storing"}
    BY DEF ToStore
  <2>2. ~NotSent(d) /\ ~Crash
    BY QuietStep
  <2>3. SenderStep(d)
    BY <1>1, <1>3, <2>1, <2>2, SenderMoves DEF WritesDc, TypeOK
  <2>4. tg' = tg /\ about' = about
    BY <1>1, <1>3, <2>1, <2>2, <2>3 DEF SenderStep, Sent, Send, StoreSent, RelaySent, TypeOK, telegram,
       channel, sender
  <2> QED  BY <1>1, <1>2, <1>3, <2>4 DEF YoungInv, SentThere
<1>4. CASE upc = "store" /\ ufound = d
  <2>1. ~(upc' = "store" /\ ufound' = d)
    BY DEF ToStore
  <2>2. \A t \in Tg : ~CommandStep(t)
    BY <1>4 DEF CommandStep, FindParent, DeleteParent, DeleteParentFails, RecallParent, CheckSiblings,
       Fetch, Erase, EraseFails, Unmap, EndCommand
  <2>3. PICK t \in Tg : RouteStep(t)
    BY <1>1, <1>4, <2>1, <2>2, QuietStep, UpdateMoves
  <2>4. Store(t)
    BY <1>4, <2>3, QuietStep DEF RouteStep, Relay, Post
  <2>5. tg' = tg /\ about' = about /\ t \in tg /\ about[d] = {t}
    BY <1>1, <1>4, <2>4 DEF Store, Handled, telegram, channel, SibInv, AboutInv, UpdateAbout
  <2> QED  BY <1>2, <2>5
<1>5. ASSUME NEW r \in Request, rpc[r] = "store", rfound[r] = d
      PROVE  about'[d] \cap tg' # {}
  <2>1. ~(rpc'[r] = "store" /\ rfound'[r] = d)
    BY DEF ToStore
  <2>2. ~RequestKept(r) /\ ~AsksToSend(r) /\ ~\E tgs \in SUBSET Tg : AsksToDelete(r, tgs)
    BY <1>5, <2>1 DEF RequestKept, AsksToSend, AsksToDelete, NewRequest
  <2>3. \A t \in Tg : ~DeletionStep(r, t)
    BY <1>5 DEF DeletionStep, DeleteAsked, FindAsked, UnmapAsked, CheckAsked, EraseAsked, EraseAskedFails
  <2>4. RequestStep(r)
    BY <1>1, <2>2, <2>3, QuietStep, RequestMoves
  <2>5. tg' = tg /\ about' = about
    BY <1>5, <2>4 DEF RequestStep, NotPlaced, Placed, Place, PostRequest, PostRequestFails, StoreRequest,
       telegram, channel
  <2>6. about[d] = rids[r] /\ rids[r] \subseteq tg
    BY <1>1, <1>5 DEF YoungInv, PlacedThere
  <2> QED  BY <1>2, <2>5, <2>6
<1> QED  BY <1>3, <1>4, <1>5 DEF ToStore

\* A message that appears is still to be stored.
LEMMA NewToStore ==
    ASSUME TypeOK, DcKnown, AboutFresh, [Next]_vars, NEW d \in Dc, d = nextDc, about'[d] # {}
    PROVE  ToStore(d)'
<1>1. nextDc \in Nat /\ about'[d] # about[d]
  BY DEF AboutFresh, TypeOK, Dc
<1>2. ASSUME NEW t \in Tg, Post(t, d)
      PROVE  ToStore(d)'
  BY <1>2 DEF Post, ToStore
<1>3. ASSUME NEW r \in Request, PostRequest(r, d)
      PROVE  ToStore(d)'
  <2>1. rpc'[r] = "store" /\ rfound'[r] = d
    BY <1>3 DEF PostRequest, TypeOK
  <2> QED  BY <2>1 DEF ToStore
<1>4. spc[d] = "none"
  BY <1>1 DEF DcKnown
<1>5. \A tgs \in SUBSET Tg : ~Send(d, tgs)
  BY <1>4 DEF Send
<1> QED  BY <1>1, <1>2, <1>3, <1>5, AboutMoves

\* The delete command that has deleted the last message looks at the siblings.
LEMMA CommandLooks ==
    ASSUME IInv, SibInv, [Next]_vars, faults' = {}, NEW d \in discord, d \in discord', d \notin crossed',
           about[d] \cap tg = {}, upc \in {"recall", "siblings", "fetch", "erase"}, ufound = d
    PROVE  upc' \in {"recall", "siblings", "fetch", "erase"} /\ ufound' = d
<1>1. TypeOK
  BY DEF IInv
<1>2. \A t \in Tg : ~RouteStep(t)
  BY DEF RouteStep, RouteDropped, PostFails, Store, Relay, Post
<1>3. ASSUME NEW t \in Tg, CommandStep(t)
      PROVE  upc' \in {"recall", "siblings", "fetch", "erase"} /\ ufound' = d
  <2>1. RecallParent(t) \/ CheckSiblings(t) \/ Fetch(t) \/ Erase(t)
    BY <1>3, QuietStep DEF CommandStep, FindParent, DeleteParent, DeleteParentFails, Unmap, EndCommand
  <2>2. CASE CheckSiblings(t)
    <3>1. RowsOf(d) \subseteq about[d] /\ d # None
      BY DEF RowsOf, SibInv, AboutInv, MapSound, TypeOK, IInv, None, Dc
    <3>2. RowsOf(d) \ {t} = {}
      BY <2>2, <3>1 DEF CheckSiblings, Cross
    <3> QED  BY <2>2, <3>2 DEF CheckSiblings
  <2>3. ~Erase(t)
    BY DEF Erase, Delete
  <2> QED  BY <2>1, <2>2, <2>3 DEF RecallParent, Fetch
<1> QED  BY <1>1, <1>2, <1>3, QuietStep, UpdateMoves

\* So does a client's deletion that has found the row.
LEMMA RequestLooks ==
    ASSUME IInv, SibInv, [Next]_vars, faults' = {}, NEW d \in discord, d \in discord', d \notin crossed',
           about[d] \cap tg = {}, NEW r \in Request, rpc[r] \in OfRow, rfound[r] = d
    PROVE  rpc'[r] \in OfRow /\ rfound'[r] = d
<1>1. TypeOK
  BY DEF IInv
<1>2. CASE RequestKept(r)
  BY <1>2 DEF RequestKept
<1>3. ASSUME NEW t \in Tg, DeletionStep(r, t)
      PROVE  rpc'[r] \in OfRow /\ rfound'[r] = d
  <2>1. UnmapAsked(r, t) \/ CheckAsked(r, t) \/ EraseAsked(r, t)
    BY <1>3, QuietStep DEF DeletionStep, DeleteAsked, FindAsked, OfRow
  <2>2. CASE UnmapAsked(r, t)
    BY <1>1, <2>2 DEF UnmapAsked, TypeOK, OfRow
  <2>3. CASE CheckAsked(r, t)
    <3>1. RowsOf(d) \subseteq about[d] /\ d # None
      BY DEF RowsOf, SibInv, AboutInv, MapSound, TypeOK, IInv, None, Dc
    <3>2. RowsOf(d) = {}
      BY <2>3, <3>1 DEF CheckAsked, Cross
    <3> QED  BY <1>1, <2>3, <3>2 DEF CheckAsked, TypeOK, OfRow
  <2>4. ~EraseAsked(r, t)
    BY DEF EraseAsked, Delete
  <2> QED  BY <2>1, <2>2, <2>3, <2>4
<1>4. ~RequestStep(r) /\ ~AsksToSend(r) /\ ~\E tgs \in SUBSET Tg : AsksToDelete(r, tgs)
  BY DEF RequestStep, NotPlaced, Placed, Place, PostRequest, PostRequestFails, StoreRequest,
     AsksToSend, AsksToDelete, NewRequest, OfRow
<1> QED  BY <1>1, <1>2, <1>3, <1>4, QuietStep, RequestMoves

\* The row that a client's deletion is about to find stays, or another task looks.
LEMMA FindLooks ==
    ASSUME IInv, RelInv, SibInv, [Next]_vars, faults' = {}, NEW d \in discord, d \in discord',
           d \notin crossed', Alone(d), ~ToStore(d), about[d] \cap tg = {},
           NEW r \in Request, rpc[r] = "find", NEW t \in Tg, IsLeast(t, rtodo[r]), map[t] = d,
           ~(upc = "unmap" /\ Parent = t)
    PROVE  Looks(d)'
<1>1. TypeOK /\ RawOnce /\ d \in Dc /\ d # None
  BY DEF IInv, RelInv, TypeOK, None, Dc
<1>2. t \in about[d]
  BY <1>1 DEF SibInv, AboutInv, MapSound
<1>3. ASSUME upc \in {"recall", "siblings", "fetch", "erase"}, ufound = d
      PROVE  Looks(d)'
  BY <1>3, CommandLooks DEF Looks
<1>4. ASSUME NEW q \in Request, rpc[q] \in OfRow, rfound[q] = d
      PROVE  Looks(d)'
  BY <1>4, RequestLooks DEF Looks
<1>5. CASE RequestKept(r)
  <2>1. rpc'[r] = "find" /\ IsLeast(t, rtodo'[r])
    BY <1>5 DEF RequestKept, IsLeast
  <2>2. CASE map'[t] # d
    <3>1. ~Store(t)
      <4>1. ASSUME Store(t)
            PROVE  FALSE
        <5>1. ufound \in Dc /\ t \in about[ufound] /\ upc = "store"
          BY <1>1, <4>1 DEF Store, Handled, TypeOK, SibInv, AboutInv, UpdateAbout
        <5> QED  BY <1>1, <1>2, <5>1, AloneOwner DEF ToStore
      <4> QED  BY <4>1
    <3>2. ASSUME NEW c \in Dc, StoreSent(c, t)
          PROVE  FALSE
      <4>1. spc[c] = "storing" /\ t \in about[c]
        BY <3>2 DEF StoreSent, IsLeast, SibInv, AboutInv, RestAbout
      <4> QED  BY <1>1, <1>2, <4>1, AloneOwner DEF ToStore
    <3>3. ASSUME NEW q \in Request, StoreRequest(q, t)
          PROVE  FALSE
      <4>1. rpc[q] = "store" /\ rfound[q] \in Dc /\ t \in about[rfound[q]]
        BY <1>1, <3>3 DEF StoreRequest, IsLeast, TypeOK, SibInv, AboutInv, StoreAbout
      <4> QED  BY <1>1, <1>2, <4>1, AloneOwner DEF ToStore
    <3>4. ~Unmap(t)
      BY DEF Unmap, Deletes, Parent
    <3>5. ~DeleteRows(d)
      BY <1>1 DEF DeleteRows, RawOnce
    <3>6. ASSUME NEW q \in Request, UnmapAsked(q, t)
          PROVE  Looks(d)'
      <4>1. rpc[q] \in OfRow /\ rfound[q] \in Dc /\ t \in about[rfound[q]]
        BY <1>1, <3>6 DEF UnmapAsked, TypeOK, OfRow, SibInv, AboutInv, FoundAbout
      <4> QED  BY <1>1, <1>2, <1>4, <4>1, AloneOwner
    <3> QED  BY <1>1, <2>2, <3>1, <3>2, <3>3, <3>4, <3>5, <3>6, MapMoves
  <2>3. CASE upc' = "unmap" /\ Parent' = t
    <3>1. ~(upc' = upc /\ (upc # "next" => CommandGoes))
      BY <2>3 DEF CommandGoes, Parent
    <3>2. \A u \in Tg : ~RouteStep(u)
      BY <2>3 DEF RouteStep, RouteDropped, PostFails, Store, Relay, Post, NextUpdate
    <3>3. PICK u \in Tg : CommandStep(u)
      BY <1>1, <3>1, <3>2, QuietStep, UpdateMoves
    <3>4. CheckSiblings(u) \/ Fetch(u) \/ Erase(u)
      BY <2>3, <3>3, QuietStep DEF CommandStep, FindParent, DeleteParent, DeleteParentFails, RecallParent,
         Unmap, EndCommand, NextUpdate
    <3>5. upc \in {"siblings", "fetch", "erase"} /\ Parent = t
      BY <2>3, <3>4 DEF CheckSiblings, Fetch, Erase, telegram, Parent
    <3>6. ufound \in Dc /\ t \in about[ufound]
      BY <1>1, <3>5 DEF TypeOK, SibInv, AboutInv, FoundAbout, OfParent
    <3>7. ufound = d
      BY <1>1, <1>2, <3>6, AloneOwner
    <3> QED  BY <1>3, <3>5, <3>7
  <2>4. CASE map'[t] = d /\ ~(upc' = "unmap" /\ Parent' = t)
    BY <2>1, <2>4 DEF Looks, IsLeast, Parent
  <2> QED  BY <2>2, <2>3, <2>4
<1>6. ASSUME NEW u \in Tg, DeletionStep(r, u)
      PROVE  Looks(d)'
  <2>1. FindAsked(r, u)
    BY <1>6, QuietStep DEF DeletionStep, DeleteAsked, UnmapAsked, CheckAsked, EraseAsked
  <2>2. IsLeast(u, rtodo[r]) /\ rtodo[r] \in SUBSET Tg
    BY <1>1, <2>1 DEF FindAsked, TypeOK
  <2>3. u = t
    BY <2>2, LeastOne
  <2>4. rpc'[r] = "unmap" /\ rfound'[r] = d
    BY <1>1, <2>1, <2>3 DEF FindAsked, TypeOK
  <2> QED  BY <2>4 DEF Looks, OfRow
<1>7. ~RequestStep(r) /\ ~AsksToSend(r) /\ ~\E tgs \in SUBSET Tg : AsksToDelete(r, tgs)
  BY DEF RequestStep, NotPlaced, Placed, Place, PostRequest, PostRequestFails, StoreRequest,
     AsksToSend, AsksToDelete, NewRequest
<1> QED  BY <1>1, <1>5, <1>6, <1>7, QuietStep, RequestMoves

LEMMA LooksOn ==
    ASSUME IInv, RelInv, SibInv, [Next]_vars, faults' = {}, NEW d \in discord, d \in discord',
           d \notin crossed', Alone(d), ~ToStore(d), about[d] \cap tg = {}, Looks(d)
    PROVE  Looks(d)'
<1>1. CASE upc \in {"recall", "siblings", "fetch", "erase"} /\ ufound = d
  BY <1>1, CommandLooks DEF Looks
<1>2. ASSUME NEW r \in Request, rpc[r] \in OfRow, rfound[r] = d
      PROVE  Looks(d)'
  BY <1>2, RequestLooks DEF Looks
<1>3. ASSUME NEW r \in Request, rpc[r] = "find", NEW t \in Tg, IsLeast(t, rtodo[r]), map[t] = d,
             ~(upc = "unmap" /\ Parent = t)
      PROVE  Looks(d)'
  BY <1>3, FindLooks
<1> QED  BY <1>1, <1>2, <1>3 DEF Looks

\* Whoever deletes a message of one looks at the siblings.
LEMMA LooksStart ==
    ASSUME IInv, RelInv, SibInv, [Next]_vars, faults' = {}, NEW d \in discord, Alone(d), ~ToStore(d),
           NEW t \in about[d], t \in tg, t \notin tg'
    PROVE  Looks(d)'
<1>1. TypeOK /\ RawOnce /\ d \in Dc /\ t \in Tg /\ Clean
  BY QuietStep DEF IInv, RelInv, TypeOK
<1>2. map[t] = d
  BY <1>1, AloneMapped DEF Mapped
<1>3. ASSUME DeleteParent(t)
      PROVE  Looks(d)'
  <2>1. upc' = "recall" /\ ufound' = ufound /\ ufound \in Dc /\ t \in about[ufound]
    BY <1>1, <1>3 DEF DeleteParent, Deletes, TypeOK, SibInv, AboutInv, FoundAbout, OfParent, Parent
  <2>2. ufound = d
    BY <1>1, <2>1, AloneOwner
  <2> QED  BY <2>1, <2>2 DEF Looks
<1>4. ~EndCommand(t)
  <2>1. ASSUME EndCommand(t)
        PROVE  FALSE
    <3>1. updates # <<>> /\ Head(updates).id = t /\ Head(updates).kind = "command"
      BY <2>1 DEF EndCommand, Handled, RelInv, UpdateTask, OfCommand
    <3>2. 1 \in DOMAIN updates /\ Head(updates) = updates[1]
      BY <1>1, <3>1, HeadType
    <3> QED  BY <1>1, <3>1, <3>2 DEF RelInv, UpdatesBridged, Bridged
  <2> QED  BY <2>1
<1>5. ASSUME NEW c \in Dc, DeleteSent(c, t)
      PROVE  FALSE
  <2>1. dpc[c] = "delete" /\ t \in about[c]
    BY <1>5 DEF DeleteSent, IsGreatest, SibInv, AboutInv, FoundAbout
  <2>2. c = d
    BY <1>1, <2>1, AloneOwner
  <2> QED  BY <1>1, <2>1, <2>2 DEF RawOnce
<1>6. ASSUME NEW r \in Request, DeleteAsked(r, t)
      PROVE  Looks(d)'
  <2>1. rpc'[r] = "find" /\ IsLeast(t, rtodo'[r]) /\ map' = map /\ updates' = updates /\ upc' = upc
    BY <1>1, <1>6 DEF DeleteAsked, IsLeast, TypeOK, shared, updater
  <2>2. ~(upc = "unmap" /\ Parent = t)
    BY DEF IInv, ParentGone, Parent
  <2> QED  BY <1>1, <1>2, <2>1, <2>2 DEF Looks, IsLeast, Parent
<1> QED  BY <1>1, <1>3, <1>4, <1>5, <1>6, TgMoves

LEMMA StepLastPending ==
    ASSUME IInv, RelInv, SibInv, YoungInv, LastPending, [Next]_vars, faults' = {}
    PROVE  LastPending'
<1>1. TypeOK /\ DcKnown /\ AboutFresh /\ RawOnce /\ discord' \in SUBSET Dc
  BY StepType DEF IInv, SibInv, ApartInv, RelInv, TypeOK
<1>2. SUFFICES ASSUME NEW d \in discord' \ crossed', Alone(d)', ~ToStore(d)', about'[d] # {},
                      about'[d] \cap tg' = {}
               PROVE  Looks(d)'
  BY DEF LastPending
<1>3. d \in Dc /\ Alone(d) /\ d \notin torn' /\ d \notin crossed
  BY <1>1, <1>2, AloneBefore, OnlyGrow DEF Alone
<1>4. d \in discord
  BY <1>1, <1>2, <1>3, DcMoves, NewToStore DEF DcStep
<1>5. ~ToStore(d)
  BY <1>2, <1>3, StoredLeft
<1>6. about'[d] = about[d]
  BY <1>1, <1>3, <1>4, <1>5, StaysGone DEF RawOnce
<1>7. CASE about[d] \cap tg = {}
  <2>1. Looks(d)
    BY <1>2, <1>3, <1>4, <1>5, <1>6, <1>7 DEF LastPending
  <2> QED  BY <1>2, <1>3, <1>4, <1>5, <1>7, <2>1, LooksOn
<1>8. CASE about[d] \cap tg # {}
  BY <1>2, <1>3, <1>4, <1>5, <1>6, <1>8, LooksStart
<1> QED  BY <1>7, <1>8

--------------------------------------------------------------------------------

LEMMA InitQuiet ==
    ASSUME Init
    PROVE  QuietInv
<1>1. /\ tg = {} /\ discord = {} /\ nextDc = 1 /\ about = [d \in Dc |-> {}] /\ torn = {}
      /\ map = [t \in Tg |-> None] /\ relayed = {} /\ upc = "next"
      /\ spc = [d \in Dc |-> "none"] /\ dpc = [d \in Dc |-> "none"]
      /\ rpc = [r \in Request |-> "none"]
  BY DEF Init
<1>2. YoungInv
  BY <1>1 DEF YoungInv, YoungUnknown, Young, TodoOf, OneStore, SentThere, PlacedThere, Placing,
     Deleting, Told
<1>3. RowPending
  BY <1>1 DEF RowPending, RowsOf, None, Dc
<1>4. DcGone
  <2>1. \A d \in Dc : ~(d < nextDc)
    BY <1>1 DEF Dc
  <2> QED  BY <2>1 DEF DcGone
<1>5. LastPending
  BY <1>1 DEF LastPending
<1> QED  BY <1>2, <1>3, <1>4, <1>5 DEF QuietInv

LEMMA StepQuiet ==
    ASSUME IInv, RelInv, SibInv, QuietInv, [Next]_vars
    PROVE  QuietInv'
<1>1. SUFFICES ASSUME faults' = {}
               PROVE  YoungInv' /\ RowPending' /\ DcGone' /\ LastPending'
  BY DEF QuietInv
<1>2. YoungInv /\ RowPending /\ DcGone /\ LastPending
  BY <1>1, QuietStep DEF QuietInv
<1> QED
  BY <1>1, <1>2, StepYoung, StepRowPending, StepDcGone, StepLastPending

\* While nothing fails, a message that nobody has been told of is still there; and
\* whoever deletes on one side has still to delete on the other, or has done it.
THEOREM QuietInvariance == Spec => []QuietInv
<1>1. Init => QuietInv
  BY InitQuiet
<1>2. IInv /\ RelInv /\ SibInv /\ QuietInv /\ [Next]_vars => QuietInv'
  BY StepQuiet
<1> QED  BY <1>1, <1>2, Invariance, RelayInvariance, SiblingInvariance, PTL DEF Spec

LEMMA IdleAgreed ==
    ASSUME IInv, RelInv, SibInv, QuietInv
    PROVE  IdleAgreement
<1>1. SUFFICES ASSUME Idle, faults = {}, NEW d \in Dc \ (torn \cup crossed), about[d] # {}, ~Recopied(d)
               PROVE  /\ RowsOf(d) = about[d] \cap tg
                      /\ d \in discord <=> about[d] \cap tg # {}
  BY DEF IdleAgreement
<1>2. TypeOK /\ Clean /\ Alone(d) /\ RowPending /\ DcGone /\ LastPending
  BY <1>1 DEF IInv, Clean, Alone, QuietInv
<1>3. ~ToStore(d)
  BY <1>1 DEF Idle, ToStore
<1>4. \A t \in about[d] \cap tg : map[t] = d
  BY <1>2, <1>3, AloneMapped DEF Mapped
<1>5. \A t \in RowsOf(d) : t \in about[d]
  BY DEF RowsOf, SibInv, AboutInv, MapSound, None, Dc
<1>6. \A t : ~Unmaps(d, t)
  BY <1>1 DEF Idle, Unmaps, Removing
<1>7. \A t \in RowsOf(d) : t \in tg
  BY <1>2, <1>6 DEF RowPending
<1>8. RowsOf(d) = about[d] \cap tg
  BY <1>2, <1>4, <1>5, <1>7 DEF RowsOf, TypeOK
<1>9. ~Looks(d)
  BY <1>1 DEF Idle, Looks, OfRow
<1>10. d \in discord => about[d] \cap tg # {}
  BY <1>1, <1>2, <1>3, <1>9 DEF LastPending
<1>11. d \notin discord => about[d] \cap tg = {}
  <2>1. d < nextDc
    BY <1>1 DEF SibInv, ApartInv, AboutFresh
  <2>2. d \notin raw /\ dpc[d] \in {"none", "done"}
    BY <1>1 DEF Idle
  <2> QED  BY <1>2, <2>1, <2>2 DEF DcGone
<1> QED  BY <1>8, <1>10, <1>11

\* When every task is done and nothing failed, a message is in Discord exactly when some
\* of its Telegram messages are left, and is mapped to exactly those.
THEOREM IdleAgrees == Spec => []IdleAgreement
BY IdleAgreed, Invariance, RelayInvariance, SiblingInvariance, QuietInvariance, PTL
================================================================================
