--------------------------- MODULE GatewayQueueProofs ---------------------------
(***************************************************************************)
(* Proofs about the gateway's queue, for every number of events, files,    *)
(* handlers and faults: queued events stay coherent, attachments are held  *)
(* until they are asked for and never forgotten, a gateway that requires   *)
(* acks implements DeliveryQueue, and another hands over nothing twice.    *)
(***************************************************************************)
EXTENDS GatewayQueue, FiniteSetTheorems, TLAPS

--------------------------------------------------------------------------------
(* Type correctness *)

\* A fault leaves a natural number of them.
LEMMA FaultType ==
    ASSUME faults \in Nat, Fault
    PROVE  faults' \in Nat
BY DEF Fault

\* The oldest rows are rows.
LEMMA OldestRows ==
    ASSUME NEW n, NEW rows
    PROVE  Oldest(n, rows) \subseteq rows
BY DEF Oldest

\* The attachments of events are files.
LEMMA RefsType ==
    ASSUME TypeOK, NEW events \in SUBSET Event
    PROVE  RefsOf(events) \subseteq File
BY DEF TypeOK, RefsOf

\* Rows are events.
LEMMA QueueType ==
    ASSUME TypeOK
    PROVE  queue \subseteq Event
BY GatewayQueueAssumption DEF TypeOK, Event

\* The initial state is well typed.
LEMMA InitType == Init => TypeOK
BY GatewayQueueAssumption DEF Init, TypeOK, Event

\* Storing an attachment and queueing an event preserve the types.
LEMMA EnqueueType ==
    ASSUME TypeOK, EnqueueStep \/ \E e \in Event : Notify(e)
    PROVE  TypeOK'
<1> USE GatewayQueueAssumption DEF TypeOK, handle, sweep, client, store
<1>1. ASSUME NEW f \in File, StoreFile(f)
      PROVE  TypeOK'
  BY <1>1 DEF StoreFile, Hold
<1>4. ASSUME NEW f \in File, Park(f) \/ Fire(f)
      PROVE  TypeOK'
  BY <1>4 DEF Park, Fire, Hold
<1>2. ASSUME NEW f \in File \cup {NoFile}, Insert(f)
      PROVE  TypeOK'
  <2>1. next' \in 1..(MaxEvent + 1) /\ queue' \subseteq 1..(next' - 1)
    BY <1>2 DEF Insert, Event
  <2>2. ref' \in [Event -> File \cup {NoFile}]
    BY <1>2 DEF Insert
  <2> QED  BY <1>2, <2>1, <2>2 DEF Insert
<1>3. ASSUME NEW e \in Event, Notify(e)
      PROVE  TypeOK'
  BY <1>3 DEF Notify
<1> QED  BY <1>1, <1>2, <1>3, <1>4 DEF EnqueueStep

\* The handler of a poll preserves the types.
LEMMA PollType ==
    ASSUME TypeOK, NEW h \in Handler, PollStep(h)
    PROVE  TypeOK'
<1> USE GatewayQueueAssumption DEF TypeOK, gather, sweep, client, store, Goto, Finish, Answered, DeleteFiles
<1>1. CASE PeekQueue(h)
  <2>1. Oldest(PollLimit, queue) \subseteq Event
    BY OldestRows, QueueType
  <2>2. RefsOf(ids'[h]) \subseteq File
    BY <1>1, <2>1, RefsType DEF PeekQueue
  <2> QED  BY <1>1, <2>1, <2>2 DEF PeekQueue
<1>2. CASE AwaitWakeup(h)
  BY <1>2 DEF AwaitWakeup
<1>3. CASE TakeRows(h)
  BY <1>3 DEF TakeRows
<1>4. CASE CleanFiles(h)
  BY <1>4 DEF CleanFiles
<1>5. CASE Deadline(h)
  BY <1>5 DEF Deadline
<1>6. CASE Reply(h)
  BY <1>6 DEF Reply
<1>7. CASE ReplyToNobody(h)
  BY <1>7 DEF ReplyToNobody
<1> QED  BY <1>1, <1>2, <1>3, <1>4, <1>5, <1>6, <1>7 DEF PollStep

\* The handler of an ack preserves the types.
LEMMA AckType ==
    ASSUME TypeOK, NEW h \in Handler, AckStep(h)
    PROVE  TypeOK'
<1> USE GatewayQueueAssumption DEF TypeOK, gather, sweep, client, store, Goto, Finish, Answered, DeleteFiles
<1>1. CASE AckPeek(h)
  <2>1. RefsOf(ids[h] \cap Oldest(AckLimit, queue)) \subseteq File
    BY RefsType
  <2> QED  BY <1>1, <2>1 DEF AckPeek
<1>2. CASE AckDelete(h)
  BY <1>2 DEF AckDelete
<1>3. CASE AckClean(h)
  BY <1>3 DEF AckClean
<1> QED  BY <1>1, <1>2, <1>3 DEF AckStep

\* The client preserves the types.
LEMMA ClientType ==
    ASSUME TypeOK, ClientStep \/ LoseConnection
    PROVE  TypeOK'
<1> USE GatewayQueueAssumption DEF TypeOK, gather, sweep, handle, store, Goto, Request
<1>1. ASSUME NEW h \in Handler, StartPoll(h)
      PROVE  TypeOK'
  BY <1>1 DEF StartPoll
<1>2. ASSUME NEW f \in File, Download(f)
      PROVE  TypeOK'
  BY <1>2 DEF Download
<1>3. ASSUME NEW h \in Handler, NEW e \in Event, StartAck(h, e)
      PROVE  TypeOK'
  BY <1>3 DEF StartAck
<1>4. CASE LoseConnection
  BY <1>4, FaultType DEF LoseConnection
<1> QED  BY <1>1, <1>2, <1>3, <1>4 DEF ClientStep

\* The sweep, and a restart, preserve the types.
LEMMA SweepType ==
    ASSUME TypeOK, SweepStep \/ Restart \/ \E f \in File : Age(f)
    PROVE  TypeOK'
<1> USE GatewayQueueAssumption DEF TypeOK, gather, handle, client, store, DeleteFiles
<1>1. ASSUME NEW f \in File, StartSweep(f)
      PROVE  TypeOK'
  BY <1>1 DEF StartSweep
<1>2. CASE RewriteEvents
  BY <1>2 DEF RewriteEvents
<1>3. CASE SweepFile
  BY <1>3 DEF SweepFile
<1>4. CASE Restart
  BY <1>4, FaultType DEF Restart
<1>5. ASSUME NEW f \in File, Age(f)
      PROVE  TypeOK'
  BY <1>5 DEF Age, sweep
<1> QED  BY <1>1, <1>2, <1>3, <1>4, <1>5 DEF SweepStep

\* Every step preserves the types.
LEMMA StepType ==
    ASSUME TypeOK, [Next]_vars
    PROVE  TypeOK'
<1>1. CASE UNCHANGED vars
  BY <1>1 DEF vars, store, gather, handle, sweep, client, TypeOK
<1> QED  BY <1>1, EnqueueType, PollType, AckType, ClientType, SweepType DEF Next

--------------------------------------------------------------------------------
(* Queued events stay coherent *)

\* A file that can still be given to an event is with nobody else; what a handler
\* holds is stored and young.
Free == unused \cup {f \in File : holder[f] # "nobody"}

FreeIsFree ==
    /\ \A f \in File : f \in unused => holder[f] = "nobody"
    /\ \A f \in File : holder[f] = "handler" => f \in files \ old
    /\ \A e \in Event : ref[e] \notin Free
    /\ \A h \in Handler : refs[h] \cap Free = {}

\* The sweep expires what is old, or what was removed meanwhile.
SweepOld == spc # "idle" => expiring \in File \ unused /\ (expiring \in old \/ expiring \notin files)

\* Two events never share an attachment.
RefUnique == \A d, e \in Event : ref[d] = ref[e] /\ ref[e] # NoFile => d = e

\* What a handler is about to delete belongs to the events it takes, and, once
\* these are gone, to none.
HandlerOwns ==
    \A h \in Handler : \A e \in queue :
        /\ pc[h] \in {"peeked", "ackdelete"} /\ ref[e] \in refs[h] => e \in ids[h]
        /\ pc[h] \in {"clean", "ackclean"} => ref[e] \notin refs[h]

\* No event references the file the sweep is about to delete, unless it was
\* queued late.
SweepOwns == spc = "delete" => \A e \in queue \ late : ref[e] # expiring

CInv ==
    /\ TypeOK
    /\ FreeIsFree
    /\ RefUnique
    /\ HandlerOwns
    /\ SweepOld
    /\ SweepOwns
    /\ QueuedCoherent

\* Nothing is stored at first.
LEMMA InitCInv == Init => CInv
<1> SUFFICES ASSUME Init PROVE CInv
  OBVIOUS
<1>1. TypeOK
  BY InitType
<1> QED
  BY <1>1, GatewayQueueAssumption
     DEF Init, CInv, FreeIsFree, Free, RefUnique, HandlerOwns, SweepOld, SweepOwns, QueuedCoherent

\* An event gets an attachment nobody else has.
LEMMA EnqueueCInv ==
    ASSUME CInv, EnqueueStep \/ \E e \in Event : Notify(e)
    PROVE  CInv'
<1> USE GatewayQueueAssumption DEF handle, sweep, client, store, Free
<1>1. TypeOK /\ FreeIsFree /\ RefUnique /\ HandlerOwns /\ SweepOld /\ SweepOwns /\ QueuedCoherent
  BY DEF CInv
<1>2. TypeOK' /\ queue \subseteq Event /\ queue' \subseteq Event
  BY <1>1, EnqueueType DEF TypeOK, Event
<1>3. ASSUME NEW f \in File, StoreFile(f)
      PROVE  CInv'
  <2>1. FreeIsFree'
    BY <1>1, <1>3 DEF StoreFile, Hold, FreeIsFree, TypeOK
  <2>2. RefUnique' /\ HandlerOwns' /\ SweepOld' /\ SweepOwns' /\ QueuedCoherent'
    BY <1>1, <1>3 DEF StoreFile, RefUnique, HandlerOwns, SweepOld, SweepOwns, QueuedCoherent
  <2> QED  BY <1>2, <2>1, <2>2 DEF CInv
<1>6. ASSUME NEW f \in File, Park(f) \/ Fire(f)
      PROVE  CInv'
  <2>1. FreeIsFree'
    BY <1>1, <1>6 DEF Park, Fire, Hold, FreeIsFree, TypeOK
  <2>2. RefUnique' /\ HandlerOwns' /\ SweepOld' /\ SweepOwns' /\ QueuedCoherent'
    BY <1>1, <1>6 DEF Park, Fire, RefUnique, HandlerOwns, SweepOld, SweepOwns, QueuedCoherent
  <2> QED  BY <1>2, <2>1, <2>2 DEF CInv
<1>4. ASSUME NEW f \in File \cup {NoFile}, Insert(f)
      PROVE  CInv'
  <2>1. /\ next \in Event /\ queue' = queue \cup {next}
        /\ \A g \in File : holder'[g] = IF g = f THEN "nobody" ELSE holder[g]
        /\ f # NoFile => holder[f] \in {"handler", "task"}
        /\ late \subseteq late' /\ (next \in late' \/ f \in files \ old \/ f = NoFile)
        /\ \A e \in Event : ref'[e] = IF e = next THEN f ELSE ref[e]
        /\ UNCHANGED <<files, unused, old, handle, sweep>>
    BY <1>1, <1>4 DEF Insert, TypeOK
  <2>2. \A e \in Event : ref[e] \in File \cup {NoFile} /\ (f # NoFile => ref[e] # f)
    BY <1>1, <2>1 DEF TypeOK, FreeIsFree
  <2>3. \A h \in Handler : f \notin refs[h] /\ refs[h] \subseteq File
    BY <1>1, <2>1 DEF TypeOK, FreeIsFree
  <2>4. FreeIsFree'
    <3>1. f \notin unused
      BY <1>1, <2>1 DEF FreeIsFree, TypeOK
    <3>2. Free' = Free \ {f}
      BY <2>1, <3>1
    <3>3. NoFile \notin Free
      BY <1>1 DEF TypeOK
    <3>4. \A e \in Event : ref'[e] \notin Free'
      BY <1>1, <2>1, <3>2, <3>3 DEF FreeIsFree
    <3>5. \A h \in Handler : refs'[h] \cap Free' = {}
      BY <1>1, <2>1, <3>2 DEF FreeIsFree
    <3>6. \A g \in File : (g \in unused' => holder'[g] = "nobody") /\ (holder'[g] = "handler" => g \in files' \ old')
      BY <1>1, <2>1 DEF FreeIsFree
    <3> QED  BY <3>4, <3>5, <3>6 DEF FreeIsFree
  <2>5. RefUnique'
    BY <1>1, <2>1, <2>2 DEF RefUnique
  <2>6. HandlerOwns'
    BY <1>1, <1>2, <2>1, <2>3 DEF HandlerOwns
  <2>7. SweepOld' /\ SweepOwns'
    <3>1. SweepOld'
      BY <1>1, <2>1 DEF SweepOld
    <3>2. spc = "delete" /\ f \in files \ old => f # expiring
      BY <1>1 DEF SweepOld
    <3>3. spc = "delete" => NoFile # expiring
      BY <1>1 DEF SweepOld
    <3>4. \A e \in queue' \ late' : e \in Event /\ (e = next \/ e \in queue \ late)
      BY <1>2, <2>1
    <3>5. SweepOwns'
      BY <1>1, <2>1, <3>2, <3>3, <3>4 DEF SweepOwns
    <3> QED  BY <3>1, <3>5
  <2>8. QueuedCoherent'
    <3>1. \A e \in queue' \ late' : e \in Event /\ (e = next \/ e \in queue \ late)
      BY <1>2, <2>1
    <3> QED  BY <1>1, <2>1, <3>1 DEF QueuedCoherent
  <2> QED  BY <1>2, <2>4, <2>5, <2>6, <2>7, <2>8 DEF CInv
<1>5. ASSUME NEW e \in Event, Notify(e)
      PROVE  CInv'
  <2>1. HandlerOwns'
    BY <1>1, <1>5 DEF Notify, HandlerOwns, TypeOK
  <2>2. FreeIsFree' /\ RefUnique' /\ SweepOld' /\ SweepOwns' /\ QueuedCoherent'
    BY <1>1, <1>5 DEF Notify, FreeIsFree, RefUnique, SweepOld, SweepOwns, QueuedCoherent
  <2> QED  BY <1>2, <2>1, <2>2 DEF CInv
<1> QED  BY <1>3, <1>4, <1>5, <1>6 DEF EnqueueStep

\* Attachments are deleted when no event references them any more.
LEMMA PollCInv ==
    ASSUME CInv, NEW h \in Handler, PollStep(h)
    PROVE  CInv'
<1> USE DEF gather, sweep, client, store, Goto
<1>1. TypeOK /\ FreeIsFree /\ RefUnique /\ HandlerOwns /\ SweepOld /\ SweepOwns /\ QueuedCoherent
  BY DEF CInv
<1>2. TypeOK' /\ queue \subseteq Event /\ queue' \subseteq queue
  <2>1. TypeOK'
    BY <1>1, PollType
  <2>2. queue' \subseteq queue
    BY DEF PollStep, PeekQueue, AwaitWakeup, TakeRows, CleanFiles, Deadline, Reply, ReplyToNobody, DeleteFiles
  <2> QED  BY <1>1, <2>1, <2>2, QueueType
<1>3. /\ UNCHANGED <<ref, unused, gather, sweep>>
      /\ \A g \in Handler : g # h => pc'[g] = pc[g] /\ ids'[g] = ids[g] /\ refs'[g] = refs[g]
  BY <1>1 DEF PollStep, PeekQueue, AwaitWakeup, TakeRows, CleanFiles, Deadline, Reply, ReplyToNobody,
              DeleteFiles, Finish, TypeOK
<1>4. RefUnique' /\ SweepOld' /\ SweepOwns'
  <2>1. (files' = files /\ old' = old) \/ (files' = files \ refs[h] /\ old' = old \ refs[h])
    BY DEF PollStep, PeekQueue, AwaitWakeup, TakeRows, CleanFiles, Deadline, Reply, ReplyToNobody, DeleteFiles
  <2> QED  BY <1>1, <1>2, <1>3, <2>1 DEF RefUnique, SweepOld, SweepOwns
<1>5. ASSUME UNCHANGED <<files, old>>,
             refs'[h] \subseteq refs[h] \/ refs'[h] \subseteq RefsOf(Event),
             \A e \in queue' :
                 /\ pc'[h] \in {"peeked", "ackdelete"} /\ ref[e] \in refs'[h] => e \in ids'[h]
                 /\ pc'[h] \in {"clean", "ackclean"} => ref[e] \notin refs'[h]
      PROVE  CInv'
  <2>1. FreeIsFree'
    BY <1>1, <1>3, <1>5 DEF FreeIsFree, Free, RefsOf
  <2>2. HandlerOwns'
    BY <1>1, <1>2, <1>3, <1>5 DEF HandlerOwns
  <2>3. QueuedCoherent'
    BY <1>1, <1>2, <1>3, <1>5 DEF QueuedCoherent
  <2> QED  BY <1>2, <1>4, <2>1, <2>2, <2>3 DEF CInv
<1>6. CASE PeekQueue(h)
  <2>1. ids'[h] \subseteq queue /\ pc'[h] = "peeked" /\ refs'[h] = RefsOf(ids'[h])
    BY <1>1, <1>6, OldestRows DEF PeekQueue, TypeOK
  <2>2. refs'[h] \subseteq RefsOf(Event)
    BY <1>2, <2>1 DEF RefsOf
  <2>3. ASSUME NEW e \in queue, ref[e] \in refs'[h]
        PROVE  e \in ids'[h]
    <3>1. PICK d \in ids'[h] : ref[d] = ref[e] /\ ref[d] # NoFile
      BY <2>1, <2>3 DEF RefsOf
    <3> QED  BY <1>1, <1>2, <2>1, <3>1 DEF RefUnique
  <2> QED  BY <1>2, <1>5, <1>6, <2>1, <2>2, <2>3 DEF PeekQueue
<1>7. CASE TakeRows(h)
  <2>1. refs' = refs /\ ids' = ids /\ UNCHANGED <<files, old>> /\ pc'[h] \in {"reply", "clean"}
        /\ (pc'[h] = "clean" => queue' = queue \ ids[h])
    BY <1>1, <1>7 DEF TakeRows, TypeOK
  <2>2. ASSUME NEW e \in queue', pc'[h] = "clean"
        PROVE  ref[e] \notin refs'[h]
    BY <1>1, <1>7, <2>1, <2>2 DEF TakeRows, HandlerOwns
  <2> QED  BY <1>5, <2>1, <2>2
<1>8. CASE CleanFiles(h)
  <2>1. /\ files' = files \ refs[h] /\ old' = old \ refs[h]
        /\ pc[h] = "clean" /\ pc'[h] = "reply" /\ UNCHANGED <<ids, refs, queue>>
    BY <1>1, <1>8 DEF CleanFiles, DeleteFiles, TypeOK
  <2>2. FreeIsFree'
    BY <1>1, <1>3, <2>1 DEF FreeIsFree, Free
  <2>3. HandlerOwns'
    BY <1>1, <1>3, <2>1 DEF HandlerOwns
  <2>4. QueuedCoherent'
    BY <1>1, <1>3, <2>1 DEF QueuedCoherent, HandlerOwns
  <2> QED  BY <1>2, <1>4, <2>2, <2>3, <2>4 DEF CInv
<1>9. CASE AwaitWakeup(h)
  BY <1>1, <1>5, <1>9 DEF AwaitWakeup, TypeOK
<1>10. CASE Deadline(h) \/ Reply(h) \/ ReplyToNobody(h)
  BY <1>1, <1>5, <1>10 DEF Deadline, Reply, ReplyToNobody, Finish, TypeOK
<1> QED  BY <1>6, <1>7, <1>8, <1>9, <1>10 DEF PollStep

\* The same for an ack.
LEMMA AckCInv ==
    ASSUME CInv, NEW h \in Handler, AckStep(h)
    PROVE  CInv'
<1> USE DEF gather, sweep, client, store, Goto
<1>1. TypeOK /\ FreeIsFree /\ RefUnique /\ HandlerOwns /\ SweepOld /\ SweepOwns /\ QueuedCoherent
  BY DEF CInv
<1>2. TypeOK' /\ queue \subseteq Event /\ queue' \subseteq queue
  <2>1. TypeOK'
    BY <1>1, AckType
  <2>2. queue' \subseteq queue
    BY DEF AckStep, AckPeek, AckDelete, AckClean, DeleteFiles
  <2> QED  BY <1>1, <2>1, <2>2, QueueType
<1>3. /\ UNCHANGED <<ref, unused, gather, sweep>>
      /\ \A g \in Handler : g # h => pc'[g] = pc[g] /\ ids'[g] = ids[g] /\ refs'[g] = refs[g]
  BY <1>1 DEF AckStep, AckPeek, AckDelete, AckClean, DeleteFiles, Finish, TypeOK
<1>4. RefUnique' /\ SweepOld' /\ SweepOwns'
  <2>1. (files' = files /\ old' = old) \/ (files' = files \ refs[h] /\ old' = old \ refs[h])
    BY DEF AckStep, AckPeek, AckDelete, AckClean, DeleteFiles
  <2> QED  BY <1>1, <1>2, <1>3, <2>1 DEF RefUnique, SweepOld, SweepOwns
<1>5. CASE AckPeek(h)
  <2>1. /\ refs'[h] = RefsOf(ids[h] \cap Oldest(AckLimit, queue)) /\ ids' = ids
        /\ pc'[h] = "ackdelete" /\ UNCHANGED <<queue, files, old>> /\ ids[h] \subseteq Event
    BY <1>1, <1>5 DEF AckPeek, TypeOK
  <2>2. FreeIsFree'
    <3>1. refs'[h] \cap Free = {}
      BY <1>1, <2>1 DEF FreeIsFree, RefsOf
    <3> QED  BY <1>1, <1>3, <2>1, <3>1 DEF FreeIsFree, Free
  <2>3. ASSUME NEW e \in queue, ref[e] \in refs'[h]
        PROVE  e \in ids[h]
    <3>1. PICK d \in ids[h] : ref[d] = ref[e] /\ ref[d] # NoFile
      BY <2>1, <2>3 DEF RefsOf
    <3> QED  BY <1>1, <1>2, <2>1, <3>1 DEF RefUnique
  <2>4. HandlerOwns'
    BY <1>1, <1>3, <2>1, <2>3 DEF HandlerOwns
  <2>5. QueuedCoherent'
    BY <1>1, <1>3, <2>1 DEF QueuedCoherent
  <2> QED  BY <1>2, <1>4, <2>2, <2>4, <2>5 DEF CInv
<1>6. CASE AckDelete(h)
  <2>1. /\ queue' = queue \ ids[h] /\ pc[h] = "ackdelete" /\ pc'[h] = "ackclean"
        /\ UNCHANGED <<files, old, ids, refs>>
    BY <1>1, <1>6 DEF AckDelete, TypeOK
  <2>2. FreeIsFree'
    BY <1>1, <1>3, <2>1 DEF FreeIsFree, Free
  <2>3. HandlerOwns'
    BY <1>1, <1>3, <2>1 DEF HandlerOwns
  <2>4. QueuedCoherent'
    BY <1>1, <1>3, <2>1 DEF QueuedCoherent
  <2> QED  BY <1>2, <1>4, <2>2, <2>3, <2>4 DEF CInv
<1>7. CASE AckClean(h)
  <2>1. /\ files' = files \ refs[h] /\ old' = old \ refs[h]
        /\ pc[h] = "ackclean" /\ pc'[h] = "idle" /\ refs'[h] = {} /\ queue' = queue
    BY <1>1, <1>7 DEF AckClean, DeleteFiles, Finish, TypeOK
  <2>2. FreeIsFree'
    BY <1>1, <1>3, <2>1 DEF FreeIsFree, Free
  <2>3. HandlerOwns'
    BY <1>1, <1>3, <2>1 DEF HandlerOwns
  <2>4. QueuedCoherent'
    BY <1>1, <1>3, <2>1 DEF QueuedCoherent, HandlerOwns
  <2> QED  BY <1>2, <1>4, <2>2, <2>3, <2>4 DEF CInv
<1> QED  BY <1>5, <1>6, <1>7 DEF AckStep

\* The client touches no file and no row.
LEMMA ClientCInv ==
    ASSUME CInv, ClientStep \/ LoseConnection
    PROVE  CInv'
<1>1. TypeOK /\ FreeIsFree /\ RefUnique /\ HandlerOwns /\ SweepOld /\ SweepOwns /\ QueuedCoherent
  BY DEF CInv
<1>2. TypeOK'
  BY <1>1, ClientType
<1>3. UNCHANGED <<store, gather, refs, sweep>>
  BY DEF ClientStep, StartPoll, Download, StartAck, Request, LoseConnection, handle
<1>4. \A g \in Handler :
        \/ pc'[g] = pc[g] /\ ids'[g] = ids[g]
        \/ pc'[g] \in {"peek", "ackpeek"}
  BY <1>1 DEF ClientStep, StartPoll, Download, StartAck, Request, Goto, LoseConnection, handle, TypeOK
<1>5. FreeIsFree' /\ RefUnique' /\ SweepOld' /\ SweepOwns' /\ QueuedCoherent'
  BY <1>1, <1>3 DEF FreeIsFree, Free, RefUnique, SweepOld, SweepOwns, QueuedCoherent, store, gather, sweep
<1>6. HandlerOwns'
  BY <1>1, <1>3, <1>4 DEF HandlerOwns, store
<1> QED  BY <1>2, <1>5, <1>6 DEF CInv

\* The sweep rewrites the events before it deletes the file.
LEMMA SweepCInv ==
    ASSUME CInv, SweepStep \/ Restart \/ \E f \in File : Age(f)
    PROVE  CInv'
<1> USE GatewayQueueAssumption DEF gather, handle, client, store
<1>1. TypeOK /\ FreeIsFree /\ RefUnique /\ HandlerOwns /\ SweepOld /\ SweepOwns /\ QueuedCoherent
  BY DEF CInv
<1>2. TypeOK' /\ queue \subseteq Event
  BY <1>1, SweepType, QueueType
<1>3. ASSUME NEW f \in File, StartSweep(f)
      PROVE  CInv'
  <2>1. f \in old /\ f \notin unused
    BY <1>1, <1>3 DEF StartSweep, TypeOK
  <2>2. FreeIsFree' /\ SweepOld' /\ SweepOwns'
    BY <1>1, <1>3, <2>1 DEF StartSweep, FreeIsFree, Free, SweepOld, SweepOwns
  <2>3. RefUnique' /\ HandlerOwns' /\ QueuedCoherent'
    BY <1>1, <1>3 DEF StartSweep, RefUnique, HandlerOwns, QueuedCoherent
  <2> QED  BY <1>2, <2>2, <2>3 DEF CInv
<1>4. CASE RewriteEvents
  <2>1. /\ \A e \in Event : ref'[e] = IF e \in queue /\ ref[e] = expiring THEN NoFile ELSE ref[e]
        /\ UNCHANGED <<queue, files, unused, old, expiring, gather, handle>>
        /\ spc = "rewrite" /\ spc' = "delete"
    BY <1>4 DEF RewriteEvents
  <2>2. NoFile \notin Free /\ expiring \in File
    BY <1>1, <2>1 DEF TypeOK, Free, SweepOld
  <2>3. FreeIsFree'
    BY <1>1, <2>1, <2>2 DEF FreeIsFree, Free
  <2>4. RefUnique'
    BY <1>1, <2>1 DEF RefUnique
  <2>5. \A h \in Handler : NoFile \notin refs[h]
    BY <1>1 DEF TypeOK
  <2>6. HandlerOwns'
    BY <1>1, <1>2, <2>1, <2>5 DEF HandlerOwns
  <2>7. SweepOld' /\ SweepOwns' /\ QueuedCoherent'
    BY <1>1, <1>2, <2>1, <2>2 DEF SweepOld, SweepOwns, QueuedCoherent
  <2> QED  BY <1>2, <2>3, <2>4, <2>6, <2>7 DEF CInv
<1>5. CASE SweepFile
  <2>1. /\ files' = files \ {expiring} /\ old' = old \ {expiring} /\ spc = "delete" /\ spc' = "idle"
        /\ UNCHANGED <<queue, ref, unused, gather, handle>>
    BY <1>5 DEF SweepFile, DeleteFiles
  <2>2. FreeIsFree'
    BY <1>1, <2>1 DEF FreeIsFree, Free, SweepOld
  <2>3. RefUnique' /\ HandlerOwns' /\ SweepOld' /\ SweepOwns'
    BY <1>1, <2>1 DEF RefUnique, HandlerOwns, SweepOld, SweepOwns
  <2>4. QueuedCoherent'
    BY <1>1, <2>1 DEF QueuedCoherent, SweepOwns
  <2> QED  BY <1>2, <2>2, <2>3, <2>4 DEF CInv
<1>6. CASE Restart
  <2>1. FreeIsFree'
    BY <1>1, <1>6 DEF Restart, FreeIsFree, Free
  <2>2. RefUnique' /\ HandlerOwns' /\ SweepOld' /\ SweepOwns' /\ QueuedCoherent'
    BY <1>1, <1>6 DEF Restart, RefUnique, HandlerOwns, SweepOld, SweepOwns, QueuedCoherent
  <2> QED  BY <1>2, <2>1, <2>2 DEF CInv
<1>7. ASSUME NEW f \in File, Age(f)
      PROVE  CInv'
  <2>1. FreeIsFree'
    BY <1>1, <1>7 DEF Age, FreeIsFree, Free, sweep
  <2>2. RefUnique' /\ HandlerOwns' /\ SweepOld' /\ SweepOwns' /\ QueuedCoherent'
    BY <1>1, <1>7 DEF Age, RefUnique, HandlerOwns, SweepOld, SweepOwns, QueuedCoherent, sweep
  <2> QED  BY <1>2, <2>1, <2>2 DEF CInv
<1> QED  BY <1>3, <1>4, <1>5, <1>6, <1>7 DEF SweepStep

\* Every step preserves the invariant.
LEMMA StepCInv ==
    ASSUME CInv, [Next]_vars
    PROVE  CInv'
<1>1. CASE UNCHANGED vars
  BY <1>1 DEF vars, store, gather, handle, sweep, client, CInv, TypeOK, FreeIsFree, Free, RefUnique,
              HandlerOwns, SweepOld, SweepOwns, QueuedCoherent
<1> QED  BY <1>1, EnqueueCInv, PollCInv, AckCInv, ClientCInv, SweepCInv DEF Next

\* The invariant is inductive.
THEOREM CoherenceInvariance == Spec => []CInv
<1>1. CInv /\ [Next]_vars => CInv'
  BY StepCInv
<1> QED  BY InitCInv, <1>1, PTL DEF Spec

\* Every variable keeps its type.
THEOREM TypeCorrect == Spec => []TypeOK
<1>1. CInv => TypeOK
  BY DEF CInv
<1> QED  BY CoherenceInvariance, <1>1, PTL

\* "coherent messages rather than broken file_refs": however polls, acks and
\* the sweep interleave, and with acks or without, a queued event references
\* stored files only, unless its attachment was old before it was queued (a
\* reply parked for longer than LEFTOVER_AGE_SECONDS, which the code breaks).
THEOREM Coherent == Spec => []QueuedCoherent
<1>1. CInv => QueuedCoherent
  BY DEF CInv
<1> QED  BY CoherenceInvariance, <1>1, PTL

--------------------------------------------------------------------------------
(* The queue implements DeliveryQueue *)

\* What is not queued any more was handed over.
Forgotten == \A e \in 1..(next - 1) : e \in queue \/ e \in got

\* A poll holds the oldest rows: what they follow is with them or was handed over.
HoldsOldest ==
    \A h \in Handler : pc[h] \in {"peeked", "reply"} =>
        /\ ids[h] \subseteq 1..(next - 1)
        /\ \A e \in ids[h] : 1..e \subseteq got \cup ids[h]

\* What the client acks was handed over, and a poll deletes nothing.
AcksGot ==
    /\ inbox \subseteq got
    /\ \A h \in Handler :
         /\ pc[h] \in {"ackpeek", "ackdelete", "ackclean"} => \E e \in got : ids[h] = {e}
         /\ pc[h] # "clean"

DInv == TypeOK /\ Forgotten /\ HoldsOldest /\ AcksGot

\* The oldest rows hold every row before them.
LEMMA OldestIsPrefix ==
    ASSUME NEW n \in Nat, NEW rows \in SUBSET Event, NEW e \in Oldest(n, rows),
           NEW d \in rows, d < e
    PROVE  d \in Oldest(n, rows)
<1> DEFINE Below(x) == {c \in rows : c < x}
<1>1. IsFiniteSet(rows)
  <2>1. 1 \in Int /\ MaxEvent \in Int
    BY GatewayQueueAssumption
  <2>2. IsFiniteSet(1..MaxEvent)
    BY <2>1, FS_Interval
  <2> QED  BY <2>2, FS_Subset DEF Event
<1>2. Below(d) \subseteq Below(e) /\ Below(e) \subseteq rows
  <2>1. e \in Event /\ d \in Event /\ Event \subseteq Nat
    BY GatewayQueueAssumption DEF Oldest, Event
  <2>2. e \in Nat /\ d \in Nat /\ \A c \in rows : c \in Nat
    BY <2>1
  <2>3. \A c \in rows : c < d => c < e
    BY <2>2
  <2> QED  BY <2>3
<1>3. IsFiniteSet(Below(e)) /\ IsFiniteSet(Below(d))
  BY <1>1, <1>2, FS_Subset
<1>4. Cardinality(Below(d)) <= Cardinality(Below(e))
  BY <1>2, <1>3, FS_Subset
<1>5. Cardinality(Below(d)) \in Nat /\ Cardinality(Below(e)) \in Nat
  BY <1>3, FS_CardinalityType
<1>6. Cardinality(Below(e)) < n
  BY DEF Oldest
<1>7. Cardinality(Below(d)) < n
  <2> HIDE DEF Below
  <2> QED  BY <1>4, <1>5, <1>6
<1> QED  BY <1>7 DEF Oldest

\* Nothing is queued at first.
LEMMA InitDInv == Init => DInv
<1> SUFFICES ASSUME Init PROVE DInv
  OBVIOUS
<1>1. TypeOK
  BY InitType
<1> QED  BY <1>1 DEF Init, DInv, Forgotten, HoldsOldest, AcksGot

\* A step by anyone but the handlers and the client keeps what the invariant
\* speaks of, but for a new row or a restart.
LEMMA OtherDInv ==
    ASSUME DInv, RequireAck, EnqueueStep \/ (\E e \in Event : Notify(e)) \/ SweepStep \/ Restart
                             \/ (\E f \in File : Age(f)) \/ LoseConnection
    PROVE  DInv'
<1> USE GatewayQueueAssumption DEF gather, handle, client, store, sweep
<1>1. TypeOK /\ Forgotten /\ HoldsOldest /\ AcksGot
  BY DEF DInv
<1>2. TypeOK'
  BY <1>1, EnqueueType, SweepType, ClientType
<1>3. ASSUME UNCHANGED <<next, queue, got, inbox, ids>>,
             \A h \in Handler : pc'[h] = pc[h] \/ pc'[h] = "peek"
      PROVE  DInv'
  BY <1>1, <1>2, <1>3 DEF DInv, Forgotten, HoldsOldest, AcksGot
<1>4. ASSUME NEW f \in File \cup {NoFile}, Insert(f)
      PROVE  DInv'
  <2>1. /\ next \in Nat \ {0} /\ next' = next + 1 /\ queue' = queue \cup {next}
        /\ UNCHANGED <<got, inbox, ids, pc>>
    BY <1>1, <1>4 DEF Insert, TypeOK, Event
  <2>2. Forgotten'
    BY <1>1, <2>1 DEF Forgotten
  <2>3. HoldsOldest' /\ AcksGot'
    BY <1>1, <2>1 DEF HoldsOldest, AcksGot
  <2> QED  BY <1>2, <2>2, <2>3 DEF DInv
<1>5. ASSUME NEW f \in File, StoreFile(f) \/ Age(f) \/ StartSweep(f)
      PROVE  DInv'
  BY <1>3, <1>5 DEF StoreFile, Age, StartSweep
<1>9. ASSUME NEW f \in File, Park(f) \/ Fire(f)
      PROVE  DInv'
  BY <1>3, <1>9 DEF Park, Fire
<1>6. ASSUME NEW e \in Event, Notify(e)
      PROVE  DInv'
  BY <1>3, <1>6 DEF Notify
<1>7. CASE RewriteEvents \/ SweepFile \/ LoseConnection
  BY <1>3, <1>7 DEF RewriteEvents, SweepFile, DeleteFiles, LoseConnection
<1>8. CASE Restart
  BY <1>1, <1>2, <1>8 DEF Restart, DInv, Forgotten, HoldsOldest, AcksGot
<1> QED  BY <1>4, <1>5, <1>6, <1>7, <1>8, <1>9 DEF EnqueueStep, SweepStep

\* A poll hands over what it holds, and an ack deletes what was handed over.
LEMMA HandlerDInv ==
    ASSUME DInv, RequireAck, NEW h \in Handler, PollStep(h) \/ AckStep(h)
    PROVE  DInv'
<1> USE DEF gather, client, store, sweep, Goto
<1>1. TypeOK /\ Forgotten /\ HoldsOldest /\ AcksGot /\ queue \subseteq Event /\ next \in Nat \ {0}
  BY QueueType, GatewayQueueAssumption DEF DInv, TypeOK
<1>2. TypeOK'
  BY <1>1, PollType, AckType
<1>3. next' = next /\ inbox' \subseteq got' /\ got \subseteq got'
  BY <1>1 DEF PollStep, PeekQueue, AwaitWakeup, TakeRows, CleanFiles, Deadline, Reply, ReplyToNobody,
              AckStep, AckPeek, AckDelete, AckClean, DeleteFiles, AcksGot
<1>4. \A g \in Handler : g # h => pc'[g] = pc[g] /\ ids'[g] = ids[g]
  BY <1>1 DEF PollStep, PeekQueue, AwaitWakeup, TakeRows, CleanFiles, Deadline, Reply, ReplyToNobody,
              AckStep, AckPeek, AckDelete, AckClean, DeleteFiles, Finish, TypeOK
<1>5. ASSUME \A e \in queue : e \in queue' \/ e \in got,
             pc'[h] \in {"peeked", "reply"} =>
                 /\ ids'[h] \subseteq 1..(next - 1)
                 /\ \A e \in ids'[h] : 1..e \subseteq got \cup ids'[h],
             pc'[h] \in {"ackpeek", "ackdelete", "ackclean"} => \E e \in got : ids'[h] = {e},
             pc'[h] # "clean"
      PROVE  DInv'
  <2>1. Forgotten'
    BY <1>1, <1>3, <1>5 DEF Forgotten
  <2>2. HoldsOldest'
    BY <1>1, <1>3, <1>4, <1>5 DEF HoldsOldest
  <2>3. AcksGot'
    BY <1>1, <1>3, <1>4, <1>5 DEF AcksGot
  <2> QED  BY <1>2, <2>1, <2>2, <2>3 DEF DInv
<1>6. CASE PeekQueue(h)
  <2>1. ids'[h] = Oldest(PollLimit, queue) /\ pc'[h] = "peeked" /\ queue' = queue
    BY <1>1, <1>6 DEF PeekQueue, TypeOK
  <2>2. ids'[h] \subseteq queue /\ queue \subseteq 1..(next - 1)
    BY <1>1, <2>1, OldestRows DEF TypeOK
  <2>3. ASSUME NEW e \in ids'[h], NEW d \in 1..e
        PROVE  d \in got \cup ids'[h]
    <3>0. e \in 1..(next - 1)
      BY <2>2
    <3>1. d \in 1..(next - 1) /\ (d = e \/ d < e)
      BY <1>1, <3>0
    <3>2. CASE d \in queue /\ d < e
      BY <1>1, <2>1, <2>3, <3>2, OldestIsPrefix, GatewayQueueAssumption
    <3> QED  BY <1>1, <2>3, <3>1, <3>2 DEF Forgotten
  <2> QED  BY <1>5, <2>1, <2>2, <2>3
<1>7. CASE AwaitWakeup(h)
  BY <1>1, <1>5, <1>7 DEF AwaitWakeup, TypeOK
<1>8. CASE TakeRows(h)
  <2>1. pc[h] = "peeked" /\ pc'[h] = "reply" /\ ids' = ids /\ queue' = queue
    BY <1>1, <1>8 DEF TakeRows, TypeOK
  <2> QED  BY <1>1, <1>5, <2>1 DEF HoldsOldest
<1>9. CASE CleanFiles(h)
  BY <1>1, <1>9 DEF CleanFiles, AcksGot
<1>10. CASE Deadline(h) \/ Reply(h) \/ ReplyToNobody(h)
  BY <1>1, <1>5, <1>10 DEF Deadline, Reply, ReplyToNobody, Finish, TypeOK
<1>11. CASE AckPeek(h)
  BY <1>1, <1>5, <1>11 DEF AckPeek, AcksGot, TypeOK
<1>12. CASE AckDelete(h)
  <2>1. pc[h] = "ackdelete" /\ pc'[h] = "ackclean" /\ ids' = ids /\ queue' = queue \ ids[h]
    BY <1>1, <1>12 DEF AckDelete, TypeOK
  <2>2. \E e \in got : ids[h] = {e}
    BY <1>1, <2>1 DEF AcksGot
  <2> QED  BY <1>5, <2>1, <2>2
<1>13. CASE AckClean(h)
  BY <1>1, <1>5, <1>13 DEF AckClean, DeleteFiles, Finish, TypeOK
<1> QED
  BY <1>6, <1>7, <1>8, <1>9, <1>10, <1>11, <1>12, <1>13 DEF PollStep, AckStep

\* The client acks what it got.
LEMMA ClientDInv ==
    ASSUME DInv, ClientStep
    PROVE  DInv'
<1> USE DEF gather, client, store, sweep, handle, Goto, Request
<1>1. TypeOK /\ Forgotten /\ HoldsOldest /\ AcksGot
  BY DEF DInv
<1>2. TypeOK'
  BY <1>1, ClientType
<1>3. ASSUME NEW h \in Handler, StartPoll(h)
      PROVE  DInv'
  BY <1>1, <1>2, <1>3 DEF StartPoll, DInv, Forgotten, HoldsOldest, AcksGot, TypeOK
<1>4. ASSUME NEW f \in File, Download(f)
      PROVE  DInv'
  BY <1>1, <1>2, <1>4 DEF Download, DInv, Forgotten, HoldsOldest, AcksGot
<1>5. ASSUME NEW h \in Handler, NEW e \in Event, StartAck(h, e)
      PROVE  DInv'
  <2>1. /\ e \in got /\ inbox' \subseteq got /\ UNCHANGED <<queue, next, got>>
        /\ pc'[h] = "ackpeek" /\ ids'[h] = {e}
        /\ \A g \in Handler : g # h => pc'[g] = pc[g] /\ ids'[g] = ids[g]
    BY <1>1, <1>5 DEF StartAck, AcksGot, TypeOK
  <2>2. Forgotten'
    BY <1>1, <2>1 DEF Forgotten
  <2>3. HoldsOldest'
    BY <1>1, <2>1 DEF HoldsOldest
  <2>4. AcksGot'
    BY <1>1, <2>1 DEF AcksGot
  <2> QED  BY <1>2, <2>2, <2>3, <2>4 DEF DInv
<1> QED  BY <1>3, <1>4, <1>5 DEF ClientStep

\* Every step of a gateway that requires acks preserves the invariant.
LEMMA StepDInv ==
    ASSUME DInv, RequireAck, [Next]_vars
    PROVE  DInv'
<1>1. CASE UNCHANGED vars
  BY <1>1 DEF vars, store, gather, handle, sweep, client, DInv, TypeOK, Forgotten, HoldsOldest, AcksGot
<1> QED  BY <1>1, OtherDInv, HandlerDInv, ClientDInv DEF Next

\* The initial queue is an empty DeliveryQueue.
LEMMA InitDelivery == Init => DQ!Init
BY DEF Init, DQ!Init

\* Every step is one of DeliveryQueue, or changes nothing it speaks of.
LEMMA StepDelivery ==
    ASSUME DInv, DInv', RequireAck, [Next]_vars
    PROVE  [DQ!Next]_<<next - 1, got, (1..(next - 1)) \ queue>>
<1> USE DEF gather, handle, client, store, sweep
<1>1. TypeOK /\ Forgotten /\ HoldsOldest /\ AcksGot /\ next \in Nat \ {0}
  BY GatewayQueueAssumption DEF DInv, TypeOK
<1>2. CASE UNCHANGED <<next, queue, got>>
  BY <1>2
<1>3. ASSUME NEW f \in File \cup {NoFile}, Insert(f)
      PROVE  DQ!Send
  <2>1. next' = next + 1 /\ queue' = queue \cup {next} /\ got' = got
    BY <1>3 DEF Insert
  <2>2. next' - 1 = (next - 1) + 1
    BY <1>1, <2>1
  <2>3. (1..(next' - 1)) \ queue' = (1..(next - 1)) \ queue
    BY <1>1, <2>1
  <2> QED  BY <2>1, <2>2, <2>3 DEF DQ!Send
<1>4. ASSUME NEW h \in Handler, Reply(h)
      PROVE  DQ!Next
  <2>1. got' = got \cup ids[h] /\ UNCHANGED <<next, queue>> /\ pc[h] = "reply"
    BY <1>4 DEF Reply
  <2>2. ids[h] \in SUBSET (1..(next - 1)) /\ \A e \in ids[h] : 1..e \subseteq got \cup ids[h]
    BY <1>1, <2>1 DEF HoldsOldest
  <2>3. DQ!Deliver(ids[h])
    BY <2>1, <2>2 DEF DQ!Deliver
  <2> QED  BY <2>2, <2>3 DEF DQ!Next
<1>5. ASSUME NEW h \in Handler, AckDelete(h)
      PROVE  [DQ!Next]_<<next - 1, got, (1..(next - 1)) \ queue>>
  <2>1. queue' = queue \ ids[h] /\ UNCHANGED <<next, got>> /\ pc[h] = "ackdelete"
    BY <1>5 DEF AckDelete
  <2>2. PICK e \in got : ids[h] = {e}
    BY <1>1, <2>1 DEF AcksGot
  <2>3. CASE e \in 1..(next - 1)
    <3>1. (1..(next' - 1)) \ queue' = ((1..(next - 1)) \ queue) \cup {e}
      BY <2>1, <2>2, <2>3
    <3>2. DQ!Forget(e)
      BY <2>1, <3>1 DEF DQ!Forget
    <3> QED  BY <3>2 DEF DQ!Next
  <2>4. CASE e \notin 1..(next - 1)
    BY <2>1, <2>2, <2>4
  <2> QED  BY <2>3, <2>4
<1>6. ASSUME NEW h \in Handler, PollStep(h) \/ AckStep(h)
      PROVE  Reply(h) \/ AckDelete(h) \/ UNCHANGED <<next, queue, got>>
  BY <1>6 DEF PollStep, PeekQueue, AwaitWakeup, TakeRows, CleanFiles, Deadline, ReplyToNobody,
              AckStep, AckPeek, AckClean, DeleteFiles
<1>7. CASE EnqueueStep \/ \E e \in Event : Notify(e)
  <2>1. ASSUME NEW f \in File, StoreFile(f) \/ Park(f) \/ Fire(f)
        PROVE  UNCHANGED <<next, queue, got>>
    BY <2>1 DEF StoreFile, Park, Fire
  <2>2. ASSUME NEW e \in Event, Notify(e)
        PROVE  UNCHANGED <<next, queue, got>>
    BY <2>2 DEF Notify
  <2> QED  BY <1>2, <1>3, <1>7, <2>1, <2>2 DEF EnqueueStep, DQ!Next
<1>8. CASE ClientStep \/ LoseConnection
  BY <1>2, <1>8 DEF ClientStep, StartPoll, Download, StartAck, Request, LoseConnection
<1>9. CASE SweepStep \/ Restart \/ \E f \in File : Age(f)
  BY <1>2, <1>9 DEF SweepStep, StartSweep, RewriteEvents, SweepFile, DeleteFiles, Restart, Age
<1>10. CASE UNCHANGED vars
  BY <1>2, <1>10 DEF vars
<1> QED
  BY <1>2, <1>4, <1>5, <1>6, <1>7, <1>8, <1>9, <1>10 DEF Next

\* A gateway that requires acks forgets only what was handed over.
THEOREM DeliveryInvariance ==
    ASSUME RequireAck
    PROVE  Spec => []DInv
<1>1. DInv /\ [Next]_vars => DInv'
  BY StepDInv
<1> QED  BY InitDInv, <1>1, PTL DEF Spec

\* The queue of a gateway that requires acks implements DeliveryQueue: whatever
\* requests overlap, answers are lost and restarts happen, each event is handed
\* over, in order, before it is forgotten.
THEOREM DeliveryImplemented ==
    ASSUME RequireAck
    PROVE  Spec => ImplementsDelivery
<1>1. Spec => []DInv
  BY DeliveryInvariance
<1>2. DInv /\ DInv' /\ [Next]_vars => [DQ!Next]_<<next - 1, got, (1..(next - 1)) \ queue>>
  BY StepDelivery
<1> QED  BY InitDelivery, <1>1, <1>2, PTL DEF Spec, ImplementsDelivery, DQ!Spec

--------------------------------------------------------------------------------
(* What events, answers and acks know of the attachments *)

\* Nobody knows an event before its row is there.
Known ==
    /\ got \subseteq 1..(next - 1) /\ inbox \subseteq got
    /\ \A h \in Handler : ids[h] \subseteq 1..(next - 1)

\* An answer carries the attachments of its events, but for those that are swept.
Carried ==
    \A h \in Handler : pc[h] \in {"peeked", "clean", "reply"} =>
        \A e \in ids[h] : ref[e] \in refs[h] \cup {NoFile}

\* What was read once is among the oldest rows as long as it is queued, ...
HeldOldest ==
    /\ inbox \cap queue \subseteq Oldest(PollLimit, queue)
    /\ \A h \in Handler : ids[h] \cap queue \subseteq Oldest(PollLimit, queue)

\* ... so that the ack finds its attachments.
AckCarried ==
    \A h \in Handler : pc[h] = "ackdelete" =>
        \A e \in ids[h] \cap queue : ref[e] \in refs[h] \cup {NoFile}

\* The client asks for the attachments of what it has, and acks then.
InboxAsked == \A e \in inbox : ref[e] \in wanted \cup asked \cup {NoFile}

AckAsked ==
    \A h \in Handler :
        /\ pc[h] = "ackpeek" => \A e \in ids[h] : ref[e] \in asked \cup {NoFile}
        /\ pc[h] \in {"ackdelete", "ackclean"} => refs[h] \subseteq asked

HInv ==
    /\ Known /\ Carried /\ HeldOldest /\ AckCarried
    /\ InboxAsked /\ AckAsked

\* What a handler may do in a step.
LEMMA HandlerMoves ==
    ASSUME TypeOK, [Next]_vars, NEW g \in Handler
    PROVE  \/ pc'[g] = pc[g] /\ ids'[g] = ids[g] /\ refs'[g] = refs[g]
           \/ pc'[g] \in {"idle", "peek", "wait"} /\ ids'[g] \subseteq ids[g]
           \/ pc'[g] \in {"clean", "reply", "ackclean"} /\ ids'[g] = ids[g] /\ refs'[g] = refs[g]
              /\ (TakeRows(g) \/ CleanFiles(g) \/ AckDelete(g))
           \/ PeekQueue(g) \/ AckPeek(g) \/ \E e \in Event : StartAck(g, e)
<1> USE DEF TypeOK, Goto, handle
<1>1. ASSUME NEW h \in Handler, PollStep(h)
      PROVE  \/ pc'[g] = pc[g] /\ ids'[g] = ids[g] /\ refs'[g] = refs[g]
             \/ pc'[g] \in {"idle", "peek", "wait"} /\ ids'[g] \subseteq ids[g]
             \/ pc'[g] \in {"clean", "reply", "ackclean"} /\ ids'[g] = ids[g] /\ refs'[g] = refs[g]
                /\ (TakeRows(g) \/ CleanFiles(g))
             \/ PeekQueue(g)
  <2>1. CASE h # g
    BY <1>1, <2>1 DEF PollStep, PeekQueue, AwaitWakeup, TakeRows, CleanFiles, Deadline, Reply, ReplyToNobody, Finish
  <2>2. CASE TakeRows(g) \/ CleanFiles(g)
    BY <2>2 DEF TakeRows, CleanFiles
  <2>3. CASE AwaitWakeup(g) \/ Deadline(g) \/ Reply(g) \/ ReplyToNobody(g)
    BY <2>3 DEF AwaitWakeup, Deadline, Reply, ReplyToNobody, Finish
  <2> QED  BY <1>1, <2>1, <2>2, <2>3 DEF PollStep
<1>2. ASSUME NEW h \in Handler, AckStep(h)
      PROVE  \/ pc'[g] = pc[g] /\ ids'[g] = ids[g] /\ refs'[g] = refs[g]
             \/ pc'[g] \in {"idle", "peek", "wait"} /\ ids'[g] \subseteq ids[g]
             \/ pc'[g] = "ackclean" /\ ids'[g] = ids[g] /\ refs'[g] = refs[g] /\ AckDelete(g)
             \/ AckPeek(g)
  <2>1. CASE h # g
    BY <1>2, <2>1 DEF AckStep, AckPeek, AckDelete, AckClean, Finish
  <2>2. CASE AckDelete(g) \/ AckClean(g)
    BY <2>2 DEF AckDelete, AckClean, Finish
  <2> QED  BY <1>2, <2>1, <2>2 DEF AckStep
<1>3. CASE ClientStep \/ LoseConnection
  <2>1. ASSUME NEW h \in Handler, StartPoll(h)
        PROVE  \/ pc'[g] = pc[g] /\ ids'[g] = ids[g] /\ refs'[g] = refs[g]
               \/ pc'[g] = "peek" /\ ids'[g] = ids[g]
    BY <2>1 DEF StartPoll, Request
  <2>2. ASSUME NEW h \in Handler, NEW e \in Event, StartAck(h, e)
        PROVE  \/ pc'[g] = pc[g] /\ ids'[g] = ids[g] /\ refs'[g] = refs[g]
               \/ StartAck(g, e)
    BY <2>2 DEF StartAck, Request
  <2> QED  BY <1>3, <2>1, <2>2 DEF ClientStep, Download, LoseConnection
<1>4. CASE EnqueueStep \/ SweepStep \/ \E f \in File : Age(f)
  BY <1>4 DEF EnqueueStep, StoreFile, Park, Fire, Insert, SweepStep, StartSweep, RewriteEvents, SweepFile, Age
<1>5. CASE \E e \in Event : Notify(e)
  BY <1>5 DEF Notify
<1>6. CASE Restart
  BY <1>6 DEF Restart
<1>7. CASE UNCHANGED vars
  BY <1>7 DEF vars
<1> QED  BY <1>1, <1>2, <1>3, <1>4, <1>5, <1>6, <1>7 DEF Next

\* How rows and what they reference change.
LEMMA RowMoves ==
    ASSUME TypeOK, [Next]_vars
    PROVE  /\ next \in Nat \ {0} /\ next' \in Nat \ {0} /\ queue \subseteq 1..(next - 1)
           /\ \/ next' = next /\ queue' \subseteq queue
              \/ next' = next + 1 /\ queue' = queue \cup {next}
           /\ \A e \in 1..(next - 1) : ref'[e] \in {ref[e], NoFile}
<1>1. next \in Nat \ {0} /\ queue \subseteq 1..(next - 1) /\ MaxEvent \in Nat /\ next <= MaxEvent + 1
  BY GatewayQueueAssumption DEF TypeOK
<1>2. CASE ref' = ref /\ next' = next /\ queue' \subseteq queue
  BY <1>1, <1>2
<1>3. ASSUME NEW f \in File \cup {NoFile}, Insert(f)
      PROVE  /\ next' = next + 1 /\ queue' = queue \cup {next}
             /\ \A e \in 1..(next - 1) : ref'[e] = ref[e]
  <2>1. ref' = [ref EXCEPT ![next] = f] /\ next' = next + 1 /\ queue' = queue \cup {next}
    BY <1>3 DEF Insert
  <2>2. \A e \in 1..(next - 1) : e \in Event /\ e # next
    BY <1>1 DEF Event
  <2> QED  BY <2>1, <2>2 DEF TypeOK
<1>4. CASE RewriteEvents
  <2>1. \A e \in 1..(next - 1) : e \in Event
    BY <1>1 DEF Event
  <2> QED  BY <1>1, <1>4, <2>1 DEF RewriteEvents
<1>5. ASSUME NEW h \in Handler, PollStep(h) \/ AckStep(h)
      PROVE  ref' = ref /\ next' = next /\ queue' \subseteq queue
  BY <1>5 DEF PollStep, PeekQueue, AwaitWakeup, TakeRows, CleanFiles, Deadline, Reply, ReplyToNobody, AckStep,
              AckPeek, AckDelete, AckClean, DeleteFiles, store
<1>6. CASE ClientStep \/ LoseConnection \/ Restart \/ \E f \in File : Age(f)
  BY <1>2, <1>6 DEF ClientStep, StartPoll, Download, StartAck, LoseConnection, Restart, Age, store
<1>7. ASSUME NEW f \in File, StoreFile(f) \/ Park(f) \/ Fire(f) \/ StartSweep(f)
      PROVE  ref' = ref /\ next' = next /\ queue' \subseteq queue
  BY <1>7 DEF StoreFile, Park, Fire, StartSweep, store
<1>8. CASE SweepFile \/ UNCHANGED vars \/ \E e \in Event : Notify(e)
  BY <1>2, <1>8 DEF SweepFile, DeleteFiles, vars, store, Notify
<1> QED  BY <1>1, <1>2, <1>3, <1>4, <1>5, <1>6, <1>7, <1>8 DEF Next, EnqueueStep, SweepStep

\* What the client has changes by an answer, a download or an ack.
LEMMA ClientMoves ==
    ASSUME [Next]_vars
    PROVE  /\ asked \subseteq asked'
           /\ \/ inbox' \subseteq inbox /\ got' = got /\ wanted \subseteq wanted' \cup asked'
              \/ \E h \in Handler : Reply(h)
<1>1. CASE EnqueueStep \/ SweepStep \/ Restart \/ LoseConnection \/ UNCHANGED vars
  BY <1>1 DEF EnqueueStep, StoreFile, Park, Fire, Insert, SweepStep, StartSweep, RewriteEvents, SweepFile, Restart,
     LoseConnection, vars, client
<1>2. CASE ClientStep \/ (\E f \in File : Age(f)) \/ \E e \in Event : Notify(e)
  BY <1>2 DEF ClientStep, StartPoll, Download, StartAck, Age, Notify, client
<1>3. ASSUME NEW h \in Handler, PollStep(h) \/ AckStep(h), ~Reply(h)
      PROVE  UNCHANGED <<asked, inbox, got, wanted>>
  BY <1>3 DEF PollStep, PeekQueue, AwaitWakeup, TakeRows, CleanFiles, Deadline, ReplyToNobody, AckStep,
     AckPeek, AckDelete, AckClean, client
<1>4. ASSUME NEW h \in Handler, Reply(h)
      PROVE  asked' = asked
  BY <1>4 DEF Reply
<1> QED  BY <1>1, <1>2, <1>3, <1>4 DEF Next

\* A row that was among the oldest stays there while it is queued.
LEMMA OldestKept ==
    ASSUME TypeOK, [Next]_vars, NEW n \in Nat, NEW e \in Oldest(n, queue), e \in queue'
    PROVE  e \in Oldest(n, queue')
<1> DEFINE Below(rows) == {d \in rows : d < e}
<1>1. /\ queue \subseteq 1..(next - 1) /\ next \in Nat \ {0} /\ e \in queue
      /\ queue' \subseteq queue \cup {next}
  BY RowMoves DEF Oldest
<1>2. Below(queue') \subseteq Below(queue)
  <2>1. e \in Nat /\ e < next
    BY <1>1
  <2>2. ~(next < e)
    BY <1>1, <2>1
  <2> QED  BY <1>1, <2>2
<1>3. IsFiniteSet(Below(queue))
  <2>1. IsFiniteSet(1..MaxEvent)
    <3>1. 1 \in Int /\ MaxEvent \in Int
      BY GatewayQueueAssumption
    <3> QED  BY <3>1, FS_Interval
  <2>2. Below(queue) \subseteq 1..MaxEvent
    BY QueueType DEF Event
  <2> QED  BY <2>1, <2>2, FS_Subset
<1>4. /\ Cardinality(Below(queue')) <= Cardinality(Below(queue))
      /\ Cardinality(Below(queue')) \in Nat /\ Cardinality(Below(queue)) \in Nat
  BY <1>2, <1>3, FS_Subset, FS_CardinalityType
<1>5. Cardinality(Below(queue)) < n
  BY DEF Oldest
<1>6. Cardinality(Below(queue')) < n
  <2> HIDE DEF Below
  <2> QED  BY <1>4, <1>5
<1> QED  BY <1>6 DEF Oldest

\* What is read, acked or received are rows.
LEMMA StepHeldKnown ==
    ASSUME TypeOK, Known, [Next]_vars
    PROVE  Known'
<1>1. next \in Nat \ {0} /\ next' \in Nat /\ 1..(next - 1) \subseteq 1..(next' - 1) /\ queue \subseteq 1..(next - 1)
  BY RowMoves
<1>2. got' \subseteq 1..(next' - 1) /\ inbox' \subseteq got'
  <2>1. ASSUME NEW h \in Handler, Reply(h)
        PROVE  got' = got \cup ids[h] /\ inbox' = ids[h]
    BY <2>1 DEF Reply
  <2> QED  BY <1>1, <2>1, ClientMoves DEF Known
<1>3. got \subseteq 1..(next - 1) /\ inbox \subseteq got /\ \A g \in Handler : ids[g] \subseteq 1..(next - 1)
  BY DEF Known
<1>4. ASSUME NEW g \in Handler
      PROVE  ids'[g] \subseteq 1..(next' - 1)
  <2>1. CASE PeekQueue(g)
    <3>1. ids'[g] \subseteq queue
      BY <2>1, OldestRows DEF PeekQueue, TypeOK
    <3> QED  BY <1>1, <3>1
  <2>2. ASSUME NEW e \in Event, StartAck(g, e)
        PROVE  ids'[g] \subseteq 1..(next' - 1)
    <3>1. e \in inbox /\ ids'[g] = {e}
      BY <2>2 DEF StartAck, TypeOK
    <3>2. e \in 1..(next - 1)
      BY <1>3, <3>1
    <3> QED  BY <1>1, <3>1, <3>2
  <2>3. CASE ids'[g] \subseteq ids[g]
    <3>1. ids[g] \subseteq 1..(next - 1)
      BY <1>3
    <3> QED  BY <1>1, <2>3, <3>1
  <2>4. AckPeek(g) => ids'[g] = ids[g]
    BY DEF AckPeek
  <2> QED  BY <2>1, <2>2, <2>3, <2>4, HandlerMoves
<1> QED  BY <1>2, <1>4 DEF Known

\* A row loses its attachment to the sweep only.
LEMMA StepCarried ==
    ASSUME TypeOK, Known, Carried, [Next]_vars
    PROVE  Carried'
<1>1. SUFFICES ASSUME NEW g \in Handler, pc'[g] \in {"peeked", "clean", "reply"}, NEW e \in ids'[g]
               PROVE  ref'[e] \in refs'[g] \cup {NoFile}
  BY DEF Carried
<1>2. \A d \in 1..(next - 1) : ref'[d] \in {ref[d], NoFile}
  BY RowMoves
<1>3. CASE PeekQueue(g)
  <2>1. refs'[g] = RefsOf(ids'[g]) /\ ref' = ref
    BY <1>3 DEF PeekQueue, TypeOK, store
  <2> QED  BY <1>1, <2>1 DEF RefsOf
<1>4. CASE ids'[g] = ids[g] /\ refs'[g] = refs[g] /\ pc[g] \in {"peeked", "clean", "reply"}
  BY <1>1, <1>2, <1>4 DEF Carried, Known
<1>5. TakeRows(g) \/ CleanFiles(g) => pc[g] \in {"peeked", "clean"}
  BY DEF TakeRows, CleanFiles
<1>6. AckDelete(g) \/ AckPeek(g) \/ (\E d \in Event : StartAck(g, d)) => pc'[g] \in {"ackpeek", "ackdelete", "ackclean"}
  BY DEF AckDelete, AckPeek, StartAck, Request, Goto, TypeOK
<1> QED  BY <1>1, <1>3, <1>4, <1>5, <1>6, HandlerMoves

\* Older rows only go.
LEMMA StepHeldOldest ==
    ASSUME TypeOK, Known, HeldOldest, [Next]_vars
    PROVE  HeldOldest'
<1>1. ASSUME NEW rows, rows \cap queue \subseteq Oldest(PollLimit, queue), rows \subseteq 1..(next - 1)
      PROVE  rows \cap queue' \subseteq Oldest(PollLimit, queue')
  <2>1. SUFFICES ASSUME NEW e \in rows, e \in queue'
                 PROVE  e \in Oldest(PollLimit, queue')
    OBVIOUS
  <2>2. e \in queue
    BY <1>1, <2>1, RowMoves
  <2> QED  BY <1>1, <2>1, <2>2, OldestKept, GatewayQueueAssumption
<1>2. ASSUME NEW g \in Handler
      PROVE  ids'[g] \cap queue' \subseteq Oldest(PollLimit, queue')
  <2>1. CASE ids'[g] \subseteq ids[g]
    <3>1. ids[g] \cap queue' \subseteq Oldest(PollLimit, queue')
      BY <1>1 DEF HeldOldest, Known
    <3> QED  BY <2>1, <3>1
  <2>2. CASE PeekQueue(g)
    BY <2>2 DEF PeekQueue, TypeOK, store
  <2>3. ASSUME NEW e \in Event, StartAck(g, e)
        PROVE  ids'[g] \cap queue' \subseteq Oldest(PollLimit, queue')
    <3>1. e \in inbox /\ ids'[g] = {e} /\ queue' = queue
      BY <2>3 DEF StartAck, TypeOK, store
    <3> QED  BY <3>1 DEF HeldOldest
  <2>4. AckPeek(g) => ids'[g] = ids[g]
    BY DEF AckPeek
  <2> QED  BY <2>1, <2>2, <2>3, <2>4, HandlerMoves
<1>3. inbox' \cap queue' \subseteq Oldest(PollLimit, queue')
  <2>1. CASE inbox' \subseteq inbox
    <3>1. inbox \cap queue' \subseteq Oldest(PollLimit, queue')
      BY <1>1 DEF HeldOldest, Known
    <3> QED  BY <2>1, <3>1
  <2>2. ASSUME NEW h \in Handler, Reply(h)
        PROVE  inbox' \cap queue' \subseteq Oldest(PollLimit, queue')
    BY <2>2 DEF Reply, HeldOldest, store
  <2> QED  BY <2>1, <2>2, ClientMoves
<1> QED  BY <1>2, <1>3 DEF HeldOldest

\* The ack looks through as many rows as a poll returns, at least.
LEMMA AckFinds ==
    ASSUME TypeOK, HeldOldest, NEW h \in Handler
    PROVE  ids[h] \cap queue \subseteq Oldest(AckLimit, queue)
<1> SUFFICES ASSUME NEW e \in ids[h] \cap queue
             PROVE  e \in Oldest(AckLimit, queue)
  OBVIOUS
<1> DEFINE below == {d \in queue : d < e}
<1>1. e \in queue /\ Cardinality(below) < PollLimit
  BY DEF HeldOldest, Oldest
<1>2. IsFiniteSet(below)
  <2>1. 1 \in Int /\ MaxEvent \in Int
    BY GatewayQueueAssumption
  <2>2. IsFiniteSet(1..MaxEvent) /\ below \subseteq 1..MaxEvent
    BY <2>1, FS_Interval, QueueType DEF Event
  <2> QED  BY <2>2, FS_Subset
<1>3. Cardinality(below) \in Nat
  BY <1>2, FS_CardinalityType
<1>4. Cardinality(below) < AckLimit
  <2> HIDE DEF below
  <2> QED  BY <1>1, <1>3, GatewayQueueAssumption
<1> QED  BY <1>1, <1>4 DEF Oldest

\* An ack reads the attachments of the rows it deletes.
LEMMA StepAckCarried ==
    ASSUME TypeOK, Known, HeldOldest, AckCarried, [Next]_vars
    PROVE  AckCarried'
<1>1. SUFFICES ASSUME NEW g \in Handler, pc'[g] = "ackdelete", NEW e \in ids'[g], e \in queue'
               PROVE  ref'[e] \in refs'[g] \cup {NoFile}
  BY DEF AckCarried
<1>2. CASE ids'[g] = ids[g] /\ refs'[g] = refs[g] /\ pc[g] = "ackdelete"
  <2>1. e \in queue /\ ref'[e] \in {ref[e], NoFile}
    BY <1>1, <1>2, RowMoves DEF Known
  <2> QED  BY <1>1, <1>2, <2>1 DEF AckCarried
<1>3. CASE AckPeek(g)
  <2>1. /\ ids' = ids /\ ref' = ref /\ queue' = queue
        /\ refs'[g] = RefsOf(ids[g] \cap Oldest(AckLimit, queue))
    BY <1>3 DEF AckPeek, TypeOK, store
  <2>2. e \in ids[g] \cap Oldest(AckLimit, queue)
    BY <1>1, <2>1, AckFinds
  <2> QED  BY <2>1, <2>2 DEF RefsOf
<1>4. PeekQueue(g) \/ (\E d \in Event : StartAck(g, d)) => pc'[g] \in {"peeked", "ackpeek"}
  BY DEF PeekQueue, StartAck, Request, Goto, TypeOK
<1> QED  BY <1>1, <1>2, <1>3, <1>4, HandlerMoves

\* A download is asked for before the ack.
LEMMA StepInbox ==
    ASSUME TypeOK, Known, Carried, InboxAsked, [Next]_vars
    PROVE  InboxAsked'
<1>1. SUFFICES ASSUME NEW e \in inbox'
               PROVE  ref'[e] \in wanted' \cup asked' \cup {NoFile}
  BY DEF InboxAsked
<1>2. \A d \in 1..(next - 1) : ref'[d] \in {ref[d], NoFile}
  BY RowMoves
<1>3. CASE inbox' \subseteq inbox /\ wanted \subseteq wanted' \cup asked'
  <2>1. e \in inbox /\ e \in 1..(next - 1)
    BY <1>1, <1>3 DEF Known
  <2>2. ref[e] \in wanted' \cup asked' \cup {NoFile}
    BY <1>3, <2>1, ClientMoves DEF InboxAsked
  <2> QED  BY <1>2, <2>1, <2>2
<1>4. ASSUME NEW h \in Handler, Reply(h)
      PROVE  ref'[e] \in wanted' \cup asked' \cup {NoFile}
  BY <1>1, <1>4 DEF Reply, Carried, store
<1> QED  BY <1>3, <1>4, ClientMoves

\* An ack is for events whose attachments were asked for.
LEMMA StepAckAsked ==
    ASSUME TypeOK, Known, InboxAsked, AckAsked, [Next]_vars
    PROVE  AckAsked'
<1>1. asked \subseteq asked' /\ \A d \in 1..(next - 1) : ref'[d] \in {ref[d], NoFile}
  BY RowMoves, ClientMoves
<1>2. ASSUME NEW g \in Handler, pc'[g] = "ackpeek", NEW e \in ids'[g]
      PROVE  ref'[e] \in asked' \cup {NoFile}
  <2>1. CASE pc[g] = "ackpeek" /\ ids'[g] = ids[g]
    BY <1>1, <1>2, <2>1 DEF AckAsked, Known
  <2>2. ASSUME NEW d \in Event, StartAck(g, d)
        PROVE  ref'[e] \in asked' \cup {NoFile}
    <3>1. d \in inbox /\ wanted = {} /\ ids'[g] = {d} /\ ref' = ref
      BY <2>2 DEF StartAck, TypeOK, store
    <3> QED  BY <1>1, <1>2, <3>1 DEF InboxAsked
  <2>3. PeekQueue(g) \/ AckPeek(g) => pc'[g] \in {"peeked", "ackdelete"}
    BY DEF PeekQueue, AckPeek, Goto, TypeOK
  <2> QED  BY <1>2, <2>1, <2>2, <2>3, HandlerMoves
<1>3. ASSUME NEW g \in Handler, pc'[g] \in {"ackdelete", "ackclean"}
      PROVE  refs'[g] \subseteq asked'
  <2>1. CASE pc[g] \in {"ackdelete", "ackclean"} /\ refs'[g] = refs[g]
    BY <1>1, <2>1 DEF AckAsked
  <2>2. CASE AckPeek(g)
    <3>1. /\ refs'[g] = RefsOf(ids[g] \cap Oldest(AckLimit, queue))
          /\ \A e \in ids[g] : ref[e] \in asked \cup {NoFile}
      BY <2>2 DEF AckPeek, TypeOK, AckAsked
    <3> QED  BY <1>1, <3>1 DEF RefsOf
  <2>3. PeekQueue(g) \/ (\E d \in Event : StartAck(g, d)) => pc'[g] \in {"peeked", "ackpeek"}
    BY DEF PeekQueue, StartAck, Request, Goto, TypeOK
  <2>4. AckDelete(g) => pc[g] = "ackdelete"
    BY DEF AckDelete
  <2>5. TakeRows(g) \/ CleanFiles(g) => pc'[g] \in {"clean", "reply"}
    BY DEF TakeRows, CleanFiles, Goto, TypeOK
  <2> QED  BY <1>3, <2>1, <2>2, <2>3, <2>4, <2>5, HandlerMoves
<1> QED  BY <1>2, <1>3 DEF AckAsked

\* How files come and go.
LEMMA FileMoves ==
    ASSUME [Next]_vars
    PROVE  \/ files' = files /\ old \subseteq old'
           \/ \E f \in File : StoreFile(f)
           \/ \E h \in Handler : CleanFiles(h) \/ AckClean(h)
           \/ SweepFile
<1>1. CASE EnqueueStep \/ Restart \/ LoseConnection \/ UNCHANGED vars
  BY <1>1 DEF EnqueueStep, Park, Fire, Insert, Restart, LoseConnection, vars, store
<1>2. CASE ClientStep \/ (\E f \in File : Age(f)) \/ \E e \in Event : Notify(e)
  BY <1>2 DEF ClientStep, StartPoll, Download, StartAck, Age, Notify, store
<1>3. CASE SweepStep
  BY <1>3 DEF SweepStep, StartSweep, RewriteEvents, store
<1>4. ASSUME NEW h \in Handler, PollStep(h) \/ AckStep(h)
      PROVE  (files' = files /\ old' = old) \/ CleanFiles(h) \/ AckClean(h)
  BY <1>4 DEF PollStep, PeekQueue, AwaitWakeup, TakeRows, Deadline, Reply, ReplyToNobody, AckStep,
              AckPeek, AckDelete, store
<1> QED  BY <1>1, <1>2, <1>3, <1>4 DEF Next

\* Nothing is known at first.
LEMMA InitHInv == Init => HInv
<1> SUFFICES ASSUME Init PROVE HInv
  OBVIOUS
<1> QED
  BY DEF Init, HInv, Known, Carried, HeldOldest, AckCarried, InboxAsked, AckAsked

\* With acks or without, answers and acks carry the attachments of their events.
THEOREM HoldingInvariance == Spec => []HInv
<1>1. CInv /\ HInv /\ [Next]_vars => HInv'
  BY StepHeldKnown, StepCarried, StepHeldOldest, StepAckCarried, StepInbox, StepAckAsked
     DEF HInv, CInv
<1> QED  BY InitHInv, <1>1, CoherenceInvariance, PTL DEF Spec

--------------------------------------------------------------------------------
(* Attachments are held until they are asked for, and never forgotten *)

\* A file that goes is cleaned by an ack, which is for what was asked, or swept.
LEMMA StepHeld ==
    ASSUME CInv, DInv, HInv, [Next]_vars, NEW f \in files \ files'
    PROVE  f \in asked \/ f \in old
<1>1. AckAsked /\ SweepOld /\ AcksGot
  BY DEF CInv, HInv, DInv
<1>2. ASSUME NEW h \in Handler, CleanFiles(h)
      PROVE  FALSE
  BY <1>1, <1>2 DEF CleanFiles, AcksGot
<1>3. ASSUME NEW h \in Handler, AckClean(h)
      PROVE  f \in asked
  BY <1>1, <1>3 DEF AckClean, DeleteFiles, AckAsked
<1>4. CASE SweepFile
  BY <1>1, <1>4 DEF SweepFile, DeleteFiles, SweepOld
<1>5. ASSUME NEW g \in File, StoreFile(g)
      PROVE  FALSE
  BY <1>5 DEF StoreFile
<1> QED  BY <1>2, <1>3, <1>4, <1>5, FileMoves

\* "held on disk ... until they have been successfully sent or received": a
\* gateway that requires acks removes a file after the client asked for it, or
\* when it is old, however requests overlap, connections are lost and the
\* server restarts.
THEOREM FilesHeld ==
    ASSUME RequireAck
    PROVE  Spec => HeldUntilAsked
<1>1. CInv /\ DInv /\ HInv /\ [Next]_vars => [\A f \in files \ files' : f \in asked \/ f \in old]_vars
  BY StepHeld
<1>2. Spec => []DInv
  BY DeliveryInvariance
<1> QED  BY CoherenceInvariance, HoldingInvariance, <1>1, <1>2, PTL DEF Spec, HeldUntilAsked

\* A row goes when an ack deletes it, or an answer that needs no ack.
LEMMA QueueMoves ==
    ASSUME [Next]_vars
    PROVE  queue \subseteq queue' \/ \E h \in Handler : AckDelete(h) \/ (TakeRows(h) /\ ~RequireAck)
<1>1. CASE EnqueueStep \/ Restart \/ LoseConnection \/ UNCHANGED vars
  BY <1>1 DEF EnqueueStep, StoreFile, Park, Fire, Insert, Restart, LoseConnection, vars, store
<1>2. CASE ClientStep \/ (\E f \in File : Age(f)) \/ \E e \in Event : Notify(e)
  BY <1>2 DEF ClientStep, StartPoll, Download, StartAck, Age, Notify, store
<1>3. CASE SweepStep
  BY <1>3 DEF SweepStep, StartSweep, RewriteEvents, SweepFile, DeleteFiles, store
<1>4. ASSUME NEW h \in Handler, PollStep(h) \/ AckStep(h)
      PROVE  queue' = queue \/ AckDelete(h) \/ (TakeRows(h) /\ ~RequireAck)
  BY <1>4 DEF PollStep, PeekQueue, AwaitWakeup, TakeRows, CleanFiles, Deadline, Reply, ReplyToNobody, AckStep,
              AckPeek, AckClean, DeleteFiles, store
<1> QED  BY <1>1, <1>2, <1>3, <1>4 DEF Next

\* What a row references changes by the sweep only, and who holds a file for an
\* event gives it to another or to a new row.
LEMMA RefMoves ==
    ASSUME TypeOK, [Next]_vars, ~Restart
    PROVE  \/ ref' = ref /\ \A f \in File : holder[f] # "nobody" => holder'[f] # "nobody"
           \/ \E f \in File \cup {NoFile} : Insert(f)
           \/ RewriteEvents
<1>1. CASE EnqueueStep \/ LoseConnection \/ UNCHANGED vars
  BY <1>1 DEF EnqueueStep, StoreFile, Park, Fire, Hold, LoseConnection, vars, store, gather, TypeOK
<1>2. CASE ClientStep \/ (\E f \in File : Age(f)) \/ \E e \in Event : Notify(e)
  BY <1>2 DEF ClientStep, StartPoll, Download, StartAck, Age, Notify, store, gather
<1>3. CASE SweepStep
  BY <1>3 DEF SweepStep, StartSweep, SweepFile, DeleteFiles, store, gather
<1>4. ASSUME NEW h \in Handler, PollStep(h) \/ AckStep(h)
      PROVE  ref' = ref /\ holder' = holder
  BY <1>4 DEF PollStep, PeekQueue, AwaitWakeup, TakeRows, CleanFiles, Deadline, Reply, ReplyToNobody, AckStep,
              AckPeek, AckDelete, AckClean, DeleteFiles, store, gather
<1> QED  BY <1>1, <1>2, <1>3, <1>4 DEF Next

\* A handler that holds attachments it is to delete keeps them until it does.
LEMMA CleanMoves ==
    ASSUME TypeOK, [Next]_vars, ~Restart, NEW g \in Handler, pc[g] \in {"clean", "ackdelete", "ackclean"}
    PROVE  \/ pc'[g] \in {"clean", "ackdelete", "ackclean"} /\ refs'[g] = refs[g]
           \/ CleanFiles(g) \/ AckClean(g)
<1> USE DEF TypeOK, Goto, handle
<1>1. ASSUME NEW h \in Handler, PollStep(h)
      PROVE  (pc'[g] = pc[g] /\ refs'[g] = refs[g]) \/ CleanFiles(g)
  BY <1>1 DEF PollStep, PeekQueue, AwaitWakeup, TakeRows, CleanFiles, Deadline, Reply, ReplyToNobody, Finish
<1>2. ASSUME NEW h \in Handler, AckStep(h)
      PROVE  \/ pc'[g] \in {"clean", "ackdelete", "ackclean"} /\ refs'[g] = refs[g]
             \/ AckClean(g)
  BY <1>2 DEF AckStep, AckPeek, AckDelete, AckClean, Finish
<1>3. CASE ClientStep \/ LoseConnection
  BY <1>3 DEF ClientStep, StartPoll, StartAck, Request, Download, LoseConnection
<1>4. CASE EnqueueStep \/ SweepStep \/ \E f \in File : Age(f)
  BY <1>4 DEF EnqueueStep, StoreFile, Park, Fire, Insert, SweepStep, StartSweep, RewriteEvents, SweepFile, Age
<1>5. CASE \E e \in Event : Notify(e)
  BY <1>5 DEF Notify
<1>6. CASE UNCHANGED vars
  BY <1>6 DEF vars
<1> QED  BY <1>1, <1>2, <1>3, <1>4, <1>5, <1>6 DEF Next

\* A sweep that has rewritten the events goes on to remove the file.
LEMMA SweepGoesOn ==
    ASSUME [Next]_vars, ~Restart, spc = "delete"
    PROVE  (spc' = spc /\ expiring' = expiring) \/ SweepFile
<1>1. CASE EnqueueStep \/ LoseConnection \/ UNCHANGED vars \/ SweepStep
  BY <1>1 DEF EnqueueStep, StoreFile, Park, Fire, Insert, LoseConnection, vars, SweepStep, StartSweep, RewriteEvents, sweep
<1>2. CASE ClientStep \/ (\E f \in File : Age(f)) \/ \E e \in Event : Notify(e)
  BY <1>2 DEF ClientStep, StartPoll, Download, StartAck, Age, Notify, sweep
<1>3. ASSUME NEW h \in Handler, PollStep(h) \/ AckStep(h)
      PROVE  spc' = spc /\ expiring' = expiring
  BY <1>3 DEF PollStep, PeekQueue, AwaitWakeup, TakeRows, CleanFiles, Deadline, Reply, ReplyToNobody, AckStep,
              AckPeek, AckDelete, AckClean, sweep
<1> QED  BY <1>1, <1>2, <1>3 DEF Next

\* A file that is accounted for is, after a step, or is gone.
LEMMA StepAccounted ==
    ASSUME TypeOK, HInv, [Next]_vars, ~Restart, NEW f \in files', Accounted(f) \/ f \notin files
    PROVE  Accounted(f)'
<1>1. Carried /\ AckCarried /\ queue \subseteq Event
  BY QueueType DEF HInv
<1>2. CASE f \notin files
  <2>1. PICK g \in File : StoreFile(g)
    BY <1>2, FileMoves DEF CleanFiles, AckClean, SweepFile, DeleteFiles
  <2>2. f = g /\ holder'[f] # "nobody"
    BY <1>2, <2>1 DEF StoreFile, Hold, TypeOK
  <2> QED  BY <2>2 DEF Accounted
<1>3. f \in files => f \in File /\ f # NoFile
  BY GatewayQueueAssumption DEF TypeOK
<1>4. CASE holder[f] # "nobody" /\ f \in files
  <2>1. RewriteEvents => holder' = holder
    BY DEF RewriteEvents, gather
  <2>2. ASSUME NEW g \in File \cup {NoFile}, Insert(g), holder'[f] = "nobody"
        PROVE  next \in queue' /\ ref'[next] = f
    BY <1>3, <1>4, <2>2 DEF Insert, TypeOK
  <2> QED  BY <1>3, <1>4, <2>1, <2>2, RefMoves DEF Accounted
<1>5. ASSUME NEW e \in queue, ref[e] = f, f \in files
      PROVE  Accounted(f)'
  <2>1. CASE e \in queue' /\ ref'[e] = f
    BY <2>1 DEF Accounted
  <2>2. CASE RewriteEvents
    <3>1. spc' = "delete" /\ expiring' = expiring /\ queue' = queue
          /\ \A d \in Event : ref'[d] = IF d \in queue /\ ref[d] = expiring THEN NoFile ELSE ref[d]
      BY <2>2 DEF RewriteEvents
    <3>2. ref'[e] # f => f = expiring
      BY <1>1, <1>5, <3>1
    <3> QED  BY <2>1, <3>1, <3>2 DEF Accounted
  <2>3. ASSUME NEW g \in File \cup {NoFile}, Insert(g)
        PROVE  e \in queue' /\ ref'[e] = f
    <3>1. e # next
      <4>1. next \in Nat /\ e \in 1..(next - 1)
        BY GatewayQueueAssumption DEF TypeOK
      <4> QED  BY <4>1
    <3> QED  BY <1>1, <1>5, <2>3, <3>1 DEF Insert, TypeOK
  <2>4. CASE ref' = ref /\ e \notin queue'
    <3>1. PICK h \in Handler : AckDelete(h) \/ (TakeRows(h) /\ ~RequireAck)
      BY <2>4, QueueMoves
    <3>2. /\ pc'[h] \in {"clean", "ackclean"} /\ refs'[h] = refs[h] /\ e \in ids[h]
          /\ pc[h] \in {"peeked", "ackdelete"}
      BY <2>4, <3>1 DEF AckDelete, TakeRows, Goto, TypeOK
    <3>3. f \in refs'[h]
      BY <1>1, <1>3, <1>5, <3>2 DEF Carried, AckCarried
    <3> QED  BY <3>2, <3>3 DEF Accounted
  <2> QED  BY <1>5, <2>1, <2>2, <2>3, <2>4, RefMoves
<1>6. ASSUME NEW h \in Handler, pc[h] \in {"clean", "ackdelete", "ackclean"}, f \in refs[h]
      PROVE  Accounted(f)'
  <2>1. ~CleanFiles(h) /\ ~AckClean(h)
    BY <1>6 DEF CleanFiles, AckClean, DeleteFiles
  <2> QED  BY <1>6, <2>1, CleanMoves DEF Accounted
<1>7. CASE spc = "delete" /\ f = expiring
  <2>1. ~SweepFile
    BY <1>7 DEF SweepFile, DeleteFiles
  <2> QED  BY <1>7, <2>1, SweepGoesOn DEF Accounted
<1> QED  BY <1>2, <1>4, <1>5, <1>6, <1>7 DEF Accounted

\* "a leftover should not happen in normal operation": with acks or without,
\* no step but a restart makes a leftover.
THEOREM NoLeftovers == Spec => NoLeftover
<1>1. TypeOK /\ HInv /\ [Next]_vars =>
        [Restart \/ \A f \in files' : Accounted(f)' \/ (f \in files /\ ~Accounted(f))]_vars
  BY StepAccounted
<1> QED  BY TypeCorrect, HoldingInvariance, <1>1, PTL DEF Spec, NoLeftover

--------------------------------------------------------------------------------
(* Without acks, nothing is handed over twice *)

\* What an answer took is not queued any more, ...
TakenGone == \A h \in Handler : pc[h] \in {"clean", "reply"} => ids[h] \cap queue = {}

\* ... nor is what was handed over ...
GotGone == got \cap queue = {}

\* ... and the request the client waits for read what it has not got.
ConnFresh == conn # NoHandler /\ pc[conn] \in {"peeked", "clean", "reply"} => ids[conn] \cap got = {}

OnceInv == TakenGone /\ GotGone /\ ConnFresh

\* The client waits for a request it just made, the same, or none.
LEMMA ConnMoves ==
    ASSUME TypeOK, [Next]_vars
    PROVE  conn' \in {conn, NoHandler} \/ (conn' \in Handler /\ pc'[conn'] \in {"peek", "ackpeek"})
<1> USE DEF TypeOK, Goto, Request
<1>1. CASE EnqueueStep \/ Restart \/ LoseConnection \/ UNCHANGED vars \/ SweepStep
  BY <1>1 DEF EnqueueStep, StoreFile, Park, Fire, Insert, Restart, LoseConnection, vars, SweepStep, StartSweep, RewriteEvents,
              SweepFile, client
<1>2. CASE (\E f \in File : Download(f) \/ Age(f)) \/ \E e \in Event : Notify(e)
  BY <1>2 DEF Download, Age, Notify, client
<1>3. ASSUME NEW h \in Handler, StartPoll(h) \/ \E e \in Event : StartAck(h, e)
      PROVE  conn' \in Handler /\ pc'[conn'] \in {"peek", "ackpeek"}
  BY <1>3 DEF StartPoll, StartAck
<1>4. ASSUME NEW h \in Handler, PollStep(h) \/ AckStep(h)
      PROVE  conn' \in {conn, NoHandler}
  BY <1>4 DEF PollStep, PeekQueue, AwaitWakeup, TakeRows, CleanFiles, Deadline, Reply, ReplyToNobody, AckStep,
              AckPeek, AckDelete, AckClean, Answered, client
<1> QED  BY <1>1, <1>2, <1>3, <1>4 DEF Next, ClientStep

\* A row that is not queued is never queued again.
LEMMA GoneForGood ==
    ASSUME TypeOK, [Next]_vars, NEW rows \in SUBSET (1..(next - 1)), rows \cap queue = {}
    PROVE  rows \cap queue' = {}
<1>1. /\ next \in Nat \ {0}
      /\ queue' \subseteq queue \cup {next}
  BY RowMoves
<1>2. next \notin rows
  BY <1>1
<1> QED  BY <1>1, <1>2

\* An answer takes its rows before it is sent.
LEMMA StepTakenGone ==
    ASSUME ~RequireAck, TypeOK, Known, TakenGone, [Next]_vars
    PROVE  TakenGone'
<1>1. SUFFICES ASSUME NEW g \in Handler, pc'[g] \in {"clean", "reply"}
               PROVE  ids'[g] \cap queue' = {}
  BY DEF TakenGone
<1>2. CASE ids'[g] = ids[g] /\ pc[g] \in {"clean", "reply"}
  BY <1>2, GoneForGood DEF TakenGone, Known
<1>3. CASE TakeRows(g)
  BY <1>3 DEF TakeRows
<1>4. CleanFiles(g) => pc[g] = "clean"
  BY DEF CleanFiles
<1>5. PeekQueue(g) \/ AckPeek(g) \/ AckDelete(g) \/ (\E d \in Event : StartAck(g, d))
        => pc'[g] \in {"peeked", "ackpeek", "ackdelete", "ackclean"}
  BY DEF PeekQueue, AckPeek, AckDelete, StartAck, Request, Goto, TypeOK
<1> QED  BY <1>1, <1>2, <1>3, <1>4, <1>5, HandlerMoves

\* What is answered was taken.
LEMMA StepGotGone ==
    ASSUME TypeOK, Known, TakenGone, GotGone, [Next]_vars
    PROVE  GotGone'
<1>1. got \cap queue' = {}
  BY GoneForGood DEF GotGone, Known
<1>2. ASSUME NEW h \in Handler, Reply(h)
      PROVE  got' \cap queue' = {}
  <2>1. got' = got \cup ids[h] /\ pc[h] = "reply" /\ queue' = queue
    BY <1>2 DEF Reply, store
  <2> QED  BY <1>1, <2>1 DEF TakenGone
<1> QED  BY <1>1, <1>2, ClientMoves DEF GotGone

\* A request reads what is queued, and no other is answered meanwhile.
LEMMA StepConnFresh ==
    ASSUME TypeOK, GotGone, ConnFresh, [Next]_vars
    PROVE  ConnFresh'
<1>1. SUFFICES ASSUME conn' # NoHandler, pc'[conn'] \in {"peeked", "clean", "reply"}
               PROVE  ids'[conn'] \cap got' = {}
  BY DEF ConnFresh
<1>2. conn' = conn /\ conn \in Handler /\ conn # NoHandler
  BY <1>1, ConnMoves DEF TypeOK
<1>3. got' = got
  <2>1. ASSUME NEW h \in Handler, Reply(h)
        PROVE  FALSE
    BY <1>1, <2>1 DEF Reply
  <2> QED  BY <2>1, ClientMoves
<1>4. CASE ids'[conn] = ids[conn] /\ pc[conn] \in {"peeked", "clean", "reply"}
  BY <1>2, <1>3, <1>4 DEF ConnFresh
<1>5. CASE PeekQueue(conn)
  <2>1. ids'[conn] \subseteq queue
    BY <1>2, <1>5, OldestRows DEF PeekQueue, TypeOK
  <2> QED  BY <1>2, <1>3, <2>1 DEF GotGone
<1>6. TakeRows(conn) \/ CleanFiles(conn) => pc[conn] \in {"peeked", "clean"}
  BY DEF TakeRows, CleanFiles
<1>7. AckPeek(conn) \/ AckDelete(conn) \/ (\E d \in Event : StartAck(conn, d))
        => pc'[conn] \in {"ackpeek", "ackdelete", "ackclean"}
  BY <1>2 DEF AckPeek, AckDelete, StartAck, Request, Goto, TypeOK
<1> QED  BY <1>1, <1>2, <1>4, <1>5, <1>6, <1>7, HandlerMoves

\* A gateway without acks takes what it hands over.
THEOREM OnceInvariance ==
    ASSUME ~RequireAck
    PROVE  Spec => []OnceInv
<1>1. Init => OnceInv
  BY DEF Init, OnceInv, TakenGone, GotGone, ConnFresh
<1>2. TypeOK /\ HInv /\ OnceInv /\ [Next]_vars => OnceInv'
  BY StepTakenGone, StepGotGone, StepConnFresh DEF HInv, OnceInv
<1> QED  BY <1>1, <1>2, TypeCorrect, HoldingInvariance, PTL DEF Spec

\* "delivered events are ... deleted as they are returned": without acks, the
\* client never gets an event twice, though a handler whose connection is lost
\* reads the same rows as the one that answers.
THEOREM DeliversOnce ==
    ASSUME ~RequireAck
    PROVE  Spec => DeliveredOnce
<1>1. OnceInv => [\A h \in Handler : Reply(h) => ids[h] \cap got = {}]_vars
  <2>1. ASSUME OnceInv, NEW h \in Handler, Reply(h)
        PROVE  ids[h] \cap got = {}
    <3>1. conn = h /\ conn # NoHandler /\ pc[conn] = "reply"
      BY <2>1, GatewayQueueAssumption DEF Reply
    <3> QED  BY <2>1, <3>1 DEF OnceInv, ConnFresh
  <2> QED  BY <2>1
<1> QED  BY OnceInvariance, <1>1, PTL DEF DeliveredOnce
================================================================================
