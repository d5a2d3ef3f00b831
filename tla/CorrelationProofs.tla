--------------------------- MODULE CorrelationProofs ---------------------------
(***************************************************************************)
(* Theorems about Correlation, for any set of Discord happenings, any      *)
(* dependencies between them and any bounds.                               *)
(***************************************************************************)
EXTENDS Correlation, TLAPS

\* Where the handler of each kind of unit can be.
KindInv ==
    /\ \A u \in Unit : pc[u] \in {"enqueue", "register"} => u \in Message
    /\ \A u \in Unit : pc[u] \in {"apply", "unmap", "missed", "dropped"} => u \notin Message
    /\ \A u \in Unit : KindOf[u] = "message" =>
          pc[u] \in {"idle", "enqueue", "register", "done", "lost"}
    /\ \A u \in Unit : pc[u] = "gather" => due[u] # NoEvent

\* Events are handed out in order, one per unit, and never before "enqueue".
EventInv ==
    /\ \A u \in Unit : eventOf[u] < nextEvent
    /\ \A u, v \in Unit : eventOf[u] = eventOf[v] /\ eventOf[u] # NoEvent => u = v
    /\ \A u \in Unit : eventOf[u] # NoEvent => pc[u] \in {"register", "done", "unmap", "lost"}
    /\ \A u \in Unit : pc[u] = "register" => eventOf[u] # NoEvent
    /\ \A m \in Message : pc[m] = "done" => eventOf[m] # NoEvent

\* A finish_mapping item holds a registered message and its own event.
FinishInv ==
    \A it \in pending : it.kind = "finish_mapping" =>
        /\ it.unit \in Message
        /\ eventOf[it.unit] = it.event
        /\ pc[it.unit] = "done"

\* What happens to a message's mapping is over: its work has been taken.
Finished(m) == pc[m] = "done" /\ \A it \in pending : ~(it.kind = "finish_mapping" /\ it.unit = m)

\* Rows, and targets found among them, are those of finished messages.
MapInv ==
    /\ \A r \in map : Finished(r.dc)
    /\ \A u \in Unit : KindOf[u] = "delete" /\ pc[u] \in {"apply", "unmap", "done"}
                          => Finished(DepOf[u])

IInv ==
    /\ TypeOK
    /\ KindInv
    /\ EventInv
    /\ FinishInv
    /\ ParkedIffPending
    /\ AwaitingIffPending
    /\ MapSound
    /\ MapInv
    /\ MappingKept
    /\ TargetSound
    /\ DeletedStaysUnmapped

--------------------------------------------------------------------------------
(* Facts about the constants and the helpers *)

\* Every action and every reply depends on a message.
LEMMA DepIsMessage == \A u \in Unit : KindOf[u] # "message" => DepOf[u] \in Message
  BY UnitAssumption

\* The rows a correlation leaves are the old rows and, for each item of the
\* event, a row from each reported id to the item's message.
LEMMA StoredRows ==
  ASSUME NEW its, NEW ids, NEW r \in StoreRows(its, ids)
  PROVE  \/ r \in map
         \/ \E it \in its : /\ it.kind = "finish_mapping"
                           /\ r \in [tg : ids, dc : {it.unit}]
<1> DEFINE mapped == {it.unit : it \in {i \in its : i.kind = "finish_mapping"}}
<1>1. CASE mapped = {}
  BY <1>1 DEF StoreRows
<1>2. CASE mapped # {} /\ r \notin map
  <2>1. r \in [tg : ids, dc : mapped]
    BY <1>2 DEF StoreRows
  <2>2. PICK it \in its : it.kind = "finish_mapping" /\ r.dc = it.unit
    BY <2>1
  <2> QED
    BY <2>1, <2>2
<1> QED
  BY <1>1, <1>2


\* A correlation fires parked units only.
LEMMA CorrelationFires ==
  ASSUME TypeOK, ParkedIffPending, NEW e \in Event, NEW ids, RecordCorrelation(e, ids),
         NEW u \in Unit
  PROVE  pc'[u] = pc[u] \/ (pc[u] = "parked" /\ pc'[u] = "exec")
BY DEF RecordCorrelation, Fire, Parked, Below, ItemsOf, ParkedIffPending, TypeOK

\* The staleness sweep fires parked units only.
LEMMA SweepFires ==
  ASSUME TypeOK, ParkedIffPending, SweepStale, NEW u \in Unit
  PROVE  pc'[u] = pc[u] \/ (pc[u] = "parked" /\ pc'[u] = "exec")
BY DEF SweepStale, Fire, Parked, StaleReplies, ParkedIffPending, TypeOK

--------------------------------------------------------------------------------
(* Each step preserves each part of the inductive invariant *)

\* Parking a unit on an event keeps the types of what it changes.
LEMMA ParkOnType ==
    ASSUME TypeOK, NEW u \in Unit, NEW e \in Event, ParkOn(u, e)
    PROVE  /\ pending' \subseteq Item /\ pending \subseteq pending'
           /\ due' \in [Unit -> Event \cup {NoEvent}]
           /\ pc' \in [Unit -> PCs]
<1>1. PerformAction(e, u) \in Item
  BY DEF PerformAction, Item
<1> QED  BY <1>1 DEF ParkOn, TypeOK, Goto, PCs

\* Type correctness.
LEMMA TypeStep == IInv /\ [Next]_vars => TypeOK'
<1> SUFFICES ASSUME IInv, [Next]_vars PROVE TypeOK'
  OBVIOUS
<1> USE UnitAssumption, BoundAssumption DEF IInv, TypeOK
<1>1. ASSUME NEW u \in Unit, Arrive(u) PROVE TypeOK'
  BY <1>1 DEF Arrive, Goto, local, store, PCs, InFlight, Settled, NoEvent, Event
<1>2. ASSUME NEW u \in Unit, LookupDep(u) PROVE TypeOK'
  BY <1>2 DEF LookupDep, Goto, local, store, PCs, InFlight, Settled, NoEvent, Event
<1>3. ASSUME NEW u \in Unit, ExecuteNow(u) PROVE TypeOK'
  BY <1>3 DEF ExecuteNow, Goto, local, store, PCs, InFlight, Settled, NoEvent, Event
<1>4. ASSUME NEW u \in Unit, ParkAction(u) PROVE TypeOK'
  <2>1. DepOf[u] \in Message
    BY <1>4, DepIsMessage DEF ParkAction, KindInv, Reply, InFlight
  <2>2. awaiting[DepOf[u]] \in Event
    BY <1>4, <2>1 DEF ParkAction, CanPark
  <2>3. ParkOn(u, awaiting[DepOf[u]])
    BY <1>4 DEF ParkAction
  <2> QED  BY <1>4, <2>1, <2>2, <2>3, ParkOnType DEF ParkAction
<1>5. ASSUME NEW u \in Unit, DropAction(u) PROVE TypeOK'
  BY <1>5 DEF DropAction, Goto, local, store, PCs, InFlight, Settled, NoEvent, Event
<1>6. ASSUME NEW u \in Unit, ParkReply(u) PROVE TypeOK'
  <2>1. DepOf[u] \in Message
    BY <1>6, DepIsMessage DEF ParkReply, KindInv, Reply, InFlight
  <2>2. awaiting[DepOf[u]] \in Event
    BY <1>6, <2>1 DEF ParkReply, CanPark
  <2>3. ParkOn(u, awaiting[DepOf[u]])
    BY <1>6 DEF ParkReply
  <2> QED  BY <1>6, <2>1, <2>2, <2>3, ParkOnType DEF ParkReply
<1>7. ASSUME NEW u \in Unit, GatherFiles(u) PROVE TypeOK'
  BY <1>7, DepIsMessage DEF GatherFiles, Goto, local, store, PCs, InFlight, Reply
<1>8. ASSUME NEW u \in Unit, ParkGathered(u) PROVE TypeOK'
  <2>1. due[u] \in Event
    BY <1>8 DEF ParkGathered, KindInv, NoEvent
  <2>2. ParkOn(u, due[u])
    BY <1>8 DEF ParkGathered
  <2> QED  BY <1>8, <2>1, <2>2, ParkOnType DEF ParkGathered
<1>9. ASSUME NEW u \in Unit, SendUnthreaded(u) PROVE TypeOK'
  BY <1>9 DEF SendUnthreaded, Goto, local, store, PCs, InFlight, Settled, NoEvent, Event
<1>10. ASSUME NEW u \in Unit, ResolveReply(u) PROVE TypeOK'
  BY <1>10 DEF ResolveReply, Goto, local, store, PCs, InFlight, IdsOf, RowsOf, Row
<1>11. ASSUME NEW u \in Unit, ResolveTarget(u) PROVE TypeOK'
  BY <1>11 DEF ResolveTarget, Goto, local, store, PCs, InFlight, IdsOf, RowsOf, Row
<1>12. ASSUME NEW u \in Unit, MissTarget(u) PROVE TypeOK'
  BY <1>12 DEF MissTarget, Goto, local, store, PCs, InFlight, Settled, NoEvent, Event
<1>13. ASSUME NEW u \in Unit, EnqueueMessage(u) PROVE TypeOK'
  BY <1>13 DEF EnqueueMessage, EnqueueOutbound, Goto, local, store, PCs, InFlight, Settled, NoEvent, Event
<1>14. ASSUME NEW u \in Unit, RegisterPendingMapping(u) PROVE TypeOK'
  BY <1>14 DEF RegisterPendingMapping, Goto, local, store, PCs, Settled, KindInv, EventInv, Item, FinishMapping, NoEvent, Event
<1>15. ASSUME NEW u \in Unit, ApplyAction(u) PROVE TypeOK'
  BY <1>15 DEF ApplyAction, EnqueueOutbound, Goto, local, store, PCs, InFlight, Settled, NoEvent, Event
<1>16. ASSUME NEW u \in Unit, FailEdit(u) PROVE TypeOK'
  BY <1>16 DEF FailEdit, Goto, local, store, PCs, InFlight, Settled, NoEvent, Event
<1>17. ASSUME NEW u \in Unit, DeleteRows(u) PROVE TypeOK'
  BY <1>17 DEF DeleteRows, Goto, local, store, PCs, InFlight, Settled, NoEvent, Event
<1>18. ASSUME NEW e \in Event, NEW ids \in Reports(e), RecordCorrelation(e, ids) PROVE TypeOK'
  <2>1. ids \subseteq TgId
    BY DEF Reports, TgIdsOf, TgId, Event
  <2>2. map' \subseteq Row
    <3> SUFFICES ASSUME NEW r \in map' PROVE r \in Row
      OBVIOUS
    <3>1. r \in map \/ \E it \in ItemsOf(e) : /\ it.kind = "finish_mapping"
                                           /\ r \in [tg : ids, dc : {it.unit}]
      BY <1>18, StoredRows DEF RecordCorrelation
    <3> QED
      BY <2>1, <3>1 DEF ItemsOf, Row, FinishInv
  <2>3. registry' \in [Event -> SUBSET TgId]
    BY <1>18, <2>1 DEF RecordCorrelation
  <2> QED
    BY <1>18, <2>2, <2>3 DEF RecordCorrelation, Fire, local, store, PCs, InFlight, NoEvent, Event
<1>19. CASE Age
  BY <1>19 DEF Age, local
<1>20. CASE SweepStale
  BY <1>20 DEF SweepStale, Fire, StaleReplies, local, PCs, InFlight
<1>21. CASE Restart
  BY <1>21 DEF Restart, local, store, PCs, Settled
<1>22. CASE UNCHANGED vars
  BY <1>22 DEF vars, local, store
<1> QED
  BY <1>1, <1>2, <1>3, <1>4, <1>5, <1>6, <1>7, <1>8, <1>9, <1>10, <1>11, <1>12, <1>13, <1>14, <1>15, <1>16, <1>17, <1>18, <1>19, <1>20, <1>21, <1>22 DEF Next, Running, HandlerStep, Correlate

\* Handlers stay where their kind allows.
LEMMA KindStep == IInv /\ [Next]_vars => KindInv'
<1> SUFFICES ASSUME IInv, [Next]_vars PROVE KindInv'
  OBVIOUS
<1> USE DEF IInv
<1>0. TypeOK /\ TypeOK'
  BY TypeStep
<1>1. ASSUME NEW u \in Unit, Arrive(u) PROVE KindInv'
  BY <1>1, <1>0, UnitAssumption DEF Arrive, Goto, local, store, Message, Reply, TypeOK, KindInv
<1>2. ASSUME NEW u \in Unit, LookupDep(u) PROVE KindInv'
  BY <1>2, <1>0, UnitAssumption DEF LookupDep, Goto, local, store, Message, Reply, TypeOK, KindInv
<1>3. ASSUME NEW u \in Unit, ExecuteNow(u) PROVE KindInv'
  BY <1>3, <1>0, UnitAssumption DEF ExecuteNow, Goto, local, store, Message, Reply, TypeOK, KindInv
<1>4. ASSUME NEW u \in Unit, ParkAction(u) PROVE KindInv'
  BY <1>4, <1>0, UnitAssumption DEF ParkAction, ParkOn, Goto, local, store, Message, Reply, TypeOK, KindInv
<1>5. ASSUME NEW u \in Unit, DropAction(u) PROVE KindInv'
  BY <1>5, <1>0, UnitAssumption DEF DropAction, Goto, local, store, Message, Reply, TypeOK, KindInv
<1>6. ASSUME NEW u \in Unit, ParkReply(u) PROVE KindInv'
  BY <1>6, <1>0, UnitAssumption DEF ParkReply, ParkOn, Goto, local, store, Message, Reply, TypeOK, KindInv
<1>7. ASSUME NEW u \in Unit, GatherFiles(u) PROVE KindInv'
  BY <1>7, <1>0, UnitAssumption DEF GatherFiles, CanPark, Goto, local, store, Message, Reply, TypeOK, KindInv
<1>8. ASSUME NEW u \in Unit, ParkGathered(u) PROVE KindInv'
  BY <1>8, <1>0, UnitAssumption DEF ParkGathered, ParkOn, Goto, local, store, Message, Reply, TypeOK, KindInv
<1>9. ASSUME NEW u \in Unit, SendUnthreaded(u) PROVE KindInv'
  BY <1>9, <1>0, UnitAssumption DEF SendUnthreaded, Goto, local, store, Message, Reply, TypeOK, KindInv
<1>10. ASSUME NEW u \in Unit, ResolveReply(u) PROVE KindInv'
  BY <1>10, <1>0, UnitAssumption DEF ResolveReply, Goto, local, store, Message, Reply, TypeOK, KindInv
<1>11. ASSUME NEW u \in Unit, ResolveTarget(u) PROVE KindInv'
  BY <1>11, <1>0, UnitAssumption DEF ResolveTarget, Goto, local, store, Message, Reply, TypeOK, KindInv
<1>12. ASSUME NEW u \in Unit, MissTarget(u) PROVE KindInv'
  BY <1>12, <1>0, UnitAssumption DEF MissTarget, Goto, local, store, Message, Reply, TypeOK, KindInv
<1>13. ASSUME NEW u \in Unit, EnqueueMessage(u) PROVE KindInv'
  BY <1>13, <1>0, UnitAssumption DEF EnqueueMessage, Goto, local, store, Message, Reply, TypeOK, KindInv
<1>14. ASSUME NEW u \in Unit, RegisterPendingMapping(u) PROVE KindInv'
  BY <1>14, <1>0, UnitAssumption DEF RegisterPendingMapping, Goto, local, store, Message, Reply, TypeOK, KindInv
<1>15. ASSUME NEW u \in Unit, ApplyAction(u) PROVE KindInv'
  BY <1>15, <1>0, UnitAssumption DEF ApplyAction, Goto, local, store, Message, Reply, TypeOK, KindInv
<1>16. ASSUME NEW u \in Unit, FailEdit(u) PROVE KindInv'
  BY <1>16, <1>0, UnitAssumption DEF FailEdit, Goto, local, store, Message, Reply, TypeOK, KindInv
<1>17. ASSUME NEW u \in Unit, DeleteRows(u) PROVE KindInv'
  BY <1>17, <1>0, UnitAssumption DEF DeleteRows, Goto, local, store, Message, Reply, TypeOK, KindInv
<1>18. ASSUME NEW e \in Event, NEW ids \in Reports(e), RecordCorrelation(e, ids) PROVE KindInv'
  <2>1. \A u \in Unit : pc'[u] = pc[u] \/ (pc[u] = "parked" /\ pc'[u] = "exec")
    BY <1>18, <1>0, CorrelationFires
  <2> QED
    BY <1>18, <1>0, <2>1, UnitAssumption DEF RecordCorrelation, local, Message, Reply, TypeOK, Below, ItemsOf, KindInv
<1>19. CASE Age
  BY <1>19, <1>0, UnitAssumption DEF Age, local, Message, Reply, TypeOK, KindInv
<1>20. CASE SweepStale
  <2>1. \A u \in Unit : pc'[u] = pc[u] \/ (pc[u] = "parked" /\ pc'[u] = "exec")
    BY <1>20, <1>0, SweepFires
  <2> QED
    BY <1>20, <1>0, <2>1, UnitAssumption DEF SweepStale, StaleReplies, local, Message, Reply, TypeOK, KindInv
<1>21. CASE Restart
  BY <1>21, <1>0, UnitAssumption DEF Restart, InFlight, local, store, Message, Reply, TypeOK, KindInv
<1>22. CASE UNCHANGED vars
  BY <1>22, <1>0 DEF vars, local, store, Message, Reply, TypeOK, KindInv
<1> QED
  BY <1>1, <1>2, <1>3, <1>4, <1>5, <1>6, <1>7, <1>8, <1>9, <1>10, <1>11, <1>12, <1>13, <1>14, <1>15, <1>16, <1>17, <1>18, <1>19, <1>20, <1>21, <1>22 DEF Next, Running, HandlerStep, Correlate

\* Events stay distinct, and go with the handlers' progress.
LEMMA EventStep == IInv /\ [Next]_vars => EventInv'
<1> SUFFICES ASSUME IInv, [Next]_vars PROVE EventInv'
  OBVIOUS
<1> USE DEF IInv
<1>0. TypeOK /\ TypeOK'
  BY TypeStep
<1>1. ASSUME NEW u \in Unit, Arrive(u) PROVE EventInv'
  BY <1>1, <1>0, UnitAssumption DEF Arrive, Goto, local, store, Message, Reply, TypeOK, EventInv, NoEvent, Event
<1>2. ASSUME NEW u \in Unit, LookupDep(u) PROVE EventInv'
  BY <1>2, <1>0, UnitAssumption DEF LookupDep, Goto, local, store, Message, Reply, TypeOK, EventInv, NoEvent, Event
<1>3. ASSUME NEW u \in Unit, ExecuteNow(u) PROVE EventInv'
  BY <1>3, <1>0, UnitAssumption DEF ExecuteNow, Goto, local, store, Message, Reply, TypeOK, EventInv, NoEvent, Event
<1>4. ASSUME NEW u \in Unit, ParkAction(u) PROVE EventInv'
  BY <1>4, <1>0, UnitAssumption DEF ParkAction, ParkOn, Goto, local, store, Message, Reply, TypeOK, EventInv, NoEvent, Event
<1>5. ASSUME NEW u \in Unit, DropAction(u) PROVE EventInv'
  BY <1>5, <1>0, UnitAssumption DEF DropAction, Goto, local, store, Message, Reply, TypeOK, EventInv, NoEvent, Event
<1>6. ASSUME NEW u \in Unit, ParkReply(u) PROVE EventInv'
  BY <1>6, <1>0, UnitAssumption DEF ParkReply, ParkOn, Goto, local, store, Message, Reply, TypeOK, EventInv, NoEvent, Event
<1>7. ASSUME NEW u \in Unit, GatherFiles(u) PROVE EventInv'
  BY <1>7, <1>0, UnitAssumption DEF GatherFiles, Goto, local, store, Message, Reply, TypeOK, EventInv, NoEvent, Event
<1>8. ASSUME NEW u \in Unit, ParkGathered(u) PROVE EventInv'
  BY <1>8, <1>0, UnitAssumption DEF ParkGathered, ParkOn, Goto, local, store, Message, Reply, TypeOK, EventInv, NoEvent, Event
<1>9. ASSUME NEW u \in Unit, SendUnthreaded(u) PROVE EventInv'
  BY <1>9, <1>0, UnitAssumption DEF SendUnthreaded, Goto, local, store, Message, Reply, TypeOK, EventInv, NoEvent, Event
<1>10. ASSUME NEW u \in Unit, ResolveReply(u) PROVE EventInv'
  BY <1>10, <1>0, UnitAssumption DEF ResolveReply, Goto, local, store, Message, Reply, TypeOK, EventInv, NoEvent, Event
<1>11. ASSUME NEW u \in Unit, ResolveTarget(u) PROVE EventInv'
  BY <1>11, <1>0, UnitAssumption DEF ResolveTarget, Goto, local, store, Message, Reply, TypeOK, EventInv, NoEvent, Event
<1>12. ASSUME NEW u \in Unit, MissTarget(u) PROVE EventInv'
  BY <1>12, <1>0, UnitAssumption DEF MissTarget, Goto, local, store, Message, Reply, TypeOK, EventInv, NoEvent, Event
<1>13. ASSUME NEW u \in Unit, EnqueueMessage(u) PROVE EventInv'
  BY <1>13, <1>0, UnitAssumption, BoundAssumption DEF EnqueueMessage, EnqueueOutbound, KindInv, Goto, local, store, Message, Reply, TypeOK, EventInv, NoEvent, Event
<1>14. ASSUME NEW u \in Unit, RegisterPendingMapping(u) PROVE EventInv'
  BY <1>14, <1>0, UnitAssumption DEF RegisterPendingMapping, Goto, local, store, Message, Reply, TypeOK, EventInv, NoEvent, Event
<1>15. ASSUME NEW u \in Unit, ApplyAction(u) PROVE EventInv'
  <2>1. eventOf' = [eventOf EXCEPT ![u] = nextEvent] /\ nextEvent' = nextEvent + 1
    BY <1>15 DEF ApplyAction, EnqueueOutbound
  <2>2. nextEvent \in Nat \ {0} /\ \A v \in Unit : eventOf[v] \in Nat
    BY <1>0, BoundAssumption DEF TypeOK, Event, NoEvent
  <2>3. u \notin Message /\ pc[u] = "apply"
    BY <1>15 DEF ApplyAction, KindInv
  <2>4. pc'[u] \in {"done", "unmap"} /\ \A v \in Unit \ {u} : pc'[v] = pc[v]
    BY <1>15, <1>0 DEF ApplyAction, Goto, TypeOK
  <2> QED
    BY <1>0, <2>1, <2>2, <2>3, <2>4 DEF EventInv, NoEvent, TypeOK, Message
<1>16. ASSUME NEW u \in Unit, FailEdit(u) PROVE EventInv'
  BY <1>16, <1>0, UnitAssumption DEF FailEdit, Goto, local, store, Message, Reply, TypeOK, EventInv, NoEvent, Event
<1>17. ASSUME NEW u \in Unit, DeleteRows(u) PROVE EventInv'
  BY <1>17, <1>0, UnitAssumption DEF DeleteRows, KindInv, Goto, local, store, Message, Reply, TypeOK, EventInv, NoEvent, Event
<1>18. ASSUME NEW e \in Event, NEW ids \in Reports(e), RecordCorrelation(e, ids) PROVE EventInv'
  <2>1. \A u \in Unit : pc'[u] = pc[u] \/ (pc[u] = "parked" /\ pc'[u] = "exec")
    BY <1>18, <1>0, CorrelationFires
  <2>2. eventOf' = eventOf /\ nextEvent' = nextEvent
    BY <1>18 DEF RecordCorrelation
  <2> QED
    BY <1>0, <2>1, <2>2 DEF Message, EventInv
<1>19. CASE Age
  BY <1>19, <1>0, UnitAssumption DEF Age, local, Message, Reply, TypeOK, EventInv, NoEvent, Event
<1>20. CASE SweepStale
  <2>1. \A u \in Unit : pc'[u] = pc[u] \/ (pc[u] = "parked" /\ pc'[u] = "exec")
    BY <1>20, <1>0, SweepFires
  <2> QED
    BY <1>20, <1>0, <2>1, UnitAssumption DEF SweepStale, StaleReplies, local, Message, Reply, TypeOK, EventInv, NoEvent, Event
<1>21. CASE Restart
  BY <1>21, <1>0, UnitAssumption DEF Restart, InFlight, local, store, Message, Reply, TypeOK, EventInv, NoEvent, Event
<1>22. CASE UNCHANGED vars
  BY <1>22, <1>0 DEF vars, local, store, Message, Reply, TypeOK, EventInv, NoEvent, Event
<1> QED
  BY <1>1, <1>2, <1>3, <1>4, <1>5, <1>6, <1>7, <1>8, <1>9, <1>10, <1>11, <1>12, <1>13, <1>14, <1>15, <1>16, <1>17, <1>18, <1>19, <1>20, <1>21, <1>22 DEF Next, Running, HandlerStep, Correlate

\* finish_mapping items stay those of registered messages.
LEMMA FinishStep == IInv /\ [Next]_vars => FinishInv'
<1> SUFFICES ASSUME IInv, [Next]_vars PROVE FinishInv'
  OBVIOUS
<1> USE DEF IInv
<1>0. TypeOK /\ TypeOK'
  BY TypeStep
<1>1. ASSUME NEW u \in Unit, Arrive(u) PROVE FinishInv'
  BY <1>1, <1>0, UnitAssumption DEF Arrive, Goto, local, store, Message, Reply, TypeOK, FinishInv
<1>2. ASSUME NEW u \in Unit, LookupDep(u) PROVE FinishInv'
  BY <1>2, <1>0, UnitAssumption DEF LookupDep, Goto, local, store, Message, Reply, TypeOK, FinishInv
<1>3. ASSUME NEW u \in Unit, ExecuteNow(u) PROVE FinishInv'
  BY <1>3, <1>0, UnitAssumption DEF ExecuteNow, Goto, local, store, Message, Reply, TypeOK, FinishInv
<1>4. ASSUME NEW u \in Unit, ParkAction(u) PROVE FinishInv'
  BY <1>4, <1>0, UnitAssumption DEF ParkAction, ParkOn, PerformAction, Item, Goto, local, store, Message, Reply, TypeOK, FinishInv
<1>5. ASSUME NEW u \in Unit, DropAction(u) PROVE FinishInv'
  BY <1>5, <1>0, UnitAssumption DEF DropAction, Goto, local, store, Message, Reply, TypeOK, FinishInv
<1>6. ASSUME NEW u \in Unit, ParkReply(u) PROVE FinishInv'
  BY <1>6, <1>0, UnitAssumption DEF ParkReply, ParkOn, PerformAction, Item, Goto, local, store, Message, Reply, TypeOK, FinishInv
<1>7. ASSUME NEW u \in Unit, GatherFiles(u) PROVE FinishInv'
  BY <1>7, <1>0, UnitAssumption DEF GatherFiles, Goto, local, store, Message, Reply, TypeOK, FinishInv
<1>8. ASSUME NEW u \in Unit, ParkGathered(u) PROVE FinishInv'
  BY <1>8, <1>0, UnitAssumption DEF ParkGathered, ParkOn, PerformAction, Item, Goto, local, store, Message, Reply, TypeOK, FinishInv
<1>9. ASSUME NEW u \in Unit, SendUnthreaded(u) PROVE FinishInv'
  BY <1>9, <1>0, UnitAssumption DEF SendUnthreaded, Goto, local, store, Message, Reply, TypeOK, FinishInv
<1>10. ASSUME NEW u \in Unit, ResolveReply(u) PROVE FinishInv'
  BY <1>10, <1>0, UnitAssumption DEF ResolveReply, Goto, local, store, Message, Reply, TypeOK, FinishInv
<1>11. ASSUME NEW u \in Unit, ResolveTarget(u) PROVE FinishInv'
  BY <1>11, <1>0, UnitAssumption DEF ResolveTarget, Goto, local, store, Message, Reply, TypeOK, FinishInv
<1>12. ASSUME NEW u \in Unit, MissTarget(u) PROVE FinishInv'
  BY <1>12, <1>0, UnitAssumption DEF MissTarget, Goto, local, store, Message, Reply, TypeOK, FinishInv
<1>13. ASSUME NEW u \in Unit, EnqueueMessage(u) PROVE FinishInv'
  BY <1>13, <1>0, UnitAssumption DEF EnqueueMessage, EnqueueOutbound, EventInv, Item, Event, NoEvent, Goto, local, store, Message, Reply, TypeOK, FinishInv
<1>14. ASSUME NEW u \in Unit, RegisterPendingMapping(u) PROVE FinishInv'
  BY <1>14, <1>0, UnitAssumption DEF RegisterPendingMapping, FinishMapping, KindInv, EventInv, Goto, local, store, Message, Reply, TypeOK, FinishInv
<1>15. ASSUME NEW u \in Unit, ApplyAction(u) PROVE FinishInv'
  BY <1>15, <1>0, UnitAssumption DEF ApplyAction, EnqueueOutbound, EventInv, Item, Event, NoEvent, Goto, local, store, Message, Reply, TypeOK, FinishInv
<1>16. ASSUME NEW u \in Unit, FailEdit(u) PROVE FinishInv'
  BY <1>16, <1>0, UnitAssumption DEF FailEdit, Goto, local, store, Message, Reply, TypeOK, FinishInv
<1>17. ASSUME NEW u \in Unit, DeleteRows(u) PROVE FinishInv'
  BY <1>17, <1>0, UnitAssumption DEF DeleteRows, Goto, local, store, Message, Reply, TypeOK, FinishInv
<1>18. ASSUME NEW e \in Event, NEW ids \in Reports(e), RecordCorrelation(e, ids) PROVE FinishInv'
  <2>1. \A u \in Unit : pc'[u] = pc[u] \/ (pc[u] = "parked" /\ pc'[u] = "exec")
    BY <1>18, <1>0, CorrelationFires
  <2> QED
    BY <1>18, <1>0, <2>1, UnitAssumption DEF RecordCorrelation, local, Message, Reply, TypeOK, Below, ItemsOf, FinishInv
<1>19. CASE Age
  BY <1>19, <1>0, UnitAssumption DEF Age, local, Message, Reply, TypeOK, FinishInv
<1>20. CASE SweepStale
  <2>1. \A u \in Unit : pc'[u] = pc[u] \/ (pc[u] = "parked" /\ pc'[u] = "exec")
    BY <1>20, <1>0, SweepFires
  <2> QED
    BY <1>20, <1>0, <2>1, UnitAssumption DEF SweepStale, StaleReplies, local, Message, Reply, TypeOK, FinishInv
<1>21. CASE Restart
  BY <1>21, <1>0, UnitAssumption DEF Restart, InFlight, local, store, Message, Reply, TypeOK, FinishInv
<1>22. CASE UNCHANGED vars
  BY <1>22, <1>0 DEF vars, local, store, Message, Reply, TypeOK, FinishInv
<1> QED
  BY <1>1, <1>2, <1>3, <1>4, <1>5, <1>6, <1>7, <1>8, <1>9, <1>10, <1>11, <1>12, <1>13, <1>14, <1>15, <1>16, <1>17, <1>18, <1>19, <1>20, <1>21, <1>22 DEF Next, Running, HandlerStep, Correlate

\* Taking items out of the store and firing their units keeps the agreement
\* between handlers and store.
LEMMA TakingKeepsParked ==
  ASSUME TypeOK, ParkedIffPending, NEW gone, gone \subseteq pending,
         pending' = pending \ gone,
         \A u \in Unit : pc'[u] = IF u \in Parked(gone) THEN "exec" ELSE pc[u]
  PROVE  ParkedIffPending'
<1>1. \A u \in Unit :
        u \in Parked(gone) <=> \E it \in gone : it.kind = "perform_action" /\ it.unit = u
  BY DEF Parked
<1>2. ASSUME NEW u \in Unit, pc'[u] = "parked" PROVE u \in Parked(pending')
  <2>1. pc[u] = "parked" /\ u \notin Parked(gone)
    BY <1>2
  <2>2. PICK it \in pending : it.kind = "perform_action" /\ it.unit = u
    BY <2>1 DEF ParkedIffPending, Parked
  <2> QED
    BY <1>1, <2>1, <2>2 DEF Parked
<1>3. ASSUME NEW it \in pending', it.kind = "perform_action" PROVE pc'[it.unit] = "parked"
  <2>1. it \in pending /\ it \notin gone /\ it.unit \in Unit /\ pc[it.unit] = "parked"
    BY <1>3 DEF ParkedIffPending, TypeOK, Item
  <2>2. it.unit \notin Parked(gone)
    BY <1>1, <1>3, <2>1 DEF ParkedIffPending
  <2> QED
    BY <2>1, <2>2
<1>4. \A i, j \in pending' : i.kind = j.kind /\ i.unit = j.unit => i = j
  BY DEF ParkedIffPending
<1> QED
  BY <1>2, <1>3, <1>4 DEF ParkedIffPending, Parked

\* Parking a unit that is not parked keeps it too.
LEMMA ParkOnKeepsParked ==
  ASSUME TypeOK, ParkedIffPending, NEW u \in Unit, NEW e \in Event, pc[u] # "parked",
         ParkOn(u, e)
  PROVE  ParkedIffPending'
<1>1. pc' = [pc EXCEPT ![u] = "parked"] /\ pending' = pending \cup {PerformAction(e, u)}
  BY DEF ParkOn, Goto
<1>2. ASSUME NEW v \in Unit, pc'[v] = "parked" PROVE v \in Parked(pending')
  <2>1. CASE v = u
    <3>1. PerformAction(e, u) \in pending'
      BY <1>1
    <3>2. PerformAction(e, u).kind = "perform_action" /\ PerformAction(e, u).unit = u
      BY DEF PerformAction
    <3> QED
      BY <2>1, <3>1, <3>2 DEF Parked
  <2>2. CASE v # u
    <3>1. PICK it \in pending : it.kind = "perform_action" /\ it.unit = v
      BY <1>1, <1>2, <2>2 DEF ParkedIffPending, Parked, TypeOK
    <3> QED
      BY <1>1, <3>1 DEF Parked
  <2> QED
    BY <2>1, <2>2
<1>3. \A it \in pending' : it.kind = "perform_action" => pc'[it.unit] = "parked"
  BY <1>1 DEF ParkedIffPending, PerformAction, TypeOK, Item
<1>4. \A it \in pending : ~(it.kind = "perform_action" /\ it.unit = u)
  BY DEF ParkedIffPending
<1>5. \A i, j \in pending' : i.kind = j.kind /\ i.unit = j.unit => i = j
  BY <1>1, <1>4 DEF ParkedIffPending, PerformAction
<1> QED
  BY <1>2, <1>3, <1>5 DEF ParkedIffPending, Parked

\* Exactly the parked units have a perform_action item.
LEMMA ParkedStep == IInv /\ [Next]_vars => ParkedIffPending'
<1> SUFFICES ASSUME IInv, [Next]_vars PROVE ParkedIffPending'
  OBVIOUS
<1> USE DEF IInv
<1>0. TypeOK /\ TypeOK'
  BY TypeStep
<1>1. ASSUME NEW u \in Unit, Arrive(u) PROVE ParkedIffPending'
  BY <1>1, <1>0, UnitAssumption DEF Arrive, Goto, local, store, Message, Reply, TypeOK, ParkedIffPending, Parked
<1>2. ASSUME NEW u \in Unit, LookupDep(u) PROVE ParkedIffPending'
  BY <1>2, <1>0, UnitAssumption DEF LookupDep, Goto, local, store, Message, Reply, TypeOK, ParkedIffPending, Parked
<1>3. ASSUME NEW u \in Unit, ExecuteNow(u) PROVE ParkedIffPending'
  BY <1>3, <1>0, UnitAssumption DEF ExecuteNow, Goto, local, store, Message, Reply, TypeOK, ParkedIffPending, Parked
<1>4. ASSUME NEW u \in Unit, ParkAction(u) PROVE ParkedIffPending'
  <2>1. pc[u] # "parked" /\ awaiting[DepOf[u]] \in Event
    BY <1>4, <1>0, DepIsMessage DEF ParkAction, CanPark, Reply, KindInv, Message, TypeOK
  <2> QED
    BY <1>4, <1>0, <2>1, ParkOnKeepsParked DEF ParkAction
<1>5. ASSUME NEW u \in Unit, DropAction(u) PROVE ParkedIffPending'
  BY <1>5, <1>0, UnitAssumption DEF DropAction, Goto, local, store, Message, Reply, TypeOK, ParkedIffPending, Parked
<1>6. ASSUME NEW u \in Unit, ParkReply(u) PROVE ParkedIffPending'
  <2>1. pc[u] # "parked" /\ awaiting[DepOf[u]] \in Event
    BY <1>6, <1>0, DepIsMessage DEF ParkReply, CanPark, Reply, KindInv, Message, TypeOK
  <2> QED
    BY <1>6, <1>0, <2>1, ParkOnKeepsParked DEF ParkReply
<1>7. ASSUME NEW u \in Unit, GatherFiles(u) PROVE ParkedIffPending'
  BY <1>7, <1>0, UnitAssumption DEF GatherFiles, Goto, local, store, Message, Reply, TypeOK, ParkedIffPending, Parked
<1>8. ASSUME NEW u \in Unit, ParkGathered(u) PROVE ParkedIffPending'
  <2>1. pc[u] # "parked" /\ due[u] \in Event
    BY <1>8, <1>0, DepIsMessage DEF ParkGathered, CanPark, Reply, KindInv, Message, TypeOK
  <2> QED
    BY <1>8, <1>0, <2>1, ParkOnKeepsParked DEF ParkGathered
<1>9. ASSUME NEW u \in Unit, SendUnthreaded(u) PROVE ParkedIffPending'
  BY <1>9, <1>0, UnitAssumption DEF SendUnthreaded, Goto, local, store, Message, Reply, TypeOK, ParkedIffPending, Parked
<1>10. ASSUME NEW u \in Unit, ResolveReply(u) PROVE ParkedIffPending'
  BY <1>10, <1>0, UnitAssumption DEF ResolveReply, Goto, local, store, Message, Reply, TypeOK, ParkedIffPending, Parked
<1>11. ASSUME NEW u \in Unit, ResolveTarget(u) PROVE ParkedIffPending'
  BY <1>11, <1>0, UnitAssumption DEF ResolveTarget, Goto, local, store, Message, Reply, TypeOK, ParkedIffPending, Parked
<1>12. ASSUME NEW u \in Unit, MissTarget(u) PROVE ParkedIffPending'
  BY <1>12, <1>0, UnitAssumption DEF MissTarget, Goto, local, store, Message, Reply, TypeOK, ParkedIffPending, Parked
<1>13. ASSUME NEW u \in Unit, EnqueueMessage(u) PROVE ParkedIffPending'
  BY <1>13, <1>0, UnitAssumption DEF EnqueueMessage, Goto, local, store, Message, Reply, TypeOK, ParkedIffPending, Parked
<1>14. ASSUME NEW u \in Unit, RegisterPendingMapping(u) PROVE ParkedIffPending'
  BY <1>14, <1>0, UnitAssumption DEF RegisterPendingMapping, FinishMapping, FinishInv, Goto, local, store, Message, Reply, TypeOK, ParkedIffPending, Parked
<1>15. ASSUME NEW u \in Unit, ApplyAction(u) PROVE ParkedIffPending'
  BY <1>15, <1>0, UnitAssumption DEF ApplyAction, Goto, local, store, Message, Reply, TypeOK, ParkedIffPending, Parked
<1>16. ASSUME NEW u \in Unit, FailEdit(u) PROVE ParkedIffPending'
  BY <1>16, <1>0, UnitAssumption DEF FailEdit, Goto, local, store, Message, Reply, TypeOK, ParkedIffPending, Parked
<1>17. ASSUME NEW u \in Unit, DeleteRows(u) PROVE ParkedIffPending'
  BY <1>17, <1>0, UnitAssumption DEF DeleteRows, Goto, local, store, Message, Reply, TypeOK, ParkedIffPending, Parked
<1>18. ASSUME NEW e \in Event, NEW ids \in Reports(e), RecordCorrelation(e, ids) PROVE ParkedIffPending'
  <2> DEFINE gone == Below(e) \cup ItemsOf(e)
  <2>1. gone \subseteq pending /\ pending' = pending \ gone
    BY <1>18 DEF RecordCorrelation, Below, ItemsOf
  <2>2. \A u \in Unit : pc'[u] = IF u \in Parked(gone) THEN "exec" ELSE pc[u]
    BY <1>18 DEF RecordCorrelation, Fire
  <2> HIDE DEF gone
  <2> QED
    BY <1>0, <2>1, <2>2, TakingKeepsParked
<1>19. CASE Age
  BY <1>19, <1>0, UnitAssumption DEF Age, local, Message, Reply, TypeOK, ParkedIffPending, Parked
<1>20. CASE SweepStale
  <2>1. StaleReplies \subseteq pending /\ pending' = pending \ StaleReplies
    BY <1>20, <1>0 DEF SweepStale, StaleReplies, TypeOK
  <2>2. \A u \in Unit : pc'[u] = IF u \in Parked(StaleReplies) THEN "exec" ELSE pc[u]
    BY <1>20 DEF SweepStale, Fire
  <2> QED
    BY <1>0, <2>1, <2>2, TakingKeepsParked
<1>21. CASE Restart
  <2>1. pending' = pending /\ \A u \in Unit : pc'[u] = "parked" <=> pc[u] = "parked"
    BY <1>21, <1>0 DEF Restart, InFlight, store, TypeOK
  <2> QED
    BY <1>0, <2>1 DEF ParkedIffPending, Parked, TypeOK, Item
<1>22. CASE UNCHANGED vars
  BY <1>22, <1>0 DEF vars, local, store, Message, Reply, TypeOK, ParkedIffPending, Parked
<1> QED
  BY <1>1, <1>2, <1>3, <1>4, <1>5, <1>6, <1>7, <1>8, <1>9, <1>10, <1>11, <1>12, <1>13, <1>14, <1>15, <1>16, <1>17, <1>18, <1>19, <1>20, <1>21, <1>22 DEF Next, Running, HandlerStep, Correlate

\* Exactly the messages with a finish_mapping item are awaiting.
LEMMA AwaitingStep == IInv /\ [Next]_vars => AwaitingIffPending'
<1> SUFFICES ASSUME IInv, [Next]_vars PROVE AwaitingIffPending'
  OBVIOUS
<1> USE DEF IInv
<1>0. TypeOK /\ TypeOK'
  BY TypeStep
<1>1. ASSUME NEW u \in Unit, Arrive(u) PROVE AwaitingIffPending'
  BY <1>1, <1>0, UnitAssumption DEF Arrive, Goto, local, store, Message, Reply, TypeOK, AwaitingIffPending, FinishMapping
<1>2. ASSUME NEW u \in Unit, LookupDep(u) PROVE AwaitingIffPending'
  BY <1>2, <1>0, UnitAssumption DEF LookupDep, Goto, local, store, Message, Reply, TypeOK, AwaitingIffPending, FinishMapping
<1>3. ASSUME NEW u \in Unit, ExecuteNow(u) PROVE AwaitingIffPending'
  BY <1>3, <1>0, UnitAssumption DEF ExecuteNow, Goto, local, store, Message, Reply, TypeOK, AwaitingIffPending, FinishMapping
<1>4. ASSUME NEW u \in Unit, ParkAction(u) PROVE AwaitingIffPending'
  BY <1>4, <1>0, UnitAssumption DEF ParkAction, ParkOn, PerformAction, Goto, local, store, Message, Reply, TypeOK, AwaitingIffPending, FinishMapping
<1>5. ASSUME NEW u \in Unit, DropAction(u) PROVE AwaitingIffPending'
  BY <1>5, <1>0, UnitAssumption DEF DropAction, Goto, local, store, Message, Reply, TypeOK, AwaitingIffPending, FinishMapping
<1>6. ASSUME NEW u \in Unit, ParkReply(u) PROVE AwaitingIffPending'
  BY <1>6, <1>0, UnitAssumption DEF ParkReply, ParkOn, PerformAction, Goto, local, store, Message, Reply, TypeOK, AwaitingIffPending, FinishMapping
<1>7. ASSUME NEW u \in Unit, GatherFiles(u) PROVE AwaitingIffPending'
  BY <1>7, <1>0, UnitAssumption DEF GatherFiles, Goto, local, store, Message, Reply, TypeOK, AwaitingIffPending, FinishMapping
<1>8. ASSUME NEW u \in Unit, ParkGathered(u) PROVE AwaitingIffPending'
  BY <1>8, <1>0, UnitAssumption DEF ParkGathered, ParkOn, PerformAction, Goto, local, store, Message, Reply, TypeOK, AwaitingIffPending, FinishMapping
<1>9. ASSUME NEW u \in Unit, SendUnthreaded(u) PROVE AwaitingIffPending'
  BY <1>9, <1>0, UnitAssumption DEF SendUnthreaded, Goto, local, store, Message, Reply, TypeOK, AwaitingIffPending, FinishMapping
<1>10. ASSUME NEW u \in Unit, ResolveReply(u) PROVE AwaitingIffPending'
  BY <1>10, <1>0, UnitAssumption DEF ResolveReply, Goto, local, store, Message, Reply, TypeOK, AwaitingIffPending, FinishMapping
<1>11. ASSUME NEW u \in Unit, ResolveTarget(u) PROVE AwaitingIffPending'
  BY <1>11, <1>0, UnitAssumption DEF ResolveTarget, Goto, local, store, Message, Reply, TypeOK, AwaitingIffPending, FinishMapping
<1>12. ASSUME NEW u \in Unit, MissTarget(u) PROVE AwaitingIffPending'
  BY <1>12, <1>0, UnitAssumption DEF MissTarget, Goto, local, store, Message, Reply, TypeOK, AwaitingIffPending, FinishMapping
<1>13. ASSUME NEW u \in Unit, EnqueueMessage(u) PROVE AwaitingIffPending'
  BY <1>13, <1>0, UnitAssumption DEF EnqueueMessage, Goto, local, store, Message, Reply, TypeOK, AwaitingIffPending, FinishMapping
<1>14. ASSUME NEW u \in Unit, RegisterPendingMapping(u) PROVE AwaitingIffPending'
  <2>1. /\ pending' = pending \cup {FinishMapping(eventOf[u], u)}
        /\ awaiting' = [awaiting EXCEPT ![u] = eventOf[u]]
        /\ pc[u] = "register"
    BY <1>14 DEF RegisterPendingMapping
  <2>2. eventOf[u] \in Event
    BY <2>1, <1>0 DEF EventInv, TypeOK
  <2>3. \A e \in Event : FinishMapping(e, u) \notin pending
    BY <2>1 DEF FinishInv, FinishMapping
  <2>4. \A m \in Message, e \in Event : FinishMapping(e, m) = FinishMapping(eventOf[u], u) <=> m = u /\ e = eventOf[u]
    BY DEF FinishMapping
  <2>5. u \in Message
    BY <2>1 DEF KindInv
  <2> SUFFICES ASSUME NEW m \in Message, NEW e \in Event
               PROVE  awaiting'[m] = e <=> FinishMapping(e, m) \in pending'
    BY DEF AwaitingIffPending, FinishMapping
  <2> QED
    BY <1>0, <2>1, <2>2, <2>3, <2>4, <2>5 DEF AwaitingIffPending, TypeOK
<1>15. ASSUME NEW u \in Unit, ApplyAction(u) PROVE AwaitingIffPending'
  BY <1>15, <1>0, UnitAssumption DEF ApplyAction, Goto, local, store, Message, Reply, TypeOK, AwaitingIffPending, FinishMapping
<1>16. ASSUME NEW u \in Unit, FailEdit(u) PROVE AwaitingIffPending'
  BY <1>16, <1>0, UnitAssumption DEF FailEdit, Goto, local, store, Message, Reply, TypeOK, AwaitingIffPending, FinishMapping
<1>17. ASSUME NEW u \in Unit, DeleteRows(u) PROVE AwaitingIffPending'
  BY <1>17, <1>0, UnitAssumption DEF DeleteRows, Goto, local, store, Message, Reply, TypeOK, AwaitingIffPending, FinishMapping
<1>18. ASSUME NEW e \in Event, NEW ids \in Reports(e), RecordCorrelation(e, ids) PROVE AwaitingIffPending'
  <2> DEFINE gone == Below(e) \cup ItemsOf(e)
             over == {e} \cup {it.event : it \in gone}
  <2>1. gone = {it \in pending : it.event <= e}
    BY <1>0, BoundAssumption DEF Below, ItemsOf, TypeOK, Item, Event
  <2>2. \A it \in gone : it.event \in Nat /\ it.event <= e
    BY <2>1, <1>0, BoundAssumption DEF TypeOK, Item, Event
  <2>3. \A f \in over : f \in Nat /\ f <= e
    BY <2>2, BoundAssumption DEF Event
  <2>4. \A m \in Message : awaiting'[m] = IF awaiting[m] \in over THEN NoEvent ELSE awaiting[m]
    BY <1>18 DEF RecordCorrelation
  <2>5. pending' = pending \ gone
    BY <1>18 DEF RecordCorrelation
  <2> SUFFICES ASSUME NEW m \in Message, NEW f \in Event
               PROVE  awaiting'[m] = f <=> FinishMapping(f, m) \in pending'
    BY DEF AwaitingIffPending, FinishMapping
  <2>6. awaiting[m] = f <=> FinishMapping(f, m) \in pending
    BY DEF AwaitingIffPending
  <2>7. FinishMapping(f, m) \in gone <=> FinishMapping(f, m) \in pending /\ f <= e
    BY <2>1 DEF FinishMapping
  <2>8. FinishMapping(f, m) \in gone => f \in over
    BY DEF FinishMapping
  <2>9. f # NoEvent
    BY DEF NoEvent, Event
  <2> HIDE DEF gone, over
  <2> QED
    BY <2>3, <2>4, <2>5, <2>6, <2>7, <2>8, <2>9
<1>19. CASE Age
  BY <1>19, <1>0, UnitAssumption DEF Age, local, Message, Reply, TypeOK, AwaitingIffPending, FinishMapping
<1>20. CASE SweepStale
  BY <1>20, <1>0 DEF SweepStale, StaleReplies, AwaitingIffPending, FinishMapping
<1>21. CASE Restart
  BY <1>21, <1>0, UnitAssumption DEF Restart, InFlight, local, store, Message, Reply, TypeOK, AwaitingIffPending, FinishMapping
<1>22. CASE UNCHANGED vars
  BY <1>22, <1>0 DEF vars, local, store, Message, Reply, TypeOK, AwaitingIffPending, FinishMapping
<1> QED
  BY <1>1, <1>2, <1>3, <1>4, <1>5, <1>6, <1>7, <1>8, <1>9, <1>10, <1>11, <1>12, <1>13, <1>14, <1>15, <1>16, <1>17, <1>18, <1>19, <1>20, <1>21, <1>22 DEF Next, Running, HandlerStep, Correlate

\* Every row is a post of its message's own event.
LEMMA MapSoundStep == IInv /\ [Next]_vars => MapSound'
<1> SUFFICES ASSUME IInv, [Next]_vars PROVE MapSound'
  OBVIOUS
<1> USE DEF IInv
<1>0. TypeOK /\ TypeOK'
  BY TypeStep
<1>1. ASSUME NEW u \in Unit, Arrive(u) PROVE MapSound'
  BY <1>1, <1>0, UnitAssumption DEF Arrive, Goto, local, store, Message, Reply, TypeOK, MapSound, TgIdsOf
<1>2. ASSUME NEW u \in Unit, LookupDep(u) PROVE MapSound'
  BY <1>2, <1>0, UnitAssumption DEF LookupDep, Goto, local, store, Message, Reply, TypeOK, MapSound, TgIdsOf
<1>3. ASSUME NEW u \in Unit, ExecuteNow(u) PROVE MapSound'
  BY <1>3, <1>0, UnitAssumption DEF ExecuteNow, Goto, local, store, Message, Reply, TypeOK, MapSound, TgIdsOf
<1>4. ASSUME NEW u \in Unit, ParkAction(u) PROVE MapSound'
  BY <1>4, <1>0, UnitAssumption DEF ParkAction, Goto, local, store, Message, Reply, TypeOK, MapSound, TgIdsOf
<1>5. ASSUME NEW u \in Unit, DropAction(u) PROVE MapSound'
  BY <1>5, <1>0, UnitAssumption DEF DropAction, Goto, local, store, Message, Reply, TypeOK, MapSound, TgIdsOf
<1>6. ASSUME NEW u \in Unit, ParkReply(u) PROVE MapSound'
  BY <1>6, <1>0, UnitAssumption DEF ParkReply, Goto, local, store, Message, Reply, TypeOK, MapSound, TgIdsOf
<1>7. ASSUME NEW u \in Unit, GatherFiles(u) PROVE MapSound'
  BY <1>7, <1>0, UnitAssumption DEF GatherFiles, Goto, local, store, Message, Reply, TypeOK, MapSound, TgIdsOf
<1>8. ASSUME NEW u \in Unit, ParkGathered(u) PROVE MapSound'
  BY <1>8, <1>0, UnitAssumption DEF ParkGathered, Goto, local, store, Message, Reply, TypeOK, MapSound, TgIdsOf
<1>9. ASSUME NEW u \in Unit, SendUnthreaded(u) PROVE MapSound'
  BY <1>9, <1>0, UnitAssumption DEF SendUnthreaded, Goto, local, store, Message, Reply, TypeOK, MapSound, TgIdsOf
<1>10. ASSUME NEW u \in Unit, ResolveReply(u) PROVE MapSound'
  BY <1>10, <1>0, UnitAssumption DEF ResolveReply, Goto, local, store, Message, Reply, TypeOK, MapSound, TgIdsOf
<1>11. ASSUME NEW u \in Unit, ResolveTarget(u) PROVE MapSound'
  BY <1>11, <1>0, UnitAssumption DEF ResolveTarget, Goto, local, store, Message, Reply, TypeOK, MapSound, TgIdsOf
<1>12. ASSUME NEW u \in Unit, MissTarget(u) PROVE MapSound'
  BY <1>12, <1>0, UnitAssumption DEF MissTarget, Goto, local, store, Message, Reply, TypeOK, MapSound, TgIdsOf
<1>13. ASSUME NEW u \in Unit, EnqueueMessage(u) PROVE MapSound'
  BY <1>13, <1>0, UnitAssumption DEF EnqueueMessage, EnqueueOutbound, EventInv, Row, Goto, local, store, Message, Reply, TypeOK, MapSound, TgIdsOf
<1>14. ASSUME NEW u \in Unit, RegisterPendingMapping(u) PROVE MapSound'
  BY <1>14, <1>0, UnitAssumption DEF RegisterPendingMapping, Goto, local, store, Message, Reply, TypeOK, MapSound, TgIdsOf
<1>15. ASSUME NEW u \in Unit, ApplyAction(u) PROVE MapSound'
  BY <1>15, <1>0, UnitAssumption DEF ApplyAction, EnqueueOutbound, EventInv, Row, Goto, local, store, Message, Reply, TypeOK, MapSound, TgIdsOf
<1>16. ASSUME NEW u \in Unit, FailEdit(u) PROVE MapSound'
  BY <1>16, <1>0, UnitAssumption DEF FailEdit, Goto, local, store, Message, Reply, TypeOK, MapSound, TgIdsOf
<1>17. ASSUME NEW u \in Unit, DeleteRows(u) PROVE MapSound'
  BY <1>17, <1>0, UnitAssumption DEF DeleteRows, Goto, local, store, Message, Reply, TypeOK, MapSound, TgIdsOf
<1>18. ASSUME NEW e \in Event, NEW ids \in Reports(e), RecordCorrelation(e, ids) PROVE MapSound'
  <2>1. eventOf' = eventOf
    BY <1>18 DEF RecordCorrelation
  <2> SUFFICES ASSUME NEW r \in map'
               PROVE  eventOf[r.dc] # NoEvent /\ r.tg \in TgIdsOf(eventOf[r.dc])
    BY <2>1 DEF MapSound, TgIdsOf
  <2>2. CASE r \in map
    BY <2>2 DEF MapSound
  <2>3. CASE \E it \in ItemsOf(e) : /\ it.kind = "finish_mapping"
                                  /\ r \in [tg : ids, dc : {it.unit}]
    <3>1. eventOf[r.dc] = e /\ r.dc \in Message /\ r.tg \in ids
      BY <2>3 DEF ItemsOf, FinishInv
    <3>2. ids \subseteq TgIdsOf(e)
      BY <3>1 DEF Reports
    <3> QED
      BY <3>1, <3>2 DEF NoEvent, Event
  <2> QED
    BY <1>18, StoredRows, <2>2, <2>3 DEF RecordCorrelation
<1>19. CASE Age
  BY <1>19, <1>0, UnitAssumption DEF Age, local, Message, Reply, TypeOK, MapSound, TgIdsOf
<1>20. CASE SweepStale
  <2>1. \A u \in Unit : pc'[u] = pc[u] \/ (pc[u] = "parked" /\ pc'[u] = "exec")
    BY <1>20, <1>0, SweepFires
  <2> QED
    BY <1>20, <1>0, <2>1, UnitAssumption DEF SweepStale, StaleReplies, local, Message, Reply, TypeOK, MapSound, TgIdsOf
<1>21. CASE Restart
  BY <1>21, <1>0, UnitAssumption DEF Restart, InFlight, local, store, Message, Reply, TypeOK, MapSound, TgIdsOf
<1>22. CASE UNCHANGED vars
  BY <1>22, <1>0 DEF vars, local, store, Message, Reply, TypeOK, MapSound, TgIdsOf
<1> QED
  BY <1>1, <1>2, <1>3, <1>4, <1>5, <1>6, <1>7, <1>8, <1>9, <1>10, <1>11, <1>12, <1>13, <1>14, <1>15, <1>16, <1>17, <1>18, <1>19, <1>20, <1>21, <1>22 DEF Next, Running, HandlerStep, Correlate

\* Only finished messages are mapped or deleted.
LEMMA MapInvStep == IInv /\ [Next]_vars => MapInv'
<1> SUFFICES ASSUME IInv, [Next]_vars PROVE MapInv'
  OBVIOUS
<1> USE DEF IInv
<1>0. TypeOK /\ TypeOK'
  BY TypeStep
<1>1. ASSUME NEW u \in Unit, Arrive(u) PROVE MapInv'
  BY <1>1, <1>0, UnitAssumption DEF Arrive, Goto, local, store, Message, Reply, TypeOK, MapInv, Finished
<1>2. ASSUME NEW u \in Unit, LookupDep(u) PROVE MapInv'
  BY <1>2, <1>0, UnitAssumption DEF LookupDep, Goto, local, store, Message, Reply, TypeOK, MapInv, Finished
<1>3. ASSUME NEW u \in Unit, ExecuteNow(u) PROVE MapInv'
  BY <1>3, <1>0, UnitAssumption DEF ExecuteNow, Goto, local, store, Message, Reply, TypeOK, MapInv, Finished
<1>4. ASSUME NEW u \in Unit, ParkAction(u) PROVE MapInv'
  BY <1>4, <1>0, DepIsMessage, UnitAssumption DEF ParkAction, ParkOn, PerformAction, Row, Goto, local, store, Message, Reply, TypeOK, MapInv, Finished
<1>5. ASSUME NEW u \in Unit, DropAction(u) PROVE MapInv'
  BY <1>5, <1>0, UnitAssumption DEF DropAction, Goto, local, store, Message, Reply, TypeOK, MapInv, Finished
<1>6. ASSUME NEW u \in Unit, ParkReply(u) PROVE MapInv'
  BY <1>6, <1>0, DepIsMessage, UnitAssumption DEF ParkReply, ParkOn, PerformAction, Row, Goto, local, store, Message, Reply, TypeOK, MapInv, Finished
<1>7. ASSUME NEW u \in Unit, GatherFiles(u) PROVE MapInv'
  BY <1>7, <1>0, UnitAssumption DEF GatherFiles, Goto, local, store, Message, Reply, TypeOK, MapInv, Finished
<1>8. ASSUME NEW u \in Unit, ParkGathered(u) PROVE MapInv'
  BY <1>8, <1>0, DepIsMessage, UnitAssumption DEF ParkGathered, ParkOn, PerformAction, Row, Goto, local, store, Message, Reply, TypeOK, MapInv, Finished
<1>9. ASSUME NEW u \in Unit, SendUnthreaded(u) PROVE MapInv'
  BY <1>9, <1>0, UnitAssumption DEF SendUnthreaded, Goto, local, store, Message, Reply, TypeOK, MapInv, Finished
<1>10. ASSUME NEW u \in Unit, ResolveReply(u) PROVE MapInv'
  BY <1>10, <1>0, UnitAssumption DEF ResolveReply, Goto, local, store, Message, Reply, TypeOK, MapInv, Finished
<1>11. ASSUME NEW u \in Unit, ResolveTarget(u) PROVE MapInv'
  BY <1>11, <1>0, UnitAssumption DEF ResolveTarget, IdsOf, RowsOf, Goto, local, store, Message, Reply, TypeOK, MapInv, Finished
<1>12. ASSUME NEW u \in Unit, MissTarget(u) PROVE MapInv'
  BY <1>12, <1>0, UnitAssumption DEF MissTarget, Goto, local, store, Message, Reply, TypeOK, MapInv, Finished
<1>13. ASSUME NEW u \in Unit, EnqueueMessage(u) PROVE MapInv'
  BY <1>13, <1>0, UnitAssumption DEF EnqueueMessage, EnqueueOutbound, Goto, local, store, Message, Reply, TypeOK, MapInv, Finished
<1>14. ASSUME NEW u \in Unit, RegisterPendingMapping(u) PROVE MapInv'
  BY <1>14, <1>0, UnitAssumption DEF RegisterPendingMapping, FinishMapping, KindInv, Goto, local, store, Message, Reply, TypeOK, MapInv, Finished
<1>15. ASSUME NEW u \in Unit, ApplyAction(u) PROVE MapInv'
  BY <1>15, <1>0, UnitAssumption DEF ApplyAction, EnqueueOutbound, Goto, local, store, Message, Reply, TypeOK, MapInv, Finished
<1>16. ASSUME NEW u \in Unit, FailEdit(u) PROVE MapInv'
  BY <1>16, <1>0, UnitAssumption DEF FailEdit, Goto, local, store, Message, Reply, TypeOK, MapInv, Finished
<1>17. ASSUME NEW u \in Unit, DeleteRows(u) PROVE MapInv'
  BY <1>17, <1>0, UnitAssumption DEF DeleteRows, RowsOf, Goto, local, store, Message, Reply, TypeOK, MapInv, Finished
<1>18. ASSUME NEW e \in Event, NEW ids \in Reports(e), RecordCorrelation(e, ids) PROVE MapInv'
  <2>1. \A u \in Unit : pc'[u] = pc[u] \/ (pc[u] = "parked" /\ pc'[u] = "exec")
    BY <1>18, <1>0, CorrelationFires
  <2>2. pending' = pending \ (Below(e) \cup ItemsOf(e))
    BY <1>18 DEF RecordCorrelation
  <2>3. \A m \in Message : Finished(m) => Finished(m)'
    BY <2>1, <2>2 DEF Finished, Message
  <2>4. ASSUME NEW it \in ItemsOf(e), it.kind = "finish_mapping"
        PROVE  it.unit \in Message /\ Finished(it.unit)'
    <3>1. it.unit \in Message /\ pc[it.unit] = "done" /\ eventOf[it.unit] = e
      BY <2>4 DEF ItemsOf, FinishInv
    <3>2. ASSUME NEW i \in pending, i.kind = "finish_mapping", i.unit = it.unit
          PROVE  i \in ItemsOf(e)
      BY <3>1, <3>2 DEF ItemsOf, FinishInv
    <3> QED
      BY <2>1, <2>2, <3>1, <3>2 DEF Finished, Message
  <2>5. ASSUME NEW r \in map' PROVE Finished(r.dc)'
    <3>1. r \in map \/ \E it \in ItemsOf(e) : /\ it.kind = "finish_mapping"
                                           /\ r \in [tg : ids, dc : {it.unit}]
      BY <1>18, StoredRows DEF RecordCorrelation
    <3> QED
      BY <2>3, <2>4, <3>1, <1>0 DEF MapInv, TypeOK, Row
  <2>6. ASSUME NEW u \in Unit, KindOf[u] = "delete", pc'[u] \in {"apply", "unmap", "done"}
        PROVE  Finished(DepOf[u])'
    BY <2>1, <2>3, <2>6, DepIsMessage DEF MapInv
  <2> QED
    BY <2>5, <2>6 DEF MapInv, Finished
<1>19. CASE Age
  BY <1>19, <1>0, UnitAssumption DEF Age, local, Message, Reply, TypeOK, MapInv, Finished
<1>20. CASE SweepStale
  <2>1. \A u \in Unit : pc'[u] = pc[u] \/ (pc[u] = "parked" /\ pc'[u] = "exec")
    BY <1>20, <1>0, SweepFires
  <2>2. pending' \subseteq pending /\ map' = map
    BY <1>20 DEF SweepStale
  <2>3. \A m \in Message : Finished(m) => Finished(m)'
    BY <2>1, <2>2 DEF Finished, Message
  <2> QED
    BY <2>1, <2>2, <2>3, <1>0, DepIsMessage DEF MapInv, TypeOK, Row
<1>21. CASE Restart
  <2>1. \A u \in Unit : pc'[u] = pc[u] \/ pc'[u] = "lost"
    BY <1>21, <1>0 DEF Restart, TypeOK
  <2>2. \A u \in Unit : pc[u] = "done" => pc'[u] = "done"
    BY <1>21, <1>0 DEF Restart, InFlight, TypeOK
  <2>3. pending' = pending /\ map' = map
    BY <1>21 DEF Restart, store
  <2>4. \A m \in Message : Finished(m) => Finished(m)'
    BY <2>2, <2>3 DEF Finished, Message
  <2> QED
    BY <2>1, <2>3, <2>4, <1>0, DepIsMessage DEF MapInv, TypeOK, Row
<1>22. CASE UNCHANGED vars
  BY <1>22, <1>0 DEF vars, local, store, Message, Reply, TypeOK, MapInv, Finished
<1> QED
  BY <1>1, <1>2, <1>3, <1>4, <1>5, <1>6, <1>7, <1>8, <1>9, <1>10, <1>11, <1>12, <1>13, <1>14, <1>15, <1>16, <1>17, <1>18, <1>19, <1>20, <1>21, <1>22 DEF Next, Running, HandlerStep, Correlate

\* No mapping is given up before it is due.
LEMMA KeptStep == IInv /\ [Next]_vars => MappingKept'
<1> SUFFICES ASSUME IInv, [Next]_vars PROVE MappingKept'
  OBVIOUS
<1> USE DEF IInv
<1>0. TypeOK /\ TypeOK'
  BY TypeStep
<1>1. ASSUME NEW u \in Unit, Arrive(u) PROVE MappingKept'
  BY <1>1, <1>0, UnitAssumption DEF Arrive, Goto, local, store, Message, Reply, TypeOK, MappingKept, FinishMapping
<1>2. ASSUME NEW u \in Unit, LookupDep(u) PROVE MappingKept'
  BY <1>2, <1>0, UnitAssumption DEF LookupDep, Goto, local, store, Message, Reply, TypeOK, MappingKept, FinishMapping
<1>3. ASSUME NEW u \in Unit, ExecuteNow(u) PROVE MappingKept'
  BY <1>3, <1>0, UnitAssumption DEF ExecuteNow, Goto, local, store, Message, Reply, TypeOK, MappingKept, FinishMapping
<1>4. ASSUME NEW u \in Unit, ParkAction(u) PROVE MappingKept'
  BY <1>4, <1>0, UnitAssumption DEF ParkAction, ParkOn, Goto, local, store, Message, Reply, TypeOK, MappingKept, FinishMapping
<1>5. ASSUME NEW u \in Unit, DropAction(u) PROVE MappingKept'
  BY <1>5, <1>0, UnitAssumption DEF DropAction, Goto, local, store, Message, Reply, TypeOK, MappingKept, FinishMapping
<1>6. ASSUME NEW u \in Unit, ParkReply(u) PROVE MappingKept'
  BY <1>6, <1>0, UnitAssumption DEF ParkReply, ParkOn, Goto, local, store, Message, Reply, TypeOK, MappingKept, FinishMapping
<1>7. ASSUME NEW u \in Unit, GatherFiles(u) PROVE MappingKept'
  BY <1>7, <1>0, UnitAssumption DEF GatherFiles, Goto, local, store, Message, Reply, TypeOK, MappingKept, FinishMapping
<1>8. ASSUME NEW u \in Unit, ParkGathered(u) PROVE MappingKept'
  BY <1>8, <1>0, UnitAssumption DEF ParkGathered, ParkOn, Goto, local, store, Message, Reply, TypeOK, MappingKept, FinishMapping
<1>9. ASSUME NEW u \in Unit, SendUnthreaded(u) PROVE MappingKept'
  BY <1>9, <1>0, UnitAssumption DEF SendUnthreaded, Goto, local, store, Message, Reply, TypeOK, MappingKept, FinishMapping
<1>10. ASSUME NEW u \in Unit, ResolveReply(u) PROVE MappingKept'
  BY <1>10, <1>0, UnitAssumption DEF ResolveReply, Goto, local, store, Message, Reply, TypeOK, MappingKept, FinishMapping
<1>11. ASSUME NEW u \in Unit, ResolveTarget(u) PROVE MappingKept'
  BY <1>11, <1>0, UnitAssumption DEF ResolveTarget, KindInv, Goto, local, store, Message, Reply, TypeOK, MappingKept, FinishMapping
<1>12. ASSUME NEW u \in Unit, MissTarget(u) PROVE MappingKept'
  BY <1>12, <1>0, UnitAssumption DEF MissTarget, Goto, local, store, Message, Reply, TypeOK, MappingKept, FinishMapping
<1>13. ASSUME NEW u \in Unit, EnqueueMessage(u) PROVE MappingKept'
  BY <1>13, <1>0, UnitAssumption DEF EnqueueMessage, EnqueueOutbound, EventInv, KindInv, Goto, local, store, Message, Reply, TypeOK, MappingKept, FinishMapping
<1>14. ASSUME NEW u \in Unit, RegisterPendingMapping(u) PROVE MappingKept'
  BY <1>14, <1>0, UnitAssumption DEF RegisterPendingMapping, Goto, local, store, Message, Reply, TypeOK, MappingKept, FinishMapping
<1>15. ASSUME NEW u \in Unit, ApplyAction(u) PROVE MappingKept'
  BY <1>15, <1>0, UnitAssumption DEF ApplyAction, EnqueueOutbound, EventInv, KindInv, Goto, local, store, Message, Reply, TypeOK, MappingKept, FinishMapping
<1>16. ASSUME NEW u \in Unit, FailEdit(u) PROVE MappingKept'
  BY <1>16, <1>0, UnitAssumption DEF FailEdit, Goto, local, store, Message, Reply, TypeOK, MappingKept, FinishMapping
<1>17. ASSUME NEW u \in Unit, DeleteRows(u) PROVE MappingKept'
  BY <1>17, <1>0, UnitAssumption DEF DeleteRows, KindInv, Goto, local, store, Message, Reply, TypeOK, MappingKept, FinishMapping
<1>18. ASSUME NEW e \in Event, NEW ids \in Reports(e), RecordCorrelation(e, ids) PROVE MappingKept'
  <2>1. \A u \in Unit : pc'[u] = pc[u] \/ (pc[u] = "parked" /\ pc'[u] = "exec")
    BY <1>18, <1>0, CorrelationFires
  <2>2. pending' = pending \ (Below(e) \cup ItemsOf(e)) /\ recorded' = recorded \cup {e} /\ eventOf' = eventOf
    BY <1>18 DEF RecordCorrelation
  <2> SUFFICES ASSUME NEW m \in Message, pc'[m] = "done", \A f \in recorded' : f < eventOf'[m]
               PROVE  FinishMapping(eventOf'[m], m) \in pending'
    BY DEF MappingKept, FinishMapping
  <2>3. FinishMapping(eventOf[m], m) \in pending
    BY <2>1, <2>2 DEF MappingKept, Message
  <2>4. e < eventOf[m] /\ e \in Nat /\ eventOf[m] \in Nat
    BY <2>2, <1>0, BoundAssumption DEF TypeOK, Event, NoEvent, Message
  <2>5. FinishMapping(eventOf[m], m) \notin Below(e) \cup ItemsOf(e)
    BY <2>4 DEF Below, ItemsOf, FinishMapping
  <2> QED
    BY <2>2, <2>3, <2>5
<1>19. CASE Age
  BY <1>19, <1>0, UnitAssumption DEF Age, local, Message, Reply, TypeOK, MappingKept, FinishMapping
<1>20. CASE SweepStale
  <2>1. \A u \in Unit : pc'[u] = pc[u] \/ (pc[u] = "parked" /\ pc'[u] = "exec")
    BY <1>20, <1>0, SweepFires
  <2>2. pending' = pending \ StaleReplies /\ recorded' = recorded /\ eventOf' = eventOf
    BY <1>20 DEF SweepStale
  <2>3. \A m \in Message : FinishMapping(eventOf[m], m) \notin StaleReplies
    BY DEF StaleReplies, FinishMapping
  <2> QED
    BY <2>1, <2>2, <2>3 DEF MappingKept, FinishMapping, Message
<1>21. CASE Restart
  BY <1>21, <1>0, UnitAssumption DEF Restart, InFlight, local, store, Message, Reply, TypeOK, MappingKept, FinishMapping
<1>22. CASE UNCHANGED vars
  BY <1>22, <1>0 DEF vars, local, store, Message, Reply, TypeOK, MappingKept, FinishMapping
<1> QED
  BY <1>1, <1>2, <1>3, <1>4, <1>5, <1>6, <1>7, <1>8, <1>9, <1>10, <1>11, <1>12, <1>13, <1>14, <1>15, <1>16, <1>17, <1>18, <1>19, <1>20, <1>21, <1>22 DEF Next, Running, HandlerStep, Correlate

\* Resolved targets are posts of the message depended on.
LEMMA TargetStep == IInv /\ [Next]_vars => TargetSound'
<1> SUFFICES ASSUME IInv, [Next]_vars PROVE TargetSound'
  OBVIOUS
<1> USE DEF IInv
<1>0. TypeOK /\ TypeOK'
  BY TypeStep
<1>1. ASSUME NEW u \in Unit, Arrive(u) PROVE TargetSound'
  BY <1>1, <1>0, UnitAssumption DEF Arrive, Goto, local, store, Message, Reply, TypeOK, TargetSound, TgIdsOf
<1>2. ASSUME NEW u \in Unit, LookupDep(u) PROVE TargetSound'
  BY <1>2, <1>0, UnitAssumption DEF LookupDep, Goto, local, store, Message, Reply, TypeOK, TargetSound, TgIdsOf
<1>3. ASSUME NEW u \in Unit, ExecuteNow(u) PROVE TargetSound'
  BY <1>3, <1>0, UnitAssumption DEF ExecuteNow, Goto, local, store, Message, Reply, TypeOK, TargetSound, TgIdsOf
<1>4. ASSUME NEW u \in Unit, ParkAction(u) PROVE TargetSound'
  BY <1>4, <1>0, UnitAssumption DEF ParkAction, Goto, local, store, Message, Reply, TypeOK, TargetSound, TgIdsOf
<1>5. ASSUME NEW u \in Unit, DropAction(u) PROVE TargetSound'
  BY <1>5, <1>0, UnitAssumption DEF DropAction, Goto, local, store, Message, Reply, TypeOK, TargetSound, TgIdsOf
<1>6. ASSUME NEW u \in Unit, ParkReply(u) PROVE TargetSound'
  BY <1>6, <1>0, UnitAssumption DEF ParkReply, Goto, local, store, Message, Reply, TypeOK, TargetSound, TgIdsOf
<1>7. ASSUME NEW u \in Unit, GatherFiles(u) PROVE TargetSound'
  BY <1>7, <1>0, UnitAssumption DEF GatherFiles, Goto, local, store, Message, Reply, TypeOK, TargetSound, TgIdsOf
<1>8. ASSUME NEW u \in Unit, ParkGathered(u) PROVE TargetSound'
  BY <1>8, <1>0, UnitAssumption DEF ParkGathered, Goto, local, store, Message, Reply, TypeOK, TargetSound, TgIdsOf
<1>9. ASSUME NEW u \in Unit, SendUnthreaded(u) PROVE TargetSound'
  BY <1>9, <1>0, UnitAssumption DEF SendUnthreaded, Goto, local, store, Message, Reply, TypeOK, TargetSound, TgIdsOf
<1>10. ASSUME NEW u \in Unit, ResolveReply(u) PROVE TargetSound'
  <2>1. target' = [target EXCEPT ![u] = {}] \/ \E t \in IdsOf(DepOf[u]) : target' = [target EXCEPT ![u] = {t}]
    BY <1>10 DEF ResolveReply
  <2>2. \A t \in IdsOf(DepOf[u]) : t \in TgIdsOf(eventOf[DepOf[u]])
    BY DEF IdsOf, RowsOf, MapSound
  <2>3. eventOf' = eventOf
    BY <1>10 DEF ResolveReply
  <2>4. DepOf[u] # NoUnit
    BY <1>10, UnitAssumption DEF ResolveReply, Reply
  <2> QED
    BY <2>1, <2>2, <2>3, <2>4, <1>0 DEF TargetSound, TgIdsOf, TypeOK
<1>11. ASSUME NEW u \in Unit, ResolveTarget(u) PROVE TargetSound'
  <2>1. \/ target' = [target EXCEPT ![u] = IdsOf(DepOf[u])]
        \/ \E t \in IdsOf(DepOf[u]) : target' = [target EXCEPT ![u] = {t}]
    BY <1>11 DEF ResolveTarget
  <2>2. \A t \in IdsOf(DepOf[u]) : t \in TgIdsOf(eventOf[DepOf[u]])
    BY DEF IdsOf, RowsOf, MapSound
  <2>3. eventOf' = eventOf
    BY <1>11 DEF ResolveTarget
  <2>4. DepOf[u] # NoUnit
    BY <1>11, UnitAssumption DEF ResolveTarget, KindInv
  <2> QED
    BY <2>1, <2>2, <2>3, <2>4, <1>0 DEF TargetSound, TgIdsOf, TypeOK
<1>12. ASSUME NEW u \in Unit, MissTarget(u) PROVE TargetSound'
  BY <1>12, <1>0, UnitAssumption DEF MissTarget, Goto, local, store, Message, Reply, TypeOK, TargetSound, TgIdsOf
<1>13. ASSUME NEW u \in Unit, EnqueueMessage(u) PROVE TargetSound'
  <2>1. eventOf' = [eventOf EXCEPT ![u] = nextEvent] /\ target' = target
    BY <1>13 DEF EnqueueMessage, EnqueueOutbound, local
  <2>2. eventOf[u] = NoEvent
    BY <1>13 DEF EnqueueMessage, EventInv
  <2> SUFFICES ASSUME NEW v \in Unit, NEW t \in target[v]
               PROVE  DepOf[v] # NoUnit /\ t \in TgIdsOf(eventOf'[DepOf[v]])
    BY <2>1 DEF TargetSound, TgIdsOf
  <2>3. DepOf[v] # NoUnit /\ t \in TgIdsOf(eventOf[DepOf[v]])
    BY DEF TargetSound
  <2>4. t \notin TgIdsOf(NoEvent)
    BY <1>0, BoundAssumption DEF TypeOK, TgId, TgIdsOf, Event, NoEvent
  <2> QED
    BY <1>0, <2>1, <2>2, <2>3, <2>4, UnitAssumption DEF TypeOK, Message
<1>14. ASSUME NEW u \in Unit, RegisterPendingMapping(u) PROVE TargetSound'
  BY <1>14, <1>0, UnitAssumption DEF RegisterPendingMapping, Goto, local, store, Message, Reply, TypeOK, TargetSound, TgIdsOf
<1>15. ASSUME NEW u \in Unit, ApplyAction(u) PROVE TargetSound'
  <2>1. eventOf' = [eventOf EXCEPT ![u] = nextEvent] /\ target' = target
    BY <1>15 DEF ApplyAction, EnqueueOutbound, local
  <2>2. eventOf[u] = NoEvent
    BY <1>15 DEF ApplyAction, EventInv
  <2> SUFFICES ASSUME NEW v \in Unit, NEW t \in target[v]
               PROVE  DepOf[v] # NoUnit /\ t \in TgIdsOf(eventOf'[DepOf[v]])
    BY <2>1 DEF TargetSound, TgIdsOf
  <2>3. DepOf[v] # NoUnit /\ t \in TgIdsOf(eventOf[DepOf[v]])
    BY DEF TargetSound
  <2>4. t \notin TgIdsOf(NoEvent)
    BY <1>0, BoundAssumption DEF TypeOK, TgId, TgIdsOf, Event, NoEvent
  <2> QED
    BY <1>0, <2>1, <2>2, <2>3, <2>4, UnitAssumption DEF TypeOK, Message
<1>16. ASSUME NEW u \in Unit, FailEdit(u) PROVE TargetSound'
  BY <1>16, <1>0, UnitAssumption DEF FailEdit, Goto, local, store, Message, Reply, TypeOK, TargetSound, TgIdsOf
<1>17. ASSUME NEW u \in Unit, DeleteRows(u) PROVE TargetSound'
  BY <1>17, <1>0, UnitAssumption DEF DeleteRows, Goto, local, store, Message, Reply, TypeOK, TargetSound, TgIdsOf
<1>18. ASSUME NEW e \in Event, NEW ids \in Reports(e), RecordCorrelation(e, ids) PROVE TargetSound'
  <2>1. \A u \in Unit : pc'[u] = pc[u] \/ (pc[u] = "parked" /\ pc'[u] = "exec")
    BY <1>18, <1>0, CorrelationFires
  <2> QED
    BY <1>18, <1>0, <2>1, UnitAssumption DEF RecordCorrelation, local, Message, Reply, TypeOK, Below, ItemsOf, TargetSound, TgIdsOf
<1>19. CASE Age
  BY <1>19, <1>0, UnitAssumption DEF Age, local, Message, Reply, TypeOK, TargetSound, TgIdsOf
<1>20. CASE SweepStale
  <2>1. \A u \in Unit : pc'[u] = pc[u] \/ (pc[u] = "parked" /\ pc'[u] = "exec")
    BY <1>20, <1>0, SweepFires
  <2> QED
    BY <1>20, <1>0, <2>1, UnitAssumption DEF SweepStale, StaleReplies, local, Message, Reply, TypeOK, TargetSound, TgIdsOf
<1>21. CASE Restart
  BY <1>21, <1>0, UnitAssumption DEF Restart, InFlight, local, store, Message, Reply, TypeOK, TargetSound, TgIdsOf
<1>22. CASE UNCHANGED vars
  BY <1>22, <1>0 DEF vars, local, store, Message, Reply, TypeOK, TargetSound, TgIdsOf
<1> QED
  BY <1>1, <1>2, <1>3, <1>4, <1>5, <1>6, <1>7, <1>8, <1>9, <1>10, <1>11, <1>12, <1>13, <1>14, <1>15, <1>16, <1>17, <1>18, <1>19, <1>20, <1>21, <1>22 DEF Next, Running, HandlerStep, Correlate

\* Nothing maps a deleted message again.
LEMMA DeletedStep == IInv /\ [Next]_vars => DeletedStaysUnmapped'
<1> SUFFICES ASSUME IInv, [Next]_vars PROVE DeletedStaysUnmapped'
  OBVIOUS
<1> USE DEF IInv
<1>0. TypeOK /\ TypeOK'
  BY TypeStep
<1>1. ASSUME NEW u \in Unit, Arrive(u) PROVE DeletedStaysUnmapped'
  BY <1>1, <1>0, UnitAssumption DEF Arrive, Goto, local, store, Message, Reply, TypeOK, DeletedStaysUnmapped, RowsOf
<1>2. ASSUME NEW u \in Unit, LookupDep(u) PROVE DeletedStaysUnmapped'
  BY <1>2, <1>0, UnitAssumption DEF LookupDep, Goto, local, store, Message, Reply, TypeOK, DeletedStaysUnmapped, RowsOf
<1>3. ASSUME NEW u \in Unit, ExecuteNow(u) PROVE DeletedStaysUnmapped'
  BY <1>3, <1>0, UnitAssumption DEF ExecuteNow, Goto, local, store, Message, Reply, TypeOK, DeletedStaysUnmapped, RowsOf
<1>4. ASSUME NEW u \in Unit, ParkAction(u) PROVE DeletedStaysUnmapped'
  BY <1>4, <1>0, UnitAssumption DEF ParkAction, ParkOn, Goto, local, store, Message, Reply, TypeOK, DeletedStaysUnmapped, RowsOf
<1>5. ASSUME NEW u \in Unit, DropAction(u) PROVE DeletedStaysUnmapped'
  BY <1>5, <1>0, UnitAssumption DEF DropAction, Goto, local, store, Message, Reply, TypeOK, DeletedStaysUnmapped, RowsOf
<1>6. ASSUME NEW u \in Unit, ParkReply(u) PROVE DeletedStaysUnmapped'
  BY <1>6, <1>0, UnitAssumption DEF ParkReply, ParkOn, Goto, local, store, Message, Reply, TypeOK, DeletedStaysUnmapped, RowsOf
<1>7. ASSUME NEW u \in Unit, GatherFiles(u) PROVE DeletedStaysUnmapped'
  BY <1>7, <1>0, UnitAssumption DEF GatherFiles, Goto, local, store, Message, Reply, TypeOK, DeletedStaysUnmapped, RowsOf
<1>8. ASSUME NEW u \in Unit, ParkGathered(u) PROVE DeletedStaysUnmapped'
  BY <1>8, <1>0, UnitAssumption DEF ParkGathered, ParkOn, Goto, local, store, Message, Reply, TypeOK, DeletedStaysUnmapped, RowsOf
<1>9. ASSUME NEW u \in Unit, SendUnthreaded(u) PROVE DeletedStaysUnmapped'
  BY <1>9, <1>0, UnitAssumption DEF SendUnthreaded, Goto, local, store, Message, Reply, TypeOK, DeletedStaysUnmapped, RowsOf
<1>10. ASSUME NEW u \in Unit, ResolveReply(u) PROVE DeletedStaysUnmapped'
  BY <1>10, <1>0, UnitAssumption DEF ResolveReply, Goto, local, store, Message, Reply, TypeOK, DeletedStaysUnmapped, RowsOf
<1>11. ASSUME NEW u \in Unit, ResolveTarget(u) PROVE DeletedStaysUnmapped'
  BY <1>11, <1>0, UnitAssumption DEF ResolveTarget, Goto, local, store, Message, Reply, TypeOK, DeletedStaysUnmapped, RowsOf
<1>12. ASSUME NEW u \in Unit, MissTarget(u) PROVE DeletedStaysUnmapped'
  BY <1>12, <1>0, UnitAssumption DEF MissTarget, Goto, local, store, Message, Reply, TypeOK, DeletedStaysUnmapped, RowsOf
<1>13. ASSUME NEW u \in Unit, EnqueueMessage(u) PROVE DeletedStaysUnmapped'
  BY <1>13, <1>0, UnitAssumption DEF EnqueueMessage, EnqueueOutbound, KindInv, Goto, local, store, Message, Reply, TypeOK, DeletedStaysUnmapped, RowsOf
<1>14. ASSUME NEW u \in Unit, RegisterPendingMapping(u) PROVE DeletedStaysUnmapped'
  BY <1>14, <1>0, UnitAssumption DEF RegisterPendingMapping, KindInv, Goto, local, store, Message, Reply, TypeOK, DeletedStaysUnmapped, RowsOf
<1>15. ASSUME NEW u \in Unit, ApplyAction(u) PROVE DeletedStaysUnmapped'
  BY <1>15, <1>0, UnitAssumption DEF ApplyAction, EnqueueOutbound, KindInv, Goto, local, store, Message, Reply, TypeOK, DeletedStaysUnmapped, RowsOf
<1>16. ASSUME NEW u \in Unit, FailEdit(u) PROVE DeletedStaysUnmapped'
  BY <1>16, <1>0, UnitAssumption DEF FailEdit, Goto, local, store, Message, Reply, TypeOK, DeletedStaysUnmapped, RowsOf
<1>17. ASSUME NEW u \in Unit, DeleteRows(u) PROVE DeletedStaysUnmapped'
  BY <1>17, <1>0, UnitAssumption DEF DeleteRows, Goto, local, store, Message, Reply, TypeOK, DeletedStaysUnmapped, RowsOf
<1>18. ASSUME NEW e \in Event, NEW ids \in Reports(e), RecordCorrelation(e, ids) PROVE DeletedStaysUnmapped'
  <2>1. \A u \in Unit : pc'[u] = pc[u] \/ (pc[u] = "parked" /\ pc'[u] = "exec")
    BY <1>18, <1>0, CorrelationFires
  <2> SUFFICES ASSUME NEW u \in Unit, KindOf[u] = "delete", pc'[u] = "done", NEW r \in map',
                      r.dc = DepOf[u]
               PROVE  FALSE
    BY DEF DeletedStaysUnmapped, RowsOf
  <2>2. pc[u] = "done" /\ r \notin map /\ Finished(DepOf[u])
    BY <2>1 DEF DeletedStaysUnmapped, RowsOf, MapInv
  <2>3. PICK it \in ItemsOf(e) : it.kind = "finish_mapping" /\ r \in [tg : ids, dc : {it.unit}]
    BY <1>18, <2>2, StoredRows DEF RecordCorrelation
  <2> QED
    BY <2>2, <2>3 DEF Finished, ItemsOf
<1>19. CASE Age
  BY <1>19, <1>0, UnitAssumption DEF Age, local, Message, Reply, TypeOK, DeletedStaysUnmapped, RowsOf
<1>20. CASE SweepStale
  <2>1. \A u \in Unit : pc'[u] = pc[u] \/ (pc[u] = "parked" /\ pc'[u] = "exec")
    BY <1>20, <1>0, SweepFires
  <2> QED
    BY <1>20, <1>0, <2>1, UnitAssumption DEF SweepStale, StaleReplies, local, Message, Reply, TypeOK, DeletedStaysUnmapped, RowsOf
<1>21. CASE Restart
  BY <1>21, <1>0, UnitAssumption DEF Restart, InFlight, local, store, Message, Reply, TypeOK, DeletedStaysUnmapped, RowsOf
<1>22. CASE UNCHANGED vars
  BY <1>22, <1>0 DEF vars, local, store, Message, Reply, TypeOK, DeletedStaysUnmapped, RowsOf
<1> QED
  BY <1>1, <1>2, <1>3, <1>4, <1>5, <1>6, <1>7, <1>8, <1>9, <1>10, <1>11, <1>12, <1>13, <1>14, <1>15, <1>16, <1>17, <1>18, <1>19, <1>20, <1>21, <1>22 DEF Next, Running, HandlerStep, Correlate
--------------------------------------------------------------------------------
(* The theorems *)

\* The invariant holds initially.
LEMMA InitIInv == Init => IInv
<1> SUFFICES ASSUME Init PROVE IInv
  OBVIOUS
<1>1. TypeOK
  <2>1. 1 \in 1..(MaxEvent + 1)
    BY BoundAssumption
  <2> QED
    BY <2>1 DEF Init, TypeOK, PCs, NoEvent
<1>2. KindInv /\ EventInv /\ FinishInv /\ MapInv /\ MappingKept
  BY UnitAssumption
     DEF Init, KindInv, EventInv, FinishInv, MapInv, MappingKept, Message, NoEvent
<1>3. ParkedIffPending /\ AwaitingIffPending
  BY DEF Init, ParkedIffPending, AwaitingIffPending, NoEvent, Event
<1>4. MapSound /\ TargetSound /\ DeletedStaysUnmapped
  BY DEF Init, MapSound, TargetSound, DeletedStaysUnmapped
<1> QED
  BY <1>1, <1>2, <1>3, <1>4 DEF IInv

\* Every step, a restart included, preserves the invariant.
LEMMA StepIInv == IInv /\ [Next]_vars => IInv'
BY TypeStep, KindStep, EventStep, FinishStep, ParkedStep, AwaitingStep, MapSoundStep,
   MapInvStep, KeptStep, TargetStep, DeletedStep DEF IInv

\* The inductive invariant holds in every behaviour, restarts included.
THEOREM Invariance == Spec => []IInv
<1>1. Init => IInv
  BY InitIInv
<1>2. IInv /\ [Next]_vars => IInv'
  BY StepIInv
<1> QED
  BY <1>1, <1>2, PTL DEF Spec

\* Type correctness of the server's correlation state.
THEOREM TypeCorrect == Spec => []TypeOK
BY Invariance, PTL DEF IInv

\* No parked action is forgotten and none can be fired twice.
THEOREM ParkedCorrect == Spec => []ParkedIffPending
BY Invariance, PTL DEF IInv

\* awaiting_index and pending_work agree, also after a restart.
THEOREM AwaitingCorrect == Spec => []AwaitingIffPending
BY Invariance, PTL DEF IInv

\* message_map links Telegram posts to the Discord message they came from.
THEOREM MapCorrect == Spec => []MapSound
BY Invariance, PTL DEF IInv

\* Neither the sweep nor a restart gives up a mapping.
THEOREM MappingKeptAlways == Spec => []MappingKept
BY Invariance, PTL DEF IInv

\* Replies and actions reach only the posts of the message they are about.
THEOREM TargetCorrect == Spec => []TargetSound
BY Invariance, PTL DEF IInv

\* A deleted message stays unmapped whatever is reported later.
THEOREM DeletedCorrect == Spec => []DeletedStaysUnmapped
BY Invariance, PTL DEF IInv

\* A happening is sent to the client once at most.
THEOREM RelayedAtMostOnce == Spec => RelayedOnce
<1>1. IInv /\ [Next]_vars => [\A u \in Unit : eventOf[u] # NoEvent => eventOf'[u] = eventOf[u]]_vars
  <2> SUFFICES ASSUME IInv, Next, NEW u \in Unit, eventOf[u] # NoEvent
               PROVE  eventOf'[u] = eventOf[u]
    OBVIOUS
  <2>1. ASSUME NEW v \in Unit, EnqueueMessage(v) \/ ApplyAction(v)
        PROVE  eventOf'[u] = eventOf[u]
    <3>1. eventOf' = [eventOf EXCEPT ![v] = nextEvent] /\ pc[v] \in {"enqueue", "apply"}
      BY <2>1 DEF EnqueueMessage, ApplyAction, EnqueueOutbound
    <3>2. v # u
      BY <3>1 DEF IInv, EventInv
    <3> QED
      BY <3>1, <3>2 DEF IInv, TypeOK
  <2>2. ASSUME NEW v \in Unit, HandlerStep(v), ~EnqueueMessage(v), ~ApplyAction(v)
        PROVE  eventOf' = eventOf
    BY <2>2 DEF HandlerStep, LookupDep, ExecuteNow, ParkAction, DropAction, ParkReply,
       GatherFiles, ParkGathered, SendUnthreaded, ResolveReply, ResolveTarget, MissTarget,
       RegisterPendingMapping, FailEdit, DeleteRows
  <2>3. ASSUME NEW v \in Unit, Arrive(v) PROVE eventOf' = eventOf
    BY <2>3 DEF Arrive
  <2>4. Correlate \/ Age \/ SweepStale \/ Restart => eventOf' = eventOf
    BY DEF Correlate, RecordCorrelation, Age, SweepStale, Restart
  <2> QED
    BY <2>1, <2>2, <2>3, <2>4 DEF Next, Running
<1> QED
  BY <1>1, Invariance, PTL DEF Spec, RelayedOnce

\* The only steps that take items out of the store.
LEMMA OnlyTwoTake ==
  ASSUME Next, NEW it \in pending \ pending'
  PROVE  \/ \E e \in Event : \E ids \in Reports(e) : RecordCorrelation(e, ids)
         \/ SweepStale
<1>1. ASSUME NEW u \in Unit, Arrive(u) \/ HandlerStep(u) PROVE pending \subseteq pending'
  BY <1>1
     DEF HandlerStep, Arrive, LookupDep, ExecuteNow, ParkAction, DropAction, ParkReply,
         GatherFiles, ParkGathered, SendUnthreaded, ResolveReply, ResolveTarget, MissTarget,
         EnqueueMessage, RegisterPendingMapping, ApplyAction, FailEdit, DeleteRows, ParkOn, store
<1>2. Age \/ Restart => pending \subseteq pending'
  BY DEF Age, Restart, store
<1> QED
  BY <1>1, <1>2 DEF Next, Running, Correlate

\* A mapping leaves the store written in full, or after a later report.
THEOREM FinishedInFull == Spec => FinishLeavesMapped
<1> DEFINE Left(it) ==
      \/ /\ it.event \in recorded'
         /\ \A t \in registry'[it.event] : [tg |-> t, dc |-> it.unit] \in map'
      \/ \E f \in recorded' : f > it.event
<1>1. IInv /\ [Next]_vars =>
        [\A it \in pending \ pending' : it.kind = "finish_mapping" => Left(it)]_vars
  <2> SUFFICES ASSUME IInv, Next, NEW it \in pending \ pending', it.kind = "finish_mapping"
               PROVE  Left(it)
    OBVIOUS
  <2>1. ASSUME NEW e \in Event, NEW ids \in Reports(e), RecordCorrelation(e, ids)
        PROVE  Left(it)
    <3>1. it \in Below(e) \cup ItemsOf(e) /\ recorded' = recorded \cup {e}
      BY <2>1 DEF RecordCorrelation
    <3>2. CASE it \in Below(e)
      BY <3>1, <3>2, BoundAssumption DEF Below, Event, IInv, TypeOK, Item
    <3>3. CASE it \in ItemsOf(e)
      <4>1. it.event = e
        BY <3>3 DEF ItemsOf
      <4>2. registry'[e] = ids
        BY <2>1 DEF RecordCorrelation, IInv, TypeOK
      <4>3. map' = StoreRows(ItemsOf(e), ids)
        BY <2>1 DEF RecordCorrelation
      <4>4. \A t \in ids : [tg |-> t, dc |-> it.unit] \in StoreRows(ItemsOf(e), ids)
        BY <3>3 DEF StoreRows
      <4> QED
        BY <3>1, <4>1, <4>2, <4>3, <4>4
    <3> QED
      BY <3>1, <3>2, <3>3
  <2>2. ~SweepStale
    BY DEF SweepStale, StaleReplies
  <2> QED
    BY <2>1, <2>2, OnlyTwoTake
<1> QED
  BY <1>1, Invariance, PTL DEF Spec, FinishLeavesMapped

\* Where replies carry no attachments, nothing waits in the store without the
\* finish_mapping item that releases it.
THEOREM ParkedBehindCorrect ==
  ASSUME WithFiles = {}
  PROVE  Spec => []ParkedBehindMapping
<1> DEFINE JInv == ParkedBehindMapping /\ \A u \in Unit : pc[u] # "gather"
<1>1. Init => JInv
  BY DEF Init, ParkedBehindMapping
<1>2. IInv /\ IInv' /\ JInv /\ [Next]_vars => JInv'
  <2> SUFFICES ASSUME IInv, IInv', JInv, [Next]_vars PROVE JInv'
    OBVIOUS
  <2> USE DEF ParkedBehindMapping
  <2>1. ASSUME NEW u \in Unit, ParkAction(u) \/ ParkReply(u) PROVE JInv'
    <3>1. awaiting[DepOf[u]] \in Event /\ DepOf[u] \in Message
      BY <2>1, DepIsMessage DEF ParkAction, ParkReply, CanPark, Reply, IInv, TypeOK, KindInv
    <3>2. FinishMapping(awaiting[DepOf[u]], DepOf[u]) \in pending
      BY <3>1 DEF IInv, AwaitingIffPending
    <3>3. /\ pending' = pending \cup {PerformAction(awaiting[DepOf[u]], u)}
          /\ pc' = [pc EXCEPT ![u] = "parked"]
      BY <2>1 DEF ParkAction, ParkReply, ParkOn, Goto
    <3>4. /\ PerformAction(awaiting[DepOf[u]], u).event = awaiting[DepOf[u]]
          /\ PerformAction(awaiting[DepOf[u]], u).unit = u
      BY DEF PerformAction
    <3> QED
      BY <3>2, <3>3, <3>4 DEF IInv, TypeOK
  <2>2. ASSUME NEW e \in Event, NEW ids \in Reports(e), RecordCorrelation(e, ids) PROVE JInv'
    <3>1. \A v \in Unit : pc'[v] = pc[v] \/ (pc[v] = "parked" /\ pc'[v] = "exec")
      BY <2>2, CorrelationFires DEF IInv
    <3>2. pending' = pending \ (Below(e) \cup ItemsOf(e))
      BY <2>2 DEF RecordCorrelation
    <3>3. \A it \in pending, m \in Message :
             FinishMapping(it.event, m) \in Below(e) \cup ItemsOf(e)
               => it \in Below(e) \cup ItemsOf(e)
      BY DEF Below, ItemsOf, FinishMapping
    <3>4. \A it \in pending : it.kind = "perform_action" => DepOf[it.unit] \in Message
      BY DepIsMessage DEF IInv, TypeOK, Item, ParkedIffPending, KindInv
    <3> QED
      BY <3>1, <3>2, <3>3, <3>4
  <2>3. CASE SweepStale
    <3>1. \A v \in Unit : pc'[v] = pc[v] \/ (pc[v] = "parked" /\ pc'[v] = "exec")
      BY <2>3, SweepFires DEF IInv
    <3>2. pending' = pending \ StaleReplies
      BY <2>3 DEF SweepStale
    <3>3. \A e, m : FinishMapping(e, m) \notin StaleReplies
      BY DEF FinishMapping, StaleReplies
    <3> QED
      BY <3>1, <3>2, <3>3
  <2>4. ASSUME NEW u \in Unit, RegisterPendingMapping(u) PROVE JInv'
    BY <2>4 DEF RegisterPendingMapping, FinishMapping, Goto, IInv, TypeOK
  <2>5. ASSUME NEW u \in Unit, GatherFiles(u) \/ ParkGathered(u) PROVE FALSE
    BY <2>5 DEF GatherFiles, ParkGathered
  <2>6. ASSUME NEW u \in Unit,
               \/ Arrive(u) \/ LookupDep(u) \/ ExecuteNow(u) \/ DropAction(u)
               \/ SendUnthreaded(u) \/ ResolveReply(u) \/ ResolveTarget(u)
               \/ MissTarget(u) \/ EnqueueMessage(u) \/ ApplyAction(u)
               \/ FailEdit(u) \/ DeleteRows(u)
        PROVE  JInv'
    <3>1. pending' = pending
      BY <2>6 DEF Arrive, LookupDep, ExecuteNow, DropAction, SendUnthreaded, ResolveReply,
         ResolveTarget, MissTarget, EnqueueMessage, ApplyAction, FailEdit, DeleteRows, store
    <3>2. \E l \in PCs \ {"gather"} : pc' = [pc EXCEPT ![u] = l]
      BY <2>6 DEF Arrive, LookupDep, ExecuteNow, DropAction, SendUnthreaded, ResolveReply,
         ResolveTarget, MissTarget, EnqueueMessage, ApplyAction, FailEdit, DeleteRows, Goto,
         PCs, InFlight, Settled
    <3> QED
      BY <3>1, <3>2 DEF IInv, TypeOK
  <2>7. CASE Age
    BY <2>7 DEF Age
  <2>8. CASE Restart
    BY <2>8 DEF Restart, store
  <2>9. CASE UNCHANGED vars
    BY <2>9 DEF vars, store
  <2> QED
    BY <2>1, <2>2, <2>3, <2>4, <2>5, <2>6, <2>7, <2>8, <2>9
       DEF Next, Running, HandlerStep, Correlate
<1>3. JInv => ParkedBehindMapping
  OBVIOUS
<1> QED
  BY <1>1, <1>2, <1>3, Invariance, PTL DEF Spec
================================================================================
