------------------------------ MODULE Correlation ------------------------------
(***************************************************************************)
(* The correlation subsystem of a TDbridge gateway SERVER whose gateway    *)
(* has client_reposts and relay_user_messages set (gateway_server.py,      *)
(* pending_work.py, correlation.py and the Discord handlers of bot.py).    *)
(*                                                                         *)
(* A Discord message is relayed as an outbound gateway event; the client   *)
(* posts it to Telegram and later CORRELATES the event with the Telegram   *)
(* ids it got.  Until then the message has no message_map row, so an       *)
(* action on it (reply, reaction, edit, delete) is PARKED on the event.    *)
(*                                                                         *)
(* A unit is one thing that happens on Discord: a message, or an action    *)
(* that depends on a message.  pc[u] is where its handler is.  asyncio     *)
(* runs one step at a time, from one await to the next, so a step of a     *)
(* unit is what the handler does between two awaits.  Database calls made  *)
(* through run_in_executor are steps of their own.                         *)
(***************************************************************************)
EXTENDS Naturals

CONSTANTS
    Unit,      \* things that happen on Discord
    KindOf,    \* [Unit -> Kinds]
    DepOf,     \* [Unit -> Unit \cup {NoUnit}]: parent of a reply, target of an action
    NoUnit,
    WithFiles, \* the replies that carry attachments
    MaxEvent,  \* bound on gateway_queue row ids
    Album      \* most Telegram ids one posted message can get

Kinds   == {"message", "reply", "reaction", "edit", "delete"}
Message == {u \in Unit : KindOf[u] \in {"message", "reply"}}
Reply   == {u \in Unit : KindOf[u] = "reply"}

ASSUME UnitAssumption ==
    /\ KindOf \in [Unit -> Kinds]
    /\ NoUnit \notin Unit
    /\ DepOf \in [Unit -> Message \cup {NoUnit}]
    /\ \A u \in Unit : DepOf[u] = NoUnit <=> KindOf[u] = "message"
    /\ WithFiles \subseteq Reply

ASSUME BoundAssumption == MaxEvent \in Nat /\ Album \in Nat

NoEvent == 0
Event   == 1..MaxEvent
TgId    == Event \X (1..Album)          \* Telegram ids, named by the event posted
TgIdsOf(e) == {e} \X (1..Album)

\* Work items of the pending_work table.  A finish_mapping item holds the
\* Discord message (unit) to map, a perform_action item the parked unit.
Item == [event : Event, kind : {"finish_mapping", "perform_action"}, unit : Unit]
FinishMapping(e, m) == [event |-> e, kind |-> "finish_mapping", unit |-> m]
PerformAction(e, u) == [event |-> e, kind |-> "perform_action", unit |-> u]

Row == [tg : TgId, dc : Message]        \* a row of message_map

VARIABLES
    pc,        \* [Unit -> PCs]: where the unit's handler is
    found,     \* [Unit -> BOOLEAN]: result of the handler's find_by_dc on DepOf
    due,       \* [Unit -> Event or NoEvent]: the event it parks or parked on
    target,    \* [Unit -> SUBSET TgId]: Telegram ids the executor resolved
    eventOf,   \* [Unit -> Event or NoEvent]: the outbound event it enqueued
    nextEvent, \* next AUTOINCREMENT id of gateway_queue
    pending,   \* pending_work: SUBSET Item
    stale,     \* the items of pending older than CORRELATION_STALE_SEC
    awaiting,  \* awaiting_index: [Message -> Event or NoEvent]
    recorded,  \* events with a row in correlations
    registry,  \* [Event -> SUBSET TgId]: target_ids of that row
    map,       \* message_map: SUBSET Row
    armed      \* "_periodic" in _stale_timers

local == <<found, due, target>>
store == <<pending, stale, awaiting>>
vars  == <<pc, found, due, target, eventOf, nextEvent, pending, stale,
           awaiting, recorded, registry, map, armed>>

InFlight == {"dispatch", "decide", "gather", "exec", "enqueue", "register",
             "apply", "unmap"}
Settled  == {"done", "dropped", "missed", "failed", "lost"}
PCs      == {"idle", "parked"} \cup InFlight \cup Settled

TypeOK ==
    /\ pc \in [Unit -> PCs]
    /\ found \in [Unit -> BOOLEAN]
    /\ due \in [Unit -> Event \cup {NoEvent}]
    /\ target \in [Unit -> SUBSET TgId]
    /\ eventOf \in [Unit -> Event \cup {NoEvent}]
    /\ nextEvent \in 1..(MaxEvent + 1)
    /\ pending \subseteq Item
    /\ stale \subseteq pending
    /\ awaiting \in [Message -> Event \cup {NoEvent}]
    /\ recorded \subseteq Event
    /\ registry \in [Event -> SUBSET TgId]
    /\ map \subseteq Row
    /\ armed \in BOOLEAN

Init ==
    /\ pc = [u \in Unit |-> "idle"]
    /\ found = [u \in Unit |-> FALSE]
    /\ due = [u \in Unit |-> NoEvent]
    /\ target = [u \in Unit |-> {}]
    /\ eventOf = [u \in Unit |-> NoEvent]
    /\ nextEvent = 1
    /\ pending = {}
    /\ stale = {}
    /\ awaiting = [m \in Message |-> NoEvent]
    /\ recorded = {}
    /\ registry = [e \in Event |-> {}]
    /\ map = {}
    /\ armed = FALSE

--------------------------------------------------------------------------------
(* Helpers *)

RowsOf(m)   == {r \in map : r.dc = m}          \* find_all_by_dc
IdsOf(m)    == {r.tg : r \in RowsOf(m)}
Goto(u, l)  == pc' = [pc EXCEPT ![u] = l]
Parked(its) == {it.unit : it \in {i \in its : i.kind = "perform_action"}}

\* Every parked unit of the items is handed to _perform_parked in a new task.
Fire(its) == pc' = [u \in Unit |-> IF u \in Parked(its) THEN "exec" ELSE pc[u]]

\* enqueue_outbound: a new row of gateway_queue carries the unit's event.
EnqueueOutbound(u) ==
    /\ nextEvent \in Event
    /\ eventOf' = [eventOf EXCEPT ![u] = nextEvent]
    /\ nextEvent' = nextEvent + 1

--------------------------------------------------------------------------------
(* Discord handlers: on_message, on_raw_message_edit/_delete,               *)
(* on_raw_reaction_add, up to the decision to execute, park or drop.        *)

\* Discord delivers the happening; it can only concern what already exists.
Arrive(u) ==
    /\ pc[u] = "idle"
    /\ DepOf[u] # NoUnit => pc[DepOf[u]] # "idle"
    /\ Goto(u, IF KindOf[u] = "message" THEN "enqueue" ELSE "dispatch")
    /\ UNCHANGED <<local, eventOf, nextEvent, store, recorded, registry, map, armed>>

\* await run_in_executor(find_by_dc): the answer is a snapshot of the map.
LookupDep(u) ==
    /\ pc[u] = "dispatch"
    /\ found' = [found EXCEPT ![u] = RowsOf(DepOf[u]) # {}]
    /\ Goto(u, "decide")
    /\ UNCHANGED <<due, target, eventOf, nextEvent, store, recorded, registry, map, armed>>

ExecuteNow(u) ==
    /\ pc[u] = "decide"
    /\ found[u]
    /\ Goto(u, "exec")
    /\ UNCHANGED <<local, eventOf, nextEvent, store, recorded, registry, map, armed>>

\* park_action, on the event the dependency is awaiting.
ParkOn(u, e) ==
    /\ pending' = pending \cup {PerformAction(e, u)}
    /\ due' = [due EXCEPT ![u] = e]
    /\ Goto(u, "parked")

\* _dispatch_or_park_action: resolve_awaiting_event and park_action run in
\* the same step.
ParkAction(u) ==
    /\ pc[u] = "decide"
    /\ ~found[u]
    /\ u \notin Reply
    /\ awaiting[DepOf[u]] # NoEvent
    /\ ParkOn(u, awaiting[DepOf[u]])
    /\ UNCHANGED <<found, target, eventOf, nextEvent, stale, awaiting, recorded, registry, map, armed>>

DropAction(u) ==
    /\ pc[u] = "decide"
    /\ ~found[u]
    /\ u \notin Reply
    /\ awaiting[DepOf[u]] = NoEvent
    /\ Goto(u, "dropped")
    /\ UNCHANGED <<local, eventOf, nextEvent, store, recorded, registry, map, armed>>

\* on_message, reply whose parent is not mapped.  get_pending_mapping_context
\* must find the parent's finish_mapping item, or the reply goes on as an
\* ordinary message.
HasContext(e) == \E it \in pending : it.event = e /\ it.kind = "finish_mapping"
CanPark(u) == awaiting[DepOf[u]] # NoEvent /\ HasContext(awaiting[DepOf[u]])

ParkReply(u) ==
    /\ pc[u] = "decide"
    /\ ~found[u]
    /\ u \in Reply \ WithFiles
    /\ CanPark(u)
    /\ ParkOn(u, awaiting[DepOf[u]])
    /\ UNCHANGED <<found, target, eventOf, nextEvent, stale, awaiting, recorded, registry, map, armed>>

\* Mutant: the handler forgets the event while it waits for the files.
GatherFilesForgetting(u) ==
    /\ pc[u] = "decide"
    /\ ~found[u]
    /\ u \in WithFiles
    /\ CanPark(u)
    /\ Goto(u, "gather")
    /\ UNCHANGED <<local, eventOf, nextEvent, store, recorded, registry, map, armed>>

\* A reply with attachments first awaits their download from Discord.
GatherFiles(u) ==
    /\ pc[u] = "decide"
    /\ ~found[u]
    /\ u \in WithFiles
    /\ CanPark(u)
    /\ due' = [due EXCEPT ![u] = awaiting[DepOf[u]]]
    /\ Goto(u, "gather")
    /\ UNCHANGED <<found, target, eventOf, nextEvent, store, recorded, registry, map, armed>>

ParkGathered(u) ==
    /\ pc[u] = "gather"
    /\ ParkOn(u, due[u])
    /\ UNCHANGED <<found, target, eventOf, nextEvent, stale, awaiting, recorded, registry, map, armed>>

SendUnthreaded(u) ==
    /\ pc[u] = "decide"
    /\ ~found[u]
    /\ u \in Reply
    /\ ~CanPark(u)
    /\ Goto(u, "enqueue")
    /\ UNCHANGED <<local, eventOf, nextEvent, store, recorded, registry, map, armed>>

--------------------------------------------------------------------------------
(* _execute_scheduled_action *)

\* The executor's own map lookup.  A reply takes the id of one row of its
\* parent, or none; a reaction and an edit need one row, a delete takes all.
ResolveReply(u) ==
    /\ pc[u] = "exec"
    /\ u \in Reply
    /\ \/ \E t \in IdsOf(DepOf[u]) : target' = [target EXCEPT ![u] = {t}]
       \/ IdsOf(DepOf[u]) = {} /\ target' = [target EXCEPT ![u] = {}]
    /\ Goto(u, "enqueue")
    /\ UNCHANGED <<found, due, eventOf, nextEvent, store, recorded, registry, map, armed>>

ResolveTarget(u) ==
    /\ pc[u] = "exec"
    /\ u \notin Reply
    /\ \/ /\ KindOf[u] = "delete"
          /\ IdsOf(DepOf[u]) # {}
          /\ target' = [target EXCEPT ![u] = IdsOf(DepOf[u])]
       \/ /\ KindOf[u] # "delete"
          /\ \E t \in IdsOf(DepOf[u]) : target' = [target EXCEPT ![u] = {t}]
    /\ Goto(u, "apply")
    /\ UNCHANGED <<found, due, eventOf, nextEvent, store, recorded, registry, map, armed>>

\* CORRELATION_MISSING fallback of reaction, edit and delete: a WARNING only.
MissTarget(u) ==
    /\ pc[u] = "exec"
    /\ u \notin Reply
    /\ IdsOf(DepOf[u]) = {}
    /\ Goto(u, "missed")
    /\ UNCHANGED <<local, eventOf, nextEvent, store, recorded, registry, map, armed>>

\* A message or reply: await enqueue_outbound.
EnqueueMessage(u) ==
    /\ pc[u] = "enqueue"
    /\ EnqueueOutbound(u)
    /\ Goto(u, "register")
    /\ UNCHANGED <<local, store, recorded, registry, map, armed>>

\* register_pending_mapping, once enqueue_outbound has returned the event id.
RegisterPendingMapping(u) ==
    /\ pc[u] = "register"
    /\ pending' = pending \cup {FinishMapping(eventOf[u], u)}
    /\ awaiting' = [awaiting EXCEPT ![u] = eventOf[u]]
    /\ armed' = TRUE
    /\ Goto(u, "done")
    /\ UNCHANGED <<local, eventOf, nextEvent, stale, recorded, registry, map>>

\* A reaction, edit or delete: the native Telegram call, then the outbound
\* event.  The native call of an edit may fail in both cascades.
ApplyAction(u) ==
    /\ pc[u] = "apply"
    /\ EnqueueOutbound(u)
    /\ Goto(u, IF KindOf[u] = "delete" THEN "unmap" ELSE "done")
    /\ UNCHANGED <<local, store, recorded, registry, map, armed>>

FailEdit(u) ==
    /\ pc[u] = "apply"
    /\ KindOf[u] = "edit"
    /\ Goto(u, "failed")
    /\ UNCHANGED <<local, eventOf, nextEvent, store, recorded, registry, map, armed>>

\* Mutant: only the newest of a message's rows is deleted.
DeleteOneRow(u) ==
    /\ pc[u] = "unmap"
    /\ \E r \in RowsOf(DepOf[u]) : map' = map \ {r}
    /\ Goto(u, "done")
    /\ UNCHANGED <<local, eventOf, nextEvent, store, recorded, registry, armed>>

\* delete_by_dc, the last step of a delete.
DeleteRows(u) ==
    /\ pc[u] = "unmap"
    /\ map' = map \ RowsOf(DepOf[u])
    /\ Goto(u, "done")
    /\ UNCHANGED <<local, eventOf, nextEvent, store, recorded, registry, armed>>

--------------------------------------------------------------------------------
(* record_correlation and the staleness sweep *)

\* What the client can report for an event: the ids of its posts, any subset
\* of those Telegram could assign; nothing for an action that posts nothing.
Reports(e) ==
    IF \E m \in Message : eventOf[m] = e THEN SUBSET TgIdsOf(e) ELSE {{}}

Below(e) == {it \in pending : it.event < e}    \* _pending_event_ids_below

\* Mutant of take: it also takes the abandoned events' items.
ItemsUpTo(e) == {it \in pending : it.event <= e}

ItemsOf(e) == {it \in pending : it.event = e}  \* PendingWorkStore.take

\* INSERT OR REPLACE of a row per id: an id maps to one Discord message.
StoreRows(its, ids) ==
    LET mapped == {it.unit : it \in {i \in its : i.kind = "finish_mapping"}}
    IN IF mapped = {} THEN map
       ELSE {r \in map : r.tg \notin ids} \cup [tg : ids, dc : mapped]

\* One correlate request, handled without an await.  Older pending events are
\* abandoned (_declare_abandoned), then e's own items are dispatched.
RecordCorrelation(e, ids) ==
    LET gone == Below(e) \cup ItemsOf(e) IN
    /\ e < nextEvent
    /\ pending' = pending \ gone
    /\ stale' = stale \ gone
    /\ awaiting' = [m \in Message |->
                      IF awaiting[m] \in {e} \cup {it.event : it \in gone}
                      THEN NoEvent ELSE awaiting[m]]
    /\ recorded' = recorded \cup {e}
    /\ registry' = [registry EXCEPT ![e] = ids]
    /\ map' = StoreRows(ItemsOf(e), ids)
    /\ Fire(gone)
    /\ UNCHANGED <<local, eventOf, nextEvent, armed>>

\* stale_sec passes: every item now in the store is older than the cutoff.
Age ==
    /\ stale' = pending
    /\ UNCHANGED <<pc, local, eventOf, nextEvent, pending, awaiting, recorded,
                   registry, map, armed>>

\* Mutant: the timeout gives up everything that is stale.
AllStale == stale

StaleReplies == {it \in stale : it.kind = "perform_action" /\ it.unit \in Reply}

\* Mutants: the sweep fires the replies but does not drop them; it is armed
\* again only while something is already stale.
SweepWithoutDrop ==
    /\ armed
    /\ Fire(StaleReplies)
    /\ armed' = (pending # {})
    /\ UNCHANGED <<local, eventOf, nextEvent, store, recorded, registry, map>>

SweepRearmedByStale ==
    /\ armed
    /\ pending' = pending \ StaleReplies
    /\ stale' = stale \ StaleReplies
    /\ Fire(StaleReplies)
    /\ armed' = (stale' # {})
    /\ UNCHANGED <<local, eventOf, nextEvent, awaiting, recorded, registry, map>>

\* The periodic timer runs _sweep_stale: only parked replies fall back, and
\* the timer is armed again while anything is pending.
SweepStale ==
    /\ armed
    /\ pending' = pending \ StaleReplies
    /\ stale' = stale \ StaleReplies
    /\ Fire(StaleReplies)
    /\ armed' = (pending' # {})
    /\ UNCHANGED <<local, eventOf, nextEvent, awaiting, recorded, registry, map>>

\* The process stops between two steps and starts again: the SQLite tables
\* stay, the tasks and the timer do not.
Restart ==
    /\ pc' = [u \in Unit |-> IF pc[u] \in InFlight THEN "lost" ELSE pc[u]]
    /\ armed' = FALSE
    /\ UNCHANGED <<local, eventOf, nextEvent, store, recorded, registry, map>>

--------------------------------------------------------------------------------
HandlerStep(u) ==
    \/ LookupDep(u) \/ ExecuteNow(u) \/ ParkAction(u) \/ DropAction(u)
    \/ ParkReply(u) \/ GatherFiles(u) \/ ParkGathered(u) \/ SendUnthreaded(u)
    \/ ResolveReply(u) \/ ResolveTarget(u) \/ MissTarget(u)
    \/ EnqueueMessage(u) \/ RegisterPendingMapping(u)
    \/ ApplyAction(u) \/ FailEdit(u) \/ DeleteRows(u)

Correlate == \E e \in Event : \E ids \in Reports(e) : RecordCorrelation(e, ids)

Running ==
    \/ \E u \in Unit : Arrive(u) \/ HandlerStep(u)
    \/ Correlate
    \/ Age
    \/ SweepStale

Next == Running \/ Restart

Spec == Init /\ [][Next]_vars

\* The event loop runs every ready task and timer, and time passes; users,
\* the client and the operator owe nothing.
Fairness ==
    /\ \A u \in Unit : WF_vars(HandlerStep(u))
    /\ WF_vars(Age)
    /\ WF_vars(SweepStale)

\* One uninterrupted life of the process.
UpSpec     == Init /\ [][Running]_vars
LiveUpSpec == UpSpec /\ Fairness

--------------------------------------------------------------------------------
(* Properties *)

\* The store and the handlers agree: a unit is parked iff one perform_action
\* item holds it.  So no parked action is forgotten, and none is fired twice
\* by two of correlation, abandonment and sweep (take and drop run before the
\* tasks they create).
ParkedIffPending ==
    /\ \A u \in Unit : pc[u] = "parked" => u \in Parked(pending)
    /\ \A it \in pending : it.kind = "perform_action" => pc[it.unit] = "parked"
    /\ \A i, j \in pending : i.kind = j.kind /\ i.unit = j.unit => i = j

\* awaiting_index and pending_work agree: a message awaits event e iff e's
\* finish_mapping item for it is in the store, also across a restart.  Else an
\* action would park on an event that nothing completes, or be dropped.
AwaitingIffPending ==
    \A m \in Message, e \in Event :
        awaiting[m] = e <=> FinishMapping(e, m) \in pending

\* A message_map row links a Telegram id to the Discord message whose own
\* event the client posted, whatever was abandoned, swept or reported late.
MapSound ==
    \A r \in map : eventOf[r.dc] # NoEvent /\ r.tg \in TgIdsOf(eventOf[r.dc])

\* Until the client reports it or a later event, a registered message keeps
\* its finish_mapping item: the sweep and restarts never give up a mapping
\* ("a late correlation still writes the row").
MappingKept ==
    \A m \in Message :
        pc[m] = "done" /\ (\A f \in recorded : f < eventOf[m])
            => FinishMapping(eventOf[m], m) \in pending

\* A finish_mapping item leaves the store only by a report of its own event,
\* with every reported id mapped, or after the report of a later event
\* (the ACK-order rule of record_correlation).
FinishLeavesMapped ==
    [][\A it \in pending \ pending' :
         it.kind = "finish_mapping" =>
            \/ /\ it.event \in recorded'
               /\ \A t \in registry'[it.event] : [tg |-> t, dc |-> it.unit] \in map'
            \/ \E f \in recorded' : f > it.event]_vars

\* A reply threads under, and an action applies to, only Telegram posts of
\* the very message it depends on, even when its parent was abandoned.
TargetSound ==
    \A u \in Unit : \A t \in target[u] :
        DepOf[u] # NoUnit /\ t \in TgIdsOf(eventOf[DepOf[u]])

\* Whatever happens on Discord is sent to the client in one event at most,
\* though parked, timed out, abandoned and correlated twice.
RelayedOnce ==
    [][\A u \in Unit : eventOf[u] # NoEvent => eventOf'[u] = eventOf[u]]_vars

\* Once a delete has been carried out, its message is never mapped again by a
\* repeated or late correlation: a later action on it finds nothing.
DeletedStaysUnmapped ==
    \A u \in Unit :
        KindOf[u] = "delete" /\ pc[u] = "done" => RowsOf(DepOf[u]) = {}

\* Unless replies carry attachments, an action waits in the store only behind the
\* finish_mapping item that will release it (park_action: "Inserted AFTER the
\* finish_mapping item for the same event"); GatherFiles is the exception.
ParkedBehindMapping ==
    \A it \in pending :
        it.kind = "perform_action" => FinishMapping(it.event, DepOf[it.unit]) \in pending

\* Within one life of the process, a parked reply is sent in the end, threaded or
\* as an ordinary message, even if the client never reports anything.  A reply
\* with files is left out while the sweep is not armed: SweepArmed is why.
ReplySettles ==
    \A u \in Reply :
        pc[u] = "parked" /\ (u \in WithFiles => armed) ~> pc[u] = "done"

\* "The sweep re-arms itself while any event remains stuck": it fails for a reply
\* that gathers its files while the correlation empties the store and the sweep
\* stops.  Nothing sends the reply until another message is registered or a
\* later event is correlated.
SweepArmed == pending # {} => armed

================================================================================
