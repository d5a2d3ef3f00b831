-------------------------------- MODULE Userbot --------------------------------
(***************************************************************************)
(* The userbot, the gateway client that posts relayed events to Telegram   *)
(* (userbot_bridge.py, userbot_outbox.py, userbot_db.py): the poll loop    *)
(* enqueues each event in a persistent outbox and acks it; the outbox      *)
(* worker performs the actions and correlates them with Telegram ids.      *)
(*                                                                         *)
(* The server of the gateway (RequireACK) is external here: the rows of    *)
(* its gateway_queue, its attachment store, and the correlations it gets.  *)
(* The poll loop and the worker are two asyncio tasks; a step of either is *)
(* what it does between two awaits.                                        *)
(***************************************************************************)
EXTENDS Naturals, Sequences, FiniteSets, SequencesExt

CONSTANTS
    MaxEvent,   \* bound on gateway_queue row ids
    Acts,       \* the events that post nothing: edits, reactions, deletions
    FilesOf,    \* [Event -> Nat]: attachments of a message
    Faults,     \* the faults that can happen
    MaxFaults   \* bound on how many do

Event == 1..MaxEvent
FaultKinds == {"crash", "flood", "poison", "lost", "disk"}

ASSUME UserbotAssumption ==
    /\ MaxEvent \in Nat /\ MaxFaults \in Nat
    /\ Acts \subseteq Event
    /\ FilesOf \in [Event -> Nat]
    /\ \A e \in Acts : FilesOf[e] = 0
    /\ Faults \subseteq FaultKinds

VARIABLES
    \* server side
    nextEvent,  \* next AUTOINCREMENT id of gateway_queue
    queue,      \* rows of gateway_queue: SUBSET Event
    files,      \* events whose attachments are still in the server's store
    reports,    \* correlations received: Seq([event, ids])
    \* poll loop
    batch,      \* polled events still to handle, lowest id first
    bpc,        \* where the poll loop is
    seen,       \* _seen_inbound
    \* outbox
    rows,       \* deferred_actions in seq order: Seq(Event)
    wake,       \* the asyncio.Event _wake
    wpc,        \* where the worker is
    part,       \* attachments of the head action already dealt with
    produced,   \* Telegram ids the head action produced so far
    current,    \* the event being correlated
    \* what happened
    telegram,   \* posts and actions applied, a post's id is its position
    outcome,    \* [Event -> {"none", "done", "poison"}]
    faults      \* the faults that happened: Seq(FaultKinds)

server == <<nextEvent, queue, files, reports>>
poller == <<batch, bpc, seen>>
worker == <<wpc, part, produced, current>>
vars   == <<server, poller, rows, wake, worker, telegram, outcome, faults>>

TypeOK ==
    /\ nextEvent \in 1..(MaxEvent + 1)
    /\ queue \subseteq Event
    /\ files \subseteq Event
    /\ reports \in Seq([event : Event, ids : SUBSET Nat])
    /\ batch \subseteq Event
    /\ bpc \in {"poll", "event", "enqueued", "ack"}
    /\ seen \subseteq Event
    /\ rows \in Seq(Event)
    /\ wake \in BOOLEAN
    /\ wpc \in {"peek", "empty", "sleep", "head", "wait", "perform", "delete", "correlate"}
    /\ part \in Nat
    /\ produced \subseteq Nat
    /\ current \in Event \cup {0}
    /\ telegram \in Seq(Event)
    /\ outcome \in [Event -> {"none", "done", "poison"}]
    /\ faults \in Seq(FaultKinds)

Init ==
    /\ nextEvent = 1 /\ queue = {} /\ files = {} /\ reports = <<>>
    /\ batch = {} /\ bpc = "poll" /\ seen = {}
    /\ rows = <<>> /\ wake = FALSE
    /\ wpc = "peek" /\ part = 0 /\ produced = {} /\ current = 0
    /\ telegram = <<>>
    /\ outcome = [e \in Event |-> "none"]
    /\ faults = <<>>

Fault(kind) ==
    /\ kind \in Faults
    /\ Len(faults) < MaxFaults
    /\ faults' = Append(faults, kind)

--------------------------------------------------------------------------------
(* The server *)

\* enqueue_outbound of a relayed event; its attachments are stored already.
Relay ==
    /\ nextEvent \in Event
    /\ queue' = queue \cup {nextEvent}
    /\ files' = IF FilesOf[nextEvent] > 0 THEN files \cup {nextEvent} ELSE files
    /\ nextEvent' = nextEvent + 1
    /\ UNCHANGED <<reports, poller, rows, wake, worker, telegram, outcome, faults>>

--------------------------------------------------------------------------------
(* The poll loop: run_poll_loop, on_gateway_events, _handle_one_event *)

\* Mutant: the newest event first.
IsLast(e) == e \in batch /\ \A f \in batch : f <= e

\* The event the loop over the batch has come to.
IsFirst(e) == e \in batch /\ \A f \in batch : e <= f

\* A poll returns every row not acked yet.  A lost response changes nothing.
Poll ==
    /\ bpc = "poll"
    /\ queue # {}
    /\ batch' = queue
    /\ bpc' = "event"
    /\ UNCHANGED <<server, seen, rows, wake, worker, telegram, outcome, faults>>

\* Goes on with the next event of the batch, or polls again.
After(e) ==
    /\ batch' = batch \ {e}
    /\ bpc' = IF batch' = {} THEN "poll" ELSE "event"

\* Outbox.enqueue: the row is inserted in an executor thread ...
Enqueue(e) ==
    /\ bpc = "event"
    /\ IsFirst(e)
    /\ e \notin seen
    /\ rows' = Append(rows, e)
    /\ bpc' = "enqueued"
    /\ UNCHANGED <<server, batch, seen, wake, worker, telegram, outcome, faults>>

\* Mutant: a failed insert is swallowed, and the event acked.
EnqueueFailsAcked(e) ==
    /\ bpc = "event"
    /\ IsFirst(e)
    /\ e \notin seen
    /\ Fault("disk")
    /\ bpc' = "ack"
    /\ UNCHANGED <<server, batch, seen, rows, wake, worker, telegram, outcome>>

\* ... or the insert fails, and the event is neither marked seen nor acked.
EnqueueFails(e) ==
    /\ bpc = "event"
    /\ IsFirst(e)
    /\ e \notin seen
    /\ Fault("disk")
    /\ After(e)
    /\ UNCHANGED <<server, seen, rows, wake, worker, telegram, outcome>>

SetWake(e) ==
    /\ bpc = "enqueued"
    /\ IsFirst(e)
    /\ wake' = TRUE
    /\ bpc' = "ack"
    /\ UNCHANGED <<server, batch, seen, rows, worker, telegram, outcome, faults>>

\* Mutant: a redelivered event is skipped.
SkipSeen(e) ==
    /\ bpc = "event"
    /\ IsFirst(e)
    /\ e \in seen
    /\ After(e)
    /\ UNCHANGED <<server, seen, rows, wake, worker, telegram, outcome, faults>>

\* A redelivered event is only acked again.
Reack(e) ==
    /\ bpc = "event"
    /\ IsFirst(e)
    /\ e \in seen
    /\ bpc' = "ack"
    /\ UNCHANGED <<server, batch, seen, rows, wake, worker, telegram, outcome, faults>>

\* The ack: the server deletes the row and the attachments it references.
Ack(e) ==
    /\ bpc = "ack"
    /\ IsFirst(e)
    /\ queue' = queue \ {e}
    /\ files' = files \ {e}
    /\ seen' = seen \cup {e}
    /\ After(e)
    /\ UNCHANGED <<nextEvent, reports, rows, wake, worker, telegram, outcome, faults>>

\* Mutant: an event is marked seen only when its ack got through.
AckLostUnseen(e) ==
    /\ bpc = "ack"
    /\ IsFirst(e)
    /\ Fault("lost")
    /\ After(e)
    /\ UNCHANGED <<server, seen, rows, wake, worker, telegram, outcome>>

\* _ack_events swallows a failed request; the event is marked seen all the same.
AckLost(e) ==
    /\ bpc = "ack"
    /\ IsFirst(e)
    /\ Fault("lost")
    /\ seen' = seen \cup {e}
    /\ After(e)
    /\ UNCHANGED <<server, rows, wake, worker, telegram, outcome>>

--------------------------------------------------------------------------------
(* The outbox worker: Outbox.run *)

PeekHead ==
    /\ wpc = "peek"
    /\ wpc' = IF rows = <<>> THEN "empty" ELSE "head"
    /\ UNCHANGED <<server, poller, rows, wake, part, produced, current, telegram, outcome, faults>>

\* peek_head returned None: clear the wake event, then wait for it.
Sleep ==
    /\ wpc = "empty"
    /\ wake' = FALSE
    /\ wpc' = "sleep"
    /\ UNCHANGED <<server, poller, rows, part, produced, current, telegram, outcome, faults>>

Woken ==
    /\ wpc = "sleep"
    /\ wake
    /\ wpc' = "peek"
    /\ UNCHANGED <<server, poller, rows, wake, part, produced, current, telegram, outcome, faults>>

\* The head is not ready (metering or defer_until): wait, or be woken early.
Wait ==
    /\ wpc = "head"
    /\ wpc' = "wait"
    /\ UNCHANGED <<server, poller, rows, wake, part, produced, current, telegram, outcome, faults>>

\* Mutant: it goes to sleep after the wait instead of looking again.
EndWaitAsleep ==
    /\ wpc = "wait"
    /\ wake' \in {wake, FALSE}
    /\ wpc' = "sleep"
    /\ UNCHANGED <<server, poller, rows, part, produced, current, telegram, outcome, faults>>

EndWait ==
    /\ wpc = "wait"
    /\ wake' \in {wake, FALSE}
    /\ wpc' = "peek"
    /\ UNCHANGED <<server, poller, rows, part, produced, current, telegram, outcome, faults>>

\* Mutant: the ids of the action before are still there.
BeginPerformDirty ==
    /\ wpc = "head"
    /\ wpc' = "perform"
    /\ part' = 0
    /\ UNCHANGED <<server, poller, rows, wake, produced, current, telegram, outcome, faults>>

BeginPerform ==
    /\ wpc = "head"
    /\ wpc' = "perform"
    /\ part' = 0
    /\ produced' = {}
    /\ UNCHANGED <<server, poller, rows, wake, current, telegram, outcome, faults>>

\* perform_action of the head row.
Performing(e) == wpc = "perform" /\ e = Head(rows)

\* Telegram applies one more post or action of e.
Apply(e) == telegram' = Append(telegram, e)

\* An edit, a reaction, a deletion.
Act(e) ==
    /\ Performing(e)
    /\ e \in Acts
    /\ Apply(e)
    /\ wpc' = "delete"
    /\ UNCHANGED <<server, poller, rows, wake, part, produced, current, outcome, faults>>

\* A message's attachments are downloaded and posted one at a time; one that
\* cannot be downloaded is skipped: the server no longer has it, or the
\* request fails.
PostFile(e) ==
    /\ Performing(e)
    /\ part < FilesOf[e]
    /\ e \in files
    /\ Apply(e)
    /\ produced' = produced \cup {Len(telegram')}
    /\ part' = part + 1
    /\ UNCHANGED <<server, poller, rows, wake, wpc, current, outcome, faults>>

SkipFile(e) ==
    /\ Performing(e)
    /\ part < FilesOf[e]
    /\ e \notin files
    /\ part' = part + 1
    /\ UNCHANGED <<server, poller, rows, wake, wpc, produced, current, telegram, outcome, faults>>

DownloadFails(e) ==
    /\ Performing(e)
    /\ part < FilesOf[e]
    /\ e \in files
    /\ Fault("lost")
    /\ part' = part + 1
    /\ UNCHANGED <<server, poller, rows, wake, wpc, produced, current, telegram, outcome>>

\* The text alone, when there are no attachments or none could be posted.
PostText(e) ==
    /\ Performing(e)
    /\ e \notin Acts
    /\ part = FilesOf[e]
    /\ produced = {}
    /\ Apply(e)
    /\ produced' = {Len(telegram')}
    /\ wpc' = "delete"
    /\ UNCHANGED <<server, poller, rows, wake, part, current, outcome, faults>>

\* The first file carried the text as its caption, or there was no text.
FilesPosted(e) ==
    /\ Performing(e)
    /\ part = FilesOf[e]
    /\ part > 0
    /\ wpc' = "delete"
    /\ UNCHANGED <<server, poller, rows, wake, part, produced, current, telegram, outcome, faults>>

CallsTelegram(e) ==
    \/ e \in Acts
    \/ part < FilesOf[e] /\ e \in files
    \/ part = FilesOf[e] /\ produced = {}

\* FloodWaitError: reappend moves the row to the tail.
Flood(e) ==
    /\ Performing(e)
    /\ CallsTelegram(e)
    /\ Fault("flood")
    /\ rows' = Append(Tail(rows), e)
    /\ wpc' = "peek"
    /\ UNCHANGED <<server, poller, wake, part, produced, current, telegram, outcome>>

\* Any other error of Telegram: the action is dropped, and not correlated.
Poison(e) ==
    /\ Performing(e)
    /\ CallsTelegram(e)
    /\ Fault("poison")
    /\ rows' = Tail(rows)
    /\ outcome' = [outcome EXCEPT ![e] = "poison"]
    /\ wpc' = "peek"
    /\ UNCHANGED <<server, poller, wake, part, produced, current, telegram>>

DeleteRow ==
    /\ wpc = "delete"
    /\ current' = Head(rows)
    /\ outcome' = [outcome EXCEPT ![Head(rows)] = "done"]
    /\ rows' = Tail(rows)
    /\ wpc' = "correlate"
    /\ UNCHANGED <<server, poller, wake, part, produced, telegram, faults>>

\* on_correlate, send_correlate: what the action produced goes to the server.
Correlate ==
    /\ wpc = "correlate"
    /\ reports' = Append(reports, [event |-> current, ids |-> produced])
    /\ wpc' = "peek"
    /\ UNCHANGED <<nextEvent, queue, files, poller, rows, wake, part, produced, current,
                   telegram, outcome, faults>>

\* A failed request is logged and forgotten.
CorrelateLost ==
    /\ wpc = "correlate"
    /\ Fault("lost")
    /\ wpc' = "peek"
    /\ UNCHANGED <<server, poller, rows, wake, part, produced, current, telegram, outcome>>

--------------------------------------------------------------------------------
\* Mutant: the worker goes on where it was.
CrashResuming ==
    /\ Fault("crash")
    /\ batch' = {} /\ bpc' = "poll" /\ seen' = {}
    /\ wake' = FALSE
    /\ part' = 0 /\ produced' = {} /\ current' = 0
    /\ UNCHANGED <<server, rows, wpc, telegram, outcome>>

\* The userbot stops between two steps and starts again with the stored rows.
Crash ==
    /\ Fault("crash")
    /\ batch' = {} /\ bpc' = "poll" /\ seen' = {}
    /\ wake' = FALSE
    /\ wpc' = "peek" /\ part' = 0 /\ produced' = {} /\ current' = 0
    /\ UNCHANGED <<server, rows, telegram, outcome>>

HandleStep(e) ==
    Enqueue(e) \/ EnqueueFails(e) \/ SetWake(e) \/ Reack(e) \/ Ack(e) \/ AckLost(e)

PollerStep == Poll \/ \E e \in Event : HandleStep(e)

PerformStep(e) ==
    \/ Act(e) \/ PostFile(e) \/ SkipFile(e) \/ DownloadFails(e) \/ PostText(e) \/ FilesPosted(e)
    \/ Flood(e) \/ Poison(e)

WorkerStep ==
    \/ PeekHead \/ Sleep \/ Woken \/ Wait \/ EndWait \/ BeginPerform
    \/ \E e \in Event : PerformStep(e)
    \/ DeleteRow \/ Correlate \/ CorrelateLost

Next == Relay \/ PollerStep \/ WorkerStep \/ Crash

Spec == Init /\ [][Next]_vars

\* Both tasks keep running; metering and flood waits end, so the head of the
\* outbox is not found unready for ever.
LiveSpec ==
    /\ Spec
    /\ WF_vars(PollerStep)
    /\ WF_vars(WorkerStep)
    /\ SF_vars(BeginPerform)

--------------------------------------------------------------------------------
(* Properties *)

Stored == ToSet(rows)

\* The posts and actions Telegram got for e.
Applied(e) == {i \in DOMAIN telegram : telegram[i] = e}

\* An event that left the server's queue is in the outbox or has been dealt
\* with: no crash, flood, failed insert or lost ack loses an event ("Acked
\* means durably received"; "no silent loss").
NoSilentLoss ==
    \A e \in Event : e < nextEvent => e \in queue \cup Stored \/ outcome[e] # "none"

\* What is reported for an event are posts of that event.
ReportSound ==
    \A i \in DOMAIN reports : reports[i].ids \subseteq Applied(reports[i].event)

\* No fault of these kinds happened.
Without(kinds) == ToSet(faults) \cap kinds = {}

\* With no restart and no flood wait, a message is applied to Telegram at most as
\* often as it has parts, and anything else once, though acks are lost and events
\* redelivered ("so a redelivered event (pre-ack) isn't acted on twice").
AppliedOnce ==
    Without({"crash", "flood"}) =>
        \A e \in Event : Cardinality(Applied(e)) <= (IF FilesOf[e] = 0 THEN 1 ELSE FilesOf[e])

\* Correlations arrive in the order of the events ("clients send correlations in
\* the same order they ACKed": the server abandons what a later one skips), unless an
\* event was put back: by a restart, a flood wait or a failed insert.  Lost acks and
\* correlations and dropped actions do not reorder them.
ReportsInOrder ==
    Without({"crash", "flood", "disk"}) =>
        \A i, j \in DOMAIN reports : i < j => reports[i].event < reports[j].event

\* While an action is performed, its attachments can still be downloaded (the
\* server deletes them on ack, when "no further download will be requested").
AttachmentsAvailable ==
    \A e \in Event : Performing(e) /\ part < FilesOf[e] => e \in files

\* Once the worker finds work it performs, defers or drops until the outbox is
\* empty: no flood or poison action wedges it.
WorkerDrains == wpc = "head" ~> rows = <<>>

\* Every event of the queue is acked in the end, though inserts fail, acks are
\* lost and the userbot restarts.
QueueDrains == \A e \in Event : e \in queue ~> e \notin queue

================================================================================
