------------------------------ MODULE GatewayQueue ------------------------------
(***************************************************************************)
(* The outbound queue of the gateway server (gateway_server.py, db.py,     *)
(* gateway_files.py): events and their attachments are stored, long-polled *)
(* and acked by one client, and attachments that are too old are swept.    *)
(*                                                                         *)
(* Handlers run as asyncio tasks and their database calls in executor      *)
(* threads: a step is one database call, or what a task does between two   *)
(* awaits.  A client that loses a connection leaves its handler running.   *)
(* Column delivered_at is left out: it is written and never read.          *)
(***************************************************************************)
EXTENDS Naturals, FiniteSets

CONSTANTS
    MaxEvent,    \* bound on gateway_queue row ids
    File,        \* file_refs that can be given out
    NoFile,
    Handler,     \* requests the server handles at a time
    NoHandler,
    RequireAck,  \* the gateway's require_ack
    PollLimit,   \* rows one poll returns: 100
    AckLimit,    \* rows the ack handler looks through: 1000
    MaxFaults    \* bound on restarts of the server and lost connections

Event == 1..MaxEvent

ASSUME GatewayQueueAssumption ==
    /\ MaxEvent \in Nat /\ MaxFaults \in Nat
    /\ NoFile \notin File /\ NoHandler \notin Handler
    /\ RequireAck \in BOOLEAN
    /\ PollLimit \in Nat \ {0} /\ AckLimit \in Nat /\ PollLimit <= AckLimit

VARIABLES
    \* the database and the files directory
    next,     \* the next AUTOINCREMENT id
    queue,    \* the rows of gateway_queue
    ref,      \* [Event -> File \cup {NoFile}]: the attachment of an event
    files,    \* the stored files
    unused,   \* file_refs not given out yet
    old,      \* files past LEFTOVER_AGE_SECONDS
    \* the tasks of the server
    holder,   \* [File -> who keeps it for an event that is not queued yet]
    silent,   \* events queued whose enqueue has not notified the pollers yet
    pc,       \* [Handler -> where it is]
    ids,      \* [Handler -> the event ids it read or was asked to ack]
    refs,     \* [Handler -> the attachments of the events it read]
    spc,      \* where the sweep is
    expiring, \* the file it expires
    faults,   \* faults left
    \* the client
    conn,     \* the handler of its request in flight
    inbox,    \* events received and not acked
    wanted,   \* their attachments still to download
    got,      \* events ever received
    asked,    \* attachments it asked for
    \* history
    late      \* events whose attachment had passed the age before they were queued

store  == <<next, queue, ref, files, unused, old>>
gather == <<holder, silent, late>>
handle == <<pc, ids, refs>>
sweep  == <<spc, expiring>>
client == <<conn, inbox, wanted, got, asked>>
vars   == <<store, gather, handle, sweep, faults, client>>

TypeOK ==
    /\ next \in 1..(MaxEvent + 1)
    /\ queue \subseteq 1..(next - 1)
    /\ ref \in [Event -> File \cup {NoFile}]
    /\ files \subseteq File \ unused /\ unused \subseteq File /\ old \subseteq files
    /\ holder \in [File -> {"nobody", "handler", "pending_work", "task"}]
    /\ silent \subseteq Event /\ late \subseteq Event
    /\ pc \in [Handler -> {"idle", "peek", "peeked", "wait", "clean", "reply",
                           "ackpeek", "ackdelete", "ackclean"}]
    /\ ids \in [Handler -> SUBSET Event]
    /\ refs \in [Handler -> SUBSET File]
    /\ spc \in {"idle", "rewrite", "delete"}
    /\ expiring \in File \cup {NoFile}
    /\ faults \in Nat
    /\ conn \in Handler \cup {NoHandler}
    /\ inbox \subseteq Event /\ got \subseteq Event
    /\ wanted \subseteq File /\ asked \subseteq File

Init ==
    /\ next = 1 /\ queue = {} /\ ref = [e \in Event |-> NoFile]
    /\ files = {} /\ unused = File /\ old = {}
    /\ holder = [f \in File |-> "nobody"] /\ silent = {} /\ late = {}
    /\ pc = [h \in Handler |-> "idle"]
    /\ ids = [h \in Handler |-> {}]
    /\ refs = [h \in Handler |-> {}]
    /\ spc = "idle" /\ expiring = NoFile
    /\ faults = MaxFaults
    /\ conn = NoHandler /\ inbox = {} /\ wanted = {} /\ got = {} /\ asked = {}

Goto(h, to) == pc' = [pc EXCEPT ![h] = to]

Fault ==
    /\ faults > 0
    /\ faults' = faults - 1

\* The first n of a set of rows: ORDER BY id ASC LIMIT n.
Oldest(n, rows) == {e \in rows : Cardinality({d \in rows : d < e}) < n}

\* The attachments of a set of events.
RefsOf(events) == {ref[e] : e \in events} \ {NoFile}

--------------------------------------------------------------------------------
(* A relayed event: its attachment is stored, then its row is inserted, at once or
   after it was parked until the message it replies to is correlated *)

Hold(f, by) == holder' = [holder EXCEPT ![f] = by]

\* store_upload, under a file_ref of its own.
StoreFile(f) ==
    /\ f \in unused
    /\ unused' = unused \ {f}
    /\ files' = files \cup {f}
    /\ Hold(f, "handler")
    /\ UNCHANGED <<next, queue, ref, old, silent, late, handle, sweep, faults, client>>

\* park_action: the file_ref goes into a row of pending_work ...
Park(f) ==
    /\ holder[f] = "handler"
    /\ Hold(f, "pending_work")
    /\ UNCHANGED <<store, silent, late, handle, sweep, faults, client>>

\* ... and from there to the task that sends the parked reply.
Fire(f) ==
    /\ holder[f] = "pending_work"
    /\ Hold(f, "task")
    /\ UNCHANGED <<store, silent, late, handle, sweep, faults, client>>

\* gateway_enqueue, in an executor thread, of an event with a file or without ...
Insert(f) ==
    /\ next \in Event
    /\ f # NoFile => holder[f] \in {"handler", "task"}
    /\ queue' = queue \cup {next}
    /\ ref' = [ref EXCEPT ![next] = f]
    /\ next' = next + 1
    /\ holder' = [g \in File |-> IF g = f THEN "nobody" ELSE holder[g]]
    /\ silent' = silent \cup {next}
    /\ late' = late \cup IF f \in files \ old \/ f = NoFile THEN {} ELSE {next}
    /\ UNCHANGED <<files, unused, old, handle, sweep, faults, client>>

\* ... and then, back in the loop thread, every waiting poll is woken.
Notify(e) ==
    /\ e \in silent
    /\ silent' = silent \ {e}
    /\ pc' = [h \in Handler |-> IF pc[h] = "wait" THEN "peek" ELSE pc[h]]
    /\ UNCHANGED <<store, holder, late, ids, refs, sweep, faults, client>>

--------------------------------------------------------------------------------
(* _handle_poll *)

\* Mutant: only what was not returned by a poll before.
PeekUndelivered(h) ==
    /\ pc[h] = "peek"
    /\ ids' = [ids EXCEPT ![h] = Oldest(PollLimit, queue \ got)]
    /\ refs' = [refs EXCEPT ![h] = RefsOf(ids'[h])]
    /\ Goto(h, "peeked")
    /\ UNCHANGED <<store, gather, sweep, faults, client>>

\* Mutant: the newest rows.
PeekNewest(h) ==
    /\ pc[h] = "peek"
    /\ ids' = [ids EXCEPT ![h] = {e \in queue : Cardinality({d \in queue : d > e}) < PollLimit}]
    /\ refs' = [refs EXCEPT ![h] = RefsOf(ids'[h])]
    /\ Goto(h, "peeked")
    /\ UNCHANGED <<store, gather, sweep, faults, client>>

\* gateway_peek, in an executor thread.
PeekQueue(h) ==
    /\ pc[h] = "peek"
    /\ ids' = [ids EXCEPT ![h] = Oldest(PollLimit, queue)]
    /\ refs' = [refs EXCEPT ![h] = RefsOf(ids'[h])]
    /\ Goto(h, "peeked")
    /\ UNCHANGED <<store, gather, sweep, faults, client>>

\* There was no row: _poll_wakeup is cleared, whoever set it since the peek, and
\* waited for.
AwaitWakeup(h) ==
    /\ pc[h] = "peeked"
    /\ ids[h] = {}
    /\ Goto(h, "wait")
    /\ UNCHANGED <<store, gather, ids, refs, sweep, faults, client>>

\* Mutant: the rows of an event are kept until the answer is sent.
KeepDelivered(h) ==
    /\ pc[h] = "peeked"
    /\ ids[h] # {}
    /\ Goto(h, "reply")
    /\ UNCHANGED <<store, gather, ids, refs, sweep, faults, client>>

\* Mutant: the attachments go when the events are delivered.
CleanDelivered(h) ==
    /\ pc[h] = "peeked"
    /\ ids[h] # {}
    /\ queue' = IF RequireAck THEN queue ELSE queue \ ids[h]
    /\ Goto(h, "clean")
    /\ UNCHANGED <<next, ref, files, unused, old, gather, ids, refs, sweep, faults, client>>

\* There were rows: a gateway that requires acks retains them; another deletes
\* them, and then their attachments.
TakeRows(h) ==
    /\ pc[h] = "peeked"
    /\ ids[h] # {}
    /\ queue' = IF RequireAck THEN queue ELSE queue \ ids[h]
    /\ Goto(h, IF RequireAck THEN "reply" ELSE "clean")
    /\ UNCHANGED <<next, ref, files, unused, old, gather, ids, refs, sweep, faults, client>>

\* Mutant: the bytes are removed, and the row stays.
DeleteBytes(fs) ==
    /\ files' = files \ fs
    /\ UNCHANGED <<next, queue, ref, unused, old>>

\* delete_file of some files; the sweep's ages go with them.
DeleteFiles(fs) ==
    /\ files' = files \ fs
    /\ old' = old \ fs
    /\ UNCHANGED <<next, queue, ref, unused>>

CleanFiles(h) ==
    /\ pc[h] = "clean"
    /\ DeleteFiles(refs[h])
    /\ Goto(h, "reply")
    /\ UNCHANGED <<gather, ids, refs, sweep, faults, client>>

\* The answer to a request reaches the client if it still waits for it.
Answered(h) == conn' = IF conn = h THEN NoHandler ELSE conn

\* The handler is done, and its locals are gone.
Finish(h) ==
    /\ Goto(h, "idle")
    /\ ids' = [ids EXCEPT ![h] = {}]
    /\ refs' = [refs EXCEPT ![h] = {}]

\* The ten seconds are over: no events.
Deadline(h) ==
    /\ pc[h] = "wait" \/ (pc[h] = "peeked" /\ ids[h] = {})
    /\ Finish(h)
    /\ Answered(h)
    /\ UNCHANGED <<store, gather, sweep, faults, inbox, wanted, got, asked>>

Reply(h) ==
    /\ pc[h] = "reply"
    /\ conn = h
    /\ conn' = NoHandler
    /\ inbox' = ids[h]
    /\ wanted' = refs[h]
    /\ got' = got \cup ids[h]
    /\ Finish(h)
    /\ UNCHANGED <<store, gather, sweep, faults, asked>>

ReplyToNobody(h) ==
    /\ pc[h] = "reply"
    /\ conn # h
    /\ Finish(h)
    /\ UNCHANGED <<store, gather, sweep, faults, client>>

--------------------------------------------------------------------------------
(* _handle_ack *)

\* Mutant: the rows are deleted before they are read for their attachments.
AckPeekDeleted(h) ==
    /\ pc[h] = "ackpeek"
    /\ queue' = queue \ ids[h]
    /\ refs' = [refs EXCEPT ![h] = RefsOf(ids[h] \cap queue')]
    /\ Goto(h, "ackclean")
    /\ UNCHANGED <<next, ref, files, unused, old, gather, ids, sweep, faults, client>>

\* The rows are read for their attachments, ...
AckPeek(h) ==
    /\ pc[h] = "ackpeek"
    /\ refs' = [refs EXCEPT ![h] = RefsOf(ids[h] \cap Oldest(AckLimit, queue))]
    /\ Goto(h, "ackdelete")
    /\ UNCHANGED <<store, gather, ids, sweep, faults, client>>

\* ... deleted, ...
AckDelete(h) ==
    /\ pc[h] = "ackdelete"
    /\ queue' = queue \ ids[h]
    /\ Goto(h, "ackclean")
    /\ UNCHANGED <<next, ref, files, unused, old, gather, ids, refs, sweep, faults, client>>

\* ... and so are the attachments.
AckClean(h) ==
    /\ pc[h] = "ackclean"
    /\ DeleteFiles(refs[h])
    /\ Finish(h)
    /\ Answered(h)
    /\ UNCHANGED <<gather, sweep, faults, inbox, wanted, got, asked>>

--------------------------------------------------------------------------------
(* The client: polls, downloads what it got, and acks it *)

Request(h, to) ==
    /\ conn = NoHandler
    /\ pc[h] = "idle"
    /\ conn' = h
    /\ Goto(h, to)

StartPoll(h) ==
    /\ inbox = {}
    /\ Request(h, "peek")
    /\ UNCHANGED <<store, gather, ids, refs, sweep, faults, inbox, wanted, got, asked>>

Download(f) ==
    /\ f \in wanted
    /\ wanted' = wanted \ {f}
    /\ asked' = asked \cup {f}
    /\ UNCHANGED <<store, gather, handle, sweep, faults, conn, inbox, got>>

StartAck(h, e) ==
    /\ e \in inbox
    /\ wanted = {}
    /\ Request(h, "ackpeek")
    /\ ids' = [ids EXCEPT ![h] = {e}]
    /\ inbox' = inbox \ {e}
    /\ UNCHANGED <<store, gather, refs, sweep, faults, wanted, got, asked>>

\* The request fails at the client; its handler goes on.
LoseConnection ==
    /\ Fault
    /\ conn # NoHandler
    /\ conn' = NoHandler
    /\ UNCHANGED <<store, gather, handle, sweep, inbox, wanted, got, asked>>

--------------------------------------------------------------------------------
(* sweep_leftovers, in an executor thread *)

\* A file passes the age; a handler does not run for that long, but a parked reply
\* waits for any time.
Age(f) ==
    /\ f \in files \ old
    /\ holder[f] # "handler"
    /\ old' = old \cup {f}
    /\ UNCHANGED <<next, queue, ref, files, unused, gather, handle, sweep, faults, client>>

\* Mutant: leftovers that no event references are passed over.
StartSweepReferenced(f) ==
    /\ spc = "idle"
    /\ f \in old
    /\ \E e \in queue : ref[e] = f
    /\ expiring' = f
    /\ spc' = "rewrite"
    /\ UNCHANGED <<store, gather, handle, faults, client>>

StartSweep(f) ==
    /\ spc = "idle"
    /\ f \in old
    /\ expiring' = f
    /\ spc' = "rewrite"
    /\ UNCHANGED <<store, gather, handle, faults, client>>

\* Mutant: the file is removed first.
RewriteAfterwards ==
    /\ spc = "rewrite"
    /\ DeleteFiles({expiring})
    /\ spc' = "delete"
    /\ UNCHANGED <<expiring, gather, handle, faults, client>>

\* The queued events that reference the file are rewritten without it, ...
RewriteEvents ==
    /\ spc = "rewrite"
    /\ ref' = [e \in Event |-> IF e \in queue /\ ref[e] = expiring THEN NoFile ELSE ref[e]]
    /\ spc' = "delete"
    /\ UNCHANGED <<next, queue, files, unused, old, expiring, gather, handle, faults, client>>

\* ... and the file is removed.
SweepFile ==
    /\ spc = "delete"
    /\ DeleteFiles({expiring})
    /\ spc' = "idle"
    /\ expiring' = NoFile
    /\ UNCHANGED <<gather, handle, faults, client>>

--------------------------------------------------------------------------------
\* The server stops between two steps and starts again: what its tasks hold is
\* lost, and what is parked is not.
Restart ==
    /\ Fault
    /\ holder' = [f \in File |-> IF holder[f] = "pending_work" THEN "pending_work" ELSE "nobody"]
    /\ silent' = {}
    /\ pc' = [h \in Handler |-> "idle"]
    /\ ids' = [h \in Handler |-> {}]
    /\ refs' = [h \in Handler |-> {}]
    /\ spc' = "idle" /\ expiring' = NoFile
    /\ conn' = NoHandler
    /\ UNCHANGED <<store, inbox, wanted, got, asked, late>>

EnqueueStep ==
    \/ \E f \in File : StoreFile(f) \/ Park(f) \/ Fire(f)
    \/ \E f \in File \cup {NoFile} : Insert(f)

PollStep(h) ==
    \/ PeekQueue(h) \/ AwaitWakeup(h) \/ TakeRows(h) \/ CleanFiles(h)
    \/ Deadline(h) \/ Reply(h) \/ ReplyToNobody(h)

AckStep(h) == AckPeek(h) \/ AckDelete(h) \/ AckClean(h)

ClientStep ==
    \/ \E h \in Handler : StartPoll(h)
    \/ \E f \in File : Download(f)
    \/ \E h \in Handler, e \in Event : StartAck(h, e)

SweepStep == (\E f \in File : StartSweep(f)) \/ RewriteEvents \/ SweepFile

Next ==
    \/ EnqueueStep
    \/ \E e \in Event : Notify(e)
    \/ \E h \in Handler : PollStep(h) \/ AckStep(h)
    \/ ClientStep
    \/ LoseConnection
    \/ \E f \in File : Age(f)
    \/ SweepStep
    \/ Restart

Spec == Init /\ [][Next]_vars

\* The server's tasks and the daily sweep go on, files grow old, and the client
\* keeps polling.
LiveSpec ==
    /\ Spec
    /\ \A h \in Handler : WF_vars(PollStep(h)) /\ WF_vars(AckStep(h))
    /\ WF_vars(ClientStep)
    /\ \A f \in File : WF_vars(Age(f))
    /\ WF_vars(SweepStep)

--------------------------------------------------------------------------------
(* Properties *)

\* With acks, what the server does is a queue that hands over every event in
\* the order of the ids, at least once, and forgets it only then: "retained
\* after delivery and only removed by a matching ack".
DQ == INSTANCE DeliveryQueue WITH sent <- next - 1, got <- got, gone <- (1..(next - 1)) \ queue

ImplementsDelivery == DQ!Spec

\* A queued event references only files that can still be downloaded, whatever
\* the sweep and the acks delete ("coherent messages rather than broken
\* file_refs").  The exception is an event that was queued late: a reply parked
\* until its attachment was old.
QueuedCoherent == \A e \in queue \ late : ref[e] # NoFile => ref[e] \in files

\* The same with no exception, as sweep_leftovers has it: "first rewrite any queued
\* events that still reference it".  A reply that is parked is in pending_work,
\* where nobody looks, and is queued with a file_ref that the sweep has removed.
EveryQueuedCoherent == \A e \in queue : ref[e] # NoFile => ref[e] \in files

\* A file that an event references or that is kept for one, or that is being removed.
Accounted(f) ==
    \/ holder[f] # "nobody"
    \/ \E e \in queue : ref[e] = f
    \/ \E h \in Handler : pc[h] \in {"clean", "ackdelete", "ackclean"} /\ f \in refs[h]
    \/ spc = "delete" /\ f = expiring

\* While the server runs, no step leaves a file that nothing accounts for: "a
\* leftover should not happen in normal operation".
NoLeftover ==
    [][Restart \/ \A f \in files' : Accounted(f)' \/ (f \in files /\ ~Accounted(f))]_vars

\* A file is removed only after the client asked for it, or when it is old
\* ("held on disk ... until they have been successfully sent or received").
HeldUntilAsked == [][\A f \in files \ files' : f \in asked \/ f \in old]_vars

\* Without acks, the client never gets an event twice, though a connection it
\* gave up may have taken it: "delivered events are ... deleted as they are
\* returned".
DeliveredOnce == [][\A h \in Handler : Reply(h) => ids[h] \cap got = {}]_vars

\* Every event leaves the queue in the end, though answers are lost and the
\* server restarts.
QueueDrains == \A e \in Event : e \in queue ~> e \notin queue

\* Every file is removed in the end, by an ack or by the sweep, once the handler
\* that gathered it has let go of it.
FilesGo == \A f \in File : f \in files /\ holder[f] # "handler" ~> f \notin files

================================================================================
