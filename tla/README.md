# TDbridge in TLA+

TDbridge bridges Telegram groups and a Discord server.  Which group goes with
which channel is in a spreadsheet that it shares with its operator.  Its *gateway*
lets two systems exchange messages over HTTPS: a TDbridge instance SERVES a
gateway (a queue of outbound events that a client polls), and a client posts what
it polled elsewhere: the *userbot* to Telegram, another TDbridge to Discord.  This
directory models the parts of it whose correctness depends on the order of steps
of several tasks, on restarts, and on calls that fail or are lost.

## Inventory

| Component | State | Operations | Interacts with |
|---|---|---|---|
| Correlation (`gateway_server.py`, `pending_work.py`, `correlation.py`, handlers in `bot.py`) | `pending_work`, `awaiting_index`, `correlations`, `message_map`, the stale timer, the running tasks | relay, dispatch-or-park, execute, register, correlate, abandon, sweep | the queue (events), the client (correlate requests), Discord handlers |
| Gateway queue (`gateway_server.py`, `db.py`) | `gateway_queue`, `_poll_wakeup` | enqueue, poll, ack | the attachment store, the client |
| Attachment store (`gateway_files.py`) | `gateway_files`, the directory | store, delete, expire, sweep; upload, getfile, download | the queue |
| Userbot (`userbot_bridge.py`, `userbot_outbox.py`, `userbot_db.py`) | `deferred_actions`, `_seen_inbound`, `_wake` | handle an event, perform, re-append, correlate | the queue (poll, ack, correlate, download), Telegram |
| Message map (`db.py`) | `message_map` | store, find, delete by Discord or Telegram id, purge | every route |
| The bot's gateway client (`bot.py`, `gateway_client.py`) | message map, echo suppression | poll loop, bridge an event, ack; send, delete | the queue of another server, Discord |
| Send endpoint and retry (`gateway_server.py`, `bot.py`, `gateway_retry.py`) | rate limiter, the running requests | bridge an inbound send, delete for a client | Telegram, Discord, the map |
| Rate limiter (`gateway_ratelimit.py`) | sliding windows | record, trip, reset | send endpoint, routes |
| Telegram to Discord routes (`bot.py`) | message map, echo suppression | message, edit, reaction, delete command | Discord, the queue |
| Native Discord to Telegram routes (`bot.py`) | message map, echo suppression | message, edit, reaction, deletion | Telegram, the queue |
| Sheets cache (`sheets_manager.py`, `table_manager.py`) | tables in memory, write-behind buffer, routing caches | upsert, flush, scan, refresh, look up | Google Sheets, the routes, SQLite |
| Protocol, configuration, dashboard, operations | none that others depend on | parse, read, report | - |

What is hard in it: tasks of one event loop interleave at every `await`, and
database calls run in executor threads; answers read before an `await` are used
after it; requests overlap, get lost and are repeated; both processes restart
with what SQLite holds; a timeout races the answer it gave up on.  `hazards` in
`PROJECT.json` lists them line by line.

What makes the parts correct:

* correlation: a parked action is performed exactly once and only on the posts
  of its message; a mapping is not lost while the client can still report it,
  and not brought back after a delete; nothing stays parked for ever (but a reply
  with files can, `reply_files`);
* queue: every event is handed over in order and forgotten only after that;
  files live as long as something needs them and no longer (but a parked reply
  can outlive its files, `parked_files`);
* userbot: what it acked is never lost, what it reports is true, and the outbox
  drains;
* the native side: whoever deletes a message, and however the tasks that do it
  interleave, its copy goes with the last Telegram message it stands for, the
  clients are told of every id, and a user's deletion is not taken for an echo;
* the spreadsheet: what was found on Telegram reaches it, no key gets two rows,
  what the operator entered stays with its key (but a failed insert, or a row moved
  in the middle of one, has it overwritten), and routes that were known stay known;
* the bot as a client: no second copy of a message, no Discord message deleted
  before the last Telegram message it stands for, no user's deletion taken for
  the bot's own, no older text put back, and both sides agree in the end.

## Modules

| Module | What it is |
|---|---|
| `Correlation` | the server's side of relaying, parking and correlating |
| `CorrelationProofs` | its inductive invariant and theorems |
| `DeliveryQueue` | what a gateway queue with acks promises its client |
| `GatewayQueue` | the queue, its handlers, the attachment store and the client; implements `DeliveryQueue` |
| `GatewayQueueProofs` | proofs: file coherence, the refinement, files held, nothing left over, delivered once |
| `Userbot` | poll loop and outbox worker of the userbot |
| `UserbotProofs` | its inductive invariant; nothing is lost, reports are true |
| `UserbotOrderProofs` | a second invariant on top; applied once, reported in order |
| `ClientBridge` | the bot as a gateway client: events into Discord, Discord messages and deletions out |
| `ClientBridgeProofs` | its inductive invariant; siblings and user deletions |
| `ClientBridgeCopyProofs` | further invariants on top; one copy, edits in order, agreement at rest |
| `NativeBridge` | the bot in the Telegram group itself: updates, Discord events and requests of gateway clients over one message map |
| `NativeBridgeProofs` | its inductive invariant and theorems |
| `Sheets` | a table of the spreadsheet: buffer, flush, scan, refresh, caches |
| `SheetsProofs` | its inductive invariant and theorems |
| `MC*` | values of the constants for TLC |

### Correlation

A *unit* is one thing that happens on Discord: a message, or a reply, reaction,
edit or delete that depends on a message (`DepOf`).  `pc[u]` is the point its
handler has reached, one step per stretch between two awaits: `Arrive`,
`LookupDep` (`find_by_dc` in `_dispatch_or_park_action` or `on_message`), the
decision (`ExecuteNow`, `ParkAction`, `ParkReply`, `DropAction`,
`SendUnthreaded`), `GatherFiles` and `ParkGathered` for a reply with
attachments, `ResolveReply`/`ResolveTarget`/`MissTarget` (the lookup in
`_execute_scheduled_action`), `EnqueueMessage` and `RegisterPendingMapping`, or
`ApplyAction`, `FailEdit`, `DeleteRows`.  `RecordCorrelation` is the correlate
handler, which has no await: it abandons older events, takes the event's own
items, writes the rows and fires the parked units.  `Age` lets `stale_sec` pass;
`SweepStale` is the periodic sweep; `Restart` keeps the tables and forgets tasks
and timer.

Whether the sweep is scheduled is `armed`.  Registering a mapping arms it, parking
an action does not, and it disarms itself when it finds nothing.  A reply without
files is parked in the step that found its parent pending, so the sweep is still
armed; one with files awaits them in between (`GatherFiles`), and may be parked when
the sweep has stopped.  `ReplySettles` is about both, and leaves the second out
while nothing is armed; `SweepArmed`, which the run `reply_files` violates, is what
the code says of it.

`pending` is the set of `pending_work` items.  Their insertion order, which the
code uses to write a mapping before it runs parked actions, is not kept: the
actions run in tasks of their own, after the handler, whatever their order.

Assumed, as in the deployment the subsystem is for: `client_reposts` and
`relay_user_messages` are set, `REACTIONS_DTOT` is not "neither",
`DC_MSG_DELETE_BEHAVIOR` is "delete", the Telegram application has started, and
the delete of a message goes out natively and as an event.  A failing native
call changes no state but that of an edit, whose two attempts may both fail.
The correlate handler and `register_pending_mapping` are one step each: a crash
inside them, between two commits, is left out.

### GatewayQueue

A handler `h` of the server is a poll (`peek`, `peeked`, `wait`, `clean`,
`reply`) or an ack (`ackpeek`, `ackdelete`, `ackclean`), and each step is one
database call or one stretch between awaits.  The insert of an event and the
notification of the pollers are two steps (`Insert`, `Notify`).  The one client
has one request in flight, `conn`; it may lose it (`LoseConnection`), and the
handler then goes on beside the next one, which is how requests come to overlap.
The client downloads what it polled before it acks, as the bot's own client
does; the userbot acks first, and `Userbot` models what follows from it.

Each event has at most one attachment.  `holder[f]` is who keeps a file for an event
that is not queued yet: the handler that gathers it (`StoreFile`), a row of
`pending_work` when the event is a reply that was parked (`Park`), or the task that
sends such a reply (`Fire`); `Insert` queues the event.  `Correlation` models when a
reply is parked and fired; here that may happen at any time.  `Restart` loses what
handlers and tasks hold, and keeps what is parked.  `Age`, `StartSweep`,
`RewriteEvents` and `SweepFile` are the daily sweep.  Any file may grow old but
that of a running handler, which ends within the day.  So the file of a parked reply
can be swept before the reply is queued; such events are remembered in `late`.
`QueuedCoherent` is about all the others, and `EveryQueuedCoherent`, which the run
`parked_files` violates, about these too.  `delivered_at` is written and never read,
and left out.  `DeliveryQueue` is the refinement target under `sent <- next - 1`,
`gone <- the ids that left the table`.

### Userbot

The poll loop (`bpc`) and the outbox worker (`wpc`) are two tasks.  `Enqueue`
and `SetWake` are the two halves of `Outbox.enqueue` around its executor call.
The worker peeks, sleeps or waits, performs the head row part by part
(`PostFile`, `SkipFile`, `DownloadFails`, `PostText`, `FilesPosted`, `Act`),
deletes it and correlates.  The faults, each bounded by `MaxFaults` in all, are
a crash, a Telegram flood, a poison action, a lost request and a failing insert.
The server is external: `queue`, `files` and `reports` are what the userbot sees
of it.  Metering and `defer_until` are the choice between `Wait` and
`BeginPerform`; rows with broken JSON are left out, the outbox writes them
itself.

### ClientBridge

The poll loop is one task: `bpc` is the point the handler of the current event
has reached, one step per database call or Discord call.  A message is looked up
(`FindMessage`), posted and stored; an edit is looked up and applied; a deletion
takes its ids one by one through `FindDeleted`, `UnmapDeleted`, `CheckSiblings`
and `Erase`.  Beside it every Discord message has a task that sends it (`spc`:
`PlaceMessage` at the server, `Answered`, then `StoreSent` id by id) and every
deletion that Discord reports one that relays it (`dpc`: `OnRawDelete`,
`LookupDeleted`, `ExecuteDelete`, `SendDeletion`, `DeleteRows`).  `suppress` is
the echo-suppression set.  `about[d]` is what Discord message `d` stands for, in
truth, and `map` what the client knows of it.

Telegram, the server and Discord are external: the server relays messages of the
group, edits and deletions of them, in order, and answers a send with the ids it
made.  The server's own bot never sees what it posted itself, so a client's
message does not come back as an event.  Faults, at most `MaxFaults`: a crash, a
lost request or answer, a post whose answer comes as an error (`late`) and is
made again, a post that is refused, a deletion that fails (`stuck`), and an event
with no route.

`DC_MSG_DELETE_BEHAVIOR` is "delete".  Reactions change no state; reply
threading, attachments and the text of messages are left out, but for the
event whose text a copy shows (`shown`).

`torn` remembers the Discord messages one of whose ids was deleted before all of
them were stored.  There the code has no answer - an id is mapped after its
message is gone, and an album can be deleted with its first half - and the three
properties about deletions leave them out.

### NativeBridge

A TDbridge that is in the Telegram group itself and serves a gateway whose
clients consume (`client_reposts` off, `relay_user_messages` on).  Three kinds of
tasks share `map`, which is `message_map`:

* *updates* of Telegram, one after the other, as python-telegram-bot hands them
  over (`upc`): `route_tg_to_discord` is `Post`, `PostFails`, `RouteDropped`,
  `Store`, `Relay`; `_handle_tg_delete_command` is `FindParent` to
  `EndCommand`;
* *Discord events*, a task each: `on_message` (`spc`: `Send` once per call of
  Telegram, `Sent`, `StoreSent` id by id, `RelaySent`) and
  `on_raw_message_delete` with the native executor (`dpc`: `OnRawDelete`,
  `LookupDeleted`, `ExecuteDelete`, `DeleteSent` id by id, `RecallSent`,
  `DeleteRows`);
* *requests* of clients, a task each (`rpc`): `_gateway_bridge` (`Place`,
  `Placed`, `PostRequest`, `StoreRequest`) and `_gateway_deletion`
  (`DeleteAsked` to `EraseAsked`, once for each id).

`about[d]` is what Discord message `d` stands for, in truth; `relayed`,
`recalled` and `asked` are what the clients were told and asked for.  Telegram
does not tell a bot what users delete, and a message with many parts becomes an
album.  The handler of new messages gets the edits as well (`Edits`, `Bridges`),
which is what the run `native_edit` shows.

Three histories name what the code cannot tell apart.  `torn`: a deletion came
while rows of the message were still being stored, row by row.  `crossed`: two
tasks deleted ids of one message, each saw the other's row, and neither deleted
the Discord message.  `Recopied`: an edit was posted as a second copy and took
over the row.  `IdleAgreement` leaves out all three, `LastSibling` and
`UserDeletionKept` only the torn.

Which group a message is routed to is a choice, and so is whether it is sent at
all (`dropped`: the burst breaker, no route, or a call that fails).  Not
modelled: text, edits and reactions of Discord users, edits and reactions of
clients, reply roots, edits that are delete commands, `Echo=false`, the second
post of `with_retry` (see `ClientBridge`), attachments as files, and a
`DC_MSG_DELETE_BEHAVIOR` other than "delete".

### Sheets

`table` is T_Group, which the write-behind buffer writes, or D_User, which the
scan of Discord writes (D_Channel alike).  `sheet` is the spreadsheet and
`records` the rows as the table's `TableManager` knows them; a row is its key,
whose name it shows and how new (`version`), and for whom the operator filled the
columns that are his.

`Upsert` and `SaveUpsert` are `upsert_t_group_buffered` around its executor call.
The flush takes the buffer (`TakePending`, `SaveTaken`), and puts it back when
the headers cannot be read (`PutBack`, `SavePutBack`).  Both writers then go
through `ReadHeaders`, `ReadRows`, `Match` (`find_rows_in_cache`), `Update`
(`batch_update_rows`), `Insert` (`insert_rows_at_top`) and `Fill`; a scan ends
with `ScanBuilds`, and one that raises ends its loop (`FillRaises`,
`ScanFails`).  `RefreshHeaders`, `RefreshRows`, `RefreshFails` and
`RefreshBuilds` are `_refresh_sync`, in a thread of its own; `OtherScanBuilds`
is the scan of the other tables, which builds the caches of all.  Before
startup is over (`up`), only the read of T_Group and the first scan run.

Each call of the API is one step, for `_api_lock` makes it so.  The faults are
those of such a call after its retries (headers, rows, update, insert; an insert
that was done although it timed out), an operator who moves a row, and a crash.  A
row moved between the insert of the blank rows and their fill is a fault of its own
(`displaced`): it is overwritten.  Moved at any other time (`moved`), a row keeps
what the operator entered, and may get a wrong name until the next scan.
`UserColumnsKept` allows every fault but `displaced` and a failed insert.
`crossed` says that two threads worked on the records at a time, `raced` that two
saved the buffer at a time.

Not modelled: columns and their positions, the user lock, which no writer looks
at, `T_Status`, the connection and its breaker, the flush of the shutdown beside
a running one, and a thread given up by its deadline whose late write still
arrives.

## Runs

| Run | Question | Bounds |
|---|---|---|
| `correlation` | stay store, index and map consistent, is what is parked sent once and to the right posts, with restarts? | a message with up to 2 posts, a reply with a file, a delete; 4 events |
| `correlation_live` | is a parked reply sent in the end? | a message, a reply with a file, a reply without, an edit; 4 events; no restart |
| `gateway_queue` | is the queue a `DeliveryQueue`, are files there while needed, owned, and gone in the end, does the queue drain? | 2 events, 1 file, 2 handlers, polls of 1 row, 1 fault |
| `gateway_queue_no_ack` | is nothing delivered twice without acks? | 2 events, 2 handlers, polls of 1 row, 2 faults |
| `userbot` | is nothing lost, is what is reported true, applied once and in order, do outbox and queue drain? | 2 events, one with 2 attachments, one an action; 2 faults of any kind |
| `client_bridge` | no second copy, deletion with the last sibling only, user deletions kept, edits in order, agreement at rest? | 2 Telegram ids, 2 Discord messages, albums of 2, 3 events, 1 fault of any kind, a suppression set of 1 |
| `native_bridge` | does a copy go with the last of its messages, are user deletions kept and clients told, is there agreement at rest? | 3 Telegram ids, 2 Discord messages, 2 requests, albums of 2, 4 things that users and clients do, 1 fault of any kind, a suppression set of 1 |
| `sheets` | is no upsert lost, has no key two rows, stay the operator's columns and the routes, are pending names written? | 2 keys, one entered already or none, 2 upserts, 2 scans beside the first, 1 fault of 8 kinds |

These bounds reach the cases that matter: an event older and one younger than
the one reported, an album, two actions parked on one event, a parked reply
whose files are being gathered, two overlapping requests with one given up, a
page limit below the number of rows, two faults in a row, a message, its edit
and its deletion in one batch, the two halves of an album deleted by two events or
by two tasks at a time, a suppression set that is cleared with a mark in use, an
upsert of a group that the flush is writing, a row that is updated beside one that
is inserted.  `gateway_queue` and `userbot` check safety and liveness over the same
behaviours, with two events; that their safety holds for any number of events and
faults is proved.  Symmetry is used only where `File` and `Handler` are
interchangeable, and not with liveness.

Many properties name the faults they hold without: a crash or a flood repeats a
post because nothing tells what was done, an edit whose ack was lost comes again
after a later one, a write whose answer nobody looks at is lost.  `faults` is the
history of what happened, so that one run checks them all.

Four more runs check what a comment says and the code does not keep, and
TLC shows how; `findings` in `PROJECT.json` quotes the sentences.

| Run | What happens |
|---|---|
| `userbot_files` | attachments are deleted on ack, before the outbox worker downloads them |
| `native_edit` | the filter of the handler for new messages matches edits: Discord gets a second copy, and the handler for edits is never reached |
| `parked_files` | a parked reply keeps its attachment past the age; the sweep removes it and rewrites queued events only; the reply is queued with a broken `file_ref` |
| `reply_files` | a reply gathers its files; the correlation of its parent empties the store, the sweep stops; the reply is parked, and no timer is armed |

`hazards` in `PROJECT.json` says which property is about which hazard.  The
following are real as well, in the models or beside them, and no property
excludes them:

* parking: a correlation between the two lookups of dispatch-or-park drops the
  action (`bot.py:2418`); a correlate that fails is not repeated
  (`userbot_bridge.py:275`);
* queue: the wake-up of the outbox can be lost (`userbot_outbox.py:81`), which
  costs a delay; a file can expire between a poll and its download
  (`gateway_server.py:448`); without acks files are deleted as soon as the event
  is delivered (`gateway_server.py:443`); an ack looks through the first 1000 rows
  only (`gateway_server.py:489`);
* client: a message whose ack was lost is posted again after its copy was deleted
  (`bot.py:593`); rows are removed though `send_deletion` failed (`bot.py:2594`); an
  error that is not a `GatewayClientError` ends the poll loop
  (`gateway_client.py:254`); an event without a message id is taken for a
  duplicate of the one before (`bot.py:582`);
* native: a deletion that Discord reports before the rows are stored is not found
  (`bot.py:2432`); the event of a message is queued after its row is stored, so that
  an action on it can be queued first (`bot.py:2106`); an edit that waits behind a
  delete command posts a copy of a deleted message (`bot.py:2034`); a client's
  deletion that Telegram refuses removes row and copy all the same
  (`bot.py:4766`); a suppressed send leaves its uploaded files to the sweep
  (`bot.py:4530`); an edit from Discord changes the first message of an album only
  (`bot.py:2656`);
* spreadsheet: a scan builds the caches from tables that a failed refresh has
  emptied (`sheets_manager.py:410`); a scan that raises is not started again
  (`bot.py:4014`); a table that the operator locked is recorded as locked, and no
  writer looks at it (`sheets_manager.py:436`), though `TDbridge_Guide.md:274` says
  that the lock is there "to prevent TDbridge from writing to that table";
* rate limiter: the first check point counts the message just recorded
  (`gateway_ratelimit.py:108`).

In `GatewayQueue`, `Userbot`, `ClientBridge`, `NativeBridge` and `Sheets` the
system may stop for good (nobody writes or upserts any more), so deadlock is not
checked there.

## Fairness

* `Correlation`: the event loop runs every ready handler and timer, and time
  passes (`WF` of the handler steps, `Age`, `SweepStale`).  Users, the client and
  the operator owe nothing: `ReplySettles` holds though no event is ever
  correlated.  A restart forgets the timer, so it is about one life of the process.
* `GatewayQueue`: handlers go on, the sweep runs daily, files age, the client
  keeps polling and acking.  Nobody owes a new event, the end of a parked reply, a
  lost connection or a restart, and faults are finite.  Uploads and notifications are not fair:
  a poll's deadline suffices.
* `Userbot`: both tasks go on (`WF`), and `SF` of `BeginPerform`: metering and
  flood waits end, so a head row found again and again is at some time ready.
* `Sheets`: executor threads run to their end and the periodic loops come round
  (`WF` of the saves, the flush, the writers' calls and the refresh), and the
  startup ends, for its scan finds somebody on Discord.  Nobody owes an upsert, a
  daily scan or a fault.

## Proofs

`CorrelationProofs`, for any number of units, events and posts: `IInv` is
inductive.  It consists of type correctness, which points a unit of a kind can be
at (`KindInv`), that events are distinct and go with the handlers' progress
(`EventInv`), that a `finish_mapping` item belongs to a registered message and
its own event (`FinishInv`), that only finished messages are mapped or deleted
(`MapInv`), that index and items agree (`AwaitingIffPending`), and the checked
invariants `ParkedIffPending`, `MapSound`, `MappingKept`, `TargetSound` and
`DeletedStaysUnmapped`.  None of these is inductive alone: that a row is a post of
its message's own event, for example, needs that the item it was written from
names that event, and that two messages never have the same one.  The action
properties `RelayedOnce` and `FinishLeavesMapped` follow from it, and
`ParkedBehindMapping` under the extra assumption that no reply has attachments:
one that has may park after its parent was correlated, behind nothing.
(`AwaitingIffPending`, `FinishLeavesMapped` and `ParkedBehindMapping` are proved
and not part of a run: the first is in the invariant that implies the
others.)

`UserbotProofs`: `IInv` adds to `NoSilentLoss` and `ReportSound` that what the
poll loop marks as seen or is about to ack is in the outbox or dealt with, and
that what the worker has collected are posts of the head row.

`UserbotOrderProofs` puts a second invariant on that one.  `AppliedOnce` needs
`OnceInv`, for runs without a restart or a flood wait: no event has two rows, nor
a row after it was dealt with (`RowsDistinct`), because what was stored is marked
as seen, or about to be (`HandledSeen`); nothing that is not dealt with was
applied, but for the parts of the action in hand (`Unapplied`, `PartsCounted`).
`ReportsInOrder` needs `OrderInv`, for runs in which no event was put back: a
batch misses no earlier event (`BatchComplete`), so events are stored in order
(`HandledFirst`), dealt with in order (`RowsSorted`) and correlated in order
(`CurrentLast`).  The first holds however often an event is redelivered, the
second also when acks and polls are lost.

`GatewayQueueProofs`: `CInv` says that file_refs are given out once, that two
rows never share one nor a row one that is gathered or parked for another event
(`FreeIsFree`), that what a handler or the sweep is about to delete is referenced by
no queued row but one queued late, and that the sweep expires old files only
(`SweepOld`).  The file of an event that was queued in time was not old then, so no
sweep of it was under way, and one that starts later rewrites the event first: from
it `QueuedCoherent`, with acks and without.  `DInv` says that a poll holds the oldest rows with nothing missing
before them, and that what is acked was received; with it every step is a step of
`DeliveryQueue` or a stutter (`DeliveryImplemented`, for gateways that require
acks).  `HeldUntilAsked` is about the files of an ack, which looks for their rows
among the first `AckLimit` only.  `HInv` says that it finds them there or that
they are gone: what was read once stays among the oldest rows as long as it is
queued (`HeldOldest`), since only acks and polls remove rows and new ones get
higher numbers; the client asks for the files of what it has before it acks
(`InboxAsked`, `AckAsked`), and the sweep expires old files only.
`NoLeftover` follows from it too: an answer that removes rows carries their files
(`Carried`), and so does an ack.
`DeliveredOnce` is for gateways without acks: what a handler took is not queued
any more, nor is what was handed over, so the handler whose answer arrives has read
nothing that the client has (`TakenGone`, `GotGone`, `ConnFresh`), while a handler
that lost its connection may still hold the same rows.

`SheetsProofs`, for any set of keys and any number of upserts, scans and faults:
`BufferKept`, `OneRowPerKey` and `UserColumnsKept`, from three parts of `IInv`.
The buffer: what a task is about to save is what is pending (`SavingPending`),
what is pending or to be written is the last upsert of its group (`Latest`), and
while no write failed and no row was moved, a row shows the name of its own key
(`RowsOwn`), the records and the rows found are those of the sheet (`RecordsTrue`,
`FoundTrue`), and what was found is shown before rows are inserted
(`UpdatedShown`).  The columns: after the insert the rows at the top are empty, as
many as there are new keys, also if the insert was done twice, so that `Fill`
writes over nothing (`TopEmpty`); no other step changes a key.  `TopEmpty` fails in
the two cases that `UserColumnsKept` names, and there the code does overwrite rows.
The keys: while
no read failed and no two threads overlapped, the writer knows the key of every
row when it searches (`KeysKnown`), so that what it takes to be new has no row
(`NewIsNew`).  Overlapping threads break the third part only.
`RoutesKept` has an invariant of its own (`RouteInv`), for the runs its property is
about: what the caches and the records know has a row (`CacheShown`,
`RecordsShown`), and what the caches know is in the records whenever nobody is
reading them (`CacheRecorded`).  A refresh that reads between two reads of the writer
would break that (`OneReads`), and so would a fill of rows that are not blank
(`BlankTop`): building the caches anew then gives at least what they had.

`ClientBridgeProofs`, for any number of messages, events and faults: `LastSibling` and
`UserDeletionKept`.  `LastSibling` looks at the rows of a message once one of them was
removed, so it needs that they were whole before: the Telegram messages of a Discord
message that are left are all mapped to it, or none is, or they are still to be
stored (`Whole`), and so they are while one is being unmapped (`FoundWhole`).  Both rest
on what ids mean: an event is about ids that have been given out, and a deletion about
ids that are gone (`EventSound`); a row is of an id that its message stands for, and
a message that was written in Discord shares none with another (`RowSound`); what is
being stored for an event has no row (`PostSound`).  `UserDeletionKept` needs that a
marked message has no row (`SuppressedGone`).  A task that stores ids could add one
later: then the message was found half stored, and is torn (`FoundTorn`).

`ClientBridgeCopyProofs` goes on from there, with three invariants for three
kinds of run.  `OneCopy` (`CopyInv`, no crash, no late answer, no failed deletion):
a copy that is in the channel is mapped, or is in the hands of the poll loop, which
has unmapped it or is about to map it (`CopyMapped`, `HandUnmapped`); so the map
lookup finds every copy there is.  `EditsInOrder` (`EditInv`, no lost ack): the batch
holds the oldest events of the queue (`BatchQueued`, `BatchFirst`), so what is applied
next is not older than what any copy shows (`ShownFirst`).  `IdleAgreement`
(`QuietInv`, nothing failed) is about the end of a run and needs to know what is
still to come at every point before it: a message that is gone and has a row has a
deletion in the queue, or in the hands of the poll loop (`RowPending`); one
that is gone and was not posted yet has its deletion behind it in the queue
(`MessagePending`); a copy that lost its last row is being erased (`RowLeft`).  That
no two messages stand for one id (`MessagesDiffer`, `Disjoint`, `Fresh`) keeps one
task from removing the rows of another, and an id is unmapped only when
the rows of its message are all there (`LeastSettled`); messages whose rows were still
being stored at that time are torn and are left out.

`NativeBridgeProofs`, for any number of messages, tasks, stimuli and faults:
`UserDeletionKept`.  A mark is consumed long after it was set, and rows may have
been added or found meanwhile, so the property needs the history of the message.
`IInv` says that whatever a task knows has been given out (`DcKnown`,
`TgKnown`, `UpdatesKnown`): a new id is never one that somebody remembers.  A
message that somebody found to delete, while rows of it were still to be stored,
is torn (`FoundTorn`); so no row of the others is added any more.  The parent of a
delete command stays deleted (`ParentGone`) and is the only row left when the
siblings have been looked at (`OnlyParent`); so a marked message has no mapped
Telegram message left (`SuppressedGone`), and that lasts.

Three more invariants of the native side rest on that one.

* `DeletionsRelayed` (`RelInv`): a bridged message that is deleted is one the clients
  know of, or is in the hands of a task that will tell them (`Reported`): of the
  update task (only commands delete, and commands are not bridged: `UpdateTask`,
  `UpdatesBridged`), of the request that asked (`TodoAsked`), or of the handler of the
  deletion in Discord, which runs once (`RawOnce`) and tells of all it has deleted
  (`IdsHeld`).
* `LastSibling` (`SibInv`): the bot looks at rows, the property at messages.  While
  Telegram refuses no deletion, every message that is not torn is mapped as a whole:
  what is left of it is mapped to it, or to a newer copy, or its rows are still to be
  stored (`Whole`, `Stored`).  Two tasks may look at the siblings of one message at
  a time: what a task is about to look past is gone (`AskedGone`, `RemoverGone`).
  Messages share Telegram messages only when an edit posted a copy anew (`ApartInv`),
  and what a task stores, found or holds is of its message (`AboutInv`).
* `IdleAgreement` (`QuietInv`, nothing failed): a row of a message that is gone is
  about to be unmapped (`RowPending`); a message gone from Discord is about to be deleted
  in Telegram, or is so (`DcGone`); one of which nothing is left in Telegram is
  being looked at (`LastPending`).  What nobody has been told of yet is still there
  (`YoungInv`): nobody deletes a message before it has been relayed.

The proofs rest on the `ASSUME`s of the modules, which TLC evaluates in
every run.

Only model-checked: liveness (`ReplySettles`, `QueueDrains`, `FilesGo`,
`WorkerDrains`, `WritesArrive`), which the prover does not handle, and the four
violations, which are counterexamples.  Every invariant and every action property
that a passing run checks is stated by a theorem.

## Not modelled

Protocol parsing, configuration, login, the dashboard and the certificate
script keep no state that others depend on.  The windows of the rate limiter are
real time; that it may drop a message at any time is in `NativeBridge`.  The
userbot's way from Telegram to the gateway is one forwarding handler without
state.  Reactions read the map and change nothing.  Uploads, download tokens and
their files, reply threading, and the columns of the spreadsheet are left out;
the sections above list what else each module leaves out.

## Plan

1. `Correlation`, `Userbot`, `GatewayQueue` with their proofs, `ClientBridge` (done).
2. `NativeBridge` and `Sheets` with their proofs (done).
3. `LastSibling` and `UserDeletionKept` of `ClientBridge` proved (done).
   The rest of the safety properties that the runs check, of every module (done).
4. Uploads of clients and their files, as a second owner of `GatewayQueue`'s store.
5. `Relay`: `GatewayQueue`, `Userbot` and `Correlation` composed, with the
   property that every relayed message is mapped or abandoned; the crash inside a
   correlate as a refinement of `RecordCorrelation`.
6. `RateLimit`: the sliding windows as a recursive function against a reference
   definition, and the alert state machine on top.
