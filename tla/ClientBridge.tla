------------------------------ MODULE ClientBridge ------------------------------
(***************************************************************************)
(* A TDbridge bot as the CLIENT of a gateway (the client half of bot.py):  *)
(* it long-polls the gateway's events and bridges messages, edits and      *)
(* deletions into Discord, and sends what Discord users write and delete   *)
(* through the gateway to Telegram.  message_map links the two sides.      *)
(*                                                                         *)
(* The server of the gateway (RequireACK), its Telegram group and the      *)
(* Discord service are external.  The poll loop handles one event at a     *)
(* time; every Discord message sent or deleted has a handler task of its   *)
(* own.  A step is what a task does between two awaits.                    *)
(***************************************************************************)
EXTENDS Naturals, Sequences, FiniteSets, SequencesExt

CONSTANTS
    MaxTg,        \* bound on Telegram message ids
    MaxDc,        \* bound on Discord message ids
    MaxEvent,     \* bound on gateway_queue row ids
    Album,        \* most Telegram messages one Discord message becomes
    SuppressMax,  \* entries that make _mark_dc_delete_suppressed clear the set: 500
    Faults,       \* the faults that can happen
    MaxFaults     \* bound on how many do

Tg    == 1..MaxTg
Dc    == 1..MaxDc
None  == 0
FaultKinds == {"crash", "lost", "late", "refused", "stuck", "unroutable"}

ASSUME ClientBridgeAssumption ==
    /\ MaxTg \in Nat /\ MaxDc \in Nat /\ MaxEvent \in Nat /\ Album \in Nat
    /\ SuppressMax \in Nat /\ MaxFaults \in Nat
    /\ Faults \subseteq FaultKinds

VARIABLES
    \* the server and Telegram
    tg,       \* the messages in the Telegram group
    nextTg,   \* the next message id
    events,   \* every event relayed: Seq([kind, ids]), its id is its position
    queue,    \* the events not acked yet
    \* Discord
    discord,  \* the messages in the Discord channel
    nextDc,   \* the next message id
    about,    \* [Dc -> SUBSET Tg]: the Telegram messages it became or copies
    shown,    \* [Dc -> Nat]: the event whose text it shows
    raw,      \* deletions Discord reports: on_raw_message_delete to come
    \* the client
    map,      \* message_map: [Tg -> Dc \cup {None}]
    suppress, \* _suppress_dc_delete_relay
    batch,    \* polled events still to handle
    bpc,      \* where the poll loop is
    todo,     \* ids of the deletion event still to handle
    found,    \* the Discord message the handler found or posted
    spc,      \* [Dc -> where the task that sends the message is]
    rest,     \* [Dc -> SUBSET Tg]: ids it has still to store
    dpc,      \* [Dc -> where the task of its deletion is]
    ids,      \* [Dc -> SUBSET Tg]: ids that task found
    \* what happened
    torn,     \* messages with an id that was deleted before all were stored
    faults    \* the faults that happened: Seq(FaultKinds)

server  == <<tg, nextTg, events, queue>>
channel == <<discord, nextDc, about, shown, raw>>
poller  == <<batch, bpc, todo, found>>
sender  == <<spc, rest>>
remover == <<dpc, ids>>
vars == <<server, channel, map, suppress, poller, sender, remover, torn, faults>>

EventRecord == [kind : {"message", "edit", "deletion"}, ids : SUBSET Tg]

TypeOK ==
    /\ tg \subseteq Tg /\ nextTg \in 1..(MaxTg + 1)
    /\ events \in Seq(EventRecord) /\ queue \subseteq DOMAIN events
    /\ discord \subseteq Dc /\ nextDc \in 1..(MaxDc + 1)
    /\ about \in [Dc -> SUBSET Tg] /\ shown \in [Dc -> 0..Len(events)]
    /\ raw \subseteq Dc /\ suppress \subseteq Dc /\ torn \subseteq Dc
    /\ map \in [Tg -> Dc \cup {None}]
    /\ batch \subseteq DOMAIN events
    /\ bpc \in {"poll", "event", "post", "store", "edit", "delete", "unmap",
                "siblings", "erase", "ack"}
    /\ todo \subseteq Tg /\ found \in Dc \cup {None}
    /\ bpc \in {"store", "edit", "unmap", "siblings", "erase"} => found # None
    /\ spc \in [Dc -> {"none", "sending", "placed", "storing", "done", "lost"}]
    /\ rest \in [Dc -> SUBSET Tg]
    /\ dpc \in [Dc -> {"none", "lookup", "exec", "send", "unmap", "done"}]
    /\ ids \in [Dc -> SUBSET Tg]
    /\ faults \in Seq(FaultKinds)

Init ==
    /\ tg = {} /\ nextTg = 1 /\ events = <<>> /\ queue = {}
    /\ discord = {} /\ nextDc = 1 /\ raw = {}
    /\ about = [d \in Dc |-> {}] /\ shown = [d \in Dc |-> 0]
    /\ map = [t \in Tg |-> None]
    /\ suppress = {} /\ torn = {}
    /\ batch = {} /\ bpc = "poll" /\ todo = {} /\ found = None
    /\ spc = [d \in Dc |-> "none"] /\ rest = [d \in Dc |-> {}]
    /\ dpc = [d \in Dc |-> "none"] /\ ids = [d \in Dc |-> {}]
    /\ faults = <<>>

Fault(kind) ==
    /\ kind \in Faults
    /\ Len(faults) < MaxFaults
    /\ faults' = Append(faults, kind)

\* find_all_by_dc
RowsOf(d) == {t \in Tg : map[t] = d}

IsLeast(n, set) == n \in set /\ \A k \in set : n <= k

--------------------------------------------------------------------------------
(* The server and the Telegram group *)

\* enqueue_outbound of an event for this client.
Enqueue(kind, tgs) ==
    /\ Len(events) < MaxEvent
    /\ events' = Append(events, [kind |-> kind, ids |-> tgs])
    /\ queue' = queue \cup {Len(events')}

\* A message of the group is relayed to the client.
RelayMessage ==
    /\ nextTg \in Tg
    /\ Enqueue("message", {nextTg})
    /\ tg' = tg \cup {nextTg}
    /\ nextTg' = nextTg + 1
    /\ UNCHANGED <<channel, map, suppress, poller, sender, remover, torn, faults>>

\* Its author edits a message that was relayed.
RelayEdit(t) ==
    /\ t \in tg
    /\ \E i \in DOMAIN events : events[i] = [kind |-> "message", ids |-> {t}]
    /\ Enqueue("edit", {t})
    /\ UNCHANGED <<tg, nextTg, channel, map, suppress, poller, sender, remover, torn, faults>>

\* A message, or all that a Discord message became, is deleted on the server's side.
RelayDeletion(tgs) ==
    /\ tgs # {}
    /\ tgs \in {{t} : t \in tg} \cup {about[d] \cap tg : d \in Dc}
    /\ Enqueue("deletion", tgs)
    /\ tg' = tg \ tgs
    /\ UNCHANGED <<nextTg, channel, map, suppress, poller, sender, remover, torn, faults>>

\* _handle_send: the server posts the message a client sends, and answers its ids.
PlaceMessage(d) ==
    /\ spc[d] = "sending"
    /\ \E n \in 1..Album :
         /\ nextTg + n - 1 \in Tg
         /\ about' = [about EXCEPT ![d] = nextTg..(nextTg + n - 1)]
         /\ tg' = tg \cup about'[d]
         /\ nextTg' = nextTg + n
    /\ spc' = [spc EXCEPT ![d] = "placed"]
    /\ UNCHANGED <<events, queue, discord, nextDc, shown, raw, map, suppress, poller, rest,
                   remover, torn, faults>>

--------------------------------------------------------------------------------
(* Discord users *)

NewDc(d) == d = nextDc /\ d \in Dc /\ nextDc' = nextDc + 1

UserWrites(d) ==
    /\ NewDc(d)
    /\ discord' = discord \cup {d}
    /\ spc' = [spc EXCEPT ![d] = "sending"]
    /\ UNCHANGED <<server, about, shown, raw, map, suppress, poller, rest, remover, torn, faults>>

UserDeletes(d) ==
    /\ d \in discord
    /\ discord' = discord \ {d}
    /\ raw' = raw \cup {d}
    /\ UNCHANGED <<server, nextDc, about, shown, map, suppress, poller, sender, remover, torn, faults>>

--------------------------------------------------------------------------------
(* _send_via_gateway_client *)

\* The answer arrives: the ids are stored one by one.
Answered(d) ==
    /\ spc[d] = "placed"
    /\ rest' = [rest EXCEPT ![d] = about[d]]
    /\ spc' = [spc EXCEPT ![d] = "storing"]
    /\ UNCHANGED <<server, channel, map, suppress, poller, remover, torn, faults>>

\* GatewayClientError: the send is reported as failed, and nothing is stored.
SendFails(d) ==
    /\ spc[d] \in {"sending", "placed"}
    /\ Fault("lost")
    /\ spc' = [spc EXCEPT ![d] = "lost"]
    /\ UNCHANGED <<server, channel, map, suppress, poller, rest, remover, torn>>

StoreSent(d, t) ==
    /\ spc[d] = "storing"
    /\ IsLeast(t, rest[d])
    /\ map' = [map EXCEPT ![t] = d]
    /\ rest' = [rest EXCEPT ![d] = @ \ {t}]
    /\ spc' = [spc EXCEPT ![d] = IF rest'[d] = {} THEN "done" ELSE @]
    /\ UNCHANGED <<server, channel, suppress, poller, remover, torn, faults>>

--------------------------------------------------------------------------------
(* The poll loop: run_poll_loop, _bridge_gateway_client_event *)

Poll ==
    /\ bpc = "poll"
    /\ queue # {}
    /\ batch' = queue
    /\ bpc' = "event"
    /\ UNCHANGED <<server, channel, map, suppress, todo, found, sender, remover, torn, faults>>

\* Mutant: the newest event first.
HandlingNewest(e) == e \in batch /\ \A f \in batch : f <= e

\* The event the loop over the batch has come to.
Handling(e) == IsLeast(e, batch)

\* No active row or no channel: the event is acked and dropped.
Unroutable(e) ==
    /\ bpc = "event"
    /\ Handling(e)
    /\ Fault("unroutable")
    /\ bpc' = "ack"
    /\ UNCHANGED <<server, channel, map, suppress, batch, todo, found, sender, remover, torn>>

\* Mutant: a message is posted whenever it comes.
PostAnyway(e) ==
    /\ bpc = "event"
    /\ Handling(e)
    /\ events[e].kind = "message"
    /\ bpc' = "post"
    /\ UNCHANGED <<server, channel, map, suppress, batch, todo, found, sender, remover, torn, faults>>

\* A message that is mapped already is not posted again.
FindMessage(e) ==
    /\ bpc = "event"
    /\ Handling(e)
    /\ events[e].kind = "message"
    /\ bpc' = IF \E t \in events[e].ids : map[t] # None THEN "ack" ELSE "post"
    /\ UNCHANGED <<server, channel, map, suppress, batch, todo, found, sender, remover, torn, faults>>

\* Discord has the copy of event e's message.
PostCopy(e, d) ==
    /\ NewDc(d)
    /\ discord' = discord \cup {d}
    /\ about' = [about EXCEPT ![d] = events[e].ids]
    /\ shown' = [shown EXCEPT ![d] = e]

Post(e, d) ==
    /\ bpc = "post"
    /\ Handling(e)
    /\ PostCopy(e, d)
    /\ found' = d
    /\ bpc' = "store"
    /\ UNCHANGED <<server, raw, map, suppress, batch, todo, sender, remover, torn, faults>>

\* An error that comes after the message was posted makes with_retry post again.
PostAgain(e, d) ==
    /\ bpc = "post"
    /\ Handling(e)
    /\ Fault("late")
    /\ PostCopy(e, d)
    /\ UNCHANGED <<server, raw, map, suppress, poller, sender, remover, torn>>

\* _send_to_discord gives up: the event is acked all the same.
PostFails(e) ==
    /\ bpc = "post"
    /\ Handling(e)
    /\ Fault("refused")
    /\ bpc' = "ack"
    /\ UNCHANGED <<server, channel, map, suppress, batch, todo, found, sender, remover, torn>>

StoreCopy(e) ==
    /\ bpc = "store"
    /\ Handling(e)
    /\ map' = [t \in Tg |-> IF t \in events[e].ids THEN found ELSE map[t]]
    /\ bpc' = "ack"
    /\ UNCHANGED <<server, channel, suppress, batch, todo, found, sender, remover, torn, faults>>

\* edited_message: the mapped message is looked up, ...
FindEdited(e) ==
    /\ bpc = "event"
    /\ Handling(e)
    /\ events[e].kind = "edit"
    /\ \E t \in events[e].ids : found' = map[t]
    /\ bpc' = IF found' = None THEN "ack" ELSE "edit"
    /\ UNCHANGED <<server, channel, map, suppress, batch, todo, sender, remover, torn, faults>>

\* ... and edited, if it is still there.
EditCopy(e) ==
    /\ bpc = "edit"
    /\ Handling(e)
    /\ shown' = IF found \in discord THEN [shown EXCEPT ![found] = e] ELSE shown
    /\ bpc' = "ack"
    /\ UNCHANGED <<server, discord, nextDc, about, raw, map, suppress, batch, todo, found,
                   sender, remover, torn, faults>>

StartDeletion(e) ==
    /\ bpc = "event"
    /\ Handling(e)
    /\ events[e].kind = "deletion"
    /\ todo' = events[e].ids
    /\ bpc' = "delete"
    /\ UNCHANGED <<server, channel, map, suppress, batch, found, sender, remover, torn, faults>>

\* Every id a Discord message became is in message_map, or never was one.
Settled(d) == spc[d] \in {"none", "done"}

\* The messages whose deletion comes before all their ids are stored.
Torn(t) == {d \in Dc : t \in about[d] /\ ~Settled(d)}

\* The next id of the event; an unknown one is passed over.
FindDeleted(t) ==
    /\ bpc = "delete"
    /\ IsLeast(t, todo)
    /\ found' = map[t]
    /\ torn' = torn \cup Torn(t)
    /\ IF found' = None
       THEN todo' = todo \ {t} /\ bpc' = bpc
       ELSE todo' = todo /\ bpc' = "unmap"
    /\ UNCHANGED <<server, channel, map, suppress, batch, sender, remover, faults>>

\* delete_by_tg
UnmapDeleted(t) ==
    /\ bpc = "unmap"
    /\ IsLeast(t, todo)
    /\ map' = [map EXCEPT ![t] = None]
    /\ bpc' = "siblings"
    /\ UNCHANGED <<server, channel, suppress, batch, todo, found, sender, remover, torn, faults>>

\* _mark_dc_delete_suppressed
Mark(d) == (IF Cardinality(suppress) > SuppressMax THEN {} ELSE suppress) \cup {d}

\* No row is left: the deletion to come is marked as the bot's own.
DecideToErase ==
    /\ suppress' = Mark(found)
    /\ bpc' = "erase"
    /\ todo' = todo

\* Mutant: the message is marked before it is known to be deleted.
MarkFirst(t) ==
    /\ bpc = "siblings"
    /\ IsLeast(t, todo)
    /\ \/ /\ RowsOf(found) # {}
          /\ suppress' = Mark(found)
          /\ todo' = todo \ {t} /\ bpc' = "delete"
       \/ RowsOf(found) = {} /\ DecideToErase
    /\ UNCHANGED <<server, channel, map, batch, found, sender, remover, torn, faults>>

\* Mutant: no look at the siblings.
EraseAtOnce(t) ==
    /\ bpc = "siblings"
    /\ IsLeast(t, todo)
    /\ DecideToErase
    /\ UNCHANGED <<server, channel, map, batch, found, sender, remover, torn, faults>>

\* The Discord message stays while other ids are mapped to it.
CheckSiblings(t) ==
    /\ bpc = "siblings"
    /\ IsLeast(t, todo)
    /\ \/ /\ RowsOf(found) # {}
          /\ todo' = todo \ {t} /\ bpc' = "delete"
          /\ suppress' = suppress
       \/ RowsOf(found) = {} /\ DecideToErase
    /\ UNCHANGED <<server, channel, map, batch, found, sender, remover, torn, faults>>

\* fetch_message and delete; Discord then reports the deletion.
Erase(t) ==
    /\ bpc = "erase"
    /\ IsLeast(t, todo)
    /\ discord' = discord \ {found}
    /\ raw' = raw \cup ({found} \cap discord)
    /\ todo' = todo \ {t}
    /\ bpc' = "delete"
    /\ UNCHANGED <<server, nextDc, about, shown, map, suppress, batch, found, sender, remover, torn, faults>>

EraseFails(t) ==
    /\ bpc = "erase"
    /\ IsLeast(t, todo)
    /\ Fault("stuck")
    /\ todo' = todo \ {t}
    /\ bpc' = "delete"
    /\ UNCHANGED <<server, channel, map, suppress, batch, found, sender, remover, torn>>

EndDeletion ==
    /\ bpc = "delete"
    /\ todo = {}
    /\ bpc' = "ack"
    /\ UNCHANGED <<server, channel, map, suppress, batch, todo, found, sender, remover, torn, faults>>

\* Goes on with the next event of the batch, or polls again.
After(e) ==
    /\ batch' = batch \ {e}
    /\ bpc' = IF batch' = {} THEN "poll" ELSE "event"
    /\ found' = None

Ack(e) ==
    /\ bpc = "ack"
    /\ Handling(e)
    /\ queue' = queue \ {e}
    /\ After(e)
    /\ UNCHANGED <<tg, nextTg, events, channel, map, suppress, todo, sender, remover, torn, faults>>

\* A failed ack is logged; the event will come again.
AckLost(e) ==
    /\ bpc = "ack"
    /\ Handling(e)
    /\ Fault("lost")
    /\ After(e)
    /\ UNCHANGED <<server, channel, map, suppress, todo, sender, remover, torn>>

--------------------------------------------------------------------------------
(* on_raw_message_delete, and the executor of a delete for a client *)

OnRawDelete(d) ==
    /\ d \in raw
    /\ raw' = raw \ {d}
    /\ suppress' = suppress \ {d}
    /\ dpc' = [dpc EXCEPT ![d] = IF d \in suppress THEN "done" ELSE "lookup"]
    /\ UNCHANGED <<server, discord, nextDc, about, shown, map, poller, sender, ids, torn, faults>>

\* _dispatch_or_park_action: a message that is not mapped is not ours.
LookupDeleted(d) ==
    /\ dpc[d] = "lookup"
    /\ dpc' = [dpc EXCEPT ![d] = IF RowsOf(d) = {} THEN "done" ELSE "exec"]
    /\ UNCHANGED <<server, channel, map, suppress, poller, sender, ids, torn, faults>>

ExecuteDelete(d) ==
    /\ dpc[d] = "exec"
    /\ ids' = [ids EXCEPT ![d] = RowsOf(d)]
    /\ dpc' = [dpc EXCEPT ![d] = IF RowsOf(d) = {} THEN "done" ELSE "send"]
    /\ UNCHANGED <<server, channel, map, suppress, poller, sender, torn, faults>>

\* send_deletion: the server deletes the messages in Telegram.
SendDeletion(d) ==
    /\ dpc[d] = "send"
    /\ tg' = tg \ ids[d]
    /\ dpc' = [dpc EXCEPT ![d] = "unmap"]
    /\ UNCHANGED <<nextTg, events, queue, channel, map, suppress, poller, sender, ids, torn, faults>>

\* It fails, and the rows are removed all the same.
SendDeletionFails(d) ==
    /\ dpc[d] = "send"
    /\ Fault("lost")
    /\ dpc' = [dpc EXCEPT ![d] = "unmap"]
    /\ UNCHANGED <<server, channel, map, suppress, poller, sender, ids, torn>>

\* delete_by_dc
DeleteRows(d) ==
    /\ dpc[d] = "unmap"
    /\ map' = [t \in Tg |-> IF map[t] = d THEN None ELSE map[t]]
    /\ dpc' = [dpc EXCEPT ![d] = "done"]
    /\ UNCHANGED <<server, channel, suppress, poller, sender, ids, torn, faults>>

--------------------------------------------------------------------------------
\* Mutant: it goes on where it was, with its local variables gone.
CrashResuming ==
    /\ Fault("crash")
    /\ found' = None
    /\ suppress' = {} /\ raw' = {}
    /\ UNCHANGED <<server, discord, nextDc, about, shown, map, batch, bpc, todo, sender, remover, torn>>

\* The client stops between two steps and starts again; only message_map stays,
\* and Discord does not report again what it reported.
Crash ==
    /\ Fault("crash")
    /\ batch' = {} /\ bpc' = "poll" /\ todo' = {} /\ found' = None
    /\ suppress' = {} /\ raw' = {}
    /\ spc' = [d \in Dc |-> IF spc[d] \in {"none", "done"} THEN spc[d] ELSE "lost"]
    /\ rest' = [d \in Dc |-> {}]
    /\ dpc' = [d \in Dc |-> IF dpc[d] = "none" THEN "none" ELSE "done"]
    /\ UNCHANGED <<server, discord, nextDc, about, shown, map, ids, torn>>

External ==
    \/ RelayMessage
    \/ \E t \in Tg : RelayEdit(t)
    \/ \E tgs \in SUBSET Tg : RelayDeletion(tgs)
    \/ \E d \in Dc : UserWrites(d) \/ UserDeletes(d)

SenderStep(d) ==
    PlaceMessage(d) \/ Answered(d) \/ SendFails(d) \/ \E t \in Tg : StoreSent(d, t)

HandleStep(e) ==
    \/ Unroutable(e) \/ FindMessage(e) \/ PostFails(e) \/ StoreCopy(e)
    \/ \E d \in Dc : Post(e, d) \/ PostAgain(e, d)
    \/ FindEdited(e) \/ EditCopy(e) \/ StartDeletion(e)
    \/ Ack(e) \/ AckLost(e)

DeletionStep ==
    \/ \E t \in Tg : FindDeleted(t) \/ UnmapDeleted(t) \/ CheckSiblings(t)
                        \/ Erase(t) \/ EraseFails(t)
    \/ EndDeletion

PollerStep == Poll \/ (\E e \in DOMAIN events : HandleStep(e)) \/ DeletionStep

RemoverStep(d) ==
    \/ OnRawDelete(d) \/ LookupDeleted(d) \/ ExecuteDelete(d)
    \/ SendDeletion(d) \/ SendDeletionFails(d) \/ DeleteRows(d)

Next ==
    \/ External
    \/ PollerStep
    \/ \E d \in Dc : SenderStep(d) \/ RemoverStep(d)
    \/ Crash

Spec == Init /\ [][Next]_vars

--------------------------------------------------------------------------------
(* Properties *)

\* No fault of these kinds happened.
Without(kinds) == ToSet(faults) \cap kinds = {}

\* Without a crash, a late answer or a failed deletion, Discord never shows two
\* copies of a Telegram message, though acks are lost and events come again
\* ("Re-posting would create a duplicate Discord message").
OneCopy ==
    Without({"crash", "late", "stuck"}) =>
        \A t \in Tg : Cardinality({d \in discord : t \in about[d]}) <= 1

\* The bot decides to delete a Discord message whose ids are all mapped only
\* when none of its Telegram messages is left ("so a single Discord message isn't
\* nuked on the first sibling delete").
LastSibling ==
    [][bpc # "erase" /\ bpc' = "erase" /\ found \in discord \ torn
          => about[found] \cap tg = {}]_vars

\* A deletion is taken for an echo only when there is nothing left to relay, whatever
\* the bot was about to delete or failed to delete: a user's deletion of a mapped
\* message goes on to the gateway.  A torn message is the exception.
UserDeletionKept ==
    [][\A d \in suppress \ (suppress' \cup torn) : d \in raw => RowsOf(d) = {}]_vars

\* While no ack is lost, a Discord copy never goes back to an older text.
EditsInOrder ==
    [][Without({"lost"}) => \A d \in Dc : shown'[d] >= shown[d]]_vars

\* Every task is done.
Idle ==
    /\ queue = {} /\ bpc = "poll" /\ raw = {}
    /\ \A d \in Dc : Settled(d) /\ dpc[d] \in {"none", "done"}

\* When every task is done and nothing failed, a Discord message is mapped to
\* exactly those of its Telegram messages that are left, and there is one, unless
\* there never was: every deletion of the group reached Discord, in part or in
\* full.  A torn message is the exception.
IdleAgreement ==
    Idle /\ faults = <<>> =>
        \A d \in discord \ torn :
            /\ RowsOf(d) = about[d] \cap tg
            /\ about[d] # {} => RowsOf(d) # {}

================================================================================
