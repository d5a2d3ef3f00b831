------------------------------ MODULE NativeBridge ------------------------------
(***************************************************************************)
(* The native side of bot.py: a TDbridge that is in the Telegram group      *)
(* itself and SERVES a gateway whose clients consume (client_reposts is     *)
(* off, relay_user_messages on).  Three kinds of tasks share message_map:   *)
(*                                                                          *)
(*   updates    Telegram's updates, handled strictly one after the other:   *)
(*              messages, edits, and replies that are delete commands;      *)
(*   Discord    a task for every message a user writes and for every        *)
(*              deletion Discord reports;                                   *)
(*   requests   a task for every send and deletion of a gateway client.     *)
(*                                                                          *)
(* A step is what a task does between two awaits.  Telegram, Discord and    *)
(* the dispatcher of python-telegram-bot are external.                      *)
(***************************************************************************)
EXTENDS Naturals, Sequences, FiniteSets

CONSTANTS
    MaxTg,       \* bound on Telegram message ids
    MaxDc,       \* bound on Discord message ids
    MaxRequest,  \* bound on the requests of gateway clients
    MaxStimuli,  \* bound on what users and clients do
    Album,       \* most Telegram messages one message becomes
    SuppressMax, \* entries that make _mark_dc_delete_suppressed clear the set: 500
    Faults,      \* the faults that can happen
    MaxFaults    \* bound on how many do

Tg      == 1..MaxTg
Dc      == 1..MaxDc
Request == 1..MaxRequest
None    == 0
\* A crash; a message that is not sent or posted, for whatever reason; a deletion that
\* Telegram or Discord refuses.
FaultKinds == {"crash", "dropped", "telegram", "discord"}

ASSUME NativeBridgeAssumption ==
    /\ MaxTg \in Nat /\ MaxDc \in Nat /\ MaxRequest \in Nat /\ MaxStimuli \in Nat
    /\ Album \in Nat /\ SuppressMax \in Nat /\ MaxFaults \in Nat
    /\ Faults \subseteq FaultKinds

VARIABLES
    \* Telegram
    tg,       \* the messages in the group
    nextTg,   \* the next message id
    updates,  \* what the dispatcher has still to handle: Seq([kind, id, parent])
    users,    \* the messages users wrote, commands apart
    stimuli,  \* how many things users and clients did
    \* Discord
    discord,  \* the messages in the channel
    nextDc,   \* the next message id
    about,    \* [Dc -> SUBSET Tg]: the Telegram messages it became or copies
    raw,      \* deletions Discord reports: on_raw_message_delete to come
    \* shared by the tasks
    map,      \* message_map: [Tg -> Dc \cup {None}]
    suppress, \* _suppress_dc_delete_relay
    relayed,  \* ids the clients were sent as messages
    recalled, \* ids the clients were sent as deleted
    asked,    \* ids the clients asked to delete
    \* the task of the current update
    upc,      \* where it is
    ufound,   \* the Discord message it found or posted
    \* the tasks of Discord events
    spc,      \* [Dc -> where the task that sends the message is]
    rest,     \* [Dc -> SUBSET Tg]: ids it has still to store
    dpc,      \* [Dc -> where the task of its deletion is]
    ids,      \* [Dc -> SUBSET Tg]: ids that task has still to delete
    held,     \* [Dc -> SUBSET Tg]: ids that task found
    \* the tasks of gateway requests
    rpc,      \* [Request -> where it is]
    rids,     \* [Request -> SUBSET Tg]: the ids it made or is to delete
    rtodo,    \* [Request -> SUBSET Tg]: those it has still to handle
    rfound,   \* [Request -> the Discord message it found or posted]
    \* what happened
    torn,     \* messages deleted, in part, before all their ids were stored
    crossed,  \* messages whose ids two tasks were deleting at a time
    faults    \* the faults that happened

telegram == <<tg, nextTg, updates, users>>
channel  == <<discord, nextDc, about, raw>>
shared   == <<map, suppress, relayed, recalled>>
updater  == <<upc, ufound>>
sender   == <<spc, rest>>
remover  == <<dpc, ids, held>>
server   == <<rpc, rids, rtodo, rfound, asked>>
seen     == <<torn, crossed>>
vars == <<stimuli, telegram, channel, shared, updater, sender, remover, server, seen, faults>>

Update == [kind : {"message", "edit", "command"}, id : Tg, parent : Tg \cup {None}]

TypeOK ==
    /\ tg \subseteq Tg /\ nextTg \in 1..(MaxTg + 1)
    /\ updates \in Seq(Update) /\ users \subseteq Tg /\ stimuli \in 0..MaxStimuli
    /\ discord \subseteq Dc /\ nextDc \in 1..(MaxDc + 1)
    /\ about \in [Dc -> SUBSET Tg] /\ raw \subseteq Dc
    /\ map \in [Tg -> Dc \cup {None}] /\ suppress \subseteq Dc
    /\ relayed \subseteq Tg /\ recalled \subseteq Tg /\ asked \subseteq Tg
    /\ upc \in {"next", "store", "relay", "delete", "recall", "siblings",
                "fetch", "erase", "unmap", "end"}
    /\ upc # "next" => updates # <<>>
    /\ ufound \in Dc \cup {None}
    /\ upc \in {"store", "delete", "recall", "siblings", "fetch", "erase", "unmap"} =>
           ufound # None
    /\ spc \in [Dc -> {"none", "sending", "storing", "relay", "done"}]
    /\ rest \in [Dc -> SUBSET Tg]
    /\ dpc \in [Dc -> {"none", "lookup", "exec", "delete", "recall", "unmap", "done"}]
    /\ ids \in [Dc -> SUBSET Tg] /\ held \in [Dc -> SUBSET Tg]
    /\ rpc \in [Request -> {"none", "place", "post", "store", "delete", "find", "unmap",
                            "siblings", "erase", "done", "failed"}]
    /\ rids \in [Request -> SUBSET Tg] /\ rtodo \in [Request -> SUBSET Tg]
    /\ rfound \in [Request -> Dc \cup {None}]
    /\ \A r \in Request : rpc[r] \in {"store", "unmap", "siblings", "erase"} => rfound[r] # None
    /\ torn \subseteq Dc /\ crossed \subseteq Dc
    /\ faults \subseteq Faults

Init ==
    /\ tg = {} /\ nextTg = 1 /\ updates = <<>> /\ users = {} /\ stimuli = 0
    /\ discord = {} /\ nextDc = 1 /\ about = [d \in Dc |-> {}] /\ raw = {}
    /\ map = [t \in Tg |-> None] /\ suppress = {} /\ relayed = {} /\ recalled = {} /\ asked = {}
    /\ upc = "next" /\ ufound = None
    /\ spc = [d \in Dc |-> "none"] /\ rest = [d \in Dc |-> {}]
    /\ dpc = [d \in Dc |-> "none"] /\ ids = [d \in Dc |-> {}] /\ held = [d \in Dc |-> {}]
    /\ rpc = [r \in Request |-> "none"] /\ rids = [r \in Request |-> {}]
    /\ rtodo = [r \in Request |-> {}] /\ rfound = [r \in Request |-> None]
    /\ torn = {} /\ crossed = {} /\ faults = {}

\* Every kind of fault happens at most once.
Fault(kind) ==
    /\ kind \in Faults \ faults
    /\ Cardinality(faults) < MaxFaults
    /\ faults' = faults \cup {kind}

\* find_all_by_dc
RowsOf(d) == {t \in Tg : map[t] = d}

IsLeast(n, set) == n \in set /\ \A k \in set : n <= k
IsGreatest(n, set) == n \in set /\ \A k \in set : k <= n

NewTg(t) == t = nextTg /\ t \in Tg /\ nextTg' = nextTg + 1 /\ tg' = tg \cup {t}
NewDc(d) == d = nextDc /\ d \in Dc /\ nextDc' = nextDc + 1 /\ discord' = discord \cup {d}

\* A send to Telegram: one call makes one message, or an album.
NewTgs(set) ==
    /\ set # {} /\ Cardinality(set) <= Album
    /\ set = nextTg..(nextTg + Cardinality(set) - 1)
    /\ nextTg' = nextTg + Cardinality(set)
    /\ tg' = tg \cup set

\* Rows of the message that are still to be stored.
ToStore(d) ==
    \/ spc[d] \in {"sending", "storing"}
    \/ upc = "store" /\ ufound = d
    \/ \E r \in Request : rpc[r] = "store" /\ rfound[r] = d

\* A deletion that comes while rows of the message are still to be stored.
Tear(ds) == torn' = torn \cup {d \in ds : ToStore(d)}

--------------------------------------------------------------------------------
(* Telegram users.  Their own deletions are not reported to a bot. *)

Stimulus == stimuli < MaxStimuli /\ stimuli' = stimuli + 1

Queue(kind, id, parent) ==
    updates' = Append(updates, [kind |-> kind, id |-> id, parent |-> parent])

Writes(t) ==
    /\ Stimulus
    /\ NewTg(t)
    /\ Queue("message", t, None)
    /\ users' = users \cup {t}
    /\ UNCHANGED <<channel, shared, updater, sender, remover, server, seen, faults>>

Edits(t) ==
    /\ Stimulus
    /\ t \in users \cap tg
    /\ Queue("edit", t, None)
    /\ UNCHANGED <<tg, nextTg, users, channel, shared, updater, sender, remover, server, seen,
                   faults>>

\* A reply that matches TG_MSG_DELETE_REGEX.
Commands(c, t) ==
    /\ Stimulus
    /\ t \in tg
    /\ NewTg(c)
    /\ Queue("command", c, t)
    /\ UNCHANGED <<users, channel, shared, updater, sender, remover, server, seen, faults>>

--------------------------------------------------------------------------------
(* route_tg_to_discord.  The dispatcher hands it edits too: the filter of its   *)
(* handler, UpdateType.MESSAGES, matches both, and it is registered first.      *)

Handled(t) == updates # <<>> /\ Head(updates).id = t

\* Mutant: the handler's place is not reset.
NextUpdateOnly == updates' = Tail(updates) /\ upc' = upc /\ ufound' = None

NextUpdate == updates' = Tail(updates) /\ upc' = "next" /\ ufound' = None

Bridges(t) == Handled(t) /\ Head(updates).kind \in {"message", "edit"}

\* The burst breaker has tripped, or there is no channel or webhook for the group.
RouteDropped(t) ==
    /\ upc = "next"
    /\ Bridges(t)
    /\ Fault("dropped")
    /\ NextUpdate
    /\ UNCHANGED <<stimuli, tg, nextTg, users, channel, shared, sender, remover, server, seen>>

\* _send_to_discord
PostCopy(d, tgs) == NewDc(d) /\ about' = [about EXCEPT ![d] = tgs]

Post(t, d) ==
    /\ upc = "next"
    /\ Bridges(t)
    /\ PostCopy(d, {t})
    /\ ufound' = d
    /\ upc' = "store"
    /\ UNCHANGED <<stimuli, telegram, raw, shared, sender, remover, server, seen, faults>>

\* The relay to the clients goes on without a copy in Discord.
PostFails(t) ==
    /\ upc = "next"
    /\ Bridges(t)
    /\ Fault("dropped")
    /\ upc' = "relay"
    /\ UNCHANGED <<stimuli, telegram, channel, shared, ufound, sender, remover, server, seen>>

\* store_message replaces a row there is.  A message deleted meanwhile is torn.
Store(t) ==
    /\ upc = "store"
    /\ Handled(t)
    /\ map' = [map EXCEPT ![t] = ufound]
    /\ torn' = IF t \in tg THEN torn ELSE torn \cup {ufound}
    /\ upc' = "relay"
    /\ UNCHANGED <<stimuli, telegram, channel, suppress, relayed, recalled, ufound, sender,
                   remover, server, crossed, faults>>

\* _gw_enqueue_outbound_message
Relay(t) ==
    /\ upc = "relay"
    /\ Handled(t)
    /\ relayed' = relayed \cup {t}
    /\ NextUpdate
    /\ UNCHANGED <<stimuli, tg, nextTg, users, channel, map, suppress, recalled, sender,
                   remover, server, seen, faults>>

--------------------------------------------------------------------------------
(* _handle_tg_delete_command *)

Deletes(t) == updates # <<>> /\ Head(updates).kind = "command" /\ Head(updates).parent = t

\* The reply to a message that is not mapped stays in the group.
FindParent(t) ==
    /\ upc = "next"
    /\ Deletes(t)
    /\ \/ /\ map[t] = None
          /\ NextUpdate
          /\ torn' = torn
       \/ /\ map[t] # None
          /\ ufound' = map[t]
          /\ upc' = "delete"
          /\ Tear({map[t]})
          /\ updates' = updates
    /\ UNCHANGED <<stimuli, tg, nextTg, users, channel, shared, sender, remover, server,
                   crossed, faults>>

DeleteParent(t) ==
    /\ upc = "delete"
    /\ Deletes(t)
    /\ t \in tg
    /\ tg' = tg \ {t}
    /\ upc' = "recall"
    /\ UNCHANGED <<stimuli, nextTg, updates, users, channel, shared, ufound, sender, remover,
                   server, seen, faults>>

\* The command ends here when Telegram refuses, as it does when the message is gone.
DeleteParentFails(t) ==
    /\ upc = "delete"
    /\ Deletes(t)
    /\ IF t \in tg THEN Fault("telegram") ELSE faults' = faults
    /\ NextUpdate
    /\ UNCHANGED <<stimuli, tg, nextTg, users, channel, shared, sender, remover, server, seen>>

\* _gw_enqueue_outbound_deletion
RecallParent(t) ==
    /\ upc = "recall"
    /\ Deletes(t)
    /\ recalled' = recalled \cup {t}
    /\ upc' = "siblings"
    /\ UNCHANGED <<stimuli, telegram, channel, map, suppress, relayed, ufound, sender, remover,
                   server, seen, faults>>

\* The rows of the message are of ids that other tasks have deleted already.
Cross(d, rows) ==
    crossed' = IF rows # {} /\ rows \cap tg = {} THEN crossed \cup {d} ELSE crossed

\* Other ids are mapped to it: the Discord message stays.
CheckSiblings(t) ==
    /\ upc = "siblings"
    /\ Deletes(t)
    /\ upc' = IF RowsOf(ufound) \ {t} # {} THEN "unmap" ELSE "fetch"
    /\ Cross(ufound, RowsOf(ufound) \ {t})
    /\ UNCHANGED <<stimuli, telegram, channel, shared, ufound, sender, remover, server, torn,
                   faults>>

\* _mark_dc_delete_suppressed
Mark(d) == suppress' = (IF Cardinality(suppress) > SuppressMax THEN {} ELSE suppress) \cup {d}

\* fetch_message: a message that is gone counts as deleted.
Fetch(t) ==
    /\ upc = "fetch"
    /\ Deletes(t)
    /\ \/ ufound \in discord /\ Mark(ufound) /\ upc' = "erase"
       \/ ufound \notin discord /\ suppress' = suppress /\ upc' = "unmap"
    /\ UNCHANGED <<stimuli, telegram, channel, map, relayed, recalled, ufound, sender, remover,
                   server, seen, faults>>

\* Discord deletes the message, and reports it.
Delete(d) == discord' = discord \ {d} /\ raw' = raw \cup ({d} \cap discord)

Erase(t) ==
    /\ upc = "erase"
    /\ Deletes(t)
    /\ Delete(ufound)
    /\ upc' = "unmap"
    /\ UNCHANGED <<stimuli, telegram, nextDc, about, shared, ufound, sender, remover, server,
                   seen, faults>>

\* The row and the mark stay; the parent is gone, so that no command comes again.
EraseFails(t) ==
    /\ upc \in {"fetch", "erase"}
    /\ Deletes(t)
    /\ Fault("discord")
    /\ NextUpdate
    /\ UNCHANGED <<stimuli, tg, nextTg, users, channel, shared, sender, remover, server, seen>>

\* Mutant: delete_by_dc.
UnmapAll(t) ==
    /\ upc = "unmap"
    /\ Deletes(t)
    /\ map' = [u \in Tg |-> IF map[u] = ufound THEN None ELSE map[u]]
    /\ upc' = "end"
    /\ UNCHANGED <<stimuli, telegram, channel, suppress, relayed, recalled, ufound, sender,
                   remover, server, seen, faults>>

\* delete_by_tg
Unmap(t) ==
    /\ upc = "unmap"
    /\ Deletes(t)
    /\ map' = [map EXCEPT ![t] = None]
    /\ upc' = "end"
    /\ UNCHANGED <<stimuli, telegram, channel, suppress, relayed, recalled, ufound, sender,
                   remover, server, seen, faults>>

\* The command itself is deleted, if Telegram lets it.
EndCommand(c) ==
    /\ upc = "end"
    /\ Handled(c)
    /\ \/ tg' = tg \ {c} /\ faults' = faults
       \/ tg' = tg /\ Fault("telegram")
    /\ NextUpdate
    /\ UNCHANGED <<stimuli, nextTg, users, channel, shared, sender, remover, server, seen>>

--------------------------------------------------------------------------------
(* Discord users: on_message *)

WritesDc(d) ==
    /\ Stimulus
    /\ NewDc(d)
    /\ spc' = [spc EXCEPT ![d] = "sending"]
    /\ UNCHANGED <<telegram, about, raw, shared, updater, rest, remover, server, seen, faults>>

DeletesDc(d) ==
    /\ Stimulus
    /\ d \in discord
    /\ Delete(d)
    /\ UNCHANGED <<telegram, nextDc, about, shared, updater, sender, remover, server, seen,
                   faults>>

\* A call of send_message, or of _send_attachments_to_telegram.
Send(d, tgs) ==
    /\ spc[d] = "sending"
    /\ Cardinality(about[d] \cup tgs) <= Album
    /\ NewTgs(tgs)
    /\ about' = [about EXCEPT ![d] = @ \cup tgs]
    /\ UNCHANGED <<stimuli, updates, users, discord, nextDc, raw, shared, updater, sender,
                   remover, server, seen, faults>>

\* The calls are over.  What was not sent has been warned about.
Sent(d) ==
    /\ spc[d] = "sending"
    /\ about[d] # {}
    /\ rest' = [rest EXCEPT ![d] = about[d]]
    /\ spc' = [spc EXCEPT ![d] = "storing"]
    /\ UNCHANGED <<stimuli, telegram, channel, shared, updater, remover, server, seen, faults>>

\* No group is found for the author, the breaker has tripped, or no call succeeds.
NotSent(d) ==
    /\ spc[d] = "sending"
    /\ about[d] = {}
    /\ Fault("dropped")
    /\ spc' = [spc EXCEPT ![d] = "done"]
    /\ UNCHANGED <<stimuli, telegram, channel, shared, updater, rest, remover, server, seen>>

StoreSent(d, t) ==
    /\ spc[d] = "storing"
    /\ IsLeast(t, rest[d])
    /\ map' = [map EXCEPT ![t] = d]
    /\ rest' = [rest EXCEPT ![d] = @ \ {t}]
    /\ spc' = [spc EXCEPT ![d] = IF rest'[d] = {} THEN "relay" ELSE @]
    /\ UNCHANGED <<stimuli, telegram, channel, suppress, relayed, recalled, updater, remover,
                   server, seen, faults>>

\* _gw_enqueue_outbound_message, of the first id.
RelaySent(d, t) ==
    /\ spc[d] = "relay"
    /\ IsLeast(t, about[d])
    /\ relayed' = relayed \cup {t}
    /\ spc' = [spc EXCEPT ![d] = "done"]
    /\ UNCHANGED <<stimuli, telegram, channel, map, suppress, recalled, updater, rest, remover,
                   server, seen, faults>>

--------------------------------------------------------------------------------
(* on_raw_message_delete, and the native executor of a delete *)

OnRawDelete(d) ==
    /\ d \in raw
    /\ raw' = raw \ {d}
    /\ suppress' = suppress \ {d}
    /\ dpc' = [dpc EXCEPT ![d] = IF d \in suppress THEN "done" ELSE "lookup"]
    /\ UNCHANGED <<stimuli, telegram, discord, nextDc, about, map, relayed, recalled, updater,
                   sender, ids, held, server, seen, faults>>

\* _dispatch_or_park_action: a message that is not mapped, or not yet, is not ours.
LookupDeleted(d) ==
    /\ dpc[d] = "lookup"
    /\ dpc' = [dpc EXCEPT ![d] = IF RowsOf(d) = {} THEN "done" ELSE "exec"]
    /\ Tear({d})
    /\ UNCHANGED <<stimuli, telegram, channel, shared, updater, sender, ids, held, server,
                   crossed, faults>>

ExecuteDelete(d) ==
    /\ dpc[d] = "exec"
    /\ ids' = [ids EXCEPT ![d] = RowsOf(d)]
    /\ held' = [held EXCEPT ![d] = RowsOf(d)]
    /\ dpc' = [dpc EXCEPT ![d] = IF RowsOf(d) = {} THEN "done" ELSE "delete"]
    /\ Tear({d})
    /\ UNCHANGED <<stimuli, telegram, channel, shared, updater, sender, server, crossed, faults>>

\* The ids are deleted from the last to the first; a failure is only logged.
DeleteSent(d, t) ==
    /\ dpc[d] = "delete"
    /\ IsGreatest(t, ids[d])
    /\ \/ tg' = tg \ {t} /\ faults' = faults
       \/ t \in tg /\ tg' = tg /\ Fault("telegram")
    /\ ids' = [ids EXCEPT ![d] = @ \ {t}]
    /\ dpc' = [dpc EXCEPT ![d] = IF ids'[d] = {} THEN "recall" ELSE @]
    /\ UNCHANGED <<stimuli, nextTg, updates, users, channel, shared, updater, sender, held,
                   server, seen>>

\* Mutant: only the first id, as in a relayed message.
RecallFirst(d) ==
    /\ dpc[d] = "recall"
    /\ recalled' = recalled \cup {t \in held[d] : IsLeast(t, held[d])}
    /\ dpc' = [dpc EXCEPT ![d] = "unmap"]
    /\ UNCHANGED <<stimuli, telegram, channel, map, suppress, relayed, updater, sender, ids,
                   held, server, seen, faults>>

RecallSent(d) ==
    /\ dpc[d] = "recall"
    /\ recalled' = recalled \cup held[d]
    /\ dpc' = [dpc EXCEPT ![d] = "unmap"]
    /\ UNCHANGED <<stimuli, telegram, channel, map, suppress, relayed, updater, sender, ids,
                   held, server, seen, faults>>

\* delete_by_dc
DeleteRows(d) ==
    /\ dpc[d] = "unmap"
    /\ map' = [t \in Tg |-> IF map[t] = d THEN None ELSE map[t]]
    /\ held' = [held EXCEPT ![d] = {}]
    /\ dpc' = [dpc EXCEPT ![d] = "done"]
    /\ UNCHANGED <<stimuli, telegram, channel, suppress, relayed, recalled, updater, sender,
                   ids, server, seen, faults>>

--------------------------------------------------------------------------------
(* Requests of gateway clients: _gateway_bridge *)

NewRequest(r) == rpc[r] = "none" /\ \A q \in Request : q < r => rpc[q] # "none"

AsksToSend(r) ==
    /\ Stimulus
    /\ NewRequest(r)
    /\ rpc' = [rpc EXCEPT ![r] = "place"]
    /\ UNCHANGED <<telegram, channel, shared, updater, sender, remover, rids, rtodo, rfound,
                   asked, seen, faults>>

Place(r, tgs) ==
    /\ rpc[r] = "place"
    /\ Cardinality(rids[r] \cup tgs) <= Album
    /\ NewTgs(tgs)
    /\ rids' = [rids EXCEPT ![r] = @ \cup tgs]
    /\ UNCHANGED <<stimuli, updates, users, channel, shared, updater, sender, remover, rpc,
                   rtodo, rfound, asked, seen, faults>>

Placed(r) ==
    /\ rpc[r] = "place"
    /\ rids[r] # {}
    /\ rpc' = [rpc EXCEPT ![r] = "post"]
    /\ UNCHANGED <<stimuli, telegram, channel, shared, updater, sender, remover, rids, rtodo,
                   rfound, asked, seen, faults>>

\* The breaker has tripped, or no call succeeds: Discord is not tried.
NotPlaced(r) ==
    /\ rpc[r] = "place"
    /\ rids[r] = {}
    /\ Fault("dropped")
    /\ rpc' = [rpc EXCEPT ![r] = "failed"]
    /\ UNCHANGED <<stimuli, telegram, channel, shared, updater, sender, remover, rids, rtodo,
                   rfound, asked, seen>>

\* bridge_gateway_message_to_discord
PostRequest(r, d) ==
    /\ rpc[r] = "post"
    /\ PostCopy(d, rids[r])
    /\ rfound' = [rfound EXCEPT ![r] = d]
    /\ rtodo' = [rtodo EXCEPT ![r] = rids[r]]
    /\ rpc' = [rpc EXCEPT ![r] = "store"]
    /\ UNCHANGED <<stimuli, telegram, raw, shared, updater, sender, remover, rids, asked, seen,
                   faults>>

PostRequestFails(r) ==
    /\ rpc[r] = "post"
    /\ Fault("dropped")
    /\ rpc' = [rpc EXCEPT ![r] = "done"]
    /\ UNCHANGED <<stimuli, telegram, channel, shared, updater, sender, remover, rids, rtodo,
                   rfound, asked, seen>>

\* The client learns the ids when all the rows are stored.
StoreRequest(r, t) ==
    /\ rpc[r] = "store"
    /\ IsLeast(t, rtodo[r])
    /\ map' = [map EXCEPT ![t] = rfound[r]]
    /\ rtodo' = [rtodo EXCEPT ![r] = @ \ {t}]
    /\ rpc' = [rpc EXCEPT ![r] = IF rtodo'[r] = {} THEN "done" ELSE @]
    /\ rfound' = [rfound EXCEPT ![r] = IF rtodo'[r] = {} THEN None ELSE @]
    /\ UNCHANGED <<stimuli, telegram, channel, suppress, relayed, recalled, updater, sender,
                   remover, rids, asked, seen, faults>>

--------------------------------------------------------------------------------
(* _gateway_deletion *)

\* A client knows what it sent, and what was relayed to it.
Known == relayed \cup UNION {rids[r] : r \in {q \in Request : rpc[q] = "done"}}

AsksToDelete(r, tgs) ==
    /\ Stimulus
    /\ NewRequest(r)
    /\ tgs # {} /\ tgs \subseteq Known
    /\ rids' = [rids EXCEPT ![r] = tgs]
    /\ rtodo' = [rtodo EXCEPT ![r] = tgs]
    /\ asked' = asked \cup tgs
    /\ rpc' = [rpc EXCEPT ![r] = "delete"]
    /\ UNCHANGED <<telegram, channel, shared, updater, sender, remover, rfound, seen, faults>>

\* The next id; a failure becomes a note of the answer.
DeleteAsked(r, t) ==
    /\ rpc[r] = "delete"
    /\ IsLeast(t, rtodo[r])
    /\ \/ tg' = tg \ {t} /\ faults' = faults
       \/ t \in tg /\ tg' = tg /\ Fault("telegram")
    /\ rpc' = [rpc EXCEPT ![r] = "find"]
    /\ UNCHANGED <<stimuli, nextTg, updates, users, channel, shared, updater, sender, remover,
                   rids, rtodo, rfound, asked, seen>>

\* Goes on with the id after t, or answers.
AfterAsked(r, t) ==
    /\ rtodo' = [rtodo EXCEPT ![r] = @ \ {t}]
    /\ rpc' = [rpc EXCEPT ![r] = IF rtodo'[r] = {} THEN "done" ELSE "delete"]
    /\ rfound' = [rfound EXCEPT ![r] = None]

FindAsked(r, t) ==
    /\ rpc[r] = "find"
    /\ IsLeast(t, rtodo[r])
    /\ \/ /\ map[t] = None
          /\ AfterAsked(r, t)
          /\ torn' = torn
       \/ /\ map[t] # None
          /\ rfound' = [rfound EXCEPT ![r] = map[t]]
          /\ rpc' = [rpc EXCEPT ![r] = "unmap"]
          /\ Tear({map[t]})
          /\ rtodo' = rtodo
    /\ UNCHANGED <<stimuli, telegram, channel, shared, updater, sender, remover, rids, asked,
                   crossed, faults>>

UnmapAsked(r, t) ==
    /\ rpc[r] = "unmap"
    /\ IsLeast(t, rtodo[r])
    /\ map' = [map EXCEPT ![t] = None]
    /\ rpc' = [rpc EXCEPT ![r] = "siblings"]
    /\ UNCHANGED <<stimuli, telegram, channel, suppress, relayed, recalled, updater, sender,
                   remover, rids, rtodo, rfound, asked, seen, faults>>

\* Mutant: no look at the siblings.
EraseAtOnce(r, t) ==
    /\ rpc[r] = "siblings"
    /\ IsLeast(t, rtodo[r])
    /\ Mark(rfound[r])
    /\ rpc' = [rpc EXCEPT ![r] = "erase"]
    /\ UNCHANGED <<stimuli, telegram, channel, map, relayed, recalled, updater, sender, remover,
                   rids, rtodo, rfound, asked, seen, faults>>

\* Mutant: the message is marked whether or not it is to be deleted.
MarkAsked(r, t) ==
    /\ rpc[r] = "siblings"
    /\ IsLeast(t, rtodo[r])
    /\ Mark(rfound[r])
    /\ \/ RowsOf(rfound[r]) # {} /\ AfterAsked(r, t)
       \/ /\ RowsOf(rfound[r]) = {}
          /\ rpc' = [rpc EXCEPT ![r] = "erase"]
          /\ UNCHANGED <<rtodo, rfound>>
    /\ Cross(rfound[r], RowsOf(rfound[r]))
    /\ UNCHANGED <<stimuli, telegram, channel, map, relayed, recalled, updater, sender, remover,
                   rids, asked, torn, faults>>

\* Other ids are mapped to it: the Discord message stays.
CheckAsked(r, t) ==
    /\ rpc[r] = "siblings"
    /\ IsLeast(t, rtodo[r])
    /\ \/ /\ RowsOf(rfound[r]) # {}
          /\ suppress' = suppress
          /\ AfterAsked(r, t)
       \/ /\ RowsOf(rfound[r]) = {}
          /\ Mark(rfound[r])
          /\ rpc' = [rpc EXCEPT ![r] = "erase"]
          /\ UNCHANGED <<rtodo, rfound>>
    /\ Cross(rfound[r], RowsOf(rfound[r]))
    /\ UNCHANGED <<stimuli, telegram, channel, map, relayed, recalled, updater, sender, remover,
                   rids, asked, torn, faults>>

EraseAsked(r, t) ==
    /\ rpc[r] = "erase"
    /\ IsLeast(t, rtodo[r])
    /\ Delete(rfound[r])
    /\ AfterAsked(r, t)
    /\ UNCHANGED <<stimuli, telegram, nextDc, about, shared, updater, sender, remover, rids,
                   asked, seen, faults>>

\* No channel is found, or the call fails: the row is gone already.
EraseAskedFails(r, t) ==
    /\ \/ rpc[r] = "erase"
       \/ rpc[r] = "siblings" /\ RowsOf(rfound[r]) = {}
    /\ IsLeast(t, rtodo[r])
    /\ Fault("discord")
    /\ AfterAsked(r, t)
    /\ UNCHANGED <<stimuli, telegram, channel, shared, updater, sender, remover, rids, asked,
                   seen>>

--------------------------------------------------------------------------------
\* The process stops between two steps and starts again; message_map and the
\* outbound queue stay.  Telegram sends again the updates it has no confirmation of.
Crash ==
    /\ Fault("crash")
    /\ \E n \in 1..(Len(updates) + 1) : updates' = SubSeq(updates, n, Len(updates))
    /\ upc' = "next" /\ ufound' = None
    /\ raw' = {} /\ suppress' = {}
    /\ torn' = torn \cup {d \in Dc : ToStore(d)}
    /\ spc' = [d \in Dc |-> IF spc[d] = "none" THEN "none" ELSE "done"]
    /\ rest' = [d \in Dc |-> {}]
    /\ dpc' = [d \in Dc |-> IF dpc[d] = "none" THEN "none" ELSE "done"]
    /\ ids' = [d \in Dc |-> {}] /\ held' = [d \in Dc |-> {}]
    /\ rpc' = [r \in Request |-> IF rpc[r] \in {"none", "done"} THEN rpc[r] ELSE "failed"]
    /\ rtodo' = [r \in Request |-> {}] /\ rfound' = [r \in Request |-> None]
    /\ UNCHANGED <<stimuli, tg, nextTg, users, discord, nextDc, about, map, relayed, recalled,
                   rids, asked, crossed>>

External ==
    \/ \E t \in Tg : Writes(t) \/ Edits(t) \/ \E u \in Tg : Commands(u, t)
    \/ \E d \in Dc : WritesDc(d) \/ DeletesDc(d)
    \/ \E r \in Request : AsksToSend(r) \/ \E tgs \in SUBSET Tg : AsksToDelete(r, tgs)

RouteStep(t) ==
    \/ RouteDropped(t) \/ PostFails(t) \/ Store(t) \/ Relay(t)
    \/ \E d \in Dc : Post(t, d)

CommandStep(t) ==
    \/ FindParent(t) \/ DeleteParent(t) \/ DeleteParentFails(t) \/ RecallParent(t)
    \/ CheckSiblings(t) \/ Fetch(t) \/ Erase(t) \/ EraseFails(t) \/ Unmap(t)
    \/ EndCommand(t)

SenderStep(d) ==
    \/ NotSent(d) \/ Sent(d)
    \/ \E tgs \in SUBSET Tg : Send(d, tgs)
    \/ \E t \in Tg : StoreSent(d, t) \/ RelaySent(d, t)

RemoverStep(d) ==
    \/ OnRawDelete(d) \/ LookupDeleted(d) \/ ExecuteDelete(d)
    \/ \E t \in Tg : DeleteSent(d, t)
    \/ RecallSent(d) \/ DeleteRows(d)

RequestStep(r) ==
    \/ NotPlaced(r) \/ Placed(r) \/ PostRequestFails(r)
    \/ \E tgs \in SUBSET Tg : Place(r, tgs)
    \/ \E d \in Dc : PostRequest(r, d)
    \/ \E t \in Tg : StoreRequest(r, t)

DeletionStep(r, t) ==
    \/ DeleteAsked(r, t) \/ FindAsked(r, t) \/ UnmapAsked(r, t) \/ CheckAsked(r, t)
    \/ EraseAsked(r, t) \/ EraseAskedFails(r, t)

Next ==
    \/ External
    \/ \E t \in Tg : RouteStep(t) \/ CommandStep(t)
    \/ \E d \in Dc : SenderStep(d) \/ RemoverStep(d)
    \/ \E r \in Request : RequestStep(r) \/ \E t \in Tg : DeletionStep(r, t)
    \/ Crash

Spec == Init /\ [][Next]_vars

--------------------------------------------------------------------------------
(* Properties *)

Idle ==
    /\ upc = "next" /\ updates = <<>> /\ raw = {}
    /\ \A d \in Dc : spc[d] \in {"none", "done"} /\ dpc[d] \in {"none", "done"}
    /\ \A r \in Request : rpc[r] \in {"none", "done", "failed"}

\* The delete command or a client's deletion is about to delete the message in Discord.
Decides(d) ==
    \/ upc = "siblings" /\ upc' = "fetch" /\ ufound = d
    \/ \E r \in Request : rpc[r] = "siblings" /\ rpc'[r] = "erase" /\ rfound[r] = d

\* Whichever tasks delete the ids of a message at a time, the bot decides to delete
\* the Discord message only when none of its Telegram messages is left ("delete it
\* only when the LAST Telegram sibling of its media group is removed").  Telegram
\* refuses no deletion, and the message is not torn.
LastSibling ==
    [][\A d \in discord \ torn :
          Decides(d) /\ "telegram" \notin faults => about[d] \cap tg = {}]_vars

\* A deletion is taken for an echo of the bot's own only when no mapped Telegram
\* message is left to delete, though marks outlive the deletions that failed: a
\* user's deletion still reaches Telegram.  A torn message is the exception.
UserDeletionKept ==
    [][\A d \in suppress \ (suppress' \cup torn) : d \in raw => RowsOf(d) \cap tg = {}]_vars

\* An edit that came as a new message has a copy of its own, and the row.
Recopied(d) == \E n \in Dc \ {d} : about[d] \cap about[n] # {}

\* When every task is done and nothing failed, a message is in Discord exactly when
\* some of its Telegram messages are left, and is mapped to exactly those.  Exceptions:
\* a torn message, one whose ids two tasks deleted at a time, and the copies
\* of an edited message.
IdleAgreement ==
    Idle /\ faults = {} =>
        \A d \in Dc \ (torn \cup crossed) :
            about[d] # {} /\ ~Recopied(d) =>
                /\ RowsOf(d) = about[d] \cap tg
                /\ d \in discord <=> about[d] \cap tg # {}

\* What the bridge has deleted, its clients were told of, unless they asked for it
\* themselves: every id that a Discord message was mapped to, whoever deleted it.
DeletionsRelayed ==
    Idle /\ "crash" \notin faults =>
        (UNION {about[d] : d \in Dc}) \ tg \subseteq recalled \cup asked

\* An edit changes the Discord copy in place: no Telegram message has two copies
\* ("New messages" and "Edited messages" have handlers of their own).
EditedInPlace ==
    faults = {} => \A t \in Tg : Cardinality({d \in discord : t \in about[d]}) <= 1

================================================================================
