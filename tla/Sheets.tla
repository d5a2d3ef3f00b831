--------------------------------- MODULE Sheets ---------------------------------
(***************************************************************************)
(* A table of the spreadsheet (sheets_manager.py, table_manager.py): what  *)
(* the bot finds on Telegram or Discord is written to it, and the routing  *)
(* caches are built from it.  T_Group is written through a write-behind    *)
(* buffer that is persisted in SQLite; D_User, and D_Channel alike, by a   *)
(* scan of Discord at startup and every day.                               *)
(*                                                                         *)
(* The writer of the table and the refresh of the caches share its         *)
(* TableManager without a lock, and a scan builds the caches from all      *)
(* tables.  A step is one call of the Sheets API, which _api_lock makes    *)
(* atomic, or what a thread does between two calls.  The operator shares   *)
(* the spreadsheet.  The names a row shows are versions.                   *)
(***************************************************************************)
EXTENDS Naturals, Sequences, FiniteSets, SequencesExt

CONSTANTS
    Id,          \* the keys of the rows: D_ID, D_ChannelID or T_GroupID
    Entered,     \* those the operator has entered already
    Blank,       \* an empty cell
    MaxVersion,  \* bound on upserts of groups, which are their versions
    MaxScans,    \* bound on scans of Discord
    Faults,      \* the faults that can happen
    MaxFaults    \* bound on how many do

Version == 0..MaxVersion
Cells   == Id \cup {Blank}
FaultKinds == {"crash", "headers", "rows", "update", "insert", "twice", "moved", "displaced"}

ASSUME SheetsAssumption ==
    /\ IsFiniteSet(Id) /\ Blank \notin Id /\ Entered \subseteq Id
    /\ MaxVersion \in Nat \ {0} /\ MaxScans \in Nat /\ MaxFaults \in Nat
    /\ Faults \subseteq FaultKinds

VARIABLES
    table,    \* which it is: "T_Group" or "D_User"
    sheet,    \* Seq(Row): the spreadsheet
    records,  \* Seq(Cells): TableManager.records, the keys of the rows
    \* the writer
    pc,       \* where it is
    want,     \* [Id -> Version]: what it has to write, 0 for nothing
    found,    \* [Id -> Nat]: the row it found for each, 0 for none
    scans,    \* scans left
    \* the buffer
    clock,    \* the upserts so far
    newest,   \* [Id -> Version]: the last upsert of a group
    pending,  \* [Id -> Version]: _t_group_pending
    saved,    \* [Id -> Version]: t_group_pending_buffer in SQLite
    saving,   \* what the event loop is about to save, or NoSave
    resaving, \* what the flush is about to save
    \* the refresh and the caches
    rpc,      \* where it is
    up,       \* startup is over: the loops run
    cache,    \* the keys the routing caches know
    \* what happened
    crossed,  \* two threads worked on the records at once
    raced,    \* two threads saved the buffer at once
    faults    \* the faults that happened: Seq(FaultKinds)

writer  == <<pc, want, found, scans>>
buffer  == <<clock, newest, pending, saved, saving, resaving, raced>>
refresh == <<rpc, up, cache>>
vars == <<table, sheet, records, writer, buffer, refresh, crossed, faults>>

\* A row: its key, whose name it shows and which, and whom the operator filled the
\* user-maintained columns in for.
Row == [id : Cells, of : Cells, version : Version, user : Cells]

EmptyRow == [id |-> Blank, of |-> Blank, version |-> 0, user |-> Blank]
Nothing  == [g \in Id |-> 0]
NoSave   == <<>>

TypeOK ==
    /\ table \in {"T_Group", "D_User"}
    /\ sheet \in Seq(Row) /\ records \in Seq(Cells)
    /\ pc \in {"idle", "save", "headers", "rows", "match", "update", "insert", "fill",
               "build", "resave", "dead"}
    /\ want \in [Id -> Version] /\ found \in [Id -> Nat]
    /\ scans \in 0..MaxScans
    /\ clock \in Version /\ newest \in [Id -> Version]
    /\ pending \in [Id -> Version] /\ saved \in [Id -> Version]
    /\ saving \in [Id -> Version] \cup {NoSave} /\ resaving \in [Id -> Version]
    /\ rpc \in {"idle", "headers", "rows", "build"}
    /\ cache \subseteq Id
    /\ up \in BOOLEAN /\ crossed \in BOOLEAN /\ raced \in BOOLEAN
    /\ faults \in Seq(FaultKinds)

\* What the operator has entered already, if anything.
EnteredRows ==
    LET ids == SetToSeq(Entered)
    IN [k \in DOMAIN ids |-> [id |-> ids[k], of |-> ids[k], version |-> 0, user |-> ids[k]]]

\* Of the tables, the startup reads T_Group only.
StartWith(t) == IF t = "T_Group" THEN "headers" ELSE "idle"

Init ==
    /\ table \in {"T_Group", "D_User"}
    /\ sheet \in {<<>>, EnteredRows} /\ records = <<>>
    /\ pc = "idle" /\ want = Nothing /\ found = Nothing /\ scans = MaxScans
    /\ clock = 0 /\ newest = Nothing
    /\ pending = Nothing /\ saved = Nothing /\ saving = NoSave /\ resaving = Nothing
    /\ rpc = StartWith(table) /\ up = FALSE /\ cache = {}
    /\ crossed = FALSE /\ raced = FALSE /\ faults = <<>>

\* A call of the API fails after its retries, or what else goes wrong.
Fault(kind) ==
    /\ kind \in Faults
    /\ Len(faults) < MaxFaults
    /\ faults' = Append(faults, kind)

\* Mutant: what was about to be saved is taken for what was.
RebootUnsaved ==
    /\ records' = <<>>
    /\ pc' = "idle" /\ want' = Nothing /\ found' = Nothing
    /\ pending' = saving /\ saving' = NoSave /\ resaving' = Nothing
    /\ rpc' = StartWith(table) /\ up' = FALSE /\ cache' = {}
    /\ UNCHANGED <<table, sheet, scans, clock, newest, saved, raced>>

\* The process starts: _load_pending_t_group_from_db, then T_Group is read.
Reboot ==
    /\ records' = <<>>
    /\ pc' = "idle" /\ want' = Nothing /\ found' = Nothing
    /\ pending' = saved /\ saving' = NoSave /\ resaving' = Nothing
    /\ rpc' = StartWith(table) /\ up' = FALSE /\ cache' = {}
    /\ UNCHANGED <<table, sheet, scans, clock, newest, saved, raced>>

--------------------------------------------------------------------------------
(* The write-behind buffer, in the event loop *)

\* upsert_t_group_buffered: the last upsert of a group counts, ...
Upsert(g) ==
    /\ table = "T_Group"
    /\ saving = NoSave
    /\ clock < MaxVersion
    /\ clock' = clock + 1
    /\ newest' = [newest EXCEPT ![g] = clock']
    /\ pending' = [pending EXCEPT ![g] = clock']
    /\ saving' = pending'
    /\ raced' = (raced \/ pc \in {"save", "resave"})
    /\ UNCHANGED <<table, sheet, records, writer, saved, resaving, refresh, crossed, faults>>

\* ... and the buffer is saved.
SaveUpsert ==
    /\ saving # NoSave
    /\ saved' = saving
    /\ saving' = NoSave
    /\ UNCHANGED <<table, sheet, records, writer, clock, newest, pending, resaving, raced,
                   refresh, crossed, faults>>

--------------------------------------------------------------------------------
(* The writers: _flush_t_group_buffer_sync and batch_upsert_d_users_sync *)

\* The flush takes what is pending, ...
TakePending ==
    /\ table = "T_Group" /\ up
    /\ pc = "idle"
    /\ pending # Nothing
    /\ want' = pending
    /\ pending' = Nothing /\ resaving' = Nothing
    /\ raced' = (raced \/ saving # NoSave)
    /\ pc' = "save"
    /\ UNCHANGED <<table, sheet, records, found, scans, clock, newest, saved, saving, refresh,
                   crossed, faults>>

\* ... and saves the emptied buffer.
SaveTaken ==
    /\ pc = "save"
    /\ saved' = resaving
    /\ pc' = "headers"
    /\ UNCHANGED <<table, sheet, records, want, found, scans, clock, newest, pending, saving,
                   resaving, raced, refresh, crossed, faults>>

\* The scan at startup, or of the day, has found some members.
StartScan(ids) ==
    /\ table = "D_User"
    /\ ids # {}
    /\ pc = "idle"
    /\ up => scans > 0
    /\ scans' = IF up THEN scans - 1 ELSE scans
    /\ want' = [g \in Id |-> IF g \in ids THEN 1 ELSE 0]
    /\ pc' = "headers"
    /\ UNCHANGED <<table, sheet, records, found, buffer, refresh, crossed, faults>>

\* The keys of the rows, up to the last that is not empty.
Keys ==
    LET filled == {k \in DOMAIN sheet : sheet[k] # EmptyRow}
        last   == IF filled = {} THEN 0 ELSE CHOOSE k \in filled : \A j \in filled : j <= k
    IN [k \in 1..last |-> sheet[k].id]

\* The writer has still to use the records it reads; so has the refresh.
WriterReads  == pc \notin {"idle", "save", "resave", "dead"}
RefreshReads == rpc # "idle"

\* refresh_table: what is known is forgotten, and the headers are read ...
ClearRecords(othersRead) ==
    /\ records' = <<>>
    /\ crossed' = (crossed \/ othersRead)

\* ... and then the rows; if that fails there are none.
LoadRecords ==
    \/ records' = Keys /\ faults' = faults
    \/ records' = <<>> /\ Fault("rows")

ReadHeaders ==
    /\ pc = "headers"
    /\ ClearRecords(RefreshReads)
    /\ pc' = "rows"
    /\ UNCHANGED <<table, sheet, want, found, scans, buffer, refresh, faults>>

ReadRows ==
    /\ pc = "rows"
    /\ LoadRecords
    /\ pc' = "match"
    /\ UNCHANGED <<table, sheet, want, found, scans, buffer, refresh, crossed>>

\* Mutant: what was taken is given up.
ForgetTaken ==
    /\ table = "T_Group"
    /\ pc = "headers"
    /\ Fault("headers")
    /\ ClearRecords(RefreshReads)
    /\ want' = Nothing
    /\ pc' = "idle"
    /\ UNCHANGED <<table, sheet, found, scans, buffer, refresh>>

\* The headers cannot be read: the flush puts back what is not pending anew ...
PutBack ==
    /\ table = "T_Group"
    /\ pc = "headers"
    /\ Fault("headers")
    /\ ClearRecords(RefreshReads)
    /\ pending' = [g \in Id |-> IF pending[g] = 0 THEN want[g] ELSE pending[g]]
    /\ resaving' = pending'
    /\ want' = Nothing
    /\ raced' = (raced \/ saving # NoSave)
    /\ pc' = "resave"
    /\ UNCHANGED <<table, sheet, found, scans, clock, newest, saved, saving, refresh>>

\* ... and saves the buffer.
SavePutBack ==
    /\ pc = "resave"
    /\ saved' = resaving
    /\ pc' = "idle"
    /\ UNCHANGED <<table, sheet, records, want, found, scans, clock, newest, pending, saving,
                   resaving, raced, refresh, crossed, faults>>

\* An error in the scan ends the process at startup, and the loop of the scan later.
ScanRaises ==
    IF up
    THEN pc' = "dead" /\ UNCHANGED <<table, sheet, want, found, scans, buffer, refresh>>
    ELSE Reboot

ScanFails ==
    /\ table = "D_User"
    /\ pc = "headers"
    /\ Fault("headers")
    /\ ClearRecords(RefreshReads)
    /\ ScanRaises

\* Mutant: the last row is not looked at.
FirstRowShort(g) ==
    LET at == {k \in 1..(Len(records) - 1) : records[k] = g}
    IN IF at = {} THEN 0 ELSE CHOOSE k \in at : \A j \in at : k <= j

\* find_rows_in_cache: the first row of a key, 0 if there is none.
FirstRow(g) ==
    LET at == {k \in DOMAIN records : records[k] = g}
    IN IF at = {} THEN 0 ELSE CHOOSE k \in at : \A j \in at : k <= j

Match ==
    /\ pc = "match"
    /\ found' = [g \in Id |-> IF want[g] > 0 THEN FirstRow(g) ELSE 0]
    /\ pc' = "update"
    /\ UNCHANGED <<table, sheet, records, want, scans, buffer, refresh, crossed, faults>>

\* The keys that have no row yet.
New == {g \in Id : want[g] > 0 /\ found[g] = 0}

\* batch_update_rows of the rows found, by their numbers.
Updated ==
    [k \in DOMAIN sheet |->
        LET here == {g \in Id : found[g] = k}
            g    == CHOOSE g \in here : TRUE
        IN IF here = {} THEN sheet[k] ELSE [sheet[k] EXCEPT !.of = g, !.version = want[g]]]

\* After the updates and the inserts; a scan goes on to build the caches.
Finish ==
    /\ pc' = IF table = "T_Group" THEN "idle" ELSE "build"
    /\ want' = Nothing /\ found' = Nothing

\* It answers False when it fails, and nobody looks at the answer.
Update ==
    /\ pc = "update"
    /\ \/ sheet' = Updated /\ faults' = faults
       \/ found # Nothing /\ sheet' = sheet /\ Fault("update")
    /\ IF New = {} THEN Finish ELSE pc' = "insert" /\ UNCHANGED <<want, found>>
    /\ UNCHANGED <<table, records, scans, buffer, refresh, crossed>>

Repeated(x, n) == [k \in 1..n |-> x]

\* Mutant: the records are not moved down with the rows.
InsertUnrecorded ==
    /\ pc = "insert"
    /\ sheet' = Repeated(EmptyRow, Cardinality(New)) \o sheet
    /\ pc' = "fill"
    /\ UNCHANGED <<table, records, want, found, scans, buffer, refresh, crossed, faults>>

\* insert_rows_at_top: blank rows for the new keys.  It answers False too, and a call
\* that timed out but was done is repeated.
Insert ==
    LET n == Cardinality(New)
    IN /\ pc = "insert"
       /\ \/ /\ sheet' = Repeated(EmptyRow, n) \o sheet /\ faults' = faults
             /\ records' = Repeated(Blank, n) \o records
          \/ /\ sheet' = Repeated(EmptyRow, 2 * n) \o sheet /\ Fault("twice")
             /\ records' = Repeated(Blank, n) \o records
          \/ UNCHANGED <<sheet, records>> /\ Fault("insert")
       /\ pc' = "fill"
       /\ UNCHANGED <<table, want, found, scans, buffer, refresh, crossed>>

\* Mutant: the rows one below.
FilledBelow ==
    LET new  == SetToSeq(New)
        rows == sheet \o Repeated(EmptyRow, Len(new))
    IN [k \in 1..(Len(sheet) + 1) |->
           IF k \in 2..(Len(new) + 1)
           THEN [rows[k] EXCEPT !.id = new[k - 1], !.of = new[k - 1], !.version = want[new[k - 1]]]
           ELSE rows[k]]

\* The rows at the top become the rows of the new keys.
Filled ==
    LET new  == SetToSeq(New)
        rows == sheet \o Repeated(EmptyRow, Len(new))
    IN [k \in 1..(IF Len(new) > Len(sheet) THEN Len(new) ELSE Len(sheet)) |->
           IF k <= Len(new)
           THEN [rows[k] EXCEPT !.id = new[k], !.of = new[k], !.version = want[new[k]]]
           ELSE rows[k]]

\* A scan enters them in its records too.
FilledRecords ==
    LET new == SetToSeq(New)
    IN [k \in DOMAIN records |-> IF k <= Len(new) THEN new[k] ELSE records[k]]

Fill ==
    /\ pc = "fill"
    /\ table = "D_User" => Len(records) >= Cardinality(New)
    /\ records' = IF table = "D_User" THEN FilledRecords ELSE records
    /\ \/ sheet' = Filled /\ faults' = faults
       \/ sheet' = sheet /\ Fault("update")
    /\ Finish
    /\ UNCHANGED <<table, scans, buffer, refresh, crossed>>

\* The records have gone, or the blank rows never came: IndexError.
FillRaises ==
    /\ table = "D_User"
    /\ pc = "fill"
    /\ Len(records) < Cardinality(New)
    /\ ScanRaises
    /\ up => records' = FilledRecords
    /\ UNCHANGED <<crossed, faults>>

--------------------------------------------------------------------------------
(* The caches: _refresh_sync, and _build_caches_from_managers after a scan *)

BuildCaches == cache' = ToSet(records) \ {Blank}

\* The scan has written; the first one ends the startup.
ScanBuilds ==
    /\ pc = "build"
    /\ BuildCaches
    /\ pc' = "idle" /\ up' = TRUE
    /\ crossed' = (crossed \/ RefreshReads)
    /\ UNCHANGED <<table, sheet, records, want, found, scans, buffer, rpc, faults>>

\* T_Group is not scanned, but a scan builds its caches.
OtherScanBuilds ==
    /\ table = "T_Group"
    /\ up \/ rpc = "idle"
    /\ BuildCaches
    /\ up' = TRUE
    /\ crossed' = (crossed \/ RefreshReads \/ WriterReads)
    /\ UNCHANGED <<table, sheet, records, writer, buffer, rpc, faults>>

BeginRefresh ==
    /\ up
    /\ rpc = "idle"
    /\ rpc' = "headers"
    /\ UNCHANGED <<table, sheet, records, writer, buffer, up, cache, crossed, faults>>

RefreshHeaders ==
    /\ rpc = "headers"
    /\ ClearRecords(WriterReads)
    /\ rpc' = "rows"
    /\ UNCHANGED <<table, sheet, writer, buffer, up, cache, faults>>

\* The caches stay as they are.
RefreshFails ==
    /\ rpc = "headers"
    /\ Fault("headers")
    /\ ClearRecords(WriterReads)
    /\ rpc' = "idle"
    /\ UNCHANGED <<table, sheet, writer, buffer, up, cache>>

\* The startup does not build yet.
RefreshRows ==
    /\ rpc = "rows"
    /\ LoadRecords
    /\ rpc' = IF up THEN "build" ELSE "idle"
    /\ UNCHANGED <<table, sheet, writer, buffer, up, cache, crossed>>

RefreshBuilds ==
    /\ rpc = "build"
    /\ BuildCaches
    /\ rpc' = "idle"
    /\ UNCHANGED <<table, sheet, records, writer, buffer, up, crossed, faults>>

--------------------------------------------------------------------------------
\* The operator moves a row to the top: blank rows that wait to be filled are
\* displaced by it.
OperatorMoves(k) ==
    /\ k \in DOMAIN sheet
    /\ k > 1
    /\ Fault(IF pc = "fill" THEN "displaced" ELSE "moved")
    /\ sheet' = <<sheet[k]>> \o RemoveAt(sheet, k)
    /\ UNCHANGED <<table, records, writer, buffer, refresh, crossed>>

\* The process stops between two steps and starts again.
Crash ==
    /\ Fault("crash")
    /\ Reboot
    /\ UNCHANGED crossed

FlushStep == TakePending \/ SaveTaken \/ SavePutBack

WriterStep == ReadHeaders \/ ReadRows \/ Match \/ Update \/ Insert \/ Fill

ScanStep ==
    \/ \E ids \in SUBSET Id : StartScan(ids)
    \/ FillRaises \/ ScanBuilds \/ OtherScanBuilds

RefreshStep == BeginRefresh \/ RefreshHeaders \/ RefreshRows \/ RefreshBuilds

Next ==
    \/ \E g \in Id : Upsert(g)
    \/ SaveUpsert
    \/ FlushStep \/ WriterStep
    \/ ScanStep
    \/ RefreshStep
    \/ PutBack \/ ScanFails \/ RefreshFails
    \/ \E k \in DOMAIN sheet : OperatorMoves(k)
    \/ Crash

Spec == Init /\ [][Next]_vars

\* The threads go on; the startup ends, for it finds somebody on Discord.
LiveSpec ==
    /\ Spec
    /\ WF_vars(SaveUpsert) /\ WF_vars(FlushStep) /\ WF_vars(WriterStep)
    /\ WF_vars(ScanStep /\ ~up) /\ WF_vars(ScanBuilds) /\ WF_vars(RefreshStep)

--------------------------------------------------------------------------------
(* Properties *)

Without(kinds) == ToSet(faults) \cap kinds = {}

\* The versions of the name of g that the sheet shows.
Shown(g) == {sheet[k].version : k \in {j \in DOMAIN sheet : sheet[j].of = g}}

\* An upsert of a group is in the buffer, in the hands of the flush or on the sheet,
\* however reads fail and threads overlap, unless the process stopped, a write failed
\* or a row was moved ("new arrivals during the flush don't get lost").
PendingKept ==
    Without({"crash", "update", "insert", "moved", "displaced"}) =>
        \A g \in Id : newest[g] > 0 =>
            newest[g] \in {pending[g], want[g]} \cup Shown(g)

\* What SQLite has is what is pending, whenever nobody is between the two, unless two
\* threads saved at once ("persisted to SQLite so pending writes survive a restart").
SavedIsPending ==
    saving = NoSave /\ pc \notin {"save", "resave"} /\ ~raced => saved = pending

\* No arrival is lost in memory but to a stop of the process, a failed write or a
\* moved row, and none is missing in SQLite but while somebody saves, or after two
\* threads saved at once: what the buffer owes to a flush that fails and to a
\* restart before a flush takes it.  A crash while the flush writes loses what it
\* took: the save of the emptied buffer comes first.
BufferKept == PendingKept /\ SavedIsPending

\* No key has two rows, unless the rows could not be read, or two threads worked on
\* the records at once.
OneRowPerKey ==
    ~crossed /\ Without({"rows"}) =>
        \A j, k \in DOMAIN sheet : sheet[j].id = sheet[k].id /\ sheet[j].id # Blank => j = k

\* A row the operator has filled in for a key stays the row of that key, though the
\* threads overlap, any other call fails, the process stops or rows are moved
\* ("User-maintained columns are left untouched on update").  Two exceptions, both of
\* which the code breaks: the insert of the blank rows failed, and the fill writes
\* over the rows at the top; or a row was moved between the insert and the fill.
UserColumnsKept ==
    Without({"insert", "displaced"}) =>
        \A k \in DOMAIN sheet : sheet[k].user \in {Blank, sheet[k].id}

\* What the caches know they go on to know, though they are built from records that
\* others read and write, while no two threads overlap and nothing they read, update
\* or insert fails or is moved ("their .records are already current").
RoutesKept ==
    [][Without({"crash", "headers", "rows", "update", "insert", "moved", "displaced"})' /\ ~crossed' =>
         cache \subseteq cache']_vars

\* A pending name reaches the sheet in the end, or a fault took it.
WritesArrive ==
    \A g \in Id, v \in Version \ {0} : pending[g] = v ~>
        (\E w \in Shown(g) : w >= v) \/ ~Without({"crash", "update", "insert", "moved", "displaced"})

================================================================================
