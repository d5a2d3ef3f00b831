------------------------------ MODULE SheetsProofs ------------------------------
(***************************************************************************)
(* Proofs about a table of the spreadsheet: whatever the keys, the bounds  *)
(* and the faults, the write-behind buffer keeps what was upserted, no key *)
(* gets a second row, the user-maintained columns stay with their key, and *)
(* the routing caches forget nothing.                                      *)
(***************************************************************************)
EXTENDS Sheets, FiniteSetTheorems, TLAPS

\* Between two writings nothing is left to write.
WantsNothing == pc \in {"idle", "resave", "build"} => want = Nothing

\* Only groups are upserted.
ScannedNothing ==
    table = "D_User" =>
        /\ newest = Nothing /\ pending = Nothing /\ saved = Nothing
        /\ saving = NoSave /\ pc \notin {"save", "resave"}

\* What waits to be saved is what is pending, and nobody else saves.
SavingPending ==
    ~raced => /\ saving # NoSave => saving = pending /\ pc \notin {"save", "resave"}
              /\ pc \in {"save", "resave"} => resaving = pending

\* The name in a row is that of its key.
RowsOwn == \A k \in DOMAIN sheet : sheet[k].of \in {Blank, sheet[k].id}

\* The records that the writer is to search are the keys of the first rows, ...
RecordsTrue ==
    pc \in {"rows", "match"} =>
        \A k \in DOMAIN records : k \in DOMAIN sheet /\ records[k] = sheet[k].id

\* ... and the row that it found for a key is the row of that key.
FoundTrue ==
    pc = "update" =>
        \A g \in Id : found[g] > 0 =>
            want[g] > 0 /\ found[g] \in DOMAIN sheet /\ sheet[found[g]].id = g

\* What was found has been updated before rows are inserted, ...
UpdatedShown ==
    pc \in {"insert", "fill"} =>
        \A g \in Id : want[g] > 0 /\ found[g] > 0 => want[g] \in Shown(g)

\* ... and what is filled in is empty.
TopEmpty ==
    pc = "fill" =>
        /\ Cardinality(New) <= Len(sheet)
        /\ \A k \in 1..Cardinality(New) : sheet[k] = EmptyRow

\* What is pending, or to be written, is the last upsert of a group.
Latest ==
    \A g \in Id :
        /\ pending[g] \in {0, newest[g]}
        /\ want[g] > 0 => newest[g] \in {want[g], pending[g]}
        /\ want[g] > 0 /\ table = "T_Group" => newest[g] > 0

Clean == Without({"crash", "update", "insert", "moved", "displaced"})

BufferInv ==
    Clean => /\ Latest /\ RowsOwn /\ RecordsTrue /\ FoundTrue /\ UpdatedShown

UserInv == Without({"insert", "displaced"}) => TopEmpty

\* The writer knows the key of every row when it searches, ...
KeysKnown ==
    pc = "match" =>
        \A k \in DOMAIN sheet : sheet[k].id # Blank =>
            \E j \in DOMAIN records : records[j] = sheet[k].id

\* ... so that what it takes to be new has no row.
NewIsNew ==
    pc \in {"update", "insert", "fill"} => \A k \in DOMAIN sheet : sheet[k].id \notin New

KeysInv == ~crossed /\ Without({"rows"}) => KeysKnown /\ NewIsNew

\* The inductive invariant.
IInv ==
    /\ TypeOK
    /\ WantsNothing /\ ScannedNothing
    /\ SavingPending /\ SavedIsPending
    /\ BufferInv /\ PendingKept
    /\ UserInv /\ UserColumnsKept
    /\ KeysInv /\ OneRowPerKey

--------------------------------------------------------------------------------
(* Sets in an order, and the last of some numbers *)

\* SetToSeq lists every element of a finite set once.
LEMMA SetToSeqFacts ==
    ASSUME NEW S, IsFiniteSet(S)
    PROVE  /\ Cardinality(S) \in Nat
           /\ SetToSeq(S) \in [1..Cardinality(S) -> S]
           /\ SetToSeq(S) \in Seq(S)
           /\ Len(SetToSeq(S)) = Cardinality(S)
           /\ \A j, k \in 1..Cardinality(S) : SetToSeq(S)[j] = SetToSeq(S)[k] => j = k
           /\ \A x \in S : \E k \in 1..Cardinality(S) : SetToSeq(S)[k] = x
<1> DEFINE n == Cardinality(S)
<1>1. n \in Nat /\ ExistsBijection(1..n, S)
  BY FS_CardinalityType
<1>2. \E f \in [1..n -> S] : IsInjective(f)
  BY <1>1, Zenon DEF ExistsBijection, Bijection, Injection
<1>3. SetToSeq(S) \in [1..n -> S] /\ IsInjective(SetToSeq(S))
  BY <1>2, Zenon DEF SetToSeq
<1>4. SetToSeq(S) \in Injection(1..n, S)
  BY <1>3, Zenon DEF Injection
<1>5. Cardinality(1..n) = n
  BY <1>1, FS_Interval
<1>6. SetToSeq(S) \in Surjection(1..n, S)
  BY <1>4, <1>5, FS_Injection
<1>7. \A x \in S : \E k \in 1..n : SetToSeq(S)[k] = x
  BY <1>6, Zenon DEF Surjection
<1>8. \A j, k \in 1..n : SetToSeq(S)[j] = SetToSeq(S)[k] => j = k
  BY <1>3 DEF IsInjective
<1> QED  BY <1>1, <1>3, <1>7, <1>8

\* Some numbers up to n, if there are any, have a last one.
LEMMA LastExists ==
    ASSUME NEW n \in Nat, NEW T \in SUBSET (1..n), T # {}
    PROVE  \E k \in T : \A j \in T : j <= k
<1> DEFINE D == {k \in 1..n : \E j \in T : j >= k}
<1>1. IsFiniteSet(1..n) /\ D \in SUBSET (1..n)
  BY FS_Interval
<1>2. \A k \in D : \A j \in 1..k : j \in D
  OBVIOUS
<1>3. D # {} /\ T \subseteq D /\ \A k \in D : \E j \in T : j >= k
  <2>1. \A k \in T : k \in 1..n /\ k >= k
    OBVIOUS
  <2>2. T \subseteq D
    BY <2>1
  <2> QED  BY <2>2
<1> HIDE DEF D
<1>4. IsFiniteSet(D)
  BY <1>1, FS_Subset
<1>5. PICK m \in Nat : m = Cardinality(D)
  BY <1>4, FS_CardinalityType
<1>6. m >= 1
  BY <1>3, <1>4, <1>5, FS_EmptySet
<1>7. m \in D
  <2>1. SUFFICES ASSUME m \notin D
                 PROVE  FALSE
    OBVIOUS
  <2>2. \A k \in D : k \in 1..(m - 1)
    BY <1>1, <1>2, <1>6, <2>1
  <2>3. IsFiniteSet(1..(m - 1)) /\ Cardinality(1..(m - 1)) = m - 1
    BY <1>6, FS_Interval
  <2>4. m <= m - 1
    BY <1>5, <2>2, <2>3, FS_Subset
  <2> QED  BY <2>4
<1>8. \A k \in D : k <= m
  <2>1. SUFFICES ASSUME NEW k \in D, k > m
                 PROVE  FALSE
    BY <1>1
  <2>2. \A j \in 1..(m + 1) : j \in D
    BY <1>1, <1>2, <2>1
  <2>3. Cardinality(1..(m + 1)) = m + 1
    BY FS_Interval
  <2>4. m + 1 <= m
    BY <1>4, <1>5, <2>2, <2>3, FS_Subset
  <2> QED  BY <2>4
<1>9. PICK j \in T : j >= m
  BY <1>3, <1>7
<1>10. \A i \in T : i <= j
  BY <1>3, <1>8, <1>9
<1> QED  BY <1>10

--------------------------------------------------------------------------------
(* Faults, and what the operators do to rows *)

\* A fault is added to those that happened.
LEMMA FaultFacts ==
    ASSUME TypeOK, NEW kind, Fault(kind)
    PROVE  /\ faults' \in Seq(FaultKinds)
           /\ \A K : ToSet(faults') \cap K = {} => ToSet(faults) \cap K = {} /\ kind \notin K
<1>1. faults \in Seq(FaultKinds) /\ kind \in FaultKinds /\ faults' = Append(faults, kind)
  BY SheetsAssumption DEF TypeOK, Fault
<1>2. /\ faults' \in Seq(FaultKinds)
      /\ DOMAIN faults' = 1..(Len(faults) + 1)
      /\ DOMAIN faults = 1..Len(faults) /\ Len(faults) \in Nat
      /\ \A i \in 1..Len(faults) : faults'[i] = faults[i]
      /\ faults'[Len(faults) + 1] = kind
  BY <1>1
<1>3. \A i \in DOMAIN faults : i \in DOMAIN faults' /\ faults'[i] = faults[i]
  BY <1>2
<1>4. ToSet(faults) \subseteq ToSet(faults')
  BY <1>3 DEF ToSet
<1>5. Len(faults) + 1 \in DOMAIN faults' /\ faults'[Len(faults) + 1] = kind
  BY <1>2
<1>6. kind \in ToSet(faults')
  BY <1>5, Zenon DEF ToSet
<1> QED  BY <1>2, <1>4, <1>6

\* A fault that is left out does not happen.
LEMMA LeftOut ==
    ASSUME TypeOK, NEW K, Without(K)', NEW kind \in K
    PROVE  ~Fault(kind)
<1>1. SUFFICES ASSUME Fault(kind)
               PROVE  FALSE
  OBVIOUS
<1>2. ToSet(faults') \cap K = {}
  BY DEF Without
<1>3. kind \notin K
  BY <1>1, <1>2, FaultFacts
<1> QED  BY <1>3

\* So no row is moved, if that is left out at any time.
LEMMA NotMoved ==
    ASSUME TypeOK, NEW K, Without(K)', "moved" \in K, "displaced" \in K
    PROVE  ~\E k \in DOMAIN sheet : OperatorMoves(k)
<1>1. ~Fault("moved") /\ ~Fault("displaced")
  BY LeftOut
<1> QED  BY <1>1 DEF OperatorMoves

\* The keys to insert are finitely many keys.
LEMMA NewFacts ==
    /\ New \subseteq Id /\ IsFiniteSet(New) /\ Cardinality(New) \in Nat
<1>1. New \subseteq Id
  BY DEF New
<1>2. IsFiniteSet(New)
  BY <1>1, SheetsAssumption, FS_Subset
<1> QED  BY <1>1, <1>2, FS_CardinalityType

\* A row is what its fields are.
LEMMA RowFacts ==
    /\ EmptyRow \in Row
    /\ \A r \in Row : /\ r.id \in Cells /\ r.of \in Cells /\ r.version \in Version
                      /\ r.user \in Cells
    /\ \A r \in Row, g \in Id, v \in Version :
          /\ [r EXCEPT !.of = g, !.version = v] \in Row
          /\ [r EXCEPT !.id = g, !.of = g, !.version = v] \in Row
    /\ \A g \in Id : [id |-> g, of |-> g, version |-> 0, user |-> g] \in Row
<1> USE SheetsAssumption DEF Row, EmptyRow, Cells, Version
<1>1. EmptyRow \in Row
  OBVIOUS
<1>2. \A r \in Row : /\ r.id \in Cells /\ r.of \in Cells /\ r.version \in Version
                     /\ r.user \in Cells
  OBVIOUS
<1>3. ASSUME NEW r \in Row, NEW g \in Id, NEW v \in Version
      PROVE  /\ [r EXCEPT !.of = g, !.version = v] \in Row
             /\ [r EXCEPT !.id = g, !.of = g, !.version = v] \in Row
  OBVIOUS
<1>4. \A g \in Id : [id |-> g, of |-> g, version |-> 0, user |-> g] \in Row
  OBVIOUS
<1> QED  BY <1>1, <1>2, <1>3, <1>4

\* What the operator has entered has names and user-maintained columns of its own.
LEMMA EnteredFacts ==
    /\ EnteredRows \in Seq(Row)
    /\ \A k \in DOMAIN EnteredRows :
          /\ EnteredRows[k].of = EnteredRows[k].id /\ EnteredRows[k].user = EnteredRows[k].id
    /\ \A j, k \in DOMAIN EnteredRows : EnteredRows[j].id = EnteredRows[k].id => j = k
<1> DEFINE ids == SetToSeq(Entered)
           n   == Cardinality(Entered)
<1>1. IsFiniteSet(Entered)
  BY SheetsAssumption, FS_Subset
<1>2. /\ n \in Nat /\ ids \in [1..n -> Entered]
      /\ \A j, k \in 1..n : ids[j] = ids[k] => j = k
  BY <1>1, SetToSeqFacts
<1>3. DOMAIN ids = 1..n /\ \A k \in 1..n : ids[k] \in Id
  BY <1>2, SheetsAssumption
<1> HIDE DEF ids, n
<1>4. EnteredRows = [k \in 1..n |-> [id |-> ids[k], of |-> ids[k], version |-> 0, user |-> ids[k]]]
  BY <1>3 DEF EnteredRows, ids
<1>5. EnteredRows \in [1..n -> Row]
  BY <1>3, <1>4, RowFacts
<1> QED  BY <1>2, <1>4, <1>5

\* The keys read are those of the first rows, and all there are.
LEMMA KeysFacts ==
    ASSUME sheet \in Seq(Row)
    PROVE  /\ Keys \in Seq(Cells)
           /\ \A k \in DOMAIN Keys : k \in DOMAIN sheet /\ Keys[k] = sheet[k].id
           /\ \A k \in DOMAIN sheet : sheet[k].id # Blank =>
                  k \in DOMAIN Keys /\ Keys[k] = sheet[k].id
<1> DEFINE filled == {k \in DOMAIN sheet : sheet[k] # EmptyRow}
           last   == IF filled = {} THEN 0 ELSE CHOOSE k \in filled : \A j \in filled : j <= k
<1>1. DOMAIN sheet = 1..Len(sheet) /\ Len(sheet) \in Nat
  OBVIOUS
<1>2. last \in 0..Len(sheet) /\ \A k \in filled : k <= last
  <2>1. CASE filled = {}
    BY <1>1, <2>1
  <2>2. CASE filled # {}
    <3>1. filled \in SUBSET (1..Len(sheet))
      BY <1>1
    <3> HIDE DEF filled
    <3>2. \E k \in filled : \A j \in filled : j <= k
      BY <1>1, <2>2, <3>1, LastExists
    <3>3. last \in filled /\ \A j \in filled : j <= last
      BY <2>2, <3>2
    <3> HIDE DEF last
    <3> QED  BY <1>1, <3>1, <3>3
  <2> QED  BY <2>1, <2>2
<1>3. \A k \in DOMAIN sheet : sheet[k].id # Blank => k \in filled
  BY DEF EmptyRow
<1>4. Keys = [k \in 1..last |-> sheet[k].id]
  BY DEF Keys
<1> HIDE DEF filled, last
<1>5. \A k \in 1..last : k \in DOMAIN sheet /\ sheet[k].id \in Cells
  <2>1. \A k \in DOMAIN sheet : sheet[k] \in Row
    OBVIOUS
  <2>2. \A r \in Row : r.id \in Cells
    BY RowFacts
  <2>3. 1..last \subseteq DOMAIN sheet
    BY <1>1, <1>2
  <2> QED  BY <2>1, <2>2, <2>3
<1>6. Keys \in [1..last -> Cells]
  BY <1>4, <1>5
<1>7. \A k \in DOMAIN sheet : sheet[k].id # Blank => k \in 1..last
  BY <1>1, <1>2, <1>3
<1> QED  BY <1>2, <1>4, <1>5, <1>6, <1>7

\* The update gives a row that was found for some key the name of such a key, and
\* leaves the others alone.
LEMMA UpdatedFacts ==
    ASSUME sheet \in Seq(Row), want \in [Id -> Version]
    PROVE  /\ Updated \in Seq(Row)
           /\ DOMAIN Updated = DOMAIN sheet
           /\ \A k \in DOMAIN sheet :
                 /\ Updated[k].id = sheet[k].id /\ Updated[k].user = sheet[k].user
                 /\ (\A g \in Id : found[g] # k) => Updated[k] = sheet[k]
                 /\ (\E g \in Id : found[g] = k) =>
                        \E g \in Id : /\ found[g] = k /\ Updated[k].of = g
                                      /\ Updated[k].version = want[g]
<1> DEFINE here(k) == {g \in Id : found[g] = k}
           one(k)  == CHOOSE g \in here(k) : TRUE
<1>1. Updated = [k \in DOMAIN sheet |->
                    IF here(k) = {} THEN sheet[k]
                    ELSE [sheet[k] EXCEPT !.of = one(k), !.version = want[one(k)]]]
  BY DEF Updated
<1>2. \A k : here(k) # {} => one(k) \in Id /\ found[one(k)] = k
  OBVIOUS
<1>3. ASSUME NEW k \in DOMAIN sheet
      PROVE  /\ Updated[k] \in Row
             /\ Updated[k].id = sheet[k].id /\ Updated[k].user = sheet[k].user
             /\ (\A g \in Id : found[g] # k) => Updated[k] = sheet[k]
             /\ (\E g \in Id : found[g] = k) =>
                    \E g \in Id : /\ found[g] = k /\ Updated[k].of = g
                                  /\ Updated[k].version = want[g]
  <2>1. sheet[k] \in Row
    OBVIOUS
  <2>2. CASE here(k) = {}
    <3>1. Updated[k] = sheet[k] /\ \A g \in Id : found[g] # k
      BY <1>1, <2>2
    <3> QED  BY <2>1, <3>1
  <2>3. CASE here(k) # {}
    <3>1. PICK g \in Id : g = one(k) /\ found[g] = k
      BY <1>2, <2>3
    <3>2. Updated[k] = [sheet[k] EXCEPT !.of = g, !.version = want[g]]
      BY <1>1, <2>3, <3>1
    <3>3. want[g] \in Version
      OBVIOUS
    <3>4. Updated[k] \in Row
      BY <2>1, <3>2, <3>3 DEF Row, Cells
    <3>5. /\ Updated[k].id = sheet[k].id /\ Updated[k].user = sheet[k].user
          /\ Updated[k].of = g /\ Updated[k].version = want[g]
      BY <2>1, <3>2 DEF Row
    <3> QED  BY <3>1, <3>4, <3>5
  <2> QED  BY <2>2, <2>3
<1>4. DOMAIN Updated = DOMAIN sheet /\ DOMAIN sheet = 1..Len(sheet) /\ Len(sheet) \in Nat
  BY DEF Updated
<1>5. Updated \in [1..Len(sheet) -> Row]
  <2>1. \A k \in 1..Len(sheet) : Updated[k] \in Row
    BY <1>3, <1>4
  <2>2. Updated = [k \in 1..Len(sheet) |-> Updated[k]]
    BY <1>1, <1>4, Zenon
  <2> HIDE DEF Updated
  <2> QED  BY <2>1, <2>2
<1> QED  BY <1>3, <1>4, <1>5

\* A sequence after another.
LEMMA AfterFacts ==
    ASSUME NEW S, NEW s \in Seq(S), NEW t \in Seq(S)
    PROVE  /\ s \o t \in Seq(S)
           /\ Len(s \o t) = Len(s) + Len(t)
           /\ DOMAIN (s \o t) = 1..(Len(s) + Len(t))
           /\ \A i \in 1..Len(s) : (s \o t)[i] = s[i]
           /\ \A i \in 1..(Len(s) + Len(t)) : i > Len(s) => (s \o t)[i] = t[i - Len(s)]
OBVIOUS

\* Blank rows, or blank records, come before what there is.
LEMMA InsertedFacts ==
    ASSUME NEW S, NEW s \in Seq(S), NEW x \in S, NEW n \in Nat
    PROVE  LET t == Repeated(x, n) \o s
           IN  /\ t \in Seq(S)
               /\ Len(t) = n + Len(s)
               /\ \A k \in 1..n : t[k] = x
               /\ \A k \in DOMAIN s : n + k \in DOMAIN t /\ t[n + k] = s[k]
               /\ \A k \in DOMAIN t : k \in 1..n \/ (k - n \in DOMAIN s /\ t[k] = s[k - n])
<1>1. Repeated(x, n) \in Seq(S) /\ Len(Repeated(x, n)) = n /\ \A k \in 1..n : Repeated(x, n)[k] = x
  BY DEF Repeated
<1> HIDE DEF Repeated
<1> QED  BY <1>1

\* The first rows become those of the new keys, one each; the others stay.
LEMMA FilledFacts ==
    ASSUME sheet \in Seq(Row), want \in [Id -> Version]
    PROVE  LET n   == Cardinality(New)
               new == SetToSeq(New)
           IN  /\ Filled \in Seq(Row)
               /\ n \in Nat /\ Len(Filled) >= n /\ Len(Filled) >= Len(sheet)
               /\ \A k \in 1..n : /\ k \in DOMAIN Filled
                                  /\ new[k] \in New
                                  /\ Filled[k].id = new[k] /\ Filled[k].of = new[k]
                                  /\ Filled[k].version = want[new[k]]
                                  /\ k \in DOMAIN sheet => Filled[k].user = sheet[k].user
               /\ \A k \in DOMAIN Filled : k \notin 1..n => k \in DOMAIN sheet /\ Filled[k] = sheet[k]
               /\ \A k \in DOMAIN sheet : k \in DOMAIN Filled
               /\ \A g \in New : \E k \in 1..n : new[k] = g
               /\ \A j, k \in 1..n : new[j] = new[k] => j = k
<1> DEFINE n    == Cardinality(New)
           new  == SetToSeq(New)
           rows == sheet \o Repeated(EmptyRow, Len(new))
           m    == IF Len(new) > Len(sheet) THEN Len(new) ELSE Len(sheet)
<1>1. /\ n \in Nat /\ new \in [1..n -> New] /\ Len(new) = n
      /\ \A g \in New : \E k \in 1..n : new[k] = g
      /\ \A j, k \in 1..n : new[j] = new[k] => j = k
  BY NewFacts, SetToSeqFacts
<1>2. Repeated(EmptyRow, n) \in Seq(Row) /\ Len(Repeated(EmptyRow, n)) = n
  <2>1. EmptyRow \in Row
    BY RowFacts
  <2> QED  BY <1>1, <2>1 DEF Repeated
<1>3. Filled = [k \in 1..m |->
                   IF k <= Len(new)
                   THEN [rows[k] EXCEPT !.id = new[k], !.of = new[k], !.version = want[new[k]]]
                   ELSE rows[k]]
  BY DEF Filled
<1>4. \A k \in 1..n : new[k] \in New /\ new[k] \in Id
  BY <1>1, NewFacts
<1> HIDE DEF n, new
<1>5. /\ rows \in Seq(Row) /\ Len(rows) = Len(sheet) + n
      /\ \A k \in DOMAIN sheet : rows[k] = sheet[k]
      /\ DOMAIN sheet = 1..Len(sheet) /\ Len(sheet) \in Nat
  BY <1>1, <1>2
<1> HIDE DEF rows
<1>6. m \in Nat /\ m >= n /\ m >= Len(sheet) /\ m <= Len(sheet) + n /\ (m > n => m = Len(sheet))
  <2>1. Len(sheet) \in Nat /\ n \in Nat /\ Len(new) = n
    BY <1>1, <1>5
  <2>2. m = IF n > Len(sheet) THEN n ELSE Len(sheet)
    BY <2>1
  <2> HIDE DEF m
  <2> QED  BY <2>1, <2>2
<1> HIDE DEF m
<1>7. ASSUME NEW k \in 1..m
      PROVE  /\ Filled[k] \in Row
             /\ k <= n => /\ Filled[k].id = new[k] /\ Filled[k].of = new[k]
                          /\ Filled[k].version = want[new[k]]
                          /\ Filled[k].user = rows[k].user
             /\ k > n => Filled[k] = rows[k]
  <2>1. rows[k] \in Row
    <3>1. k \in 1..Len(rows)
      <4>1. Len(sheet) \in Nat /\ n \in Nat /\ Len(rows) = Len(sheet) + n
        BY <1>1, <1>5
      <4> QED  BY <1>6, <4>1
    <3> QED  BY <1>5, <3>1
  <2>2. CASE k <= n
    <3>1. Filled[k] = [rows[k] EXCEPT !.id = new[k], !.of = new[k], !.version = want[new[k]]]
      BY <1>1, <1>3, <2>2
    <3>2. k \in 1..n
      BY <1>1, <1>6, <2>2
    <3>3. new[k] \in Id /\ want[new[k]] \in Version
      BY <1>4, <3>2
    <3>4. /\ Filled[k] \in Row
          /\ Filled[k].id = new[k] /\ Filled[k].of = new[k]
          /\ Filled[k].version = want[new[k]] /\ Filled[k].user = rows[k].user
      BY <2>1, <3>1, <3>3 DEF Row, Cells
    <3>5. ~ (k > n)
      BY <1>1, <3>2
    <3> QED  BY <3>4, <3>5
  <2>3. CASE k > n
    <3>1. ~ (k <= Len(new))
      BY <1>1, <1>6, <2>3
    <3>2. Filled[k] = rows[k]
      BY <1>3, <3>1
    <3> QED  BY <1>1, <2>1, <3>1, <3>2
  <2> QED  BY <1>1, <1>6, <2>2, <2>3
<1>8. Filled \in Seq(Row) /\ Len(Filled) = m /\ DOMAIN Filled = 1..m
  <2>1. DOMAIN Filled = 1..m
    BY <1>3
  <2>2. Filled = [k \in 1..m |-> Filled[k]]
    BY <1>3, <2>1, Zenon
  <2>3. Filled \in [1..m -> Row]
    BY <1>7, <2>2
  <2> QED  BY <1>6, <2>1, <2>3
<1>9. \A k \in 1..n : k \in 1..m
  BY <1>1, <1>6
<1>10. \A k \in DOMAIN Filled : k \notin 1..n => k \in DOMAIN sheet /\ Filled[k] = sheet[k]
  <2>1. SUFFICES ASSUME NEW k \in 1..m, k \notin 1..n
                 PROVE  k \in DOMAIN sheet /\ Filled[k] = sheet[k]
    BY <1>8
  <2>2. k > n /\ m = Len(sheet)
    BY <1>1, <1>6, <2>1
  <2>3. k \in DOMAIN sheet
    BY <1>5, <2>2
  <2> QED  BY <1>5, <1>7, <2>2, <2>3
<1>11. \A k \in 1..n : /\ Filled[k].id = new[k] /\ Filled[k].of = new[k]
                       /\ Filled[k].version = want[new[k]]
                       /\ k \in DOMAIN sheet => Filled[k].user = sheet[k].user
  <2>1. SUFFICES ASSUME NEW k \in 1..n
                 PROVE  /\ Filled[k].id = new[k] /\ Filled[k].of = new[k]
                        /\ Filled[k].version = want[new[k]]
                        /\ k \in DOMAIN sheet => Filled[k].user = sheet[k].user
    OBVIOUS
  <2>2. k \in 1..m /\ k <= n
    BY <1>1, <1>9
  <2>3. k \in DOMAIN sheet => rows[k] = sheet[k]
    BY <1>5
  <2> QED  BY <1>7, <2>2, <2>3
<1>12. \A k \in DOMAIN sheet : k \in DOMAIN Filled
  <2>1. DOMAIN sheet = 1..Len(sheet) /\ Len(sheet) \in Nat
    BY <1>5
  <2>2. m \in Nat /\ m >= Len(sheet) /\ DOMAIN Filled = 1..m
    BY <1>6, <1>8
  <2>3. 1..Len(sheet) \subseteq 1..m
    BY <2>1, <2>2
  <2> QED  BY <2>1, <2>2, <2>3
<1>13. Len(Filled) >= n /\ Len(Filled) >= Len(sheet)
  BY <1>6, <1>8
<1>14. \A k \in 1..n : k \in DOMAIN Filled
  BY <1>8, <1>9
<1> QED  BY <1>1, <1>4, <1>8, <1>10, <1>11, <1>12, <1>13, <1>14 DEF n, new

\* A scan enters keys in its records, and adds none.
LEMMA FilledRecordsFacts ==
    ASSUME records \in Seq(Cells)
    PROVE  FilledRecords \in Seq(Cells)
<1> DEFINE n   == Cardinality(New)
           new == SetToSeq(New)
<1>1. n \in Nat /\ Len(new) = n /\ \A k \in 1..n : new[k] \in Cells
  BY NewFacts, SetToSeqFacts DEF Cells
<1>2. FilledRecords = [k \in DOMAIN records |-> IF k <= Len(new) THEN new[k] ELSE records[k]]
  BY DEF FilledRecords
<1> HIDE DEF n, new
<1>3. DOMAIN records = 1..Len(records) /\ Len(records) \in Nat
  OBVIOUS
<1>4. FilledRecords \in [1..Len(records) -> Cells]
  BY <1>1, <1>2, <1>3
<1> QED  BY <1>3, <1>4

\* A moved row is one of those there were.
LEMMA MovedFacts ==
    ASSUME NEW s \in Seq(Row), NEW k \in DOMAIN s
    PROVE  LET t == <<s[k]>> \o RemoveAt(s, k)
               from(i) == IF i = 1 THEN k ELSE IF i <= k THEN i - 1 ELSE i
           IN  /\ t \in Seq(Row)
               /\ DOMAIN t = DOMAIN s
               /\ \A i \in DOMAIN t : from(i) \in DOMAIN s /\ t[i] = s[from(i)]
<1> DEFINE u == SubSeq(s, 1, k - 1)
           v == SubSeq(s, k + 1, Len(s))
<1>1. /\ DOMAIN s = 1..Len(s) /\ Len(s) \in Nat /\ k \in 1..Len(s)
      /\ s[k] \in Row /\ <<s[k]>> \in Seq(Row) /\ Len(<<s[k]>>) = 1
  OBVIOUS
<1>2. /\ u \in Seq(Row) /\ Len(u) = k - 1 /\ \A i \in 1..(k - 1) : u[i] = s[i]
      /\ v \in Seq(Row) /\ Len(v) = Len(s) - k /\ \A i \in 1..(Len(s) - k) : v[i] = s[k + i]
  <2>1. u \in Seq(Row) /\ Len(u) = k - 1 /\ \A i \in 1..(k - 1) : u[i] = s[i]
    BY <1>1
  <2>2. v \in Seq(Row) /\ Len(v) = Len(s) - k
    BY <1>1
  <2>3. \A i \in 1..(Len(s) - k) : v[i] = s[k + i]
    BY <1>1
  <2> QED  BY <2>1, <2>2, <2>3
<1> HIDE DEF u, v
<1>3. RemoveAt(s, k) = u \o v
  BY DEF RemoveAt, u, v
<1> DEFINE w == u \o v
           t == <<s[k]>> \o w
<1>4. w \in Seq(Row) /\ Len(w) = Len(s) - 1
  <2>1. w \in Seq(Row) /\ Len(w) = Len(u) + Len(v)
    BY <1>2, AfterFacts
  <2>2. Len(u) = k - 1 /\ Len(v) = Len(s) - k /\ Len(s) \in Nat /\ k \in Int
    BY <1>1, <1>2
  <2> HIDE DEF w
  <2> QED  BY <2>1, <2>2
<1>5. \A i \in 1..(k - 1) : w[i] = s[i]
  BY <1>1, <1>2, AfterFacts
<1>6. ASSUME NEW i \in k..(Len(s) - 1)
      PROVE  w[i] = s[i + 1]
  <2>1. i \in 1..(Len(u) + Len(v)) /\ i > Len(u) /\ i - Len(u) = i - (k - 1)
    BY <1>1, <1>2
  <2>2. w[i] = v[i - (k - 1)]
    <3>1. u \in Seq(Row) /\ v \in Seq(Row)
      BY <1>2
    <3>2. w[i] = v[i - Len(u)]
      BY <2>1, <3>1, AfterFacts
    <3> QED  BY <2>1, <3>2
  <2>3. i - (k - 1) \in 1..(Len(s) - k) /\ k + (i - (k - 1)) = i + 1
    BY <1>1
  <2> QED  BY <1>2, <2>2, <2>3
<1> HIDE DEF w
<1>7. t \in Seq(Row) /\ Len(t) = Len(s) /\ DOMAIN t = 1..Len(s)
  <2>1. t \in Seq(Row) /\ Len(t) = Len(<<s[k]>>) + Len(w) /\ DOMAIN t = 1..Len(t)
    <3>1. <<s[k]>> \in Seq(Row) /\ w \in Seq(Row)
      BY <1>1, <1>4
    <3>2. t \in Seq(Row) /\ Len(t) = Len(<<s[k]>>) + Len(w)
      BY <3>1, AfterFacts
    <3> HIDE DEF t
    <3> QED  BY <3>2
  <2>2. Len(<<s[k]>>) = 1 /\ Len(w) = Len(s) - 1 /\ Len(s) \in Nat
    BY <1>1, <1>4
  <2> HIDE DEF t
  <2> QED  BY <2>1, <2>2
<1>8. ASSUME NEW i \in 1..Len(s)
      PROVE  t[i] = IF i = 1 THEN s[k] ELSE w[i - 1]
  BY <1>1, <1>4, AfterFacts
<1> HIDE DEF t
<1>9. ASSUME NEW i \in 1..Len(s)
      PROVE  t[i] = s[IF i = 1 THEN k ELSE IF i <= k THEN i - 1 ELSE i]
  <2>1. CASE i = 1
    BY <1>8, <2>1
  <2>2. CASE i # 1 /\ i <= k
    <3>1. i - 1 \in 1..(k - 1)
      BY <1>1, <2>2
    <3> QED  BY <1>5, <1>8, <2>2, <3>1
  <2>3. CASE i # 1 /\ ~ (i <= k)
    <3>1. i - 1 \in k..(Len(s) - 1) /\ (i - 1) + 1 = i
      BY <1>1, <2>3
    <3>2. w[i - 1] = s[i]
      BY <1>6, <3>1
    <3> QED  BY <1>8, <2>3, <3>2
  <2> QED  BY <2>1, <2>2, <2>3
<1>10. \A i \in 1..Len(s) : (IF i = 1 THEN k ELSE IF i <= k THEN i - 1 ELSE i) \in 1..Len(s)
  BY <1>1
<1> QED  BY <1>1, <1>3, <1>7, <1>9, <1>10 DEF t, w

--------------------------------------------------------------------------------
(* Types *)

LEMMA InitType ==
    ASSUME Init
    PROVE  TypeOK
<1>1. sheet \in Seq(Row)
  <2>1. <<>> \in Seq(Row)
    OBVIOUS
  <2> QED  BY <2>1, EnteredFacts DEF Init
<1>2. 0 \in Version /\ Nothing \in [Id -> Version] /\ Nothing \in [Id -> Nat]
  BY SheetsAssumption DEF Version, Nothing
<1>3. records \in Seq(Cells) /\ faults \in Seq(FaultKinds)
  BY DEF Init
<1>4. /\ table \in {"T_Group", "D_User"} /\ pc = "idle" /\ want = Nothing /\ found = Nothing
      /\ scans = MaxScans /\ clock = 0 /\ newest = Nothing /\ pending = Nothing
      /\ saved = Nothing /\ saving = NoSave /\ resaving = Nothing /\ rpc = StartWith(table)
      /\ up = FALSE /\ cache = {} /\ crossed = FALSE /\ raced = FALSE
  BY DEF Init
<1>5. scans \in 0..MaxScans /\ rpc \in {"idle", "headers"}
  BY <1>4, SheetsAssumption DEF StartWith
<1>6. clock \in Version /\ saving \in [Id -> Version] \cup {NoSave} /\ cache \subseteq Id
  BY <1>2, <1>4
<1> HIDE DEF Init
<1> QED  BY <1>1, <1>2, <1>3, <1>4, <1>5, <1>6 DEF TypeOK

\* What starts again has the types.
LEMMA RebootType ==
    ASSUME TypeOK, Reboot, crossed' \in BOOLEAN, faults' \in Seq(FaultKinds)
    PROVE  TypeOK'
<1>1. Nothing \in [Id -> Version] /\ Nothing \in [Id -> Nat]
  BY SheetsAssumption DEF Version, Nothing
<1>2. records' \in Seq(Cells)
  BY DEF Reboot
<1> QED  BY <1>1, <1>2 DEF Reboot, TypeOK, StartWith

\* The buffer.
LEMMA BufferType ==
    ASSUME TypeOK,
           (\E g \in Id : Upsert(g)) \/ SaveUpsert \/ FlushStep \/ PutBack
    PROVE  TypeOK'
<1> USE DEF writer, buffer, refresh
<1>1. Nothing \in [Id -> Version]
  BY SheetsAssumption DEF Version, Nothing
<1>2. ASSUME NEW g \in Id, Upsert(g)
      PROVE  TypeOK'
  <2>1. clock' \in Version
    BY <1>2, SheetsAssumption DEF TypeOK, Upsert, Version
  <2>2. newest' \in [Id -> Version] /\ pending' \in [Id -> Version] /\ saving' \in [Id -> Version]
    BY <1>2, <2>1 DEF TypeOK, Upsert
  <2>3. raced' \in BOOLEAN
    BY <1>2 DEF TypeOK, Upsert
  <2> QED  BY <1>2, <2>1, <2>2, <2>3 DEF TypeOK, Upsert
<1>3. CASE SaveUpsert
  BY <1>3 DEF TypeOK, SaveUpsert
<1>4. CASE TakePending
  BY <1>1, <1>4 DEF TypeOK, TakePending
<1>5. CASE SaveTaken
  BY <1>5 DEF TypeOK, SaveTaken
<1>6. CASE SavePutBack
  BY <1>6 DEF TypeOK, SavePutBack
<1>7. CASE PutBack
  <2>1. faults' \in Seq(FaultKinds)
    BY <1>7, FaultFacts DEF PutBack
  <2>2. records' \in Seq(Cells) /\ crossed' \in BOOLEAN
    BY <1>7 DEF TypeOK, PutBack, ClearRecords, RefreshReads
  <2>3. pending' \in [Id -> Version]
    BY <1>7 DEF TypeOK, PutBack
  <2>4. resaving' \in [Id -> Version] /\ want' \in [Id -> Version] /\ raced' \in BOOLEAN
    BY <1>1, <1>7, <2>3 DEF TypeOK, PutBack
  <2> QED  BY <1>7, <2>1, <2>2, <2>3, <2>4 DEF TypeOK, PutBack
<1> QED  BY <1>2, <1>3, <1>4, <1>5, <1>6, <1>7 DEF FlushStep

\* Reading, and matching what was read.
LEMMA LoadType ==
    ASSUME TypeOK, LoadRecords
    PROVE  records' \in Seq(Cells) /\ faults' \in Seq(FaultKinds)
<1>1. Keys \in Seq(Cells) /\ sheet \in Seq(Row)
  BY KeysFacts DEF TypeOK
<1>2. CASE records' = Keys /\ faults' = faults
  BY <1>1, <1>2 DEF TypeOK
<1>3. CASE records' = <<>> /\ Fault("rows")
  BY <1>3, FaultFacts
<1> QED  BY <1>2, <1>3 DEF LoadRecords

\* The row found for a key is a row of the records with that key.
LEMMA FirstRowFacts ==
    ASSUME records \in Seq(Cells), NEW g \in Id
    PROVE  /\ FirstRow(g) \in Nat
           /\ FirstRow(g) > 0 => FirstRow(g) \in DOMAIN records /\ records[FirstRow(g)] = g
           /\ FirstRow(g) = 0 => \A k \in DOMAIN records : records[k] # g
<1> DEFINE at == {k \in 1..Len(records) : records[k] = g}
<1>1. DOMAIN records = 1..Len(records) /\ Len(records) \in Nat
  OBVIOUS
<1>2. FirstRow(g) = IF at = {} THEN 0 ELSE CHOOSE k \in at : \A j \in at : k <= j
  BY <1>1 DEF FirstRow
<1>3. CASE at = {}
  BY <1>1, <1>2, <1>3
<1>4. CASE at # {}
  <2> DEFINE back == {(Len(records) + 1) - k : k \in at}
  <2>1. back \in SUBSET (1..Len(records)) /\ back # {}
    BY <1>1, <1>4
  <2>2. PICK m \in back : \A j \in back : j <= m
    <3> HIDE DEF back
    <3> QED  BY <1>1, <2>1, LastExists
  <2>3. PICK k \in at : m = (Len(records) + 1) - k
    BY <2>2
  <2>4. \A j \in at : k <= j
    <3>1. SUFFICES ASSUME NEW j \in at
                   PROVE  k <= j
      OBVIOUS
    <3>2. (Len(records) + 1) - j \in back
      OBVIOUS
    <3>3. (Len(records) + 1) - j <= (Len(records) + 1) - k
      BY <2>2, <2>3, <3>2
    <3>4. j \in Int /\ k \in Int
      OBVIOUS
    <3> QED  BY <1>1, <3>3, <3>4
  <2>5. at \subseteq 1..Len(records)
    OBVIOUS
  <2>6. \A j \in at : records[j] = g
    OBVIOUS
  <2> HIDE DEF at
  <2>7. FirstRow(g) \in at
    BY <1>2, <1>4, <2>3, <2>4
  <2>8. FirstRow(g) \in 1..Len(records) /\ records[FirstRow(g)] = g
    BY <2>5, <2>6, <2>7
  <2> QED  BY <1>1, <2>8
<1> QED  BY <1>3, <1>4

LEMMA WriterType ==
    ASSUME TypeOK, WriterStep \/ (\E ids \in SUBSET Id : StartScan(ids))
    PROVE  TypeOK'
<1> USE DEF writer, buffer, refresh
<1>1. Nothing \in [Id -> Version] /\ Nothing \in [Id -> Nat]
  BY SheetsAssumption DEF Version, Nothing
<1>2. sheet \in Seq(Row) /\ records \in Seq(Cells) /\ want \in [Id -> Version]
  BY DEF TypeOK
<1>3. CASE ReadHeaders
  <2>1. records' \in Seq(Cells) /\ crossed' \in BOOLEAN
    BY <1>3 DEF TypeOK, ReadHeaders, ClearRecords, RefreshReads
  <2> QED  BY <1>3, <2>1 DEF TypeOK, ReadHeaders
<1>4. CASE ReadRows
  <2>1. records' \in Seq(Cells) /\ faults' \in Seq(FaultKinds)
    BY <1>4, LoadType DEF ReadRows
  <2> QED  BY <1>4, <2>1 DEF TypeOK, ReadRows
<1>5. CASE Match
  <2>1. \A g \in Id : FirstRow(g) \in Nat
    BY <1>2, FirstRowFacts
  <2>2. found' \in [Id -> Nat]
    BY <1>5, <2>1 DEF Match
  <2> QED  BY <1>5, <2>2 DEF TypeOK, Match
<1>6. ASSUME Finish
      PROVE  want' \in [Id -> Version] /\ found' \in [Id -> Nat] /\ pc' \in {"idle", "build"}
  BY <1>1, <1>6 DEF Finish
<1>7. CASE Update
  <2>1. sheet' \in Seq(Row)
    BY <1>2, <1>7, UpdatedFacts DEF Update
  <2>2. faults' \in Seq(FaultKinds)
    BY <1>7, FaultFacts DEF Update, TypeOK
  <2>3. want' \in [Id -> Version] /\ found' \in [Id -> Nat] /\ pc' \in {"idle", "build", "insert"}
    BY <1>6, <1>7 DEF Update, TypeOK
  <2> QED  BY <1>7, <2>1, <2>2, <2>3 DEF TypeOK, Update
<1>8. CASE Insert
  <2>1. Cardinality(New) \in Nat /\ 2 * Cardinality(New) \in Nat
    BY NewFacts
  <2>2. EmptyRow \in Row /\ Blank \in Cells
    BY RowFacts DEF Cells
  <2>3. /\ Repeated(EmptyRow, Cardinality(New)) \o sheet \in Seq(Row)
        /\ Repeated(EmptyRow, 2 * Cardinality(New)) \o sheet \in Seq(Row)
        /\ Repeated(Blank, Cardinality(New)) \o records \in Seq(Cells)
    BY <1>2, <2>1, <2>2, InsertedFacts
  <2>4. sheet' \in Seq(Row) /\ records' \in Seq(Cells)
    BY <1>2, <1>8, <2>3 DEF Insert
  <2>5. faults' \in Seq(FaultKinds)
    BY <1>8, FaultFacts DEF Insert, TypeOK
  <2> QED  BY <1>8, <2>4, <2>5 DEF TypeOK, Insert
<1>9. CASE Fill
  <2>1. sheet' \in Seq(Row)
    BY <1>2, <1>9, FilledFacts DEF Fill
  <2>2. records' \in Seq(Cells)
    BY <1>2, <1>9, FilledRecordsFacts DEF Fill
  <2>3. faults' \in Seq(FaultKinds)
    BY <1>9, FaultFacts DEF Fill, TypeOK
  <2>4. want' \in [Id -> Version] /\ found' \in [Id -> Nat] /\ pc' \in {"idle", "build"}
    BY <1>6, <1>9 DEF Fill
  <2> QED  BY <1>9, <2>1, <2>2, <2>3, <2>4 DEF TypeOK, Fill
<1>10. ASSUME NEW ids \in SUBSET Id, StartScan(ids)
       PROVE  TypeOK'
  <2>1. 0 \in Version /\ 1 \in Version
    BY SheetsAssumption DEF Version
  <2>2. want' \in [Id -> Version]
    BY <1>10, <2>1 DEF StartScan
  <2>3. scans' \in 0..MaxScans
    BY <1>10, SheetsAssumption DEF TypeOK, StartScan
  <2> QED  BY <1>10, <2>2, <2>3 DEF TypeOK, StartScan
<1> QED  BY <1>3, <1>4, <1>5, <1>7, <1>8, <1>9, <1>10 DEF WriterStep

LEMMA ScanType ==
    ASSUME TypeOK, FillRaises \/ ScanBuilds \/ OtherScanBuilds \/ ScanFails \/ Crash
    PROVE  TypeOK'
<1> USE DEF writer, buffer, refresh
<1>1. records \in Seq(Cells)
  BY DEF TypeOK
<1>2. ToSet(records) \ {Blank} \subseteq Id
  <2>1. \A k \in DOMAIN records : records[k] \in Cells
    BY <1>1
  <2> QED  BY <2>1 DEF ToSet, Cells
<1>3. CASE FillRaises
  <2>1. CASE up
    <3>1. records' \in Seq(Cells)
      BY <1>1, <1>3, <2>1, FilledRecordsFacts DEF FillRaises
    <3> QED  BY <1>3, <2>1, <3>1 DEF FillRaises, ScanRaises, TypeOK
  <2>2. CASE ~up
    <3>1. Reboot /\ UNCHANGED <<crossed, faults>>
      BY <1>3, <2>2 DEF FillRaises, ScanRaises
    <3> QED  BY <3>1, RebootType DEF TypeOK
  <2> QED  BY <2>1, <2>2
<1>4. CASE ScanBuilds
  BY <1>2, <1>4 DEF ScanBuilds, BuildCaches, RefreshReads, TypeOK
<1>5. CASE OtherScanBuilds
  BY <1>2, <1>5 DEF OtherScanBuilds, BuildCaches, RefreshReads, WriterReads, TypeOK
<1>6. CASE ScanFails
  <2>1. faults' \in Seq(FaultKinds)
    BY <1>6, FaultFacts DEF ScanFails
  <2>2. crossed' \in BOOLEAN /\ records' \in Seq(Cells)
    BY <1>6 DEF ScanFails, ClearRecords, RefreshReads, TypeOK
  <2>3. CASE up
    BY <1>6, <2>1, <2>2, <2>3 DEF ScanFails, ScanRaises, TypeOK
  <2>4. CASE ~up
    <3>1. Reboot
      BY <1>6, <2>4 DEF ScanFails, ScanRaises
    <3> QED  BY <2>1, <2>2, <3>1, RebootType
  <2> QED  BY <2>3, <2>4
<1>7. CASE Crash
  <2>1. faults' \in Seq(FaultKinds) /\ Reboot /\ crossed' \in BOOLEAN
    BY <1>7, FaultFacts DEF Crash, TypeOK
  <2> QED  BY <2>1, RebootType
<1> QED  BY <1>3, <1>4, <1>5, <1>6, <1>7

LEMMA RefreshType ==
    ASSUME TypeOK, RefreshStep \/ RefreshFails \/ (\E k \in DOMAIN sheet : OperatorMoves(k))
    PROVE  TypeOK'
<1> USE DEF writer, buffer, refresh
<1>1. records \in Seq(Cells) /\ sheet \in Seq(Row)
  BY DEF TypeOK
<1>2. ToSet(records) \ {Blank} \subseteq Id
  <2>1. \A k \in DOMAIN records : records[k] \in Cells
    BY <1>1
  <2> QED  BY <2>1 DEF ToSet, Cells
<1>3. CASE BeginRefresh
  BY <1>3 DEF BeginRefresh, TypeOK
<1>4. CASE RefreshHeaders
  <2>1. crossed' \in BOOLEAN /\ records' \in Seq(Cells)
    BY <1>4 DEF RefreshHeaders, ClearRecords, WriterReads, TypeOK
  <2> QED  BY <1>4, <2>1 DEF RefreshHeaders, TypeOK
<1>5. CASE RefreshRows
  <2>1. records' \in Seq(Cells) /\ faults' \in Seq(FaultKinds)
    BY <1>5, LoadType DEF RefreshRows
  <2> QED  BY <1>5, <2>1 DEF RefreshRows, TypeOK
<1>6. CASE RefreshBuilds
  BY <1>2, <1>6 DEF RefreshBuilds, BuildCaches, TypeOK
<1>7. CASE RefreshFails
  <2>1. faults' \in Seq(FaultKinds)
    BY <1>7, FaultFacts DEF RefreshFails
  <2>2. crossed' \in BOOLEAN /\ records' \in Seq(Cells)
    BY <1>7 DEF RefreshFails, ClearRecords, WriterReads, TypeOK
  <2> QED  BY <1>7, <2>1, <2>2 DEF RefreshFails, TypeOK
<1>8. ASSUME NEW k \in DOMAIN sheet, OperatorMoves(k)
      PROVE  TypeOK'
  <2>1. sheet' \in Seq(Row)
    BY <1>1, <1>8, MovedFacts DEF OperatorMoves
  <2>2. faults' \in Seq(FaultKinds)
    BY <1>8, FaultFacts DEF OperatorMoves
  <2> QED  BY <1>8, <2>1, <2>2 DEF OperatorMoves, TypeOK
<1> QED  BY <1>3, <1>4, <1>5, <1>6, <1>7, <1>8 DEF RefreshStep

\* Every step preserves the types.
LEMMA StepType ==
    ASSUME TypeOK, [Next]_vars
    PROVE  TypeOK'
<1>1. CASE UNCHANGED vars
  BY <1>1 DEF vars, writer, buffer, refresh, TypeOK
<1>2. CASE Next
  BY <1>2, BufferType, WriterType, ScanType, RefreshType DEF Next, ScanStep
<1> QED  BY <1>1, <1>2

--------------------------------------------------------------------------------
(* The buffer and its copy in SQLite *)

\* When nothing is about to be saved nothing has been made up: NoSave is no buffer.
LEMMA NoSaveIsNoBuffer ==
    ASSUME NEW g \in Id, NEW f \in [Id -> Version]
    PROVE  f # NoSave
<1>1. g \in DOMAIN f
  OBVIOUS
<1>2. g \notin DOMAIN NoSave \/ NoSave \notin [Id -> Version]
  <2>1. DOMAIN NoSave = {}
    BY DEF NoSave
  <2> QED  BY <2>1
<1> QED  BY <1>1, <1>2

LEMMA StepSaving ==
    ASSUME TypeOK, WantsNothing, ScannedNothing, SavingPending, SavedIsPending, [Next]_vars
    PROVE  WantsNothing' /\ ScannedNothing' /\ SavingPending' /\ SavedIsPending'
<1> USE DEF writer, buffer, refresh, WantsNothing, ScannedNothing, SavingPending, SavedIsPending
<1>1. ASSUME NEW g \in Id, Upsert(g)
      PROVE  WantsNothing' /\ ScannedNothing' /\ SavingPending' /\ SavedIsPending'
  <2>1. pending' \in [Id -> Version]
    <3>1. clock' \in Version
      BY <1>1, SheetsAssumption DEF TypeOK, Upsert, Version
    <3> QED  BY <1>1, <3>1 DEF TypeOK, Upsert
  <2>2. saving' # NoSave
    BY <1>1, <2>1, NoSaveIsNoBuffer DEF Upsert
  <2> QED  BY <1>1, <2>2 DEF Upsert
<1>2. CASE SaveUpsert
  BY <1>2 DEF SaveUpsert
<1>3. CASE TakePending
  BY <1>3 DEF TakePending
<1>4. CASE SaveTaken \/ SavePutBack
  BY <1>4 DEF SaveTaken, SavePutBack
<1>5. CASE PutBack
  BY <1>5 DEF PutBack
<1>6. CASE ReadHeaders \/ ReadRows \/ Match \/ Insert
  BY <1>6 DEF ReadHeaders, ReadRows, Match, Insert
<1>7. CASE Update \/ Fill
  BY <1>7 DEF Update, Fill, Finish
<1>8. ASSUME NEW ids \in SUBSET Id, StartScan(ids)
      PROVE  WantsNothing' /\ ScannedNothing' /\ SavingPending' /\ SavedIsPending'
  BY <1>8 DEF StartScan
<1>9. CASE Reboot
  BY <1>9 DEF Reboot
<1>10. CASE (FillRaises \/ ScanFails) /\ up
  BY <1>10 DEF FillRaises, ScanFails, ScanRaises
<1>11. CASE ScanBuilds \/ OtherScanBuilds
  BY <1>11 DEF ScanBuilds, OtherScanBuilds
<1>12. CASE RefreshStep \/ RefreshFails
  BY <1>12 DEF RefreshStep, BeginRefresh, RefreshHeaders, RefreshRows, RefreshBuilds, RefreshFails
<1>13. ASSUME NEW k \in DOMAIN sheet, OperatorMoves(k)
       PROVE  WantsNothing' /\ ScannedNothing' /\ SavingPending' /\ SavedIsPending'
  BY <1>13 DEF OperatorMoves
<1>14. CASE UNCHANGED vars
  BY <1>14 DEF vars
<1>15. (FillRaises \/ ScanFails) /\ ~up => Reboot
  BY DEF FillRaises, ScanFails, ScanRaises
<1> QED
  BY <1>1, <1>2, <1>3, <1>4, <1>5, <1>6, <1>7, <1>8, <1>9, <1>10, <1>11, <1>12, <1>13, <1>14, <1>15
     DEF Next, FlushStep, WriterStep, ScanStep, Crash

--------------------------------------------------------------------------------
(* The rows *)

\* Faults are not forgotten.
LEMMA CleanStep ==
    ASSUME TypeOK, [Next]_vars, NEW K, Without(K)'
    PROVE  Without(K)
<1> USE DEF Without
<1>1. CASE faults' = faults
  BY <1>1
<1>2. ASSUME NEW kind, Fault(kind)
      PROVE  Without(K)
  BY <1>2, FaultFacts
<1>3. faults' = faults \/ \E kind \in FaultKinds : Fault(kind)
  <2> USE DEF writer, buffer, refresh, FaultKinds
  <2>1. CASE (\E g \in Id : Upsert(g)) \/ SaveUpsert \/ FlushStep \/ PutBack
    BY <2>1 DEF Upsert, SaveUpsert, FlushStep, TakePending, SaveTaken, SavePutBack, PutBack
  <2>2. CASE WriterStep
    BY <2>2 DEF WriterStep, ReadHeaders, ReadRows, LoadRecords, Match, Update, Insert, Fill
  <2>3. CASE ScanStep \/ ScanFails \/ Crash
    BY <2>3 DEF ScanStep, StartScan, FillRaises, ScanBuilds, OtherScanBuilds, ScanFails, Crash
  <2>4. CASE RefreshStep \/ RefreshFails \/ (\E k \in DOMAIN sheet : OperatorMoves(k))
    BY <2>4 DEF RefreshStep, BeginRefresh, RefreshHeaders, RefreshRows, RefreshBuilds, LoadRecords,
                RefreshFails, OperatorMoves
  <2>5. CASE UNCHANGED vars
    BY <2>5 DEF vars
  <2> QED  BY <2>1, <2>2, <2>3, <2>4, <2>5 DEF Next
<1> QED  BY <1>1, <1>2, <1>3

\* What a step does to the sheet and to the writer.
SheetKept == UNCHANGED <<sheet, pc, want, found>>

\* Only the writer and the operator write, and what is kept here is the writer's own.
LEMMA SheetStep ==
    ASSUME [Next]_vars
    PROVE  \/ SheetKept
           \/ sheet' = sheet /\ pc' \notin {"rows", "match", "update", "insert", "fill"}
           \/ ReadHeaders \/ ReadRows \/ Match
           \/ Update \/ Insert \/ Fill
           \/ \E k \in DOMAIN sheet : OperatorMoves(k)
<1> USE DEF SheetKept, writer, buffer, refresh
<1>1. CASE (\E g \in Id : Upsert(g)) \/ SaveUpsert \/ FlushStep \/ PutBack
  BY <1>1 DEF Upsert, SaveUpsert, FlushStep, TakePending, SaveTaken, SavePutBack, PutBack
<1>2. CASE ScanStep \/ ScanFails \/ Crash
  BY <1>2 DEF ScanStep, StartScan, FillRaises, ScanBuilds, OtherScanBuilds, ScanFails, Crash, Reboot,
              ScanRaises
<1>3. CASE RefreshStep \/ RefreshFails
  BY <1>3 DEF RefreshStep, BeginRefresh, RefreshHeaders, RefreshRows, RefreshBuilds, RefreshFails
<1>4. CASE UNCHANGED vars
  BY <1>4 DEF vars
<1> QED  BY <1>1, <1>2, <1>3, <1>4 DEF Next, WriterStep

\* What the writer fills in stays empty until it does.
LEMMA StepTop ==
    ASSUME TypeOK, TopEmpty, [Next]_vars, Without({"insert", "displaced"})'
    PROVE  TopEmpty'
<1> USE DEF writer, buffer, refresh
<1>1. CASE SheetKept
  BY <1>1 DEF SheetKept, TopEmpty, New
<1>2. CASE pc' # "fill"
  BY <1>2 DEF TopEmpty
<1>3. CASE Insert
  <2> DEFINE n == Cardinality(New)
  <2>1. n \in Nat /\ 2 * n \in Nat /\ 2 * n >= n
    BY NewFacts
  <2>2. EmptyRow \in Row /\ sheet \in Seq(Row)
    BY RowFacts DEF TypeOK
  <2>3. ASSUME NEW m \in Nat, m >= n
        PROVE  /\ Len(Repeated(EmptyRow, m) \o sheet) >= n
               /\ \A k \in 1..n : (Repeated(EmptyRow, m) \o sheet)[k] = EmptyRow
    <3>1. /\ Len(Repeated(EmptyRow, m) \o sheet) = m + Len(sheet)
          /\ \A k \in 1..m : (Repeated(EmptyRow, m) \o sheet)[k] = EmptyRow
      BY <2>2, InsertedFacts
    <3>2. Len(sheet) \in Nat /\ 1..n \subseteq 1..m
      BY <2>1, <2>2, <2>3
    <3> HIDE DEF n
    <3> QED  BY <2>1, <2>3, <3>1, <3>2
  <2>4. ~Fault("insert")
    BY LeftOut
  <2>5. \E m \in Nat : m >= n /\ sheet' = Repeated(EmptyRow, m) \o sheet
    <3>1. sheet' = Repeated(EmptyRow, n) \o sheet \/ sheet' = Repeated(EmptyRow, 2 * n) \o sheet
      BY <1>3, <2>4 DEF Insert
    <3> HIDE DEF n
    <3> QED  BY <2>1, <3>1
  <2>6. /\ Len(sheet') >= n
        /\ \A k \in 1..n : sheet'[k] = EmptyRow
    BY <2>3, <2>5
  <2>7. New' = New
    BY <1>3 DEF Insert, New
  <2> QED  BY <2>6, <2>7 DEF TopEmpty
<1>4. CASE \E k \in DOMAIN sheet : OperatorMoves(k)
  <2>1. pc' = pc /\ ~Fault("displaced")
    BY <1>4, LeftOut DEF OperatorMoves
  <2> QED  BY <1>2, <1>4, <2>1 DEF OperatorMoves
<1>5. CASE ReadHeaders \/ ReadRows \/ Match \/ Update \/ Fill
  BY <1>2, <1>5 DEF ReadHeaders, ReadRows, Match, Update, Fill, Finish
<1> QED  BY <1>1, <1>2, <1>3, <1>4, <1>5, SheetStep

\* The user-maintained columns stay with their key.
LEMMA StepUser ==
    ASSUME TypeOK, UserInv, UserColumnsKept, [Next]_vars
    PROVE  UserInv' /\ UserColumnsKept'
<1>1. SUFFICES ASSUME Without({"insert", "displaced"})'
               PROVE  TopEmpty' /\ \A k \in DOMAIN sheet' : sheet'[k].user \in {Blank, sheet'[k].id}
  BY DEF UserInv, UserColumnsKept
<1>2. Without({"insert", "displaced"})
  BY <1>1, CleanStep
<1>3. TopEmpty /\ \A k \in DOMAIN sheet : sheet[k].user \in {Blank, sheet[k].id}
  BY <1>2 DEF UserInv, UserColumnsKept
<1>4. TopEmpty'
  BY <1>1, <1>3, StepTop
<1>5. sheet \in Seq(Row) /\ want \in [Id -> Version]
  BY DEF TypeOK
<1>6. ASSUME NEW k \in DOMAIN sheet'
      PROVE  sheet'[k].user \in {Blank, sheet'[k].id}
  <2>1. CASE sheet' = sheet
    BY <1>3, <2>1
  <2>2. CASE sheet' = Updated
    BY <1>3, <1>5, <2>2, UpdatedFacts
  <2>3. ASSUME NEW n \in Nat, sheet' = Repeated(EmptyRow, n) \o sheet
        PROVE  sheet'[k].user \in {Blank, sheet'[k].id}
    <3>1. EmptyRow \in Row /\ EmptyRow.user = Blank
      BY RowFacts DEF EmptyRow
    <3>2. sheet'[k] = EmptyRow \/ \E j \in DOMAIN sheet : sheet'[k] = sheet[j]
      <4>1. k \in 1..n \/ (k - n \in DOMAIN sheet /\ sheet'[k] = sheet[k - n])
        BY <1>5, <2>3, <3>1, InsertedFacts
      <4>2. k \in 1..n => sheet'[k] = EmptyRow
        BY <1>5, <2>3, <3>1, InsertedFacts
      <4> QED  BY <4>1, <4>2
    <3> QED  BY <1>3, <3>1, <3>2
  <2>4. CASE Fill /\ sheet' = Filled
    <3>1. CASE k \in 1..Cardinality(New)
      <4>1. k \in DOMAIN sheet /\ sheet[k] = EmptyRow
        <5>1. Cardinality(New) <= Len(sheet) /\ sheet[k] = EmptyRow
          BY <1>3, <2>4, <3>1 DEF Fill, TopEmpty
        <5> QED  BY <1>5, <3>1, <5>1, NewFacts
      <4>2. sheet'[k].user = sheet[k].user
        BY <1>5, <2>4, <3>1, <4>1, FilledFacts
      <4> QED  BY <4>1, <4>2 DEF EmptyRow
    <3>2. CASE k \notin 1..Cardinality(New)
      <4>1. k \in DOMAIN sheet /\ sheet'[k] = sheet[k]
        BY <1>5, <2>4, <3>2, FilledFacts
      <4> QED  BY <1>3, <4>1
    <3> QED  BY <3>1, <3>2
  <2>5. CASE Update
    BY <2>1, <2>2, <2>5 DEF Update
  <2>6. CASE Insert
    <3>1. Cardinality(New) \in Nat /\ 2 * Cardinality(New) \in Nat
      BY NewFacts
    <3> QED  BY <2>1, <2>3, <2>6, <3>1 DEF Insert
  <2>7. CASE Fill
    BY <2>1, <2>4, <2>7 DEF Fill
  <2>8. CASE ReadHeaders \/ ReadRows \/ Match
    BY <2>1, <2>8 DEF ReadHeaders, ReadRows, Match
  <2>9. CASE \E j \in DOMAIN sheet : OperatorMoves(j)
    <3>1. PICK j \in DOMAIN sheet : sheet' = <<sheet[j]>> \o RemoveAt(sheet, j)
      BY <2>9 DEF OperatorMoves
    <3> DEFINE from(i) == IF i = 1 THEN j ELSE IF i <= j THEN i - 1 ELSE i
    <3>2. \A i \in DOMAIN sheet' : from(i) \in DOMAIN sheet /\ sheet'[i] = sheet[from(i)]
      BY <1>5, <3>1, MovedFacts
    <3> HIDE DEF from
    <3> QED  BY <1>3, <3>2
  <2> QED  BY <2>1, <2>5, <2>6, <2>7, <2>8, <2>9, SheetStep DEF SheetKept
<1> QED  BY <1>4, <1>6

--------------------------------------------------------------------------------
(* Nothing that was upserted is lost *)

\* What is pending, or to be written, stays the last upsert of a group.
LEMMA StepLatest ==
    ASSUME TypeOK, ScannedNothing, Latest, [Next]_vars, Clean'
    PROVE  Latest'
<1> USE DEF writer, buffer, refresh, Latest
<1>1. ASSUME NEW g \in Id, Upsert(g)
      PROVE  Latest'
  <2>1. clock' \in Nat \ {0}
    BY <1>1, SheetsAssumption DEF TypeOK, Upsert, Version
  <2>2. newest \in [Id -> Version] /\ pending \in [Id -> Version]
    BY DEF TypeOK
  <2> QED  BY <1>1, <2>1, <2>2 DEF Upsert
<1>2. CASE TakePending
  <2>1. pending \in [Id -> Version] /\ \A g \in Id : pending[g] \in Nat
    BY SheetsAssumption DEF TypeOK, Version
  <2> QED  BY <1>2, <2>1 DEF TakePending, Nothing
<1>3. CASE PutBack
  <2>1. \A g \in Id : want[g] \in Nat
    BY SheetsAssumption DEF TypeOK, Version
  <2>2. ASSUME NEW g \in Id
        PROVE  /\ pending'[g] \in {0, newest'[g]}
               /\ want'[g] = 0
    BY <1>3, <2>1 DEF PutBack, Nothing
  <2> QED  BY <2>2
<1>4. CASE SaveUpsert \/ SaveTaken \/ SavePutBack
  BY <1>4 DEF SaveUpsert, SaveTaken, SavePutBack
<1>5. CASE ReadHeaders \/ ReadRows \/ Match \/ Insert
  BY <1>5 DEF ReadHeaders, ReadRows, Match, Insert
<1>6. CASE Update \/ Fill
  BY <1>6 DEF Update, Fill, Finish, Nothing
<1>7. ASSUME NEW ids \in SUBSET Id, StartScan(ids)
      PROVE  Latest'
  BY <1>7 DEF StartScan, ScannedNothing, Nothing
<1>8. CASE (FillRaises \/ ScanFails) /\ up
  BY <1>8 DEF FillRaises, ScanFails, ScanRaises
<1>9. CASE (FillRaises \/ ScanFails) /\ ~up
  BY <1>9 DEF FillRaises, ScanFails, ScanRaises, Reboot, ScannedNothing, Nothing
<1>10. CASE ScanBuilds \/ OtherScanBuilds
  BY <1>10 DEF ScanBuilds, OtherScanBuilds
<1>11. CASE RefreshStep \/ RefreshFails
  BY <1>11 DEF RefreshStep, BeginRefresh, RefreshHeaders, RefreshRows, RefreshBuilds, RefreshFails
<1>12. ~Crash /\ ~(\E k \in DOMAIN sheet : OperatorMoves(k))
  BY LeftOut, NotMoved DEF Clean, Crash
<1>13. CASE UNCHANGED vars
  BY <1>13 DEF vars
<1> QED
  BY <1>1, <1>2, <1>3, <1>4, <1>5, <1>6, <1>7, <1>8, <1>9, <1>10, <1>11, <1>12, <1>13
     DEF Next, FlushStep, WriterStep, ScanStep

\* The records that others read meanwhile are true as well.
LEMMA RecordsStep ==
    ASSUME [Next]_vars
    PROVE  \/ records' \in {records, <<>>, Keys}
           \/ Insert \/ pc' \notin {"rows", "match"}
<1> USE DEF writer, buffer, refresh
<1>1. CASE (\E g \in Id : Upsert(g)) \/ SaveUpsert \/ FlushStep \/ PutBack
  BY <1>1 DEF Upsert, SaveUpsert, FlushStep, TakePending, SaveTaken, SavePutBack, PutBack
<1>2. CASE WriterStep
  BY <1>2 DEF WriterStep, ReadHeaders, ReadRows, ClearRecords, LoadRecords, Match, Update, Fill,
              Finish
<1>3. CASE ScanStep \/ ScanFails \/ Crash
  BY <1>3 DEF ScanStep, StartScan, FillRaises, ScanBuilds, OtherScanBuilds, ScanFails, Crash, Reboot,
              ScanRaises
<1>4. CASE RefreshStep \/ RefreshFails \/ (\E k \in DOMAIN sheet : OperatorMoves(k))
  BY <1>4 DEF RefreshStep, BeginRefresh, RefreshHeaders, RefreshRows, RefreshBuilds, RefreshFails,
              ClearRecords, LoadRecords, OperatorMoves
<1>5. CASE UNCHANGED vars
  BY <1>5 DEF vars
<1> QED  BY <1>1, <1>2, <1>3, <1>4, <1>5 DEF Next

\* While the writer searches, the records are the keys of the first rows.
LEMMA StepRecords ==
    ASSUME TypeOK, RecordsTrue, [Next]_vars, Clean'
    PROVE  RecordsTrue'
<1>1. SUFFICES ASSUME pc' \in {"rows", "match"}
               PROVE  \A k \in DOMAIN records' : k \in DOMAIN sheet' /\ records'[k] = sheet'[k].id
  BY DEF RecordsTrue
<1>2. ~(\E k \in DOMAIN sheet : OperatorMoves(k))
  BY NotMoved DEF Clean
<1>3. /\ sheet' = sheet
      /\ ReadHeaders \/ pc \in {"rows", "match"}
  <2>1. ~Update /\ ~Insert /\ ~Fill
    BY <1>1 DEF Update, Insert, Fill, Finish
  <2> QED
    BY <1>1, <1>2, <2>1, SheetStep
       DEF SheetKept, ReadHeaders, ReadRows, Match, writer, buffer, refresh
<1>4. ~Insert
  BY <1>1 DEF Insert
<1>5. CASE records' = <<>>
  BY <1>5
<1>6. CASE records' = Keys
  BY <1>3, <1>6, KeysFacts DEF TypeOK
<1>7. CASE records' = records /\ pc \in {"rows", "match"}
  BY <1>3, <1>7 DEF RecordsTrue
<1>8. ReadHeaders => records' = <<>>
  BY DEF ReadHeaders, ClearRecords
<1> QED  BY <1>1, <1>3, <1>4, <1>5, <1>6, <1>7, <1>8, RecordsStep

\* What is found is the row of the key, and it shows what was to be written when it
\* has been updated.
LEMMA StepFound ==
    ASSUME TypeOK, RecordsTrue, FoundTrue, [Next]_vars, Clean'
    PROVE  FoundTrue'
<1> USE DEF writer, buffer, refresh
<1>1. SUFFICES ASSUME pc' = "update"
               PROVE  \A g \in Id : found'[g] > 0 =>
                          want'[g] > 0 /\ found'[g] \in DOMAIN sheet' /\ sheet'[found'[g]].id = g
  BY DEF FoundTrue
<1>2. ~(\E k \in DOMAIN sheet : OperatorMoves(k))
  BY NotMoved DEF Clean
<1>3. ~ReadHeaders /\ ~ReadRows /\ ~Update /\ ~Insert /\ ~Fill
  BY <1>1 DEF ReadHeaders, ReadRows, Update, Insert, Fill, Finish
<1>4. CASE SheetKept
  BY <1>1, <1>4 DEF SheetKept, FoundTrue
<1>5. CASE Match
  <2>1. SUFFICES ASSUME NEW g \in Id, found'[g] > 0
                 PROVE  want'[g] > 0 /\ found'[g] \in DOMAIN sheet' /\ sheet'[found'[g]].id = g
    OBVIOUS
  <2>2. want[g] > 0 /\ found'[g] = FirstRow(g)
    BY <1>5, <2>1 DEF Match
  <2>3. found'[g] \in DOMAIN records /\ records[found'[g]] = g
    BY <2>1, <2>2, FirstRowFacts DEF TypeOK
  <2>4. sheet' = sheet /\ want' = want /\ pc = "match"
    BY <1>5 DEF Match
  <2> QED  BY <2>2, <2>3, <2>4 DEF RecordsTrue
<1> QED  BY <1>1, <1>2, <1>3, <1>4, <1>5, SheetStep

\* An update shows what was found for a key, and hides nothing of the others.
LEMMA UpdateShows ==
    ASSUME TypeOK, RowsOwn, FoundTrue, Update, Clean'
    PROVE  /\ RowsOwn'
           /\ \A g \in Id : /\ found[g] > 0 => want[g] \in Shown(g)'
                            /\ found[g] = 0 => Shown(g) \subseteq Shown(g)'
<1>1. /\ sheet \in Seq(Row) /\ want \in [Id -> Version]
      /\ \A g \in Id : found[g] \in Nat
      /\ DOMAIN sheet = 1..Len(sheet) /\ Len(sheet) \in Nat
  BY DEF TypeOK
<1>2. ~Fault("update")
  BY LeftOut DEF Clean
<1>3. sheet' = Updated
  BY <1>2 DEF Update
<1>4. /\ DOMAIN sheet' = DOMAIN sheet
      /\ \A k \in DOMAIN sheet :
            /\ sheet'[k].id = sheet[k].id
            /\ (\A g \in Id : found[g] # k) => sheet'[k] = sheet[k]
            /\ (\E g \in Id : found[g] = k) =>
                   \E g \in Id : found[g] = k /\ sheet'[k].of = g /\ sheet'[k].version = want[g]
  BY <1>1, <1>3, UpdatedFacts
<1>5. \A g \in Id : found[g] > 0 => found[g] \in DOMAIN sheet /\ sheet[found[g]].id = g
  BY DEF Update, FoundTrue
<1>6. \A k \in DOMAIN sheet : sheet[k].of \in {Blank, sheet[k].id}
  BY DEF RowsOwn
<1>7. ASSUME NEW k \in DOMAIN sheet, NEW g \in Id, found[g] = k
      PROVE  sheet'[k].of = g /\ sheet'[k].version = want[g] /\ sheet[k].id = g
  <2>1. k > 0
    BY <1>1
  <2>2. PICK h \in Id : found[h] = k /\ sheet'[k].of = h /\ sheet'[k].version = want[h]
    BY <1>4, <1>7
  <2>3. sheet[k].id = g /\ sheet[k].id = h
    BY <1>5, <1>7, <2>1, <2>2
  <2> QED  BY <2>2, <2>3
<1>8. ASSUME NEW k \in DOMAIN sheet
      PROVE  sheet'[k].of \in {Blank, sheet'[k].id}
  <2>1. CASE \E g \in Id : found[g] = k
    BY <1>4, <1>7, <2>1
  <2>2. CASE \A g \in Id : found[g] # k
    BY <1>4, <1>6, <2>2
  <2> QED  BY <2>1, <2>2
<1>9. ASSUME NEW g \in Id, found[g] > 0
      PROVE  want[g] \in Shown(g)'
  <2>1. found[g] \in DOMAIN sheet'
    BY <1>4, <1>5, <1>9
  <2>2. sheet'[found[g]].of = g /\ sheet'[found[g]].version = want[g]
    BY <1>5, <1>7, <1>9
  <2> QED  BY <2>1, <2>2 DEF Shown
<1>10. ASSUME NEW g \in Id, found[g] = 0, NEW v \in Shown(g)
       PROVE  v \in Shown(g)'
  <2>1. PICK k \in DOMAIN sheet : sheet[k].of = g /\ sheet[k].version = v
    BY <1>10 DEF Shown
  <2>2. ASSUME NEW h \in Id, found[h] = k
        PROVE  FALSE
    <3>1. sheet[k].id = h
      BY <1>7, <2>2
    <3>2. g = h
      BY <1>6, <2>1, <3>1, SheetsAssumption
    <3> QED  BY <1>1, <1>10, <2>2, <3>2
  <2>3. sheet'[k] = sheet[k] /\ k \in DOMAIN sheet'
    BY <1>4, <2>2
  <2> QED  BY <2>1, <2>3 DEF Shown
<1> QED  BY <1>4, <1>8, <1>9, <1>10 DEF RowsOwn

\* Rows inserted at the top hide nothing.
LEMMA InsertShows ==
    ASSUME TypeOK, RowsOwn, Insert, Clean'
    PROVE  RowsOwn' /\ \A g \in Id : Shown(g) \subseteq Shown(g)'
<1>1. sheet \in Seq(Row) /\ EmptyRow \in Row /\ EmptyRow.of = Blank
  BY RowFacts DEF TypeOK, EmptyRow
<1>2. ~Fault("insert")
  BY LeftOut DEF Clean
<1>3. PICK n \in Nat : sheet' = Repeated(EmptyRow, n) \o sheet
  <2>1. Cardinality(New) \in Nat /\ 2 * Cardinality(New) \in Nat
    BY NewFacts
  <2> QED  BY <1>2, <2>1 DEF Insert
<1>4. /\ \A k \in 1..n : sheet'[k] = EmptyRow
      /\ \A k \in DOMAIN sheet : n + k \in DOMAIN sheet' /\ sheet'[n + k] = sheet[k]
      /\ \A k \in DOMAIN sheet' : k \in 1..n \/ (k - n \in DOMAIN sheet /\ sheet'[k] = sheet[k - n])
  <2> DEFINE t == Repeated(EmptyRow, n) \o sheet
  <2>1. /\ \A k \in 1..n : t[k] = EmptyRow
        /\ \A k \in DOMAIN sheet : n + k \in DOMAIN t /\ t[n + k] = sheet[k]
        /\ \A k \in DOMAIN t : k \in 1..n \/ (k - n \in DOMAIN sheet /\ t[k] = sheet[k - n])
    BY <1>1, InsertedFacts
  <2> QED  BY <1>3, <2>1, Zenon
<1>5. RowsOwn'
  BY <1>1, <1>4 DEF RowsOwn
<1>6. ASSUME NEW g \in Id, NEW v \in Shown(g)
      PROVE  v \in Shown(g)'
  <2>1. PICK k \in DOMAIN sheet : sheet[k].of = g /\ sheet[k].version = v
    BY <1>6 DEF Shown
  <2>2. n + k \in DOMAIN sheet' /\ sheet'[n + k] = sheet[k]
    BY <1>4
  <2> QED  BY <2>1, <2>2 DEF Shown
<1> QED  BY <1>5, <1>6

\* The new rows show what was to be written, and hide nothing.
LEMMA FillShows ==
    ASSUME TypeOK, RowsOwn, TopEmpty, Fill, Clean'
    PROVE  /\ RowsOwn'
           /\ \A g \in Id : /\ Shown(g) \subseteq Shown(g)'
                            /\ g \in New => want[g] \in Shown(g)'
<1> DEFINE n   == Cardinality(New)
           new == SetToSeq(New)
<1>1. sheet \in Seq(Row) /\ want \in [Id -> Version] /\ EmptyRow.of = Blank
  BY DEF TypeOK, EmptyRow
<1>2. ~Fault("update")
  BY LeftOut DEF Clean
<1>3. sheet' = Filled
  BY <1>2 DEF Fill
<1>4. /\ \A k \in 1..n : /\ k \in DOMAIN sheet'
                         /\ sheet'[k].id = new[k] /\ sheet'[k].of = new[k]
                         /\ sheet'[k].version = want[new[k]]
      /\ \A k \in DOMAIN sheet' : k \notin 1..n => k \in DOMAIN sheet /\ sheet'[k] = sheet[k]
      /\ \A k \in DOMAIN sheet : k \in DOMAIN sheet'
      /\ \A g \in New : \E k \in 1..n : new[k] = g
  BY <1>1, <1>3, FilledFacts
<1>5. \A k \in 1..n : sheet[k] = EmptyRow
  BY DEF Fill, TopEmpty
<1> HIDE DEF n, new
<1>6. RowsOwn'
  BY <1>4 DEF RowsOwn
<1>7. ASSUME NEW g \in Id, NEW v \in Shown(g)
      PROVE  v \in Shown(g)'
  <2>1. PICK k \in DOMAIN sheet : sheet[k].of = g /\ sheet[k].version = v
    BY <1>7 DEF Shown
  <2>2. k \notin 1..n
    BY <1>1, <1>5, <2>1, SheetsAssumption
  <2>3. k \in DOMAIN sheet' /\ sheet'[k] = sheet[k]
    BY <1>4, <2>2
  <2> QED  BY <2>1, <2>3 DEF Shown
<1>8. ASSUME NEW g \in New
      PROVE  want[g] \in Shown(g)'
  <2>1. PICK k \in 1..n : new[k] = g
    BY <1>4
  <2>2. k \in DOMAIN sheet' /\ sheet'[k].of = g /\ sheet'[k].version = want[g]
    BY <1>4, <2>1
  <2> QED  BY <2>2 DEF Shown
<1> QED  BY <1>6, <1>7, <1>8

\* The rows stay those of their keys, and what was found is shown before rows are
\* inserted.
LEMMA StepRows ==
    ASSUME TypeOK, UserInv, BufferInv, Clean, [Next]_vars, Clean'
    PROVE  RowsOwn' /\ UpdatedShown'
<1> USE DEF writer, buffer, refresh
<1>1. RowsOwn /\ FoundTrue /\ UpdatedShown /\ TopEmpty
  BY DEF BufferInv, UserInv, Clean, Without
<1>2. CASE SheetKept
  BY <1>1, <1>2 DEF SheetKept, RowsOwn, UpdatedShown, Shown
<1>3. CASE sheet' = sheet /\ pc' \notin {"rows", "match", "update", "insert", "fill"}
  BY <1>1, <1>3 DEF RowsOwn, UpdatedShown
<1>4. CASE ReadHeaders \/ ReadRows \/ Match
  BY <1>1, <1>4 DEF ReadHeaders, ReadRows, Match, RowsOwn, UpdatedShown
<1>5. CASE Update
  <2>1. RowsOwn' /\ \A g \in Id : found[g] > 0 => want[g] \in Shown(g)'
    BY <1>1, <1>5, UpdateShows
  <2>2. pc' \in {"insert", "fill"} => UNCHANGED <<want, found>>
    BY <1>5 DEF Update, Finish
  <2> QED  BY <2>1, <2>2 DEF UpdatedShown
<1>6. CASE Insert
  <2>1. RowsOwn' /\ \A g \in Id : Shown(g) \subseteq Shown(g)'
    BY <1>1, <1>6, InsertShows
  <2>2. UNCHANGED <<want, found>> /\ pc = "insert"
    BY <1>6 DEF Insert
  <2> QED  BY <1>1, <2>1, <2>2 DEF UpdatedShown
<1>7. CASE Fill
  <2>1. RowsOwn'
    BY <1>1, <1>7, FillShows
  <2>2. pc' \in {"idle", "build"}
    BY <1>7 DEF Fill, Finish
  <2> QED  BY <2>1, <2>2 DEF UpdatedShown
<1>8. ~(\E k \in DOMAIN sheet : OperatorMoves(k))
  BY NotMoved DEF Clean
<1> QED  BY <1>2, <1>3, <1>4, <1>5, <1>6, <1>7, <1>8, SheetStep

\* A pending name is pending, in the hands of the flush or on the sheet.
LEMMA StepKept ==
    ASSUME TypeOK, WantsNothing, ScannedNothing, UserInv, BufferInv, PendingKept, Clean,
           [Next]_vars, Clean', ScannedNothing'
    PROVE  \A g \in Id : newest'[g] > 0 => newest'[g] \in {pending'[g], want'[g]} \cup Shown(g)'
<1> USE DEF writer, buffer, refresh
<1>1. SUFFICES ASSUME NEW g \in Id, newest'[g] > 0
               PROVE  newest'[g] \in {pending'[g], want'[g]} \cup Shown(g)'
  OBVIOUS
<1>2. /\ newest[g] > 0 => newest[g] \in {pending[g], want[g]} \cup Shown(g)
      /\ RowsOwn /\ FoundTrue /\ UpdatedShown /\ TopEmpty /\ Latest
  BY DEF PendingKept, BufferInv, UserInv, Clean, Without
<1>3. table' # "D_User"
  BY <1>1 DEF ScannedNothing, Nothing
<1>4. table # "D_User"
  <2>1. table' = table
    <3>1. CASE (\E h \in Id : Upsert(h)) \/ SaveUpsert \/ FlushStep \/ PutBack
      BY <3>1 DEF Upsert, SaveUpsert, FlushStep, TakePending, SaveTaken, SavePutBack, PutBack
    <3>2. CASE WriterStep
      BY <3>2 DEF WriterStep, ReadHeaders, ReadRows, Match, Update, Insert, Fill
    <3>3. CASE ScanStep \/ ScanFails \/ Crash
      BY <3>3 DEF ScanStep, StartScan, FillRaises, ScanBuilds, OtherScanBuilds, ScanFails, Crash,
                  Reboot, ScanRaises
    <3>4. CASE RefreshStep \/ RefreshFails \/ (\E k \in DOMAIN sheet : OperatorMoves(k))
      BY <3>4 DEF RefreshStep, BeginRefresh, RefreshHeaders, RefreshRows, RefreshBuilds,
                  RefreshFails, OperatorMoves
    <3>5. CASE UNCHANGED vars
      BY <3>5 DEF vars
    <3> QED  BY <3>1, <3>2, <3>3, <3>4, <3>5 DEF Next
  <2> QED  BY <1>3, <2>1
<1>5. ASSUME UNCHANGED <<sheet, newest, pending, want>>
      PROVE  newest'[g] \in {pending'[g], want'[g]} \cup Shown(g)'
  BY <1>1, <1>2, <1>5 DEF Shown
<1>6. ASSUME NEW h \in Id, Upsert(h)
      PROVE  newest'[g] \in {pending'[g], want'[g]} \cup Shown(g)'
  <2>1. CASE h = g
    BY <1>6, <2>1 DEF Upsert, TypeOK
  <2>2. CASE h # g
    BY <1>1, <1>2, <1>6, <2>2 DEF Upsert, TypeOK, Shown
  <2> QED  BY <2>1, <2>2
<1>7. CASE TakePending
  <2>1. want[g] = 0
    BY <1>7 DEF TakePending, WantsNothing, Nothing
  <2> QED  BY <1>1, <1>2, <1>7, <2>1 DEF TakePending, Shown
<1>8. CASE PutBack
  <2>1. /\ pending'[g] = IF pending[g] = 0 THEN want[g] ELSE pending[g]
        /\ newest' = newest /\ sheet' = sheet
    BY <1>8 DEF PutBack
  <2>2. pending[g] \in {0, newest[g]}
    BY <1>2 DEF Latest
  <2>3. newest[g] \in {pending'[g]} \cup Shown(g)
    BY <1>1, <1>2, <2>1, <2>2
  <2> QED  BY <2>1, <2>3 DEF Shown
<1>9. CASE Update
  <2>1. /\ found[g] > 0 => want[g] \in Shown(g)'
        /\ found[g] = 0 => Shown(g) \subseteq Shown(g)'
    BY <1>2, <1>9, UpdateShows
  <2>2. UNCHANGED <<newest, pending>> /\ pc = "update" /\ found[g] \in Nat
    BY <1>9 DEF Update, TypeOK
  <2>3. CASE found[g] > 0
    <3>1. newest[g] \in {want[g], pending[g]}
      BY <1>2, <2>2, <2>3 DEF FoundTrue, Latest
    <3> QED  BY <2>1, <2>2, <2>3, <3>1
  <2>4. CASE found[g] = 0
    <3>1. want' = want \/ g \notin New
      BY <1>9 DEF Update
    <3>2. want[g] = newest[g] => want' = want
      BY <1>1, <2>2, <2>4, <3>1 DEF New
    <3> QED  BY <1>1, <1>2, <2>1, <2>2, <2>4, <3>2
  <2> QED  BY <2>2, <2>3, <2>4
<1>10. CASE Insert
  <2>1. Shown(g) \subseteq Shown(g)'
    BY <1>2, <1>10, InsertShows
  <2>2. UNCHANGED <<newest, pending, want>>
    BY <1>10 DEF Insert
  <2> QED  BY <1>1, <1>2, <2>1, <2>2
<1>11. CASE Fill
  <2>1. Shown(g) \subseteq Shown(g)' /\ (g \in New => want[g] \in Shown(g)')
    BY <1>2, <1>11, FillShows
  <2>2. UNCHANGED <<newest, pending>> /\ pc = "fill" /\ found[g] \in Nat
    BY <1>11 DEF Fill, TypeOK
  <2>3. newest[g] = want[g] => want[g] \in Shown(g)'
    <3>1. CASE found[g] > 0
      BY <1>1, <1>2, <2>1, <2>2, <3>1 DEF UpdatedShown
    <3>2. CASE found[g] = 0
      BY <1>1, <2>1, <2>2, <3>2 DEF New
    <3> QED  BY <2>2, <3>1, <3>2
  <2> QED  BY <1>1, <1>2, <2>1, <2>2, <2>3
<1>12. CASE SaveUpsert \/ SaveTaken \/ SavePutBack
  BY <1>5, <1>12 DEF SaveUpsert, SaveTaken, SavePutBack
<1>13. CASE ReadHeaders \/ ReadRows \/ Match
  BY <1>5, <1>13 DEF ReadHeaders, ReadRows, Match
<1>14. CASE ScanStep \/ ScanFails
  <2>1. ~(\E ids \in SUBSET Id : StartScan(ids)) /\ ~FillRaises /\ ~ScanFails
    BY <1>4 DEF StartScan, FillRaises, ScanFails
  <2>2. \A ids \in SUBSET Id : ~StartScan(ids)
    BY <2>1
  <2>3. ScanBuilds => pc = "build"
    BY DEF ScanBuilds
  <2>4. ScanBuilds => want' = want
    <3>1. ScanBuilds => want = Nothing /\ want' = Nothing
      BY <2>3 DEF WantsNothing, ScanBuilds
    <3> QED  BY <3>1
  <2> QED  BY <1>5, <1>14, <2>1, <2>2, <2>4 DEF ScanStep, ScanBuilds, OtherScanBuilds
<1>15. CASE RefreshStep \/ RefreshFails
  BY <1>5, <1>15 DEF RefreshStep, BeginRefresh, RefreshHeaders, RefreshRows, RefreshBuilds,
                     RefreshFails
<1>16. ~Crash /\ ~(\E k \in DOMAIN sheet : OperatorMoves(k))
  <2>1. ~Fault("crash")
    BY LeftOut DEF Clean
  <2> QED  BY <2>1, NotMoved DEF Crash, Clean
<1>17. CASE UNCHANGED vars
  BY <1>5, <1>17 DEF vars
<1> QED
  BY <1>6, <1>7, <1>8, <1>9, <1>10, <1>11, <1>12, <1>13, <1>14, <1>15, <1>16, <1>17
     DEF Next, FlushStep, WriterStep

\* A step keeps the buffer invariant, while nothing happens that it leaves out.
LEMMA StepBuffer ==
    ASSUME TypeOK, WantsNothing, ScannedNothing, UserInv, BufferInv, PendingKept, [Next]_vars,
           ScannedNothing'
    PROVE  BufferInv' /\ PendingKept'
<1>1. SUFFICES ASSUME Clean'
               PROVE  /\ Latest' /\ RowsOwn' /\ RecordsTrue' /\ FoundTrue' /\ UpdatedShown'
                      /\ \A g \in Id : newest'[g] > 0 =>
                             newest'[g] \in {pending'[g], want'[g]} \cup Shown(g)'
  BY DEF BufferInv, PendingKept, Clean
<1>2. Clean
  BY <1>1, CleanStep DEF Clean
<1>3. Latest /\ RecordsTrue /\ FoundTrue
  BY <1>2 DEF BufferInv
<1>4. Latest' /\ RecordsTrue' /\ FoundTrue'
  BY <1>1, <1>3, StepLatest, StepRecords, StepFound
<1>5. RowsOwn' /\ UpdatedShown'
  BY <1>1, <1>2, StepRows
<1> QED  BY <1>1, <1>2, <1>4, <1>5, StepKept

--------------------------------------------------------------------------------
(* No key has two rows *)

\* While nobody else reads, the writer keeps the records it reads, or newer ones.
LEMMA UncrossedStep ==
    ASSUME TypeOK, [Next]_vars, ~crossed', Without({"rows"})'
    PROVE  /\ ~crossed
           /\ pc = "match" /\ pc' = "match" => records' \in {records, Keys}
<1> USE DEF writer, buffer, refresh, ClearRecords
<1>1. ~Fault("rows")
  BY LeftOut
<1>2. ASSUME crossed' = crossed \/ (crossed' = (crossed \/ RefreshReads))
                                \/ (crossed' = (crossed \/ WriterReads))
                                \/ (crossed' = (crossed \/ RefreshReads \/ WriterReads))
      PROVE  ~crossed
  BY <1>2, Zenon DEF RefreshReads, WriterReads
<1>3. CASE (\E g \in Id : Upsert(g)) \/ SaveUpsert \/ FlushStep
  <2>1. crossed' = crossed
    BY <1>3 DEF Upsert, SaveUpsert, FlushStep, TakePending, SaveTaken, SavePutBack
  <2>2. pc = "match" => records' = records
    BY <1>3 DEF Upsert, SaveUpsert, FlushStep, TakePending, SaveTaken, SavePutBack
  <2> QED  BY <1>2, <2>1, <2>2
<1>4. CASE ReadHeaders \/ PutBack \/ ScanFails
  <2>1. crossed' = (crossed \/ RefreshReads)
    BY <1>4, Zenon DEF ReadHeaders, PutBack, ScanFails
  <2>2. pc = "headers"
    BY <1>4 DEF ReadHeaders, PutBack, ScanFails
  <2> QED  BY <1>2, <2>1, <2>2
<1>5. CASE ReadRows \/ Match \/ Update \/ Insert \/ Fill
  <2>1. crossed' = crossed
    BY <1>5 DEF ReadRows, Match, Update, Insert, Fill
  <2>2. ~(pc = "match" /\ pc' = "match")
    BY <1>5 DEF ReadRows, Match, Update, Insert, Fill
  <2> QED  BY <1>2, <2>1, <2>2
<1>6. CASE (\E ids \in SUBSET Id : StartScan(ids)) \/ FillRaises \/ Crash
  <2>1. crossed' = crossed
    BY <1>6 DEF StartScan, FillRaises, Crash
  <2>2. ~(pc = "match" /\ pc' = "match")
    BY <1>6 DEF StartScan, FillRaises, Crash, Reboot
  <2> QED  BY <1>2, <2>1, <2>2
<1>7. CASE ScanBuilds
  <2>1. crossed' = (crossed \/ RefreshReads) /\ records' = records
    BY <1>7, Zenon DEF ScanBuilds
  <2> QED  BY <1>2, <2>1
<1>8. CASE OtherScanBuilds
  <2>1. crossed' = (crossed \/ RefreshReads \/ WriterReads) /\ records' = records
    BY <1>8, Zenon DEF OtherScanBuilds
  <2> QED  BY <1>2, <2>1
<1>9. CASE BeginRefresh \/ RefreshBuilds \/ (\E k \in DOMAIN sheet : OperatorMoves(k)) \/ UNCHANGED vars
  <2>1. crossed' = crossed /\ records' = records
    BY <1>9 DEF BeginRefresh, RefreshBuilds, OperatorMoves, vars
  <2> QED  BY <1>2, <2>1
<1>10. CASE RefreshHeaders \/ RefreshFails
  <2>1. crossed' = (crossed \/ WriterReads)
    BY <1>10, Zenon DEF RefreshHeaders, RefreshFails
  <2>2. pc # "match"
    BY <2>1, Zenon DEF WriterReads
  <2> QED  BY <1>2, <2>1, <2>2
<1>11. CASE RefreshRows
  <2>1. crossed' = crossed /\ records' = Keys
    BY <1>1, <1>11 DEF RefreshRows, LoadRecords
  <2> QED  BY <1>2, <2>1
<1> QED
  BY <1>3, <1>4, <1>5, <1>6, <1>7, <1>8, <1>9, <1>10, <1>11
     DEF Next, FlushStep, WriterStep, ScanStep, RefreshStep

\* No two of the rows have one key.
Unique == \A j, k \in DOMAIN sheet : sheet[j].id = sheet[k].id /\ sheet[j].id # Blank => j = k

\* What the writer does to the rows gives no key a second one.
LEMMA WriterUnique ==
    ASSUME TypeOK, Unique, NewIsNew, Update \/ Insert \/ Fill
    PROVE  Unique' /\ NewIsNew'
<1> USE DEF writer, buffer, refresh
<1>1. /\ sheet \in Seq(Row) /\ want \in [Id -> Version]
      /\ DOMAIN sheet = 1..Len(sheet) /\ Len(sheet) \in Nat
  BY DEF TypeOK
<1>2. CASE Update
  <2>1. DOMAIN sheet' = DOMAIN sheet /\ \A k \in DOMAIN sheet : sheet'[k].id = sheet[k].id
    BY <1>1, <1>2, UpdatedFacts DEF Update
  <2>2. pc' \in {"update", "insert", "fill"} => New' = New
    BY <1>2 DEF Update, Finish, New
  <2>3. pc = "update"
    BY <1>2 DEF Update
  <2> QED  BY <2>1, <2>2, <2>3 DEF Unique, NewIsNew
<1>3. CASE Insert
  <2>1. New' = New /\ pc = "insert"
    BY <1>3 DEF Insert, New
  <2>2. EmptyRow \in Row /\ EmptyRow.id = Blank /\ Blank \notin New
    BY RowFacts, NewFacts, SheetsAssumption DEF EmptyRow
  <2>3. CASE sheet' = sheet
    BY <2>1, <2>3 DEF Unique, NewIsNew
  <2>4. ASSUME NEW n \in Nat, sheet' = Repeated(EmptyRow, n) \o sheet
        PROVE  Unique' /\ NewIsNew'
    <3> DEFINE t == Repeated(EmptyRow, n) \o sheet
    <3>1. /\ \A k \in 1..n : t[k] = EmptyRow
          /\ \A k \in DOMAIN t : k \in 1..n \/ (k - n \in DOMAIN sheet /\ t[k] = sheet[k - n])
          /\ DOMAIN t \subseteq Nat
      <4>1. t \in Seq(Row)
        BY <1>1, <2>2, InsertedFacts
      <4>2. DOMAIN t \subseteq Nat
        <5> HIDE DEF t
        <5> QED  BY <4>1
      <4>3. /\ \A k \in 1..n : t[k] = EmptyRow
            /\ \A k \in DOMAIN t : k \in 1..n \/ (k - n \in DOMAIN sheet /\ t[k] = sheet[k - n])
        <5>1. sheet \in Seq(Row) /\ EmptyRow \in Row
          BY <1>1, <2>2
        <5> QED  BY <5>1, InsertedFacts
      <4> QED  BY <4>2, <4>3
    <3> HIDE DEF t
    <3>2. /\ \A k \in 1..n : sheet'[k] = EmptyRow
          /\ \A k \in DOMAIN sheet' :
                k \in 1..n \/ (k - n \in DOMAIN sheet /\ sheet'[k] = sheet[k - n])
          /\ DOMAIN sheet' \subseteq Nat
      BY <2>4, <3>1 DEF t
    <3>3. ASSUME NEW k \in DOMAIN sheet', sheet'[k].id # Blank
          PROVE  k - n \in DOMAIN sheet /\ sheet'[k].id = sheet[k - n].id
      BY <2>2, <3>2, <3>3
    <3>4. ASSUME NEW j \in DOMAIN sheet', NEW k \in DOMAIN sheet',
                 sheet'[j].id = sheet'[k].id, sheet'[j].id # Blank
          PROVE  j = k
      <4>1. j - n = k - n
        BY <3>3, <3>4 DEF Unique
      <4> QED  BY <3>2, <4>1
    <3>5. \A k \in DOMAIN sheet' : sheet'[k].id \notin New
      BY <2>1, <2>2, <3>3 DEF NewIsNew
    <3> QED  BY <2>1, <3>4, <3>5 DEF Unique, NewIsNew
  <2>5. Cardinality(New) \in Nat /\ 2 * Cardinality(New) \in Nat
    BY NewFacts
  <2> QED  BY <1>3, <2>3, <2>4, <2>5 DEF Insert
<1>4. CASE Fill
  <2>1. NewIsNew'
    BY <1>4 DEF Fill, Finish, NewIsNew
  <2>2. CASE sheet' = sheet
    BY <2>1, <2>2 DEF Unique
  <2>3. CASE sheet' = Filled
    <3> DEFINE n   == Cardinality(New)
               new == SetToSeq(New)
    <3>1. /\ \A k \in 1..n : new[k] \in New /\ sheet'[k].id = new[k]
          /\ \A k \in DOMAIN sheet' : k \notin 1..n => k \in DOMAIN sheet /\ sheet'[k] = sheet[k]
          /\ \A j, k \in 1..n : new[j] = new[k] => j = k
      BY <1>1, <2>3, FilledFacts
    <3>2. \A k \in DOMAIN sheet : sheet[k].id \notin New
      BY <1>4 DEF Fill, NewIsNew
    <3> HIDE DEF n, new
    <3> QED  BY <2>1, <3>1, <3>2 DEF Unique
  <2> QED  BY <1>4, <2>2, <2>3 DEF Fill
<1> QED  BY <1>2, <1>3, <1>4

\* A row that is moved is still the only one of its key.
LEMMA MovedUnique ==
    ASSUME TypeOK, Unique, NewIsNew, KeysKnown, NEW k \in DOMAIN sheet, OperatorMoves(k)
    PROVE  Unique' /\ NewIsNew' /\ KeysKnown'
<1> DEFINE t       == <<sheet[k]>> \o RemoveAt(sheet, k)
           from(i) == IF i = 1 THEN k ELSE IF i <= k THEN i - 1 ELSE i
<1>1. sheet \in Seq(Row) /\ DOMAIN sheet = 1..Len(sheet) /\ Len(sheet) \in Nat
  BY DEF TypeOK
<1>2. DOMAIN t = DOMAIN sheet /\ \A i \in DOMAIN t : from(i) \in DOMAIN sheet /\ t[i] = sheet[from(i)]
  BY <1>1, MovedFacts
<1>3. sheet' = t /\ UNCHANGED <<records, writer>>
  BY DEF OperatorMoves
<1> HIDE DEF t
<1>4. \A i \in DOMAIN sheet' : from(i) \in DOMAIN sheet /\ sheet'[i] = sheet[from(i)]
  BY <1>2, <1>3
<1>5. \A i, j \in DOMAIN sheet' : from(i) = from(j) => i = j
  BY <1>1, <1>2, <1>3
<1>6. \A i \in DOMAIN sheet' : \E j \in DOMAIN sheet : sheet'[i] = sheet[j]
  BY <1>4
<1>7. Unique'
  <2>1. SUFFICES ASSUME NEW i \in DOMAIN sheet', NEW j \in DOMAIN sheet',
                        sheet'[i].id = sheet'[j].id, sheet'[i].id # Blank
                 PROVE  i = j
    BY DEF Unique
  <2> HIDE DEF from
  <2>2. from(i) = from(j)
    BY <1>4, <2>1 DEF Unique
  <2> QED  BY <1>5, <2>2
<1>8. New' = New
  BY <1>3 DEF New, writer
<1> QED  BY <1>3, <1>6, <1>7, <1>8 DEF NewIsNew, KeysKnown, writer

\* A step gives no key a second row, while no two threads work on the records.
LEMMA StepKeys ==
    ASSUME TypeOK, KeysInv, OneRowPerKey, [Next]_vars
    PROVE  KeysInv' /\ OneRowPerKey'
<1> USE DEF writer, buffer, refresh
<1>1. SUFFICES ASSUME ~crossed', Without({"rows"})'
               PROVE  KeysKnown' /\ NewIsNew' /\ Unique'
  BY DEF KeysInv, OneRowPerKey, Unique
<1>2. /\ ~crossed /\ Without({"rows"})
      /\ pc = "match" /\ pc' = "match" => records' \in {records, Keys}
  BY <1>1, CleanStep, UncrossedStep
<1>3. KeysKnown /\ NewIsNew /\ Unique
  BY <1>2 DEF KeysInv, OneRowPerKey, Unique
<1>4. \A k \in DOMAIN sheet : sheet[k].id # Blank => \E j \in DOMAIN Keys : Keys[j] = sheet[k].id
  BY KeysFacts DEF TypeOK
<1>5. CASE SheetKept
  <2>1. NewIsNew' /\ Unique'
    BY <1>3, <1>5 DEF SheetKept, NewIsNew, New, Unique
  <2>2. KeysKnown'
    BY <1>2, <1>3, <1>4, <1>5 DEF SheetKept, KeysKnown
  <2> QED  BY <2>1, <2>2
<1>6. CASE sheet' = sheet /\ pc' \notin {"rows", "match", "update", "insert", "fill"}
  BY <1>3, <1>6 DEF KeysKnown, NewIsNew, Unique
<1>7. CASE ReadHeaders
  BY <1>3, <1>7 DEF ReadHeaders, KeysKnown, NewIsNew, Unique
<1>8. CASE ReadRows
  <2>1. ~Fault("rows")
    BY <1>1, LeftOut
  <2>2. sheet' = sheet /\ records' = Keys /\ pc' = "match"
    BY <1>8, <2>1 DEF ReadRows, LoadRecords
  <2> QED  BY <1>3, <1>4, <2>2 DEF KeysKnown, NewIsNew, Unique
<1>9. CASE Match
  <2>1. sheet' = sheet /\ pc' = "update" /\ pc = "match" /\ want' = want
        /\ found' = [g \in Id |-> IF want[g] > 0 THEN FirstRow(g) ELSE 0]
    BY <1>9 DEF Match
  <2>2. ASSUME NEW k \in DOMAIN sheet, sheet[k].id \in New'
        PROVE  FALSE
    <3>1. sheet[k].id \in Id /\ want[sheet[k].id] > 0 /\ FirstRow(sheet[k].id) = 0
      BY <2>1, <2>2 DEF New
    <3>2. \A j \in DOMAIN records : records[j] # sheet[k].id
      BY <3>1, FirstRowFacts DEF TypeOK
    <3>3. sheet[k].id # Blank
      BY <3>1, SheetsAssumption
    <3> QED  BY <1>3, <2>1, <3>2, <3>3 DEF KeysKnown
  <2> QED  BY <1>3, <2>1, <2>2 DEF KeysKnown, NewIsNew, Unique
<1>10. CASE Update \/ Insert \/ Fill
  <2>1. Unique' /\ NewIsNew'
    BY <1>3, <1>10, WriterUnique
  <2>2. pc' # "match"
    BY <1>10 DEF Update, Insert, Fill, Finish
  <2> QED  BY <2>1, <2>2 DEF KeysKnown
<1>11. CASE \E k \in DOMAIN sheet : OperatorMoves(k)
  BY <1>3, <1>11, MovedUnique
<1> QED  BY <1>5, <1>6, <1>7, <1>8, <1>9, <1>10, <1>11, SheetStep

--------------------------------------------------------------------------------
(* The theorems *)

LEMMA InitInv ==
    ASSUME Init
    PROVE  IInv
<1>1. TypeOK
  BY InitType
<1>2. /\ pc = "idle" /\ want = Nothing /\ newest = Nothing /\ pending = Nothing
      /\ saved = Nothing /\ saving = NoSave /\ records = <<>>
  BY DEF Init
<1>3. sheet = <<>> \/ sheet = EnteredRows
  BY DEF Init
<1>4. /\ \A k \in DOMAIN sheet : sheet[k].of = sheet[k].id /\ sheet[k].user = sheet[k].id
      /\ \A j, k \in DOMAIN sheet : sheet[j].id = sheet[k].id => j = k
  <2>1. CASE sheet = <<>>
    BY <2>1
  <2>2. CASE sheet = EnteredRows
    BY <2>2, EnteredFacts
  <2> QED  BY <1>3, <2>1, <2>2
<1>5. WantsNothing /\ ScannedNothing /\ SavingPending /\ SavedIsPending
  BY <1>2 DEF WantsNothing, ScannedNothing, SavingPending, SavedIsPending
<1>6. Latest /\ \A g \in Id : newest[g] = 0
  BY <1>2 DEF Latest, Nothing
<1>7. BufferInv /\ PendingKept /\ UserInv /\ UserColumnsKept
  BY <1>2, <1>4, <1>6 DEF BufferInv, PendingKept, UserInv, UserColumnsKept, RowsOwn, RecordsTrue,
                          FoundTrue, UpdatedShown, TopEmpty
<1>8. KeysInv /\ OneRowPerKey
  BY <1>2, <1>4 DEF KeysInv, KeysKnown, NewIsNew, OneRowPerKey
<1> QED  BY <1>1, <1>5, <1>7, <1>8 DEF IInv

LEMMA StepInv ==
    ASSUME IInv, [Next]_vars
    PROVE  IInv'
<1>1. TypeOK'
  BY StepType DEF IInv
<1>2. WantsNothing' /\ ScannedNothing' /\ SavingPending' /\ SavedIsPending'
  BY StepSaving DEF IInv
<1>3. BufferInv' /\ PendingKept'
  BY <1>2, StepBuffer DEF IInv
<1>4. UserInv' /\ UserColumnsKept'
  BY StepUser DEF IInv
<1>5. KeysInv' /\ OneRowPerKey'
  BY StepKeys DEF IInv
<1> QED  BY <1>1, <1>2, <1>3, <1>4, <1>5 DEF IInv

\* The inductive invariant of the table holds whatever fails and however the threads
\* of sheets_manager.py overlap.
THEOREM Invariance == Spec => []IInv
<1>1. Init => IInv
  BY InitInv
<1>2. IInv /\ [Next]_vars => IInv'
  BY StepInv
<1> QED  BY <1>1, <1>2, PTL DEF Spec

\* Every variable keeps its type.
THEOREM TypeCorrect == Spec => []TypeOK
<1>1. IInv => TypeOK
  BY DEF IInv
<1> QED  BY <1>1, Invariance, PTL

\* The write-behind buffer loses no upsert unless a write failed, a row was moved or
\* the process stopped, and SQLite has what is pending unless somebody is saving or two
\* threads saved at once (upsert_t_group_buffered, _flush_t_group_buffer_sync).
THEOREM BufferCorrect == Spec => []BufferKept
<1>1. IInv => BufferKept
  BY DEF IInv, BufferKept
<1> QED  BY <1>1, Invariance, PTL

\* No key gets a second row while no two threads work on the records of its table
\* (find_rows_in_cache, insert_rows_at_top).
THEOREM KeysCorrect == Spec => []OneRowPerKey
<1>1. IInv => OneRowPerKey
  BY DEF IInv
<1> QED  BY <1>1, Invariance, PTL

\* What the operator filled in for a key stays in the row of the key, however the
\* threads overlap and whatever other call fails.  It does not when the insert of the
\* blank rows fails, whose answer nobody looks at, nor when a row is moved between
\* the insert and the fill: in both the fill writes over the rows at the top.
THEOREM ColumnsCorrect == Spec => []UserColumnsKept
<1>1. IInv => UserColumnsKept
  BY DEF IInv
<1> QED  BY <1>1, Invariance, PTL

--------------------------------------------------------------------------------
(* The caches *)

\* No two threads overlap, and nothing fails or is moved that the caches depend on.
Orderly == ~crossed /\ Without({"crash", "headers", "rows", "update", "insert", "moved", "displaced"})

\* The refresh does not read between two reads of the writer.
OneReads == ~(WriterReads /\ pc # "headers" /\ rpc \in {"rows", "build"})

\* What the caches or the records know has a row, ...
CacheShown == \A g \in cache : \E k \in DOMAIN sheet : sheet[k].id = g
RecordsShown ==
    \A j \in DOMAIN records : records[j] # Blank => \E k \in DOMAIN sheet : sheet[k].id = records[j]

\* ... and what the caches know the records know, unless they are being read.
CacheRecorded ==
    pc # "rows" /\ rpc # "rows" => \A g \in cache : \E j \in DOMAIN records : records[j] = g

\* The records of the rows to fill in are blank.
BlankTop ==
    pc = "fill" => Cardinality(New) <= Len(records) /\ \A k \in 1..Cardinality(New) : records[k] = Blank

\* The inductive invariant of the caches.
RouteInv == Orderly => OneReads /\ CacheShown /\ RecordsShown /\ CacheRecorded /\ BlankTop

\* A step that neither writes nor reads, and a step that builds.
Calm ==
    /\ UNCHANGED <<sheet, records, cache>>
    /\ \/ UNCHANGED <<pc, want, found>>
       \/ pc \notin {"rows", "match", "update", "insert", "fill", "build"} /\ pc' \in {"idle", "save", "headers"}
    /\ rpc' = rpc \/ (rpc = "idle" /\ rpc' = "headers")

Builds ==
    /\ cache' = ToSet(records) \ {Blank} /\ UNCHANGED <<sheet, records, want, found>>
    /\ pc # "rows" /\ (pc' = pc \/ pc' = "idle")
    /\ rpc \in {"idle", "build"} /\ rpc' = "idle"

LEMMA OrderlyStep ==
    ASSUME TypeOK, [Next]_vars, Orderly'
    PROVE  Orderly
<1>1. Without({"crash", "headers", "rows", "update", "insert", "moved", "displaced"})
  BY CleanStep DEF Orderly
<1>2. Without({"rows"})' /\ ~crossed'
  BY Zenon DEF Orderly, Without
<1> QED  BY <1>1, <1>2, UncrossedStep DEF Orderly

\* What the writer and the refresh do then.
LEMMA OrderlyMoves ==
    ASSUME TypeOK, OneReads, [Next]_vars, Orderly'
    PROVE  \/ Calm \/ Builds
           \/ ReadHeaders /\ rpc = "idle"
           \/ ReadRows /\ records' = Keys
           \/ Match \/ Update \/ Insert \/ Fill \/ FillRaises
           \/ RefreshHeaders /\ ~WriterReads
           \/ RefreshRows /\ records' = Keys
<1> USE DEF writer, buffer, refresh
<1>1. /\ ~Fault("crash") /\ ~Fault("headers") /\ ~Fault("rows")
  BY LeftOut DEF Orderly
<1>2. ~PutBack /\ ~ScanFails /\ ~RefreshFails /\ ~Crash /\ ~\E k \in DOMAIN sheet : OperatorMoves(k)
  BY <1>1, NotMoved DEF PutBack, ScanFails, RefreshFails, Crash, Orderly
<1>3. ~crossed'
  BY Zenon DEF Orderly
<1>4. CASE (\E g \in Id : Upsert(g)) \/ SaveUpsert \/ FlushStep \/ (\E ids \in SUBSET Id : StartScan(ids))
           \/ BeginRefresh \/ UNCHANGED vars
  BY <1>4 DEF Upsert, SaveUpsert, FlushStep, TakePending, SaveTaken, SavePutBack, StartScan, BeginRefresh,
              vars, Calm
<1>5. CASE ReadHeaders
  <2>1. crossed' = (crossed \/ RefreshReads)
    BY <1>5, Zenon DEF ReadHeaders, ClearRecords
  <2>2. ~RefreshReads
    BY <1>3, <2>1, Zenon DEF RefreshReads
  <2> QED  BY <1>5, <2>2 DEF RefreshReads
<1>6. CASE RefreshHeaders
  <2>1. crossed' = (crossed \/ WriterReads)
    BY <1>6, Zenon DEF RefreshHeaders, ClearRecords
  <2>2. ~WriterReads
    BY <1>3, <2>1, Zenon DEF WriterReads
  <2> QED  BY <1>6, <2>2
<1>7. CASE ReadRows \/ RefreshRows
  BY <1>1, <1>7 DEF ReadRows, RefreshRows, LoadRecords
<1>8. CASE ScanBuilds
  <2>1. crossed' = (crossed \/ RefreshReads)
    BY <1>8, Zenon DEF ScanBuilds
  <2>2. ~RefreshReads
    BY <1>3, <2>1, Zenon DEF RefreshReads
  <2> QED  BY <1>8, <2>2 DEF ScanBuilds, BuildCaches, RefreshReads, Builds
<1>9. CASE OtherScanBuilds
  <2>1. crossed' = (crossed \/ RefreshReads \/ WriterReads)
    BY <1>9, Zenon DEF OtherScanBuilds
  <2>2. ~RefreshReads /\ ~WriterReads
    BY <1>3, <2>1, Zenon DEF RefreshReads, WriterReads
  <2> QED  BY <1>9, <2>2 DEF OtherScanBuilds, BuildCaches, RefreshReads, WriterReads, Builds
<1>10. CASE RefreshBuilds
  BY <1>10 DEF RefreshBuilds, BuildCaches, Builds, OneReads, WriterReads
<1> QED
  BY <1>2, <1>4, <1>5, <1>6, <1>7, <1>8, <1>9, <1>10
     DEF Next, WriterStep, ScanStep, RefreshStep

\* What is read is what has a row, and all of it.
LEMMA ReadRoutes ==
    ASSUME TypeOK, CacheShown, UNCHANGED <<sheet, cache>>, records' = Keys
    PROVE  CacheShown' /\ RecordsShown' /\ CacheRecorded'
<1>1. /\ \A k \in DOMAIN Keys : k \in DOMAIN sheet /\ Keys[k] = sheet[k].id
      /\ \A k \in DOMAIN sheet : sheet[k].id # Blank => k \in DOMAIN Keys /\ Keys[k] = sheet[k].id
  BY KeysFacts DEF TypeOK
<1>2. \A g \in cache : g # Blank
  BY SheetsAssumption DEF TypeOK
<1> HIDE DEF Keys
<1>3. CacheShown'
  BY DEF CacheShown
<1>4. RecordsShown'
  BY <1>1 DEF RecordsShown
<1>5. CacheRecorded'
  BY <1>1, <1>2 DEF CacheShown, CacheRecorded
<1> QED  BY <1>3, <1>4, <1>5

\* Blank rows and records hide nothing.
LEMMA InsertRoutes ==
    ASSUME TypeOK, CacheShown, RecordsShown, CacheRecorded, Insert, ~Fault("insert")
    PROVE  CacheShown' /\ RecordsShown' /\ CacheRecorded' /\ BlankTop'
<1> DEFINE n == Cardinality(New)
<1>1. /\ n \in Nat /\ 2 * n \in Nat /\ New' = New
      /\ sheet \in Seq(Row) /\ records \in Seq(Cells) /\ Blank \in Cells /\ EmptyRow \in Row
  <2>1. n \in Nat /\ 2 * n \in Nat
    BY NewFacts
  <2>2. New' = New
    BY DEF Insert, New
  <2>3. sheet \in Seq(Row) /\ records \in Seq(Cells) /\ Blank \in Cells
    BY DEF TypeOK, Cells
  <2> QED  BY <2>1, <2>2, <2>3, RowFacts
<1>2. /\ pc = "insert" /\ pc' = "fill" /\ cache' = cache /\ rpc' = rpc
      /\ records' = Repeated(Blank, n) \o records
      /\ sheet' = Repeated(EmptyRow, n) \o sheet \/ sheet' = Repeated(EmptyRow, 2 * n) \o sheet
  BY DEF Insert, refresh
<1> HIDE DEF n
<1>3. \E m \in Nat : sheet' = Repeated(EmptyRow, m) \o sheet
  BY <1>1, <1>2
<1>4. \A k \in DOMAIN sheet : \E i \in DOMAIN sheet' : sheet'[i] = sheet[k]
  <2>1. PICK m \in Nat : sheet' = Repeated(EmptyRow, m) \o sheet
    BY <1>3
  <2> DEFINE t == Repeated(EmptyRow, m) \o sheet
  <2>2. \A k \in DOMAIN sheet : m + k \in DOMAIN t /\ t[m + k] = sheet[k]
    <3>1. sheet \in Seq(Row) /\ EmptyRow \in Row
      BY <1>1
    <3> QED  BY <3>1, InsertedFacts
  <2>3. sheet' = t
    BY <2>1
  <2> HIDE DEF t
  <2> QED  BY <2>2, <2>3
<1>5. /\ Len(records') = n + Len(records)
      /\ \A k \in 1..n : records'[k] = Blank
      /\ \A k \in DOMAIN records : n + k \in DOMAIN records' /\ records'[n + k] = records[k]
      /\ \A k \in DOMAIN records' : k \in 1..n \/ (k - n \in DOMAIN records /\ records'[k] = records[k - n])
  <2> DEFINE t == Repeated(Blank, n) \o records
  <2>1. /\ Len(t) = n + Len(records)
        /\ \A k \in 1..n : t[k] = Blank
        /\ \A k \in DOMAIN records : n + k \in DOMAIN t /\ t[n + k] = records[k]
        /\ \A k \in DOMAIN t : k \in 1..n \/ (k - n \in DOMAIN records /\ t[k] = records[k - n])
    <3>1. n \in Nat /\ records \in Seq(Cells) /\ Blank \in Cells
      BY <1>1
    <3>2. Len(t) = n + Len(records)
      BY <3>1, InsertedFacts
    <3>3. \A k \in 1..n : t[k] = Blank
      BY <3>1, InsertedFacts
    <3>4. \A k \in DOMAIN records : n + k \in DOMAIN t /\ t[n + k] = records[k]
      BY <3>1, InsertedFacts
    <3>5. \A k \in DOMAIN t : k \in 1..n \/ (k - n \in DOMAIN records /\ t[k] = records[k - n])
      BY <3>1, InsertedFacts
    <3> QED  BY <3>2, <3>3, <3>4, <3>5
  <2>2. records' = t
    BY <1>2
  <2> HIDE DEF t
  <2> QED  BY <2>1, <2>2
<1>6. CacheShown'
  BY <1>2, <1>4 DEF CacheShown
<1>7. RecordsShown'
  <2>1. SUFFICES ASSUME NEW j \in DOMAIN records', records'[j] # Blank
                 PROVE  \E k \in DOMAIN sheet' : sheet'[k].id = records'[j]
    BY DEF RecordsShown
  <2>2. PICK i \in DOMAIN records : records'[j] = records[i]
    BY <1>5, <2>1
  <2> QED  BY <1>4, <2>1, <2>2 DEF RecordsShown
<1>8. CacheRecorded'
  <2>1. SUFFICES ASSUME rpc # "rows", NEW g \in cache
                 PROVE  \E j \in DOMAIN records' : records'[j] = g
    BY <1>2 DEF CacheRecorded
  <2>2. PICK j \in DOMAIN records : records[j] = g
    BY <1>2, <2>1 DEF CacheRecorded
  <2> QED  BY <1>5, <2>2
<1>9. BlankTop'
  <2>1. Len(records) \in Nat
    BY <1>1
  <2>2. n <= Len(records')
    BY <1>1, <1>5, <2>1
  <2> QED  BY <1>1, <1>5, <2>2 DEF BlankTop, n
<1> QED  BY <1>6, <1>7, <1>8, <1>9

\* What is filled in was blank, on the sheet and in the records.
LEMMA FillRoutes ==
    ASSUME TypeOK, TopEmpty, CacheShown, RecordsShown, CacheRecorded, BlankTop, Fill, ~Fault("update")
    PROVE  CacheShown' /\ RecordsShown' /\ CacheRecorded'
<1> DEFINE n   == Cardinality(New)
           new == SetToSeq(New)
<1>1. /\ sheet \in Seq(Row) /\ want \in [Id -> Version] /\ records \in Seq(Cells)
      /\ DOMAIN sheet = 1..Len(sheet) /\ Len(sheet) \in Nat
      /\ DOMAIN records = 1..Len(records) /\ Len(records) \in Nat
      /\ \A g \in cache : g # Blank
  BY SheetsAssumption DEF TypeOK
<1>2. /\ pc = "fill" /\ sheet' = Filled /\ UNCHANGED <<cache, rpc>>
      /\ records' = records \/ records' = FilledRecords
  BY DEF Fill, refresh
<1>3. /\ n \in Nat
      /\ \A k \in 1..n : k \in DOMAIN Filled /\ Filled[k].id = new[k]
      /\ \A k \in DOMAIN Filled : k \notin 1..n => k \in DOMAIN sheet /\ Filled[k] = sheet[k]
      /\ \A k \in DOMAIN sheet : k \in DOMAIN Filled
  BY <1>1, FilledFacts
<1>4. Len(new) = n
  BY NewFacts, SetToSeqFacts
<1>5. /\ \A k \in 1..n : sheet[k] = EmptyRow
      /\ n <= Len(records) /\ \A k \in 1..n : records[k] = Blank
  BY <1>2 DEF TopEmpty, BlankTop
<1>6. FilledRecords = [k \in DOMAIN records |-> IF k <= Len(new) THEN new[k] ELSE records[k]]
  BY DEF FilledRecords
<1> HIDE DEF n, new
<1>7. \A k \in DOMAIN sheet : sheet[k].id # Blank => k \in DOMAIN sheet' /\ sheet'[k] = sheet[k]
  <2>1. EmptyRow.id = Blank
    BY DEF EmptyRow
  <2> QED  BY <1>2, <1>3, <1>5, <2>1
<1>8. CacheShown'
  <2>1. SUFFICES ASSUME NEW g \in cache
                 PROVE  \E k \in DOMAIN sheet' : sheet'[k].id = g
    BY <1>2 DEF CacheShown
  <2>2. PICK k \in DOMAIN sheet : sheet[k].id = g
    BY DEF CacheShown
  <2> QED  BY <1>1, <1>7, <2>2
<1>9. \A j \in DOMAIN records : records[j] # Blank => \E k \in DOMAIN sheet' : sheet'[k].id = records[j]
  BY <1>7 DEF RecordsShown
<1>10. CASE records' = records
  BY <1>2, <1>8, <1>9, <1>10 DEF RecordsShown, CacheRecorded
<1>11. CASE records' = FilledRecords
  <2>1. DOMAIN records' = DOMAIN records
    BY <1>6, <1>11
  <2>2. \A j \in DOMAIN records : j \in 1..n => records'[j] = new[j]
    BY <1>1, <1>3, <1>4, <1>6, <1>11
  <2>3. \A j \in DOMAIN records : j \notin 1..n => records'[j] = records[j]
    BY <1>1, <1>3, <1>4, <1>6, <1>11
  <2>4. RecordsShown'
    <3>1. SUFFICES ASSUME NEW j \in DOMAIN records, records'[j] # Blank
                   PROVE  \E k \in DOMAIN sheet' : sheet'[k].id = records'[j]
      BY <2>1 DEF RecordsShown
    <3>2. CASE j \in 1..n
      BY <1>2, <1>3, <2>2, <3>2
    <3>3. CASE j \notin 1..n
      BY <1>9, <2>3, <3>1, <3>3
    <3> QED  BY <3>2, <3>3
  <2>5. CacheRecorded'
    <3>1. SUFFICES ASSUME rpc # "rows", NEW g \in cache
                   PROVE  \E j \in DOMAIN records' : records'[j] = g
      BY <1>2 DEF CacheRecorded
    <3>2. PICK j \in DOMAIN records : records[j] = g
      BY <1>2, <3>1 DEF CacheRecorded
    <3>3. j \notin 1..n
      BY <1>1, <1>5, <3>2
    <3> QED  BY <2>1, <2>3, <3>2, <3>3
  <2> QED  BY <1>8, <2>4, <2>5
<1> QED  BY <1>2, <1>10, <1>11

LEMMA StepRoute ==
    ASSUME TypeOK, UserInv, RouteInv, [Next]_vars
    PROVE  RouteInv'
<1> USE DEF writer, buffer, refresh
<1>1. SUFFICES ASSUME Orderly'
               PROVE  OneReads' /\ CacheShown' /\ RecordsShown' /\ CacheRecorded' /\ BlankTop'
  BY DEF RouteInv
<1>2. Orderly /\ OneReads /\ CacheShown /\ RecordsShown /\ CacheRecorded /\ BlankTop
  BY <1>1, OrderlyStep DEF RouteInv
<1>3. TopEmpty /\ ~Fault("insert") /\ ~Fault("update")
  <2>1. Without({"insert", "displaced"})
    BY <1>2, Zenon DEF Orderly, Without
  <2>2. ~Fault("insert") /\ ~Fault("update")
    BY <1>1, LeftOut DEF Orderly
  <2> QED  BY <2>1, <2>2 DEF UserInv
<1>4. CASE Calm
  <2>1. UNCHANGED <<sheet, records, cache>>
    BY <1>4 DEF Calm
  <2>2. OneReads'
    BY <1>2, <1>4 DEF Calm, OneReads, WriterReads
  <2>3. CacheShown' /\ RecordsShown'
    BY <1>2, <2>1 DEF CacheShown, RecordsShown
  <2>4. CacheRecorded'
    <3>1. pc' # "rows" /\ rpc' # "rows" => pc # "rows" /\ rpc # "rows"
      BY <1>4 DEF Calm
    <3> QED  BY <1>2, <2>1, <3>1 DEF CacheRecorded
  <2>5. BlankTop'
    <3>1. pc' = "fill" => pc = "fill" /\ New' = New
      BY <1>4 DEF Calm, New
    <3> QED  BY <1>2, <2>1, <3>1 DEF BlankTop
  <2> QED  BY <2>2, <2>3, <2>4, <2>5
<1>5. CASE Builds
  <2>1. OneReads' /\ UNCHANGED <<sheet, records>>
    BY <1>2, <1>5 DEF Builds, OneReads
  <2>2. \A g \in cache' : g # Blank /\ \E j \in DOMAIN records : records[j] = g
    BY <1>5 DEF Builds, ToSet
  <2>3. CacheShown' /\ RecordsShown' /\ CacheRecorded'
    BY <1>2, <2>1, <2>2 DEF CacheShown, RecordsShown, CacheRecorded
  <2>4. BlankTop'
    <3>1. pc' = "fill" => pc = "fill" /\ New' = New
      BY <1>5 DEF Builds, New
    <3> QED  BY <1>2, <2>1, <3>1 DEF BlankTop
  <2> QED  BY <2>1, <2>3, <2>4
<1>6. CASE (ReadHeaders /\ rpc = "idle") \/ (RefreshHeaders /\ ~WriterReads)
  <2>1. UNCHANGED <<sheet, cache>> /\ records' = <<>>
    BY <1>6 DEF ReadHeaders, RefreshHeaders, ClearRecords
  <2>2. OneReads' /\ pc' # "fill" /\ (pc' = "rows" \/ rpc' = "rows")
    BY <1>6 DEF ReadHeaders, RefreshHeaders, OneReads, WriterReads
  <2> QED  BY <1>2, <2>1, <2>2 DEF CacheShown, RecordsShown, CacheRecorded, BlankTop
<1>7. CASE (ReadRows \/ RefreshRows) /\ records' = Keys
  <2>1. UNCHANGED <<sheet, cache>>
    BY <1>7 DEF ReadRows, RefreshRows
  <2>2. CacheShown' /\ RecordsShown' /\ CacheRecorded'
    BY <1>2, <1>7, <2>1, ReadRoutes
  <2>3. OneReads' /\ pc' # "fill"
    BY <1>2, <1>7 DEF ReadRows, RefreshRows, OneReads, WriterReads
  <2> QED  BY <2>2, <2>3 DEF BlankTop
<1>8. CASE Match
  BY <1>2, <1>8 DEF Match, OneReads, WriterReads, CacheShown, RecordsShown, CacheRecorded, BlankTop
<1>9. CASE Update
  <2>1. UNCHANGED <<records, cache, rpc>> /\ pc = "update" /\ pc' \in {"insert", "idle", "build"}
    BY <1>9 DEF Update, Finish
  <2>2. DOMAIN sheet' = DOMAIN sheet /\ \A k \in DOMAIN sheet : sheet'[k].id = sheet[k].id
    BY <1>9, UpdatedFacts DEF Update, TypeOK
  <2>3. OneReads'
    BY <1>2, <2>1 DEF OneReads, WriterReads
  <2>4. CacheShown' /\ RecordsShown'
    BY <1>2, <2>1, <2>2 DEF CacheShown, RecordsShown
  <2>5. CacheRecorded' /\ BlankTop'
    BY <1>2, <2>1 DEF CacheRecorded, BlankTop
  <2> QED  BY <2>3, <2>4, <2>5
<1>10. CASE Insert
  <2>1. OneReads'
    BY <1>2, <1>10 DEF Insert, OneReads, WriterReads
  <2> QED  BY <1>2, <1>3, <1>10, <2>1, InsertRoutes
<1>11. CASE Fill
  <2>1. OneReads' /\ BlankTop'
    BY <1>2, <1>11 DEF Fill, Finish, OneReads, WriterReads, BlankTop
  <2> QED  BY <1>2, <1>3, <1>11, <2>1, FillRoutes
<1>12. ~FillRaises
  <2>1. Cardinality(New) \in Nat /\ Len(records) \in Nat
    BY NewFacts DEF TypeOK
  <2> QED  BY <1>2, <2>1 DEF FillRaises, BlankTop
<1> QED
  BY <1>1, <1>2, <1>4, <1>5, <1>6, <1>7, <1>8, <1>9, <1>10, <1>11, <1>12, OrderlyMoves

\* Only a step that builds changes the caches, and it builds them from all rows.
LEMMA RoutesStay ==
    ASSUME TypeOK, RouteInv, [Next]_vars, Orderly'
    PROVE  cache \subseteq cache'
<1> USE DEF writer, buffer, refresh
<1>1. Orderly /\ OneReads /\ CacheRecorded /\ BlankTop
  BY OrderlyStep DEF RouteInv
<1>2. CASE Builds
  <2>1. \A g \in cache : g # Blank
    BY SheetsAssumption DEF TypeOK
  <2>2. \A g \in cache : \E j \in DOMAIN records : records[j] = g
    BY <1>1, <1>2 DEF Builds, CacheRecorded
  <2> QED  BY <1>2, <2>1, <2>2 DEF Builds, ToSet
<1>3. ~FillRaises
  <2>1. Cardinality(New) \in Nat /\ Len(records) \in Nat
    BY NewFacts DEF TypeOK
  <2> QED  BY <1>1, <2>1 DEF FillRaises, BlankTop
<1>4. CASE Calm
  BY <1>4 DEF Calm
<1>5. CASE ReadHeaders \/ ReadRows \/ Match \/ Update \/ Insert \/ Fill
  BY <1>5 DEF ReadHeaders, ReadRows, Match, Update, Insert, Fill
<1>6. CASE RefreshHeaders \/ RefreshRows
  BY <1>6 DEF RefreshHeaders, RefreshRows
<1> QED  BY <1>1, <1>2, <1>3, <1>4, <1>5, <1>6, OrderlyMoves

\* What the caches know has a row, and the records know it when the caches are built.
THEOREM RouteInvariance == Spec => []RouteInv
<1>1. Init => RouteInv
  BY DEF Init, RouteInv, OneReads, WriterReads, CacheShown, RecordsShown, CacheRecorded, BlankTop
<1>2. IInv /\ RouteInv /\ [Next]_vars => RouteInv'
  BY StepRoute DEF IInv
<1> QED  BY <1>1, <1>2, Invariance, PTL DEF Spec

\* The routing caches forget nothing they knew, though they are built from records that
\* other threads clear and read anew (_build_caches_from_managers, refresh_table).
THEOREM RoutesCorrect == Spec => RoutesKept
<1>1. ASSUME IInv, RouteInv, [Next]_vars
      PROVE  [Without({"crash", "headers", "rows", "update", "insert", "moved", "displaced"})' /\ ~crossed' =>
                cache \subseteq cache']_vars
  <2>1. ASSUME Without({"crash", "headers", "rows", "update", "insert", "moved", "displaced"})' /\ ~crossed'
        PROVE  cache \subseteq cache'
    <3>1. Orderly'
      BY <2>1, Zenon DEF Orderly
    <3> QED  BY <1>1, <3>1, RoutesStay DEF IInv
  <2> QED  BY <2>1
<1> QED  BY <1>1, Invariance, RouteInvariance, PTL DEF Spec, RoutesKept
================================================================================
