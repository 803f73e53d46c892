--------------------------- MODULE HashMapProofs ---------------------------
(***************************************************************************)
(* Proofs about HashMap, for every set of keys and values, every hash      *)
(* function, every first width from 4 on and every number of steps.        *)
(***************************************************************************)
EXTENDS HashMap, FiniteSetTheorems, TLAPS

Searchable(t, w) ==
    \A i \in 0 .. w - 1 :
        t.states[i] = "occupied" =>
            t.entries[i] \in Entry /\ FoundAt(t, w, t.entries[i].key, i)

KeyAbsent(t, w, k) == \A i \in 0 .. w - 1 : ~Matches(t, i, k)

-----------------------------------------------------------------------------
(* Probe runs. *)
LEMMA HomeInTable ==
    ASSUME NEW k \in Key, NEW w \in Nat, w > 0
    PROVE  Home(k, w) \in 0 .. w - 1
BY HashAssumption DEF Home

LEMMA RunInTable ==
    ASSUME NEW w \in Nat, NEW h \in 0 .. w - 1, NEW s \in 0 .. w - 1
    PROVE  Before(w, h, s) \subseteq (0 .. w - 1) \ {s}
BY DEF Before

LEMMA RunsAreOrdered ==
    ASSUME NEW w \in Nat, NEW h \in 0 .. w - 1,
           NEW i \in 0 .. w - 1, NEW j \in 0 .. w - 1, i # j
    PROVE  i \in Before(w, h, j) \/ j \in Before(w, h, i)
BY DEF Before

(* A search has one answer. *)
LEMMA FoundOnce ==
    ASSUME NEW t, NEW w \in Nat, NEW k \in Key,
           NEW i \in 0 .. w - 1, NEW j \in 0 .. w - 1,
           FoundAt(t, w, k, i), FoundAt(t, w, k, j)
    PROVE  i = j
<1>1. w > 0 BY DEF FoundAt
<1>2. Home(k, w) \in 0 .. w - 1 BY <1>1, HomeInTable
<1>3. ASSUME i # j PROVE FALSE
  <2>1. i \in Before(w, Home(k, w), j) \/ j \in Before(w, Home(k, w), i)
    BY <1>2, <1>3, RunsAreOrdered
  <2>2. QED BY <2>1 DEF FoundAt
<1>4. QED BY <1>3

LEMMA KeysDiffer ==
    ASSUME NEW w \in Nat, NEW t \in Tables(w), Searchable(t, w),
           NEW k \in Key, NEW i \in 0 .. w - 1, NEW j \in 0 .. w - 1,
           Matches(t, i, k), Matches(t, j, k)
    PROVE  i = j
<1>1. FoundAt(t, w, k, i) /\ FoundAt(t, w, k, j) BY DEF Searchable, Matches
<1>2. QED BY <1>1, FoundOnce

(* Placing an entry under a key that the table does not hold, at the first *)
(* slot of its run that is not occupied, hides no key.                      *)
LEMMA WriteKeepsSearchable ==
    ASSUME NEW w \in Nat, NEW t \in Tables(w), Searchable(t, w), NEW e \in Entry,
           NEW s \in 0 .. w - 1, FreeAt(t, w, e.key, s), KeyAbsent(t, w, e.key)
    PROVE  /\ WriteEntry(t, s, e) \in Tables(w)
           /\ Searchable(WriteEntry(t, s, e), w)
<1> DEFINE u == WriteEntry(t, s, e)
<1>1. /\ u.states = [t.states EXCEPT ![s] = "occupied"]
      /\ u.entries = [t.entries EXCEPT ![s] = e]
  BY DEF WriteEntry
<1>2. u \in Tables(w) BY DEF WriteEntry, Tables, State
<1>3. /\ t.states \in [0 .. w - 1 -> State]
      /\ t.entries \in [0 .. w - 1 -> Entry \cup {Nothing}]
      /\ e.key \in Key /\ w > 0
  BY DEF Tables, Entry
<1>4. /\ u.states[s] = "occupied" /\ u.entries[s] = e
      /\ \A i \in 0 .. w - 1 : i # s => u.states[i] = t.states[i] /\ u.entries[i] = t.entries[i]
  BY <1>1, <1>3
<1> HIDE DEF u
<1>5. ASSUME NEW i \in 0 .. w - 1, u.states[i] = "occupied"
      PROVE  u.entries[i] \in Entry /\ FoundAt(u, w, u.entries[i].key, i)
  <2>1. CASE i = s
    <3>1. Home(e.key, w) \in 0 .. w - 1 BY <1>3, HomeInTable
    <3>2. ASSUME NEW j \in Before(w, Home(e.key, w), s)
          PROVE  u.states[j] # "vacant" /\ ~Matches(u, j, e.key)
      <4>1. j \in 0 .. w - 1 /\ j # s BY <3>1, RunInTable
      <4>2. t.states[j] = "occupied" BY DEF FreeAt
      <4>3. QED BY <1>4, <4>1, <4>2 DEF KeyAbsent, Matches
    <3>3. QED BY <1>4, <2>1, <3>2 DEF FoundAt, Matches
  <2>2. CASE i # s
    <3> DEFINE k == t.entries[i].key
    <3>1. u.entries[i] = t.entries[i] /\ t.states[i] = "occupied" BY <1>4, <1>5, <2>2
    <3>2. FoundAt(t, w, k, i) /\ t.entries[i] \in Entry BY <3>1 DEF Searchable
    <3>3. k # e.key BY <3>1 DEF KeyAbsent, Matches
    <3>4. ASSUME NEW j \in Before(w, Home(k, w), i)
          PROVE  u.states[j] # "vacant" /\ ~Matches(u, j, k)
      <4>1. t.states[j] # "vacant" /\ ~Matches(t, j, k) BY <3>2 DEF FoundAt
      <4>2. CASE j = s BY <1>4, <3>3, <4>2 DEF Matches
      <4>3. CASE j # s
        <5>1. u.states[j] = t.states[j] /\ u.entries[j] = t.entries[j]
          BY <1>1, <1>3, <4>3
        <5>2. QED BY <4>1, <5>1 DEF Matches
      <4>4. QED BY <4>2, <4>3
    <3>5. QED BY <1>5, <3>1, <3>2, <3>4 DEF FoundAt, Matches
  <2>3. QED BY <2>1, <2>2
<1>6. Searchable(u, w) BY <1>5 DEF Searchable
<1>7. QED BY <1>2, <1>6 DEF u

LEMMA EntryWritten ==
    ASSUME NEW w \in Nat, NEW t \in Tables(w), NEW s \in 0 .. w - 1,
           NEW e \in Entry \cup {Nothing}
    PROVE  /\ [t EXCEPT !.entries[s] = e] \in Tables(w)
           /\ [t EXCEPT !.entries[s] = e].states = t.states
           /\ [t EXCEPT !.entries[s] = e].entries = [t.entries EXCEPT ![s] = e]
BY DEF Tables

(* Replacing the value of a key, and removing a key, hide no other key. *)
LEMMA ExchangeKeepsSearchable ==
    ASSUME NEW w \in Nat, NEW t \in Tables(w), Searchable(t, w), NEW e \in Entry,
           NEW s \in 0 .. w - 1, Matches(t, s, e.key)
    PROVE  /\ [t EXCEPT !.entries[s] = e] \in Tables(w)
           /\ Searchable([t EXCEPT !.entries[s] = e], w)
<1> DEFINE u == [t EXCEPT !.entries[s] = e]
<1>1. u.states = t.states /\ u.entries = [t.entries EXCEPT ![s] = e] BY DEF Tables
<1>2. u \in Tables(w) BY DEF Tables
<1>3. /\ t.states \in [0 .. w - 1 -> State]
      /\ t.entries \in [0 .. w - 1 -> Entry \cup {Nothing}]
      /\ e.key \in Key /\ w > 0
  BY DEF Tables, Entry
<1>4. ASSUME NEW i \in 0 .. w - 1
      PROVE  u.states[i] = t.states[i]
             /\ (t.states[i] = "occupied" => u.entries[i].key = t.entries[i].key)
  BY <1>1, <1>3 DEF Matches
<1> HIDE DEF u
<1>5. ASSUME NEW i \in 0 .. w - 1, u.states[i] = "occupied"
      PROVE  u.entries[i] \in Entry /\ FoundAt(u, w, u.entries[i].key, i)
  <2> DEFINE k == t.entries[i].key
  <2>1. t.states[i] = "occupied" /\ u.entries[i].key = k BY <1>4, <1>5
  <2>2. FoundAt(t, w, k, i) BY <2>1 DEF Searchable
  <2>3. k \in Key /\ u.entries[i] \in Entry BY <1>1, <1>3, <2>1 DEF Searchable, Entry
  <2>4. Home(k, w) \in 0 .. w - 1 BY <1>3, <2>3, HomeInTable
  <2>5. ASSUME NEW j \in Before(w, Home(k, w), i)
        PROVE  u.states[j] # "vacant" /\ ~Matches(u, j, k)
    <3>1. j \in 0 .. w - 1 BY <2>4, RunInTable
    <3>2. t.states[j] # "vacant" /\ ~Matches(t, j, k) BY <2>2 DEF FoundAt
    <3>3. QED BY <1>4, <3>1, <3>2 DEF Matches
  <2>6. QED BY <1>5, <2>1, <2>3, <2>5 DEF FoundAt, Matches
<1>6. QED BY <1>2, <1>5 DEF u, Searchable

RemovedFrom(t, s) ==
    [states |-> [t.states EXCEPT ![s] = "removed"],
     entries |-> [t.entries EXCEPT ![s] = Nothing]]

LEMMA RemoveKeepsSearchable ==
    ASSUME NEW w \in Nat, NEW t \in Tables(w), Searchable(t, w), NEW s \in 0 .. w - 1
    PROVE  /\ RemovedFrom(t, s) \in Tables(w)
           /\ Searchable(RemovedFrom(t, s), w)
<1> DEFINE u == RemovedFrom(t, s)
<1>1. /\ u.states = [t.states EXCEPT ![s] = "removed"]
      /\ u.entries = [t.entries EXCEPT ![s] = Nothing]
  BY DEF RemovedFrom
<1>2. u \in Tables(w) BY DEF RemovedFrom, Tables, State
<1>3. /\ t.states \in [0 .. w - 1 -> State]
      /\ t.entries \in [0 .. w - 1 -> Entry \cup {Nothing}]
      /\ w > 0
  BY DEF Tables
<1>4. /\ u.states[s] = "removed"
      /\ \A i \in 0 .. w - 1 : i # s => u.states[i] = t.states[i] /\ u.entries[i] = t.entries[i]
  BY <1>1, <1>3
<1> HIDE DEF u
<1>5. ASSUME NEW i \in 0 .. w - 1, u.states[i] = "occupied"
      PROVE  u.entries[i] \in Entry /\ FoundAt(u, w, u.entries[i].key, i)
  <2> DEFINE k == t.entries[i].key
  <2>1. i # s /\ t.states[i] = "occupied" /\ u.entries[i] = t.entries[i] BY <1>4, <1>5
  <2>2. t.entries[i] \in Entry /\ FoundAt(t, w, k, i) BY <2>1 DEF Searchable
  <2>3. k \in Key BY <2>2 DEF Entry
  <2>4. Home(k, w) \in 0 .. w - 1 BY <1>3, <2>3, HomeInTable
  <2>5. ASSUME NEW j \in Before(w, Home(k, w), i)
        PROVE  u.states[j] # "vacant" /\ ~Matches(u, j, k)
    <3>1. j \in 0 .. w - 1 BY <2>4, RunInTable
    <3>2. t.states[j] # "vacant" /\ ~Matches(t, j, k) BY <2>2 DEF FoundAt
    <3>3. CASE j = s BY <1>4, <3>3 DEF Matches
    <3>4. CASE j # s BY <1>4, <3>1, <3>2, <3>4 DEF Matches
    <3>5. QED BY <3>3, <3>4
  <2>6. QED BY <1>5, <2>1, <2>2, <2>5 DEF FoundAt, Matches
<1>6. QED BY <1>2, <1>5 DEF u, Searchable

LEMMA VacantIsSearchable ==
    ASSUME NEW w \in Nat
    PROVE  /\ VacantTable(w) \in Tables(w)
           /\ Searchable(VacantTable(w), w)
           /\ \A k : KeyAbsent(VacantTable(w), w, k)
           /\ Occupied(VacantTable(w)) = {} /\ Initialised(VacantTable(w)) = {}
BY DEF VacantTable, Tables, State, Searchable, KeyAbsent, Matches, Occupied, Initialised, Width

LEMMA UnallocatedIsEmpty ==
    /\ Unallocated \in Tables(0)
    /\ Searchable(Unallocated, 0)
    /\ \A k : KeyAbsent(Unallocated, 0, k)
    /\ Width(Unallocated) = {}
    /\ Occupied(Unallocated) = {} /\ Initialised(Unallocated) = {} /\ Marked(Unallocated) = {}
BY DEF Unallocated, Tables, Searchable, KeyAbsent, Occupied, Initialised, Marked, Width

-----------------------------------------------------------------------------
(* Types. *)
LEMMA WidthsGrow ==
    ASSUME capacity \in Nat
    PROVE  GrownWidth \in Nat /\ GrownWidth > 0 /\ (capacity = 0 \/ GrownWidth = 2 * capacity)
BY WidthAssumption DEF GrownWidth

LEMMA TypeInit == Init => TypeOK
BY UnallocatedIsEmpty DEF Init, TypeOK, Idle

EntriesAreInitialised ==
    insert.phase # "rehome" =>
        \A i \in 0 .. capacity - 1 :
            table.states[i] = "occupied" => table.entries[i] \in Entry

LEMMA TypeNext == TypeOK /\ EntriesAreInitialised /\ [Next]_vars => TypeOK'
<1> SUFFICES ASSUME TypeOK, EntriesAreInitialised, [Next]_vars PROVE TypeOK' OBVIOUS
<1> USE DEF TypeOK, Idle, Gone, Running
<1>0. GrownWidth \in Nat /\ GrownWidth > 0 BY WidthsGrow
<1>1. CASE UNCHANGED vars BY <1>1 DEF vars, GrownWidth
<1>2. ASSUME NEW k \in Key, NEW v \in Value, Exchange(k, v) PROVE TypeOK'
  <2> DEFINE e == [key |-> k, value |-> v]
  <2>0. e \in Entry BY DEF Entry
  <2>1. table' \in Tables(capacity)
    <3>1. PICK s \in 0 .. capacity - 1 : table' = [table EXCEPT !.entries[s] = e]
      BY <1>2 DEF Exchange
    <3>2. QED BY <2>0, <3>1, EntryWritten
  <2>2. hands' \subseteq Value
    BY <1>2 DEF Exchange, FoundAt, Matches, Entry, EntriesAreInitialised
  <2>3. QED BY <1>2, <2>1, <2>2 DEF Exchange
<1>3. ASSUME NEW k \in Key, NEW v \in Value, BeginInsert(k, v) PROVE TypeOK'
  BY <1>3 DEF BeginInsert, Entry
<1>4. CASE AllocateStates BY <1>4 DEF AllocateStates
<1>5. CASE AllocateEntries
  <2>1. fresh' \in Tables(GrownWidth) BY <1>0, <1>5, VacantIsSearchable DEF AllocateEntries
  <2>2. GrownWidth' = GrownWidth /\ insert'.phase = "rehome"
    BY <1>5 DEF AllocateEntries, GrownWidth
  <2>3. insert' \in [phase : {"rehome"}, entry : Entry, index : 0 .. capacity]
    BY <1>5 DEF AllocateEntries
  <2>4. QED BY <1>5, <2>1, <2>2, <2>3 DEF AllocateEntries
<1>6. CASE OutOfMemory
  <2>1. insert' = Idle /\ fresh' = Unallocated BY <1>6 DEF OutOfMemory
  <2>2. buffers' \in Int BY <1>6 DEF OutOfMemory
  <2>3. QED BY <1>6, <2>1, <2>2 DEF OutOfMemory
<1>7. CASE Rehome
  <2> DEFINE i == insert.index
  <2>1. /\ insert \in [phase : {"rehome"}, entry : Entry, index : 0 .. capacity]
        /\ i < capacity /\ fresh \in Tables(GrownWidth) /\ i \in 0 .. capacity - 1
    BY <1>7 DEF Rehome
  <2>2. insert' \in [phase : {"rehome"}, entry : Entry, index : 0 .. capacity']
    BY <1>7, <2>1 DEF Rehome
  <2>3. table' \in Tables(capacity)
    <3>1. table' \in {table, [table EXCEPT !.entries[i] = Nothing]} BY <1>7 DEF Rehome
    <3>2. QED BY <2>1, <3>1, EntryWritten
  <2>4. fresh' \in Tables(GrownWidth)
    <3>1. CASE table.states[i] # "occupied" BY <1>7, <2>1, <3>1 DEF Rehome
    <3>2. CASE table.states[i] = "occupied"
      <4>1. PICK s \in 0 .. GrownWidth - 1 : fresh' = WriteEntry(fresh, s, table.entries[i])
        BY <1>7, <3>2 DEF Rehome
      <4>2. table.entries[i] \in Entry \cup {Nothing} BY <2>1 DEF Tables
      <4>3. QED BY <2>1, <4>1, <4>2 DEF WriteEntry, Tables, State
    <3>3. QED BY <3>1, <3>2
  <2>5. GrownWidth' = GrownWidth BY <1>7 DEF Rehome, GrownWidth
  <2>6. UNCHANGED <<capacity, length, used, buffers, hands>> BY <1>7 DEF Rehome
  <2>7. insert'.phase = "rehome" BY <2>2
  <2>8. QED BY <2>2, <2>3, <2>4, <2>5, <2>6, <2>7
<1>8. CASE Install
  <2>0. insert \in [phase : {"rehome"}, entry : Entry, index : 0 .. capacity]
    BY <1>8 DEF Install
  <2>1. insert' \in [phase : {"place"}, entry : Entry, index : {0}]
    BY <1>8, <2>0 DEF Install
  <2>2. capacity' = GrownWidth /\ table' \in Tables(GrownWidth) BY <1>8 DEF Install
  <2>3. buffers' \in Int
    BY <1>8 DEF Install
  <2>4. QED BY <1>0, <1>8, <2>1, <2>2, <2>3 DEF Install
<1>9. CASE Place
  <2>1. insert.entry \in Entry BY <1>9 DEF Place
  <2>2. table' \in Tables(capacity)
    <3>1. PICK s \in 0 .. capacity - 1 : table' = WriteEntry(table, s, insert.entry)
      BY <1>9 DEF Place
    <3>2. QED BY <2>1, <3>1 DEF WriteEntry, Tables, State
  <2>3. QED BY <1>9, <2>2 DEF Place
<1>10. ASSUME NEW k \in Key, Remove(k) PROVE TypeOK'
  <2>1. table' \in Tables(capacity) BY <1>10 DEF Remove, Tables, State
  <2>2. hands' \subseteq Value
    BY <1>10 DEF Remove, FoundAt, Matches, Entry, EntriesAreInitialised
  <2>3. QED BY <1>10, <2>1, <2>2 DEF Remove
<1>11. CASE Drop BY <1>11, UnallocatedIsEmpty DEF Drop
<1>12. QED
  BY <1>1, <1>2, <1>3, <1>4, <1>5, <1>6, <1>7, <1>8, <1>9, <1>10, <1>11 DEF Next

-----------------------------------------------------------------------------
(* The inductive invariant: beyond the types and the counts, the key of the *)
(* insert that runs is nowhere, the entries still to be rehomed have keys   *)
(* of their own, and the load limit holds.                                  *)
Searches ==
    /\ insert.phase # "rehome" => Searchable(table, capacity)
    /\ insert.phase \in {"states", "entries", "place"} =>
          KeyAbsent(table, capacity, insert.entry.key)
    /\ insert.phase = "rehome" =>
          /\ Searchable(fresh, GrownWidth)
          /\ KeyAbsent(fresh, GrownWidth, insert.entry.key)

Unmoved ==
    insert.phase = "rehome" =>
        \A i \in Initialised(table) :
            /\ table.entries[i].key # insert.entry.key
            /\ KeyAbsent(fresh, GrownWidth, table.entries[i].key)
            /\ \A j \in Initialised(table) :
                  table.entries[j].key = table.entries[i].key => i = j

Room ==
    /\ capacity = 0 \/ capacity >= 4
    /\ insert = Gone => capacity = 0
    /\ insert # Gone => length <= used /\ used <= capacity - (capacity \div 4)
    /\ insert.phase = "place" => capacity > 0 /\ used + 1 <= capacity - (capacity \div 4)

Inv == TypeOK /\ Searches /\ Unmoved /\ CountsAreExact /\ Room

(* What a write to a table does to its sets of slots. *)
LEMMA WriteSets ==
    ASSUME NEW w \in Nat, NEW t \in Tables(w), NEW s \in 0 .. w - 1, NEW e \in Entry
    PROVE  LET u == WriteEntry(t, s, e)
           IN  /\ Width(u) = 0 .. w - 1
               /\ Initialised(u) = Initialised(t) \cup {s}
               /\ Occupied(u) = Occupied(t) \cup {s}
               /\ Marked(u) = Marked(t) \cup {s}
<1> DEFINE u == WriteEntry(t, s, e)
<1>1. /\ u.states = [t.states EXCEPT ![s] = "occupied"]
      /\ u.entries = [t.entries EXCEPT ![s] = e]
  BY DEF WriteEntry
<1>2. /\ t.states \in [0 .. w - 1 -> State]
      /\ t.entries \in [0 .. w - 1 -> Entry \cup {Nothing}]
      /\ e # Nothing
  BY NothingAssumption DEF Tables, Entry
<1> HIDE DEF u
<1>3. Width(u) = 0 .. w - 1 /\ Width(t) = 0 .. w - 1 BY <1>1, <1>2 DEF Width
<1>4. Initialised(u) = Initialised(t) \cup {s} BY <1>1, <1>2, <1>3 DEF Initialised
<1>5. Occupied(u) = Occupied(t) \cup {s} BY <1>1, <1>2, <1>3 DEF Occupied
<1>6. Marked(u) = Marked(t) \cup {s} BY <1>1, <1>2, <1>3 DEF Marked
<1>7. QED BY <1>3, <1>4, <1>5, <1>6 DEF u

LEMMA ExchangeSets ==
    ASSUME NEW w \in Nat, NEW t \in Tables(w), NEW s \in Initialised(t), NEW e \in Entry
    PROVE  LET u == [t EXCEPT !.entries[s] = e]
           IN  /\ Initialised(u) = Initialised(t)
               /\ Occupied(u) = Occupied(t)
               /\ Marked(u) = Marked(t)
<1> DEFINE u == [t EXCEPT !.entries[s] = e]
<1>1. s \in 0 .. w - 1 BY DEF Initialised, Width, Tables
<1>2. u.states = t.states /\ u.entries = [t.entries EXCEPT ![s] = e] BY <1>1, EntryWritten
<1>3. /\ t.states \in [0 .. w - 1 -> State]
      /\ t.entries \in [0 .. w - 1 -> Entry \cup {Nothing}]
      /\ e # Nothing
  BY NothingAssumption DEF Tables, Entry
<1> HIDE DEF u
<1>4. Width(u) = 0 .. w - 1 /\ Width(t) = 0 .. w - 1 BY <1>2, <1>3 DEF Width
<1>5. QED BY <1>1, <1>2, <1>3, <1>4 DEF Initialised, Occupied, Marked, u

LEMMA RemoveSets ==
    ASSUME NEW w \in Nat, NEW t \in Tables(w), NEW s \in 0 .. w - 1, t.states[s] = "occupied"
    PROVE  /\ Initialised(RemovedFrom(t, s)) = Initialised(t) \ {s}
           /\ Occupied(RemovedFrom(t, s)) = Occupied(t) \ {s}
           /\ Marked(RemovedFrom(t, s)) = Marked(t)
<1> DEFINE u == RemovedFrom(t, s)
<1>1. /\ u.states = [t.states EXCEPT ![s] = "removed"]
      /\ u.entries = [t.entries EXCEPT ![s] = Nothing]
  BY DEF RemovedFrom
<1>2. /\ t.states \in [0 .. w - 1 -> State]
      /\ t.entries \in [0 .. w - 1 -> Entry \cup {Nothing}]
  BY DEF Tables
<1> HIDE DEF u
<1>3. Width(u) = 0 .. w - 1 /\ Width(t) = 0 .. w - 1 BY <1>1, <1>2 DEF Width
<1>4. Initialised(u) = Initialised(t) \ {s} BY <1>1, <1>2, <1>3 DEF Initialised
<1>5. Occupied(u) = Occupied(t) \ {s} BY <1>1, <1>2, <1>3 DEF Occupied
<1>6. Marked(u) = Marked(t) BY <1>1, <1>2, <1>3 DEF Marked
<1>7. QED BY <1>4, <1>5, <1>6 DEF u

LEMMA TakenSets ==
    ASSUME NEW w \in Nat, NEW t \in Tables(w), NEW s \in 0 .. w - 1
    PROVE  LET u == [t EXCEPT !.entries[s] = Nothing]
           IN  /\ Initialised(u) = Initialised(t) \ {s}
               /\ Occupied(u) = Occupied(t)
               /\ Marked(u) = Marked(t)
<1> DEFINE u == [t EXCEPT !.entries[s] = Nothing]
<1>1. u.states = t.states /\ u.entries = [t.entries EXCEPT ![s] = Nothing] BY EntryWritten
<1>2. /\ t.states \in [0 .. w - 1 -> State]
      /\ t.entries \in [0 .. w - 1 -> Entry \cup {Nothing}]
  BY DEF Tables
<1> HIDE DEF u
<1>3. Width(u) = 0 .. w - 1 /\ Width(t) = 0 .. w - 1 BY <1>1, <1>2 DEF Width
<1>4. Initialised(u) = Initialised(t) \ {s} BY <1>1, <1>2, <1>3 DEF Initialised
<1>5. Occupied(u) = Occupied(t) /\ Marked(u) = Marked(t)
  BY <1>1, <1>2, <1>3 DEF Occupied, Marked
<1>6. QED BY <1>4, <1>5 DEF u

LEMMA TableSets ==
    ASSUME NEW w \in Nat, NEW t \in Tables(w)
    PROVE  /\ Width(t) = 0 .. w - 1
           /\ Initialised(t) \subseteq 0 .. w - 1 /\ IsFiniteSet(Initialised(t))
           /\ Occupied(t) \subseteq Marked(t) /\ IsFiniteSet(Occupied(t))
           /\ Marked(t) \subseteq 0 .. w - 1 /\ IsFiniteSet(Marked(t))
           /\ Cardinality(Initialised(t)) \in Nat /\ Cardinality(Marked(t)) \in Nat
           /\ Cardinality(Occupied(t)) <= Cardinality(Marked(t))
           /\ Cardinality(Occupied(t)) \in Nat
<1>1. Width(t) = 0 .. w - 1 BY DEF Width, Tables
<1>2. IsFiniteSet(0 .. w - 1) BY FS_Interval
<1>3. /\ Initialised(t) \subseteq 0 .. w - 1
      /\ Occupied(t) \subseteq Marked(t) /\ Marked(t) \subseteq 0 .. w - 1
  BY <1>1 DEF Initialised, Occupied, Marked
<1>4. IsFiniteSet(Initialised(t)) /\ IsFiniteSet(Marked(t)) BY <1>2, <1>3, FS_Subset
<1>5. IsFiniteSet(Occupied(t)) /\ Cardinality(Occupied(t)) <= Cardinality(Marked(t))
  BY <1>3, <1>4, FS_Subset
<1>6. QED BY <1>1, <1>3, <1>4, <1>5, FS_CardinalityType

-----------------------------------------------------------------------------
(* The invariant holds at first and after every action. *)
LEMMA Phases ==
    ASSUME TypeOK
    PROVE  /\ insert.phase \in {"idle", "dropped", "states", "entries", "rehome", "place"}
           /\ insert.phase = "idle" <=> insert = Idle
           /\ insert.phase = "dropped" <=> insert = Gone
           /\ insert.phase # "rehome" => fresh = Unallocated
           /\ insert.phase = "rehome" => fresh \in Tables(GrownWidth)
           /\ insert.phase \in {"states", "entries", "rehome", "place"} =>
                 insert.entry \in Entry /\ insert.index \in 0 .. capacity
BY DEF TypeOK, Idle, Gone

LEMMA InvInit == Init => Inv
<1> SUFFICES ASSUME Init PROVE Inv OBVIOUS
<1>1. TypeOK BY TypeInit
<1>2. table = Unallocated /\ fresh = Unallocated /\ capacity = 0 /\ length = 0 /\ used = 0
      /\ insert = Idle /\ insert.phase = "idle"
  BY DEF Init, Idle
<1>3. Searches /\ Unmoved BY <1>2, UnallocatedIsEmpty DEF Searches, Unmoved
<1>4. Cardinality({}) = 0 BY FS_EmptySet
<1>5. CountsAreExact BY <1>2, <1>4, UnallocatedIsEmpty DEF CountsAreExact
<1>6. Room BY <1>2 DEF Room, Idle, Gone
<1>7. QED BY <1>1, <1>3, <1>5, <1>6 DEF Inv

LEMMA ExchangeStep ==
    ASSUME Inv, NEW k \in Key, NEW v \in Value, Exchange(k, v)
    PROVE  Searches' /\ Unmoved' /\ CountsAreExact' /\ Room'
<1> DEFINE e == [key |-> k, value |-> v]
<1>1. /\ e \in Entry /\ e.key = k
      /\ insert = Idle /\ insert.phase = "idle" /\ capacity \in Nat /\ table \in Tables(capacity)
      /\ UNCHANGED <<fresh, capacity, length, used, insert>>
  BY DEF Entry, Exchange, Idle, Inv, TypeOK
<1>2. PICK s \in 0 .. capacity - 1 :
         FoundAt(table, capacity, k, s) /\ table' = [table EXCEPT !.entries[s] = e]
  BY DEF Exchange
<1> HIDE DEF e
<1>3. Searchable(table, capacity) BY <1>1 DEF Inv, Searches
<1>4. Searchable(table', capacity)
  BY <1>1, <1>2, <1>3, ExchangeKeepsSearchable DEF FoundAt
<1>5. s \in Initialised(table)
  <2>1. s \in Occupied(table) BY <1>1, <1>2, TableSets DEF FoundAt, Matches, Occupied
  <2>2. QED BY <1>1, <2>1 DEF Inv, CountsAreExact
<1>6. /\ Initialised(table') = Initialised(table)
      /\ Occupied(table') = Occupied(table) /\ Marked(table') = Marked(table)
  BY <1>1, <1>2, <1>5, ExchangeSets
<1>7. Searches' /\ Unmoved' BY <1>1, <1>4 DEF Searches, Unmoved
<1>8. CountsAreExact' BY <1>1, <1>6 DEF Inv, CountsAreExact
<1>9. Room' BY <1>1 DEF Inv, Room
<1>10. QED BY <1>7, <1>8, <1>9

(* A key that a search does not find is nowhere in the table. *)
LEMMA NotFoundIsAbsent ==
    ASSUME Searchable(table, capacity), NEW k, ~Found(k)
    PROVE  KeyAbsent(table, capacity, k)
BY DEF Searchable, Found, KeyAbsent, Matches

LEMMA BeginInsertStep ==
    ASSUME Inv, NEW k \in Key, NEW v \in Value, BeginInsert(k, v)
    PROVE  Searches' /\ Unmoved' /\ CountsAreExact' /\ Room'
<1>1. /\ insert = Idle /\ insert.phase = "idle"
      /\ insert'.entry.key = k
      /\ insert'.phase = IF NeedsRoom THEN "states" ELSE "place"
      /\ insert'.phase \in {"states", "place"} /\ insert' # Gone /\ insert # Gone
      /\ UNCHANGED <<table, fresh, capacity, length, used>>
  BY DEF BeginInsert, Running, Idle, Gone
<1>2. KeyAbsent(table, capacity, k)
  BY <1>1, NotFoundIsAbsent DEF BeginInsert, Inv, Searches
<1>3. Searches' /\ Unmoved' BY <1>1, <1>2 DEF Inv, Searches, Unmoved
<1>4. CountsAreExact' BY <1>1 DEF Inv, CountsAreExact
<1>5. Room' BY <1>1 DEF Inv, TypeOK, Room, NeedsRoom
<1>6. QED BY <1>3, <1>4, <1>5

LEMMA AllocationStep ==
    ASSUME Inv, AllocateStates \/ OutOfMemory
    PROVE  Searches' /\ Unmoved' /\ CountsAreExact' /\ Room'
<1>1. /\ insert.phase \in {"states", "entries"} /\ insert # Gone
      /\ UNCHANGED <<table, fresh, capacity, length, used>>
  BY DEF AllocateStates, OutOfMemory, Gone
<1>2. /\ insert'.phase \in {"idle", "entries"} /\ insert' # Gone
      /\ insert'.phase = "entries" => insert'.entry = insert.entry
  <2>1. CASE AllocateStates BY <2>1 DEF AllocateStates, Inv, TypeOK, Idle, Gone
  <2>2. CASE OutOfMemory BY <2>2 DEF OutOfMemory, Idle, Gone
  <2>3. QED BY <2>1, <2>2
<1>3. Searches' /\ Unmoved' BY <1>1, <1>2 DEF Inv, Searches, Unmoved
<1>4. CountsAreExact' BY <1>1, <1>2 DEF Inv, CountsAreExact
<1>5. Room' BY <1>1, <1>2 DEF Inv, Room
<1>6. QED BY <1>3, <1>4, <1>5

LEMMA AllocateEntriesStep ==
    ASSUME Inv, AllocateEntries
    PROVE  Searches' /\ Unmoved' /\ CountsAreExact' /\ Room'
<1>1. /\ insert.phase = "entries" /\ insert # Gone /\ capacity \in Nat
      /\ table \in Tables(capacity) /\ fresh = Unallocated
      /\ insert'.phase = "rehome" /\ insert' # Gone
      /\ insert'.entry = insert.entry /\ insert'.index = 0
      /\ fresh' = VacantTable(GrownWidth) /\ GrownWidth' = GrownWidth
      /\ UNCHANGED <<table, capacity, length, used>>
  BY DEF AllocateEntries, Gone, Inv, TypeOK, Idle, GrownWidth
<1>2. GrownWidth \in Nat /\ GrownWidth > 0 BY <1>1, WidthsGrow
<1>3. /\ Searchable(fresh', GrownWidth) /\ \A k : KeyAbsent(fresh', GrownWidth, k)
      /\ Occupied(fresh') = {} /\ Initialised(fresh') = {}
  BY <1>1, <1>2, VacantIsSearchable
<1>4. Marked(fresh') = {} BY <1>1 DEF VacantTable, Marked, Width
<1>5. Searchable(table, capacity) /\ KeyAbsent(table, capacity, insert.entry.key)
  BY <1>1 DEF Inv, Searches
<1>6. Initialised(table) = Occupied(table) BY <1>1 DEF Inv, CountsAreExact
<1>7. Searches' BY <1>1, <1>3 DEF Searches
<1>8. Unmoved'
  <2>1. ASSUME NEW i \in Initialised(table)
        PROVE  /\ table.entries[i].key # insert.entry.key
               /\ \A j \in Initialised(table) :
                     table.entries[j].key = table.entries[i].key => i = j
    <3>1. i \in 0 .. capacity - 1 /\ table.states[i] = "occupied"
      BY <1>1, <1>6, TableSets DEF Occupied
    <3>2. table.entries[i].key # insert.entry.key BY <1>5, <3>1 DEF KeyAbsent, Matches
    <3>3. table.entries[i].key \in Key BY <1>5, <3>1 DEF Searchable, Entry
    <3>4. ASSUME NEW j \in Initialised(table), table.entries[j].key = table.entries[i].key
          PROVE  i = j
      <4>1. j \in 0 .. capacity - 1 /\ table.states[j] = "occupied"
        BY <1>1, <1>6, TableSets DEF Occupied
      <4>2. QED BY <1>1, <1>5, <3>1, <3>3, <3>4, <4>1, KeysDiffer DEF Matches
    <3>5. QED BY <3>2, <3>4
  <2>2. QED BY <1>1, <1>3, <2>1 DEF Unmoved
<1>9. CountsAreExact'
  <2>1. /\ length = Cardinality(Initialised(table)) + Cardinality(Initialised(fresh))
        /\ used = Cardinality(Marked(table))
    BY <1>1 DEF Inv, CountsAreExact
  <2>2. Initialised(fresh') = Initialised(fresh) BY <1>1, <1>3, UnallocatedIsEmpty
  <2>3. Occupied(table) = {i \in Occupied(table) : i >= 0}
    BY <1>1, TableSets
  <2>4. QED BY <1>1, <1>3, <1>4, <1>6, <2>1, <2>2, <2>3 DEF CountsAreExact
<1>10. Room' BY <1>1 DEF Inv, Room
<1>11. QED BY <1>7, <1>8, <1>9, <1>10

(* One entry moves from the old table to its replacement. *)
LEMMA MoveStep ==
    ASSUME Inv, Rehome, table.states[insert.index] = "occupied"
    PROVE  Searches' /\ Unmoved' /\ CountsAreExact'
<1> DEFINE i == insert.index
           e == table.entries[i]
<1>1. /\ insert.phase = "rehome" /\ capacity \in Nat /\ i \in 0 .. capacity - 1
      /\ table \in Tables(capacity) /\ fresh \in Tables(GrownWidth)
      /\ insert'.phase = "rehome" /\ insert'.index = i + 1 /\ insert'.entry = insert.entry
      /\ insert # Gone /\ insert' # Gone
      /\ GrownWidth' = GrownWidth /\ UNCHANGED <<capacity, length, used>>
  BY DEF Rehome, Inv, TypeOK, Idle, Gone, GrownWidth
<1>2. GrownWidth \in Nat /\ GrownWidth > 0 BY <1>1, WidthsGrow
<1>3. PICK s \in 0 .. GrownWidth - 1 :
         /\ FreeAt(fresh, GrownWidth, e.key, s)
         /\ fresh' = WriteEntry(fresh, s, e)
         /\ table' = [table EXCEPT !.entries[i] = Nothing]
  BY DEF Rehome
<1>4. i \in Occupied(table) /\ i \in Initialised(table)
  <2>1. i \in Occupied(table) BY <1>1, TableSets DEF Occupied
  <2>2. Initialised(table) = {j \in Occupied(table) : j >= i}
    BY <1>1 DEF Inv, CountsAreExact
  <2>3. QED BY <1>1, <2>1, <2>2
<1>5. e \in Entry BY <1>1, <1>4 DEF Initialised, Tables
<1>6. /\ Searchable(fresh, GrownWidth) /\ KeyAbsent(fresh, GrownWidth, insert.entry.key)
      /\ KeyAbsent(fresh, GrownWidth, e.key) /\ e.key # insert.entry.key
  BY <1>1, <1>4 DEF Inv, Searches, Unmoved
<1>7. fresh' \in Tables(GrownWidth) /\ Searchable(fresh', GrownWidth)
  BY <1>1, <1>2, <1>3, <1>5, <1>6, WriteKeepsSearchable
<1>8. /\ Initialised(fresh') = Initialised(fresh) \cup {s}
      /\ Occupied(fresh') = Occupied(fresh) \cup {s}
      /\ Marked(fresh') = Marked(fresh) \cup {s}
  BY <1>1, <1>2, <1>3, <1>5, WriteSets
<1>9. /\ Initialised(table') = Initialised(table) \ {i}
      /\ Occupied(table') = Occupied(table) /\ Marked(table') = Marked(table)
  BY <1>1, <1>3, TakenSets
<1>10. /\ \A j \in 0 .. capacity - 1 : j # i => table'.entries[j] = table.entries[j]
       /\ fresh'.states[s] = "occupied" /\ fresh'.entries[s] = e
       /\ \A j \in 0 .. GrownWidth - 1 : j # s =>
             fresh'.states[j] = fresh.states[j] /\ fresh'.entries[j] = fresh.entries[j]
  <2>1. table'.entries = [table.entries EXCEPT ![i] = Nothing]
    BY <1>1, <1>3, EntryWritten
  <2>2. /\ fresh'.states = [fresh.states EXCEPT ![s] = "occupied"]
        /\ fresh'.entries = [fresh.entries EXCEPT ![s] = e]
    BY <1>3 DEF WriteEntry
  <2>3. QED BY <1>1, <1>3, <2>1, <2>2 DEF Tables
<1> HIDE DEF i, e
<1>11. ASSUME NEW k, KeyAbsent(fresh, GrownWidth, k), k # e.key
       PROVE  KeyAbsent(fresh', GrownWidth, k)
  BY <1>10, <1>11 DEF KeyAbsent, Matches
<1>12. Searches'
  <2>1. KeyAbsent(fresh', GrownWidth, insert.entry.key) BY <1>6, <1>11
  <2>2. QED BY <1>1, <1>7, <2>1 DEF Searches
<1>13. Unmoved'
  <2>1. ASSUME NEW j \in Initialised(table')
        PROVE  /\ table'.entries[j].key # insert.entry.key
               /\ KeyAbsent(fresh', GrownWidth, table'.entries[j].key)
               /\ \A m \in Initialised(table') :
                     table'.entries[m].key = table'.entries[j].key => j = m
    <3>1. Initialised(table) \subseteq 0 .. capacity - 1 BY <1>1, TableSets
    <3>2. j \in Initialised(table) /\ j # i /\ table'.entries[j] = table.entries[j]
      BY <1>9, <1>10, <3>1
    <3>3. /\ table.entries[j].key # insert.entry.key
          /\ KeyAbsent(fresh, GrownWidth, table.entries[j].key)
          /\ \A m \in Initialised(table) :
                table.entries[m].key = table.entries[j].key => j = m
      BY <1>1, <3>2 DEF Inv, Unmoved
    <3>4. table.entries[j].key # e.key BY <1>4, <3>2, <3>3 DEF e
    <3>5. KeyAbsent(fresh', GrownWidth, table.entries[j].key) BY <1>11, <3>3, <3>4
    <3>6. QED BY <1>9, <1>10, <3>1, <3>2, <3>3, <3>5
  <2>2. QED BY <1>1, <2>1 DEF Unmoved
<1>14. CountsAreExact'
  <2>1. /\ length = Cardinality(Initialised(table)) + Cardinality(Initialised(fresh))
        /\ used = Cardinality(Marked(table))
        /\ Initialised(table) = {j \in Occupied(table) : j >= i}
        /\ Initialised(fresh) = Occupied(fresh) /\ Marked(fresh) = Occupied(fresh)
    BY <1>1 DEF Inv, CountsAreExact, i
  <2>2. IsFiniteSet(Initialised(table)) /\ IsFiniteSet(Initialised(fresh))
    BY <1>1, <1>2, TableSets
  <2>3. s \notin Initialised(fresh)
    <3>1. s \notin Occupied(fresh) BY <1>3 DEF FreeAt, Occupied
    <3>2. QED BY <2>1, <3>1
  <2>4. /\ Cardinality(Initialised(table')) = Cardinality(Initialised(table)) - 1
        /\ Cardinality(Initialised(fresh')) = Cardinality(Initialised(fresh)) + 1
        /\ Cardinality(Initialised(table)) \in Nat /\ Cardinality(Initialised(fresh)) \in Nat
    <3>1. Cardinality(Initialised(table) \ {i}) = Cardinality(Initialised(table)) - 1
      BY <1>4, <2>2, FS_RemoveElement DEF i
    <3>2. Cardinality(Initialised(fresh) \cup {s}) = Cardinality(Initialised(fresh)) + 1
      BY <2>2, <2>3, FS_AddElement
    <3>3. QED BY <1>8, <1>9, <2>2, <3>1, <3>2, FS_CardinalityType
  <2>5. Occupied(table) \subseteq Int
    <3>1. Occupied(table) \subseteq Marked(table) /\ Marked(table) \subseteq 0 .. capacity - 1
      BY <1>1, TableSets
    <3>2. QED BY <3>1
  <2>6. Initialised(table') = {j \in Occupied(table') : j >= i + 1}
    BY <1>1, <1>9, <2>1, <2>5
  <2>7. length' = Cardinality(Initialised(table')) + Cardinality(Initialised(fresh'))
    BY <1>1, <2>1, <2>4
  <2>8. QED BY <1>1, <1>8, <1>9, <2>1, <2>6, <2>7 DEF CountsAreExact
<1>15. QED BY <1>12, <1>13, <1>14

LEMMA RehomeStep ==
    ASSUME Inv, Rehome
    PROVE  Searches' /\ Unmoved' /\ CountsAreExact' /\ Room'
<1> DEFINE i == insert.index
<1>1. /\ insert.phase = "rehome" /\ capacity \in Nat /\ i \in 0 .. capacity - 1
      /\ insert'.phase = "rehome" /\ insert'.index = i + 1 /\ insert'.entry = insert.entry
      /\ insert # Gone /\ insert' # Gone /\ table \in Tables(capacity)
      /\ GrownWidth' = GrownWidth /\ UNCHANGED <<capacity, length, used>>
  BY DEF Rehome, Inv, TypeOK, Idle, Gone, GrownWidth
<1>2. Room' BY <1>1 DEF Inv, Room
<1>3. CASE table.states[i] = "occupied" BY <1>2, <1>3, MoveStep
<1>4. CASE table.states[i] # "occupied"
  <2>1. UNCHANGED <<table, fresh>> BY <1>4 DEF Rehome
  <2>2. Searches' /\ Unmoved' BY <1>1, <2>1 DEF Inv, Searches, Unmoved
  <2>3. CountsAreExact'
    <3>1. Initialised(table) = {j \in Occupied(table) : j >= i}
      BY <1>1 DEF Inv, CountsAreExact
    <3>2. Occupied(table) \subseteq Int /\ i \notin Occupied(table)
      <4>1. Occupied(table) \subseteq Marked(table) /\ Marked(table) \subseteq 0 .. capacity - 1
        BY <1>1, TableSets
      <4>2. QED BY <1>4, <4>1 DEF Occupied
    <3> HIDE DEF i
    <3>3. Initialised(table) = {j \in Occupied(table) : j >= i + 1}
      BY <1>1, <3>1, <3>2
    <3>4. QED BY <1>1, <2>1, <3>3 DEF Inv, CountsAreExact
  <2>4. QED BY <1>2, <2>2, <2>3
<1>5. QED BY <1>3, <1>4

LEMMA InstallStep ==
    ASSUME Inv, Install
    PROVE  Searches' /\ Unmoved' /\ CountsAreExact' /\ Room'
<1>1. /\ insert.phase = "rehome" /\ insert.index = capacity /\ capacity \in Nat
      /\ table \in Tables(capacity) /\ fresh \in Tables(GrownWidth) /\ insert # Gone
      /\ insert'.phase = "place" /\ insert' # Gone /\ insert'.entry = insert.entry
      /\ table' = fresh /\ fresh' = Unallocated /\ capacity' = GrownWidth
      /\ used' = length /\ length' = length
  <2>1. /\ insert \in [phase : {"rehome"}, entry : Entry, index : 0 .. capacity]
        /\ insert' = [insert EXCEPT !.phase = "place", !.index = 0]
    BY DEF Install, Inv, TypeOK, Idle, Gone
  <2>2. insert'.phase = "place" /\ insert'.entry = insert.entry BY <2>1
  <2>3. insert.phase = "rehome" BY DEF Install
  <2>4. insert # Gone BY <2>3 DEF Gone
  <2>5. insert' # Gone BY <2>2 DEF Gone
  <2>6. QED BY <2>1, <2>2, <2>4, <2>5 DEF Install, Inv, TypeOK
<1>2. Searches' /\ Unmoved' BY <1>1 DEF Inv, Searches, Unmoved
<1>3. Initialised(table) = {}
  <2>1. Occupied(table) \subseteq 0 .. capacity - 1 BY <1>1, TableSets
  <2>2. QED BY <1>1, <2>1 DEF Inv, CountsAreExact
<1>4. CountsAreExact'
  <2>1. Cardinality({}) = 0 BY FS_EmptySet
  <2>2. /\ length = Cardinality(Initialised(table)) + Cardinality(Initialised(fresh))
        /\ Initialised(fresh) = Occupied(fresh) /\ Marked(fresh) = Occupied(fresh)
    BY DEF Inv, CountsAreExact
  <2>3. GrownWidth \in Nat BY <1>1, WidthsGrow
  <2>4. Cardinality(Initialised(fresh)) \in Nat BY <1>1, <2>3, TableSets
  <2>5. length = Cardinality(Initialised(fresh)) BY <1>3, <2>1, <2>2, <2>4
  <2>6. Initialised(fresh') = {} /\ Occupied(fresh') = {} /\ Marked(fresh') = {}
    BY <1>1, UnallocatedIsEmpty
  <2>7. QED BY <1>1, <2>1, <2>2, <2>4, <2>5, <2>6 DEF CountsAreExact
<1>5. Room'
  <2>1. /\ capacity = 0 \/ capacity >= 4
        /\ length <= used /\ used <= capacity - (capacity \div 4)
        /\ length \in Int /\ used \in Int
    BY <1>1 DEF Inv, Room, TypeOK
  <2>2. GrownWidth \in Nat /\ GrownWidth >= 4 /\ length + 1 <= GrownWidth - (GrownWidth \div 4)
    BY <1>1, <2>1, WidthAssumption DEF GrownWidth
  <2>3. QED BY <1>1, <2>1, <2>2 DEF Room
<1>6. QED BY <1>2, <1>4, <1>5

LEMMA PlaceStep ==
    ASSUME Inv, Place
    PROVE  Searches' /\ Unmoved' /\ CountsAreExact' /\ Room'
<1> DEFINE e == insert.entry
<1>1. /\ insert.phase = "place" /\ e \in Entry /\ capacity \in Nat
      /\ table \in Tables(capacity) /\ fresh = Unallocated /\ insert # Gone
      /\ insert' = Idle /\ insert'.phase = "idle" /\ insert' # Gone
      /\ length' = length + 1 /\ UNCHANGED <<fresh, capacity>>
  BY DEF Place, Inv, TypeOK, Idle, Gone
<1>2. PICK s \in 0 .. capacity - 1 :
         /\ FreeAt(table, capacity, e.key, s)
         /\ table' = WriteEntry(table, s, e)
         /\ used' = IF table.states[s] = "vacant" THEN used + 1 ELSE used
  BY DEF Place
<1> HIDE DEF e
<1>3. Searchable(table, capacity) /\ KeyAbsent(table, capacity, e.key)
  BY <1>1 DEF Inv, Searches, e
<1>4. table' \in Tables(capacity) /\ Searchable(table', capacity)
  BY <1>1, <1>2, <1>3, WriteKeepsSearchable
<1>5. /\ Initialised(table') = Initialised(table) \cup {s}
      /\ Occupied(table') = Occupied(table) \cup {s}
      /\ Marked(table') = Marked(table) \cup {s}
  BY <1>1, <1>2, WriteSets
<1>6. Searches' /\ Unmoved' BY <1>1, <1>4 DEF Searches, Unmoved
<1>7. /\ Initialised(table) = Occupied(table) /\ Initialised(fresh) = {}
      /\ length = Cardinality(Initialised(table)) + Cardinality(Initialised(fresh))
      /\ used = Cardinality(Marked(table)) /\ Occupied(fresh) = {} /\ Marked(fresh) = {}
  BY <1>1, UnallocatedIsEmpty DEF Inv, CountsAreExact
<1>8. /\ IsFiniteSet(Initialised(table)) /\ IsFiniteSet(Marked(table))
      /\ Cardinality(Initialised(table)) \in Nat /\ Cardinality(Marked(table)) \in Nat
      /\ Cardinality({}) = 0
  BY <1>1, TableSets, FS_EmptySet
<1>9. s \notin Initialised(table)
  <2>1. s \notin Occupied(table) BY <1>2 DEF FreeAt, Occupied
  <2>2. QED BY <1>7, <2>1
<1>10. length' = Cardinality(Initialised(table')) + Cardinality(Initialised(fresh'))
  <2>1. Cardinality(Initialised(table) \cup {s}) = Cardinality(Initialised(table)) + 1
    BY <1>8, <1>9, FS_AddElement
  <2>2. QED BY <1>1, <1>5, <1>7, <1>8, <2>1
<1>11. used' = Cardinality(Marked(table'))
  <2>1. s \in Marked(table) <=> table.states[s] # "vacant" BY <1>1, TableSets DEF Marked
  <2>2. CASE s \in Marked(table)
    <3>1. Marked(table') = Marked(table) BY <1>5, <2>2
    <3>2. QED BY <1>2, <1>7, <2>1, <2>2, <3>1
  <2>3. CASE s \notin Marked(table)
    <3>1. Cardinality(Marked(table) \cup {s}) = Cardinality(Marked(table)) + 1
      BY <1>8, <2>3, FS_AddElement
    <3>2. QED BY <1>2, <1>5, <1>7, <2>1, <2>3, <3>1
  <2>4. QED BY <2>2, <2>3
<1>12. CountsAreExact' BY <1>1, <1>5, <1>7, <1>10, <1>11 DEF CountsAreExact
<1>13. Room'
  <2>1. Cardinality(Occupied(table')) <= Cardinality(Marked(table')) BY <1>1, <1>4, TableSets
  <2>2. Initialised(table') = Occupied(table') BY <1>5, <1>7
  <2>3. /\ Cardinality(Occupied(table')) \in Nat /\ Cardinality(Marked(table')) \in Nat
    BY <1>1, <1>4, TableSets
  <2>4. length' <= used' BY <1>1, <1>7, <1>8, <1>10, <1>11, <2>1, <2>2, <2>3
  <2>5. used + 1 <= capacity - (capacity \div 4) /\ (capacity = 0 \/ capacity >= 4)
        /\ used \in Int
    BY <1>1 DEF Inv, Room, TypeOK
  <2>6. used' <= capacity - (capacity \div 4) BY <1>1, <1>2, <2>5
  <2>7. QED BY <1>1, <2>4, <2>5, <2>6 DEF Room
<1>14. QED BY <1>6, <1>12, <1>13

LEMMA RemoveStep ==
    ASSUME Inv, NEW k \in Key, Remove(k)
    PROVE  Searches' /\ Unmoved' /\ CountsAreExact' /\ Room'
<1>1. /\ insert = Idle /\ insert.phase = "idle" /\ insert # Gone /\ capacity \in Nat
      /\ table \in Tables(capacity) /\ fresh = Unallocated
      /\ length' = length - 1 /\ UNCHANGED <<fresh, capacity, used, insert>>
  BY DEF Remove, Inv, TypeOK, Idle, Gone
<1>2. PICK s \in 0 .. capacity - 1 :
         FoundAt(table, capacity, k, s) /\ table' = RemovedFrom(table, s)
  BY DEF Remove, RemovedFrom
<1>3. table' \in Tables(capacity) /\ Searchable(table', capacity)
  BY <1>1, <1>2, RemoveKeepsSearchable DEF Inv, Searches
<1>4. /\ Initialised(table') = Initialised(table) \ {s}
      /\ Occupied(table') = Occupied(table) \ {s}
      /\ Marked(table') = Marked(table)
  BY <1>1, <1>2, RemoveSets DEF FoundAt, Matches
<1>5. Searches' /\ Unmoved' BY <1>1, <1>3 DEF Searches, Unmoved
<1>6. /\ Initialised(table) = Occupied(table) /\ Initialised(fresh) = {}
      /\ length = Cardinality(Initialised(table)) + Cardinality(Initialised(fresh))
      /\ used = Cardinality(Marked(table)) /\ Occupied(fresh) = {} /\ Marked(fresh) = {}
  BY <1>1, UnallocatedIsEmpty DEF Inv, CountsAreExact
<1>7. /\ IsFiniteSet(Initialised(table)) /\ Cardinality(Initialised(table)) \in Nat
      /\ Cardinality({}) = 0 /\ s \in Initialised(table)
  <2>1. s \in Occupied(table) BY <1>1, <1>2, TableSets DEF FoundAt, Matches, Occupied
  <2>2. QED BY <1>1, <1>6, <2>1, TableSets, FS_EmptySet
<1>8. length' = Cardinality(Initialised(table')) + Cardinality(Initialised(fresh'))
  <2>1. Cardinality(Initialised(table) \ {s}) = Cardinality(Initialised(table)) - 1
    BY <1>7, FS_RemoveElement
  <2>2. QED BY <1>1, <1>4, <1>6, <1>7, <2>1
<1>9. CountsAreExact' BY <1>1, <1>4, <1>6, <1>8 DEF CountsAreExact
<1>10. Room' BY <1>1 DEF Inv, Room, TypeOK
<1>11. QED BY <1>5, <1>9, <1>10

LEMMA DropStep ==
    ASSUME Inv, Drop
    PROVE  Searches' /\ Unmoved' /\ CountsAreExact' /\ Room'
<1>1. /\ fresh = Unallocated /\ fresh' = Unallocated /\ table' = Unallocated
      /\ insert' = Gone /\ insert'.phase = "dropped" /\ capacity' = 0 /\ length' = 0
  BY DEF Drop, Inv, TypeOK, Idle, Gone
<1>2. Cardinality({}) = 0 BY FS_EmptySet
<1>3. Searches' /\ Unmoved' BY <1>1, UnallocatedIsEmpty DEF Searches, Unmoved
<1>4. CountsAreExact' BY <1>1, <1>2, UnallocatedIsEmpty DEF CountsAreExact
<1>5. Room' BY <1>1 DEF Room, Gone
<1>6. QED BY <1>3, <1>4, <1>5

LEMMA InvNext == Inv /\ [Next]_vars => Inv'
<1> SUFFICES ASSUME Inv, [Next]_vars PROVE Inv' OBVIOUS
<1>1. TypeOK'
  <2>1. EntriesAreInitialised BY DEF EntriesAreInitialised, Inv, Searches, Searchable
  <2>2. QED BY <2>1, TypeNext DEF Inv
<1>2. Searches' /\ Unmoved' /\ CountsAreExact' /\ Room'
  <2>1. CASE UNCHANGED vars
    BY <2>1 DEF vars, Inv, Searches, Searchable, KeyAbsent, FoundAt, Matches, Unmoved,
                CountsAreExact, Room, GrownWidth, Initialised, Occupied, Marked, Width
  <2>2. ASSUME NEW k \in Key, NEW v \in Value, Exchange(k, v) \/ BeginInsert(k, v)
        PROVE  Searches' /\ Unmoved' /\ CountsAreExact' /\ Room'
    BY <2>2, ExchangeStep, BeginInsertStep
  <2>3. CASE AllocateStates \/ AllocateEntries \/ OutOfMemory
    BY <2>3, AllocationStep, AllocateEntriesStep
  <2>4. CASE Rehome \/ Install \/ Place BY <2>4, RehomeStep, InstallStep, PlaceStep
  <2>5. ASSUME NEW k \in Key, Remove(k)
        PROVE  Searches' /\ Unmoved' /\ CountsAreExact' /\ Room'
    BY <2>5, RemoveStep
  <2>6. CASE Drop BY <2>6, DropStep
  <2>7. QED BY <2>1, <2>2, <2>3, <2>4, <2>5, <2>6 DEF Next
<1>3. QED BY <1>1, <1>2 DEF Inv

LEMMA Invariance == Spec => []Inv
<1>1. Init => Inv BY InvInit
<1>2. Inv /\ [Next]_vars => Inv' BY InvNext
<1>3. QED BY <1>1, <1>2, PTL DEF Spec

-----------------------------------------------------------------------------
(* The storage, the counters and the running insert are well typed for any *)
(* keys, values, hash function and number of operations.                   *)
THEOREM Typing == Spec => []TypeOK
<1>1. Inv => TypeOK BY DEF Inv
<1>2. QED BY <1>1, Invariance, PTL

(* Every stored key is found at the slot that stores it, whatever collides, *)
(* is removed or is rehomed.                                                *)
THEOREM Reachability == Spec => []StoredKeysAreFound
<1>1. Inv => StoredKeysAreFound
  <2> SUFFICES ASSUME Inv PROVE StoredKeysAreFound OBVIOUS
  <2>1. capacity \in Nat /\ table \in Tables(capacity) BY DEF Inv, TypeOK
  <2>2. GrownWidth \in Nat BY <2>1, WidthsGrow
  <2>3. ASSUME insert.phase # "rehome", NEW i \in Occupied(table)
        PROVE  FoundAt(table, capacity, table.entries[i].key, i)
    BY <2>1, <2>3, TableSets DEF Inv, Searches, Searchable, Occupied
  <2>4. ASSUME insert.phase = "rehome", NEW i \in Occupied(fresh)
        PROVE  FoundAt(fresh, GrownWidth, fresh.entries[i].key, i)
    <3>1. fresh \in Tables(GrownWidth) BY <2>4 DEF Inv, TypeOK
    <3>2. QED BY <2>2, <2>4, <3>1, TableSets DEF Inv, Searches, Searchable, Occupied
  <2>5. QED BY <2>3, <2>4 DEF StoredKeysAreFound
<1>2. QED BY <1>1, Invariance, PTL

(* length and used count exactly what they decide about, in every state. *)
THEOREM Counting == Spec => []CountsAreExact
<1>1. Inv => CountsAreExact BY DEF Inv
<1>2. QED BY <1>1, Invariance, PTL

(* A vacant slot is always left for a search to end at. *)
THEOREM Termination == Spec => []ProbesEnd
<1>1. Inv => ProbesEnd
  <2> SUFFICES ASSUME Inv PROVE ProbesEnd OBVIOUS
  <2>1. /\ capacity \in Nat /\ table \in Tables(capacity) /\ used \in Int /\ length \in Int
        /\ capacity = 0 \/ capacity >= 4
    BY DEF Inv, TypeOK, Room
  <2>2. ASSUME capacity > 0 PROVE Marked(table) # Width(table)
    <3>1. insert # Gone BY <2>2 DEF Inv, Room
    <3>2. used = Cardinality(Marked(table)) /\ used <= capacity - (capacity \div 4)
      BY <3>1 DEF Inv, CountsAreExact, Room
    <3>3. Width(table) = 0 .. capacity - 1 BY <2>1, TableSets
    <3>4. Cardinality(0 .. capacity - 1) = capacity BY <2>1, <2>2, FS_Interval
    <3>5. QED BY <2>1, <2>2, <3>2, <3>3, <3>4
  <2>3. ASSUME insert.phase = "rehome" PROVE Marked(fresh) # Width(fresh)
    <3>1. GrownWidth \in Nat /\ GrownWidth > 0 /\ (capacity = 0 \/ GrownWidth = 2 * capacity)
      BY <2>1, WidthsGrow
    <3>2. fresh \in Tables(GrownWidth) /\ insert # Gone BY <2>3 DEF Inv, TypeOK, Gone
    <3>3. /\ length = Cardinality(Initialised(table)) + Cardinality(Initialised(fresh))
          /\ Marked(fresh) = Initialised(fresh)
          /\ length <= used /\ used <= capacity - (capacity \div 4)
      BY <3>2 DEF Inv, CountsAreExact, Room
    <3>4. Cardinality(Initialised(table)) \in Nat /\ Cardinality(Initialised(fresh)) \in Nat
      BY <2>1, <3>1, <3>2, TableSets
    <3>5. Cardinality(Marked(fresh)) < GrownWidth BY <2>1, <3>1, <3>3, <3>4
    <3>6. Width(fresh) = 0 .. GrownWidth - 1 BY <3>1, <3>2, TableSets
    <3>7. Cardinality(0 .. GrownWidth - 1) = GrownWidth BY <3>1, FS_Interval
    <3>8. QED BY <3>1, <3>4, <3>5, <3>6, <3>7
  <2>4. QED BY <2>2, <2>3 DEF ProbesEnd
<1>2. QED BY <1>1, Invariance, PTL

-----------------------------------------------------------------------------
(* The finite map: entries with distinct keys are a function. *)
Distinct(S) == \A e, f \in S : e.key = f.key => e = f

LEMMA DictEntry ==
    ASSUME NEW S, Distinct(S), NEW e \in S
    PROVE  e.key \in DOMAIN DictOf(S) /\ DictOf(S)[e.key] = e.value
<1>1. e.key \in {f.key : f \in S} OBVIOUS
<1>2. (CHOOSE f \in S : f.key = e.key) = e BY DEF Distinct
<1>3. QED BY <1>1, <1>2 DEF DictOf

LEMMA DictAdd ==
    ASSUME NEW S, NEW e, Distinct(S), \A f \in S : f.key # e.key
    PROVE  /\ e.key \notin DOMAIN DictOf(S)
           /\ DictOf(S \cup {e}) =
                 [j \in DOMAIN DictOf(S) \cup {e.key} |->
                    IF j = e.key THEN e.value ELSE DictOf(S)[j]]
<1> DEFINE T == S \cup {e}
<1>1. Distinct(T) BY DEF Distinct
<1>2. DOMAIN DictOf(S) = {f.key : f \in S} /\ DOMAIN DictOf(T) = {f.key : f \in T}
  BY DEF DictOf
<1>3. DOMAIN DictOf(T) = DOMAIN DictOf(S) \cup {e.key} BY <1>2
<1>4. e.key \notin DOMAIN DictOf(S) BY <1>2
<1>5. ASSUME NEW j \in DOMAIN DictOf(T)
      PROVE  DictOf(T)[j] = IF j = e.key THEN e.value ELSE DictOf(S)[j]
  <2>1. PICK f \in T : f.key = j BY <1>2
  <2>2. DictOf(T)[j] = f.value BY <1>1, <2>1, DictEntry
  <2>3. CASE f = e BY <2>1, <2>2, <2>3
  <2>4. CASE f \in S
    <3>1. DictOf(S)[j] = f.value BY <2>1, <2>4, DictEntry
    <3>2. QED BY <2>1, <2>2, <2>4, <3>1
  <2>5. QED BY <2>3, <2>4
<1>6. DictOf(T) = [j \in DOMAIN DictOf(T) |-> DictOf(T)[j]] BY DEF DictOf
<1>7. QED BY <1>3, <1>4, <1>5, <1>6

LEMMA DictRemove ==
    ASSUME NEW S, Distinct(S), NEW e \in S
    PROVE  DictOf(S \ {e}) = [j \in DOMAIN DictOf(S) \ {e.key} |-> DictOf(S)[j]]
<1> DEFINE T == S \ {e}
<1>1. Distinct(T) BY DEF Distinct
<1>2. DOMAIN DictOf(S) = {f.key : f \in S} /\ DOMAIN DictOf(T) = {f.key : f \in T}
  BY DEF DictOf
<1>3. DOMAIN DictOf(T) = DOMAIN DictOf(S) \ {e.key} BY <1>2 DEF Distinct
<1>4. ASSUME NEW j \in DOMAIN DictOf(T) PROVE DictOf(T)[j] = DictOf(S)[j]
  <2>1. PICK f \in T : f.key = j BY <1>2
  <2>2. DictOf(T)[j] = f.value BY <1>1, <2>1, DictEntry
  <2>3. DictOf(S)[j] = f.value BY <2>1, DictEntry
  <2>4. QED BY <2>2, <2>3
<1>5. DictOf(T) = [j \in DOMAIN DictOf(T) |-> DictOf(T)[j]] BY DEF DictOf
<1>6. QED BY <1>3, <1>4, <1>5

LEMMA DictReplace ==
    ASSUME NEW S, Distinct(S), NEW f \in S, NEW e, e.key = f.key
    PROVE  DictOf((S \ {f}) \cup {e}) =
             [j \in DOMAIN DictOf(S) \cup {e.key} |-> IF j = e.key THEN e.value ELSE DictOf(S)[j]]
<1> DEFINE T == S \ {f}
<1>1. Distinct(T) /\ \A g \in T : g.key # e.key BY DEF Distinct
<1>2. DictOf(T) = [j \in DOMAIN DictOf(S) \ {e.key} |-> DictOf(S)[j]] BY DictRemove
<1> HIDE DEF T
<1>3. DictOf(T \cup {e}) =
        [j \in DOMAIN DictOf(T) \cup {e.key} |-> IF j = e.key THEN e.value ELSE DictOf(T)[j]]
  BY <1>1, DictAdd
<1>4. DOMAIN DictOf(T) \cup {e.key} = DOMAIN DictOf(S) \cup {e.key}
  <2>1. e.key \in DOMAIN DictOf(S) BY DictEntry
  <2>2. QED BY <1>2, <2>1
<1>5. QED BY <1>2, <1>3, <1>4 DEF T

LEMMA StoredIsDistinct == Inv => Distinct(Stored)
<1> SUFFICES ASSUME Inv PROVE Distinct(Stored) OBVIOUS
<1>1. capacity \in Nat /\ table \in Tables(capacity) BY DEF Inv, TypeOK
<1>2. Initialised(table) \subseteq Occupied(table) /\ Occupied(fresh) = Initialised(fresh)
  BY DEF Inv, CountsAreExact
<1>3. CASE insert.phase # "rehome"
  <2>1. Searchable(table, capacity) BY <1>3 DEF Inv, Searches
  <2>2. Stored = {table.entries[i] : i \in Initialised(table)}
    BY <1>3, Phases, UnallocatedIsEmpty DEF Inv, Stored
  <2>3. ASSUME NEW i \in Initialised(table), NEW j \in Initialised(table),
               table.entries[i].key = table.entries[j].key
        PROVE  i = j
    <3>1. /\ i \in 0 .. capacity - 1 /\ j \in 0 .. capacity - 1
          /\ table.states[i] = "occupied" /\ table.states[j] = "occupied"
      BY <1>1, <1>2, TableSets DEF Occupied
    <3>2. table.entries[i].key \in Key BY <2>1, <3>1 DEF Searchable, Entry
    <3>3. QED BY <1>1, <2>1, <2>3, <3>1, <3>2, KeysDiffer DEF Matches
  <2>4. QED BY <2>2, <2>3 DEF Distinct
<1>4. CASE insert.phase = "rehome"
  <2>1. Searchable(fresh, GrownWidth) BY <1>4 DEF Inv, Searches
  <2>2. fresh \in Tables(GrownWidth) /\ GrownWidth \in Nat
    BY <1>1, <1>4, WidthsGrow DEF Inv, TypeOK
  <2>3. ASSUME NEW i \in Initialised(fresh)
        PROVE  /\ i \in 0 .. GrownWidth - 1 /\ fresh.states[i] = "occupied"
               /\ fresh.entries[i].key \in Key
    <3>1. i \in 0 .. GrownWidth - 1 /\ fresh.states[i] = "occupied"
      BY <1>2, <2>2, TableSets DEF Occupied
    <3>2. QED BY <2>1, <3>1 DEF Searchable, Entry
  <2>4. ASSUME NEW i \in Initialised(fresh), NEW j \in Initialised(fresh),
               fresh.entries[i].key = fresh.entries[j].key
        PROVE  i = j
    BY <2>1, <2>2, <2>3, <2>4, KeysDiffer DEF Matches
  <2>5. ASSUME NEW i \in Initialised(table), NEW j \in Initialised(table),
               table.entries[i].key = table.entries[j].key
        PROVE  i = j
    BY <1>4, <2>5 DEF Inv, Unmoved
  <2>6. ASSUME NEW i \in Initialised(table), NEW j \in Initialised(fresh)
        PROVE  table.entries[i].key # fresh.entries[j].key
    <3>1. KeyAbsent(fresh, GrownWidth, table.entries[i].key) BY <1>4 DEF Inv, Unmoved
    <3>2. QED BY <2>3, <3>1 DEF KeyAbsent, Matches
  <2>7. QED BY <2>4, <2>5, <2>6 DEF Stored, Distinct
<1>5. QED BY <1>3, <1>4

(* The value of an insert that runs is in nobody's hands. *)
Pending == insert.phase \notin {"idle", "dropped"} => insert.entry.value \notin hands

(* While an insert grows the map it keeps its entry. *)
LEMMA GrowthKeepsEntry ==
    ASSUME TypeOK, AllocateStates \/ AllocateEntries \/ Rehome \/ Install
    PROVE  /\ insert.phase \notin {"idle", "dropped"} /\ insert'.phase \notin {"idle", "dropped"}
           /\ insert'.entry = insert.entry /\ hands' = hands
<1>1. CASE AllocateStates BY <1>1 DEF AllocateStates, TypeOK, Idle, Gone
<1>2. CASE AllocateEntries BY <1>2 DEF AllocateEntries, TypeOK, Idle, Gone
<1>3. CASE Rehome BY <1>3 DEF Rehome, TypeOK, Idle, Gone
<1>4. CASE Install
  <2>1. insert \in [phase : {"rehome"}, entry : Entry, index : 0 .. capacity]
    BY <1>4 DEF Install, TypeOK, Idle, Gone
  <2>2. QED BY <1>4, <2>1 DEF Install
<1>5. QED BY <1>1, <1>2, <1>3, <1>4

LEMMA PendingNext == Inv /\ Pending /\ [Next]_vars => Pending'
<1> SUFFICES ASSUME Inv, Pending, [Next]_vars PROVE Pending' OBVIOUS
<1>1. CASE UNCHANGED vars BY <1>1 DEF vars, Pending
<1>2. ASSUME NEW k \in Key, NEW v \in Value, Exchange(k, v) PROVE Pending'
  BY <1>2 DEF Exchange, Pending, Idle
<1>3. ASSUME NEW k \in Key, NEW v \in Value, BeginInsert(k, v) PROVE Pending'
  <2>1. insert'.entry.value = v /\ hands' = hands \ {v} BY <1>3 DEF BeginInsert, Running
  <2>2. QED BY <2>1 DEF Pending
<1>4. CASE AllocateStates \/ AllocateEntries \/ Rehome \/ Install
  BY <1>4, GrowthKeepsEntry DEF Inv, Pending
<1>5. CASE OutOfMemory \/ Place BY <1>5 DEF OutOfMemory, Place, Pending, Idle
<1>6. ASSUME NEW k \in Key, Remove(k) PROVE Pending'
  BY <1>6 DEF Remove, Pending, Idle
<1>7. CASE Drop BY <1>7 DEF Drop, Pending, Gone
<1>8. QED BY <1>1, <1>2, <1>3, <1>4, <1>5, <1>6, <1>7 DEF Next

LEMMA HandsOf ==
    ASSUME TypeOK
    PROVE  Hands = IF insert.phase \in {"idle", "dropped"} THEN hands
                   ELSE hands \cup {insert.entry.value}
BY Phases DEF Hands

(* The simulation, action by action. *)
LEMMA ExchangeSimulates ==
    ASSUME Inv, Inv', NEW k \in Key, NEW v \in Value, Exchange(k, v)
    PROVE  Promised!Insert(k, v)
<1> DEFINE e == [key |-> k, value |-> v]
<1>1. /\ e \in Entry /\ e.key = k /\ e.value = v
      /\ insert = Idle /\ insert.phase = "idle" /\ insert' = insert
      /\ capacity \in Nat /\ table \in Tables(capacity)
      /\ fresh = Unallocated /\ fresh' = fresh
  BY DEF Entry, Exchange, Idle, Inv, TypeOK
<1>2. PICK s \in 0 .. capacity - 1 :
         /\ FoundAt(table, capacity, k, s)
         /\ table' = [table EXCEPT !.entries[s] = e]
         /\ hands' = (hands \ {v}) \cup {table.entries[s].value}
  BY DEF Exchange
<1> DEFINE f == table.entries[s]
<1>3. f.key = k BY <1>2 DEF FoundAt, Matches
<1>4. s \in Initialised(table)
  <2>1. s \in Occupied(table) BY <1>1, <1>2, TableSets DEF FoundAt, Matches, Occupied
  <2>2. QED BY <1>1, <2>1 DEF Inv, CountsAreExact
<1>5. Stored = {table.entries[i] : i \in Initialised(table)}
      /\ Stored' = {table'.entries[i] : i \in Initialised(table')}
  BY <1>1, UnallocatedIsEmpty DEF Stored
<1>6. f \in Stored /\ Distinct(Stored) BY <1>4, <1>5, StoredIsDistinct
<1>7. Initialised(table') = Initialised(table)
      /\ table'.entries = [table.entries EXCEPT ![s] = e]
  BY <1>1, <1>2, <1>4, ExchangeSets, EntryWritten
<1>8. \A i \in Initialised(table) : i # s => table.entries[i] # f
  <2>1. Searchable(table, capacity) BY <1>1 DEF Inv, Searches
  <2>2. ASSUME NEW i \in Initialised(table), table.entries[i] = f PROVE i = s
    <3>1. i \in Occupied(table) /\ s \in Occupied(table)
      BY <1>1, <1>4 DEF Inv, CountsAreExact
    <3>2. Matches(table, i, k) /\ Matches(table, s, k) /\ i \in 0 .. capacity - 1
      BY <1>1, <1>3, <2>2, <3>1, TableSets DEF Matches, Occupied
    <3>3. QED BY <1>1, <1>2, <2>1, <3>2, KeysDiffer
  <2>3. QED BY <2>2
<1>9. \A i \in Initialised(table) :
         table'.entries[i] = IF i = s THEN e ELSE table.entries[i]
  BY <1>1, <1>7, TableSets DEF Tables
<1> HIDE DEF e, f
<1>10. Stored' = (Stored \ {f}) \cup {e}
  BY <1>4, <1>5, <1>7, <1>8, <1>9 DEF f
<1>11. Dict' = [j \in DOMAIN Dict \cup {k} |-> IF j = k THEN v ELSE Dict[j]]
  <2>1. e.key = k /\ e.value = v /\ e.key = f.key BY <1>1, <1>3
  <2>2. DictOf((Stored \ {f}) \cup {e}) =
          [j \in DOMAIN DictOf(Stored) \cup {e.key} |->
             IF j = e.key THEN e.value ELSE DictOf(Stored)[j]]
    BY <1>6, <2>1, DictReplace
  <2>3. Dict = DictOf(Stored) /\ Dict' = DictOf(Stored') BY DEF Dict
  <2>4. QED BY <1>10, <2>1, <2>2, <2>3
<1>12. k \in DOMAIN Dict /\ Dict[k] = f.value BY <1>3, <1>6, DictEntry DEF Dict
<1>13. Hands = hands /\ Hands' = hands' BY <1>1 DEF Hands
<1>14. v \in Hands BY <1>13 DEF Exchange
<1>15. Hands' = (Hands \ {v}) \cup (IF k \in DOMAIN Dict THEN {Dict[k]} ELSE {})
  BY <1>2, <1>12, <1>13 DEF f
<1>16. QED BY <1>11, <1>14, <1>15 DEF Promised!Insert

LEMMA PlaceSimulates ==
    ASSUME Inv, Inv', Pending, Place
    PROVE  \E k \in Key, v \in Value : Promised!Insert(k, v)
<1> DEFINE e == insert.entry
<1>1. /\ insert.phase = "place" /\ e \in Entry /\ e.key \in Key /\ e.value \in Value
      /\ capacity \in Nat /\ table \in Tables(capacity)
      /\ fresh = Unallocated /\ fresh' = fresh /\ insert'.phase = "idle" /\ hands' = hands
  BY DEF Place, Inv, TypeOK, Idle, Gone, Entry
<1>2. PICK s \in 0 .. capacity - 1 :
         FreeAt(table, capacity, e.key, s) /\ table' = WriteEntry(table, s, e)
  BY DEF Place
<1> HIDE DEF e
<1>3. KeyAbsent(table, capacity, e.key) BY <1>1 DEF Inv, Searches, e
<1>4. Stored = {table.entries[i] : i \in Initialised(table)}
      /\ Stored' = {table'.entries[i] : i \in Initialised(table')}
  BY <1>1, UnallocatedIsEmpty DEF Stored
<1>5. Initialised(table') = Initialised(table) \cup {s} BY <1>1, <1>2, WriteSets
<1>6. Initialised(table) = Occupied(table) BY <1>1 DEF Inv, CountsAreExact
<1>7. s \notin Initialised(table) BY <1>2, <1>6 DEF FreeAt, Occupied
<1>8. table'.entries[s] = e
      /\ \A i \in Initialised(table) : table'.entries[i] = table.entries[i]
  <2>1. table'.entries = [table.entries EXCEPT ![s] = e] BY <1>2 DEF WriteEntry
  <2>2. QED BY <1>1, <1>7, <2>1, TableSets DEF Tables
<1>9. Stored' = Stored \cup {e} BY <1>4, <1>5, <1>7, <1>8
<1>10. \A f \in Stored : f.key # e.key
  <2>1. ASSUME NEW i \in Initialised(table) PROVE table.entries[i].key # e.key
    <3>1. i \in 0 .. capacity - 1 /\ table.states[i] = "occupied"
      BY <1>1, <1>6, TableSets DEF Occupied
    <3>2. QED BY <1>3, <3>1 DEF KeyAbsent, Matches
  <2>2. QED BY <1>4, <2>1
<1>11. /\ e.key \notin DOMAIN Dict
       /\ Dict' = [j \in DOMAIN Dict \cup {e.key} |-> IF j = e.key THEN e.value ELSE Dict[j]]
  <2>1. /\ e.key \notin DOMAIN DictOf(Stored)
        /\ DictOf(Stored \cup {e}) =
             [j \in DOMAIN DictOf(Stored) \cup {e.key} |->
                IF j = e.key THEN e.value ELSE DictOf(Stored)[j]]
    <3>1. Distinct(Stored) BY StoredIsDistinct
    <3>2. ASSUME NEW S, S = Stored, NEW g, g = e
          PROVE  /\ g.key \notin DOMAIN DictOf(S)
                 /\ DictOf(S \cup {g}) =
                      [j \in DOMAIN DictOf(S) \cup {g.key} |->
                         IF j = g.key THEN g.value ELSE DictOf(S)[j]]
      <4>1. Distinct(S) /\ \A f \in S : f.key # g.key BY <1>10, <3>1, <3>2
      <4>2. QED BY <4>1, DictAdd
    <3>3. QED BY <3>2
  <2>2. Dict = DictOf(Stored) /\ Dict' = DictOf(Stored') BY DEF Dict
  <2>3. QED BY <1>9, <2>1, <2>2
<1>12. Hands = hands \cup {e.value} /\ Hands' = hands
  <2>1. Hands = hands \cup {e.value} BY <1>1, HandsOf DEF Inv, e
  <2>2. insert' = Idle BY DEF Place
  <2>3. QED BY <1>1, <2>1, <2>2 DEF Hands
<1>13. e.value \notin hands BY <1>1 DEF Pending, e
<1>14. Hands' = (Hands \ {e.value})
                  \cup (IF e.key \in DOMAIN Dict THEN {Dict[e.key]} ELSE {})
       /\ e.value \in Hands
  BY <1>11, <1>12, <1>13
<1>15. Promised!Insert(e.key, e.value) BY <1>11, <1>14 DEF Promised!Insert
<1>16. QED BY <1>1, <1>15

LEMMA RefusalSimulates ==
    ASSUME Inv, Pending, OutOfMemory
    PROVE  \E k \in Key, v \in Value : Promised!Refuse(k, v)
<1> DEFINE e == insert.entry
<1>1. /\ insert.phase \in {"states", "entries"} /\ e \in Entry
      /\ capacity \in Nat /\ table \in Tables(capacity) /\ fresh = Unallocated
      /\ insert' = Idle /\ UNCHANGED <<table, fresh, hands>>
  BY DEF OutOfMemory, Inv, TypeOK, Idle, Gone
<1>2. e.key \in Key /\ e.value \in Value BY <1>1 DEF Entry
<1>3. KeyAbsent(table, capacity, e.key) BY <1>1 DEF Inv, Searches
<1>4. Stored = {table.entries[i] : i \in Initialised(table)}
  BY <1>1, UnallocatedIsEmpty DEF Stored
<1>5. e.key \notin DOMAIN Dict
  <2>1. ASSUME NEW i \in Initialised(table) PROVE table.entries[i].key # e.key
    <3>1. i \in Occupied(table) BY <1>1 DEF Inv, CountsAreExact
    <3>2. i \in 0 .. capacity - 1 /\ table.states[i] = "occupied"
      BY <1>1, <3>1, TableSets DEF Occupied
    <3>3. QED BY <1>3, <3>2 DEF KeyAbsent, Matches
  <2>2. QED BY <1>4, <2>1 DEF Dict, DictOf
<1>6. Hands = hands \cup {e.value} /\ Hands' = hands
  <2>1. Hands = hands \cup {e.value} BY <1>1, HandsOf DEF Inv
  <2>2. QED BY <1>1, <2>1 DEF Hands
<1>7. e.value \notin hands BY <1>1 DEF Pending
<1>8. Dict' = Dict BY <1>1 DEF Dict, Stored, DictOf, Initialised, Width
<1> HIDE DEF e
<1>9. e.value \in Hands /\ Hands' = Hands \ {e.value} BY <1>6, <1>7
<1>10. Promised!Refuse(e.key, e.value) BY <1>5, <1>8, <1>9 DEF Promised!Refuse
<1>11. QED BY <1>2, <1>10

LEMMA RemoveSimulates ==
    ASSUME Inv, NEW k \in Key, Remove(k)
    PROVE  Promised!Remove(k)
<1>1. /\ insert = Idle /\ insert.phase = "idle" /\ insert' = insert
      /\ capacity \in Nat /\ table \in Tables(capacity)
      /\ fresh = Unallocated /\ fresh' = fresh
  BY DEF Remove, Idle, Inv, TypeOK
<1>2. PICK s \in 0 .. capacity - 1 :
         /\ FoundAt(table, capacity, k, s)
         /\ table' = RemovedFrom(table, s)
         /\ hands' = hands \cup {table.entries[s].value}
  BY DEF Remove, RemovedFrom
<1> DEFINE f == table.entries[s]
<1>3. f.key = k /\ table.states[s] = "occupied" BY <1>2 DEF FoundAt, Matches
<1>4. Initialised(table') = Initialised(table) \ {s}
  BY <1>1, <1>2, <1>3, RemoveSets
<1>5. Initialised(table) = Occupied(table) BY <1>1 DEF Inv, CountsAreExact
<1>6. s \in Initialised(table) BY <1>1, <1>3, <1>5, TableSets DEF Occupied
<1>7. Stored = {table.entries[i] : i \in Initialised(table)}
      /\ Stored' = {table'.entries[i] : i \in Initialised(table')}
  BY <1>1, UnallocatedIsEmpty DEF Stored
<1>8. f \in Stored /\ Distinct(Stored) BY <1>6, <1>7, StoredIsDistinct
<1>9. \A i \in Initialised(table) : i # s => table.entries[i] # f
  <2>1. Searchable(table, capacity) BY <1>1 DEF Inv, Searches
  <2>2. ASSUME NEW i \in Initialised(table), table.entries[i] = f PROVE i = s
    <3>1. i \in Occupied(table) /\ i \in 0 .. capacity - 1 BY <1>1, <1>5, TableSets
    <3>2. Matches(table, i, k) /\ Matches(table, s, k)
      BY <1>3, <2>2, <3>1 DEF Matches, Occupied
    <3>3. QED BY <1>1, <1>2, <2>1, <3>1, <3>2, KeysDiffer
  <2>3. QED BY <2>2
<1>10. \A i \in Initialised(table) \ {s} : table'.entries[i] = table.entries[i]
  <2>1. table'.entries = [table.entries EXCEPT ![s] = Nothing] BY <1>2 DEF RemovedFrom
  <2>2. QED BY <1>1, <2>1, TableSets DEF Tables
<1> HIDE DEF f
<1>11. Stored' = Stored \ {f} BY <1>4, <1>6, <1>7, <1>9, <1>10 DEF f
<1>12. Dict' = [j \in DOMAIN Dict \ {k} |-> Dict[j]]
  <2>1. DictOf(Stored \ {f}) = [j \in DOMAIN DictOf(Stored) \ {f.key} |-> DictOf(Stored)[j]]
    BY <1>8, DictRemove
  <2>2. Dict = DictOf(Stored) /\ Dict' = DictOf(Stored') BY DEF Dict
  <2>3. QED BY <1>3, <1>11, <2>1, <2>2
<1>13. k \in DOMAIN Dict /\ Dict[k] = f.value BY <1>3, <1>8, DictEntry DEF Dict
<1>14. Hands = hands /\ Hands' = hands' BY <1>1 DEF Hands
<1>15. QED BY <1>2, <1>12, <1>13, <1>14 DEF Promised!Remove, f

LEMMA DropSimulates ==
    ASSUME Inv, Drop
    PROVE  Promised!Release
<1>1. /\ insert = Idle /\ insert' = Gone /\ hands' = hands
      /\ table' = Unallocated /\ fresh' = Unallocated
  BY DEF Drop, Inv, TypeOK, Idle
<1>2. Stored' = {} BY <1>1, UnallocatedIsEmpty DEF Stored
<1>3. Dict' = [k \in {} |-> {}] BY <1>2 DEF Dict, DictOf
<1>4. Hands' = Hands BY <1>1 DEF Hands
<1>5. QED BY <1>3, <1>4 DEF Promised!Release

(* The steps of an insert before it is placed or refused show nothing. *)
LEMMA BeginStutters ==
    ASSUME Inv, NEW k \in Key, NEW v \in Value, BeginInsert(k, v)
    PROVE  UNCHANGED <<Dict, Hands>>
<1>1. /\ insert = Idle /\ v \in hands /\ hands' = hands \ {v}
      /\ insert'.entry.value = v /\ insert'.phase \in {"states", "place"}
      /\ UNCHANGED <<table, fresh>>
  BY DEF BeginInsert, Running
<1>2. insert' \notin {Idle, Gone} BY <1>1 DEF Idle, Gone
<1>3. Hands' = Hands BY <1>1, <1>2 DEF Hands
<1>4. Dict' = Dict BY <1>1 DEF Dict, Stored, DictOf, Initialised, Width
<1>5. QED BY <1>3, <1>4

(* A round of rehome moves one entry from a table to the other. *)
LEMMA MoveKeepsStored ==
    ASSUME Inv, Rehome, table.states[insert.index] = "occupied"
    PROVE  Stored' = Stored
<1> DEFINE i == insert.index
           e == table.entries[i]
<1>1. /\ insert.phase = "rehome" /\ capacity \in Nat /\ i \in 0 .. capacity - 1
      /\ table \in Tables(capacity) /\ fresh \in Tables(GrownWidth)
  BY DEF Rehome, Inv, TypeOK, Idle, Gone
<1>2. GrownWidth \in Nat /\ GrownWidth > 0 BY <1>1, WidthsGrow
<1>3. PICK s \in 0 .. GrownWidth - 1 :
         /\ FreeAt(fresh, GrownWidth, e.key, s)
         /\ fresh' = WriteEntry(fresh, s, e)
         /\ table' = [table EXCEPT !.entries[i] = Nothing]
  BY DEF Rehome
<1>4. i \in Initialised(table)
  <2>1. i \in Occupied(table) BY <1>1, TableSets DEF Occupied
  <2>2. Initialised(table) = {j \in Occupied(table) : j >= i}
    BY <1>1 DEF Inv, CountsAreExact
  <2>3. QED BY <1>1, <2>1, <2>2
<1>5. e \in Entry BY <1>1, <1>4 DEF Initialised, Tables
<1>6. s \notin Initialised(fresh)
  <2>1. Initialised(fresh) = Occupied(fresh) BY DEF Inv, CountsAreExact
  <2>2. QED BY <1>3, <2>1 DEF FreeAt, Occupied
<1>7. Initialised(fresh') = Initialised(fresh) \cup {s}
  BY <1>1, <1>2, <1>3, <1>5, WriteSets
<1>8. Initialised(table') = Initialised(table) \ {i} BY <1>1, <1>3, TakenSets
<1>9. /\ \A j \in Initialised(table) : j # i => table'.entries[j] = table.entries[j]
      /\ fresh'.entries[s] = e
      /\ \A j \in Initialised(fresh) : fresh'.entries[j] = fresh.entries[j]
  <2>1. table'.entries = [table.entries EXCEPT ![i] = Nothing]
    BY <1>1, <1>3, EntryWritten
  <2>2. fresh'.entries = [fresh.entries EXCEPT ![s] = e] BY <1>3 DEF WriteEntry
  <2>3. /\ Initialised(table) \subseteq 0 .. capacity - 1
        /\ Initialised(fresh) \subseteq 0 .. GrownWidth - 1
    BY <1>1, <1>2, TableSets
  <2>4. QED BY <1>1, <1>3, <1>6, <2>1, <2>2, <2>3 DEF Tables
<1> HIDE DEF i, e
<1>10. {fresh'.entries[j] : j \in Initialised(fresh')}
          = {fresh.entries[j] : j \in Initialised(fresh)} \cup {e}
  BY <1>6, <1>7, <1>9
<1>11. {table.entries[j] : j \in Initialised(table)}
          = {table'.entries[j] : j \in Initialised(table')} \cup {e}
  BY <1>4, <1>8, <1>9 DEF e
<1>12. QED BY <1>10, <1>11 DEF Stored

LEMMA GrowthStutters ==
    ASSUME Inv, Inv', AllocateStates \/ AllocateEntries \/ Rehome \/ Install
    PROVE  UNCHANGED <<Dict, Hands>>
<1>1. Hands' = Hands
  <2>1. insert \notin {Idle, Gone} /\ insert' \notin {Idle, Gone}
        /\ insert'.entry = insert.entry /\ hands' = hands
    BY GrowthKeepsEntry DEF Inv, Idle, Gone
  <2>2. QED BY <2>1 DEF Hands
<1>2. Stored' = Stored
  <2>1. CASE AllocateStates BY <2>1 DEF AllocateStates, Stored, Initialised, Width
  <2>2. CASE AllocateEntries
    <3>1. /\ fresh = Unallocated /\ table' = table /\ fresh' = VacantTable(GrownWidth)
          /\ capacity \in Nat
      BY <2>2 DEF AllocateEntries, Inv, TypeOK
    <3>2. Initialised(fresh) = {} /\ Initialised(fresh') = {}
      BY <3>1, UnallocatedIsEmpty, WidthsGrow, VacantIsSearchable
    <3>3. QED BY <3>1, <3>2 DEF Stored
  <2>3. CASE Rehome
    <3>1. CASE table.states[insert.index] = "occupied"
      BY <2>3, <3>1, MoveKeepsStored
    <3>2. CASE table.states[insert.index] # "occupied"
      <4>1. UNCHANGED <<table, fresh>> BY <2>3, <3>2 DEF Rehome
      <4>2. QED BY <4>1 DEF Stored, Initialised, Width
    <3>3. QED BY <3>1, <3>2
  <2>4. CASE Install
    <3>1. /\ insert.phase = "rehome" /\ insert.index = capacity /\ capacity \in Nat
          /\ table \in Tables(capacity) /\ table' = fresh /\ fresh' = Unallocated
      BY <2>4 DEF Install, Inv, TypeOK
    <3>2. Initialised(table) = {}
      <4>1. Occupied(table) \subseteq 0 .. capacity - 1 BY <3>1, TableSets
      <4>2. QED BY <3>1, <4>1 DEF Inv, CountsAreExact
    <3>3. Initialised(fresh') = {} BY <3>1, UnallocatedIsEmpty
    <3>4. Initialised(table') = Initialised(fresh) BY <3>1
    <3>5. QED BY <3>1, <3>2, <3>3, <3>4 DEF Stored
  <2>5. QED BY <2>1, <2>2, <2>3, <2>4
<1>3. Dict' = Dict BY <1>2 DEF Dict, DictOf
<1>4. QED BY <1>1, <1>3

LEMMA StepSimulates ==
    Inv /\ Inv' /\ Pending /\ [Next]_vars => [Promised!Next]_<<Dict, Hands>>
<1> SUFFICES ASSUME Inv, Inv', Pending, [Next]_vars
             PROVE  [Promised!Next]_<<Dict, Hands>>
  OBVIOUS
<1>1. CASE UNCHANGED vars
  BY <1>1 DEF vars, Dict, Hands, Stored, DictOf, Initialised, Width
<1>2. ASSUME NEW k \in Key, NEW v \in Value, Exchange(k, v) PROVE Promised!Next
  BY <1>2, ExchangeSimulates DEF Promised!Next
<1>3. ASSUME NEW k \in Key, NEW v \in Value, BeginInsert(k, v) PROVE UNCHANGED <<Dict, Hands>>
  BY <1>3, BeginStutters
<1>4. CASE AllocateStates \/ AllocateEntries \/ Rehome \/ Install BY <1>4, GrowthStutters
<1>5. CASE OutOfMemory BY <1>5, RefusalSimulates DEF Promised!Next
<1>6. CASE Place BY <1>6, PlaceSimulates DEF Promised!Next
<1>7. ASSUME NEW k \in Key, Remove(k) PROVE Promised!Next
  BY <1>7, RemoveSimulates DEF Promised!Next
<1>8. CASE Drop BY <1>8, DropSimulates DEF Promised!Next
<1>9. QED BY <1>1, <1>2, <1>3, <1>4, <1>5, <1>6, <1>7, <1>8 DEF Next

LEMMA InitSimulates == Init => Pending /\ Promised!Init
<1> SUFFICES ASSUME Init PROVE Pending /\ Promised!Init OBVIOUS
<1>1. insert = Idle /\ hands = Value /\ table = Unallocated /\ fresh = Unallocated
  BY DEF Init
<1>2. Pending BY <1>1 DEF Pending, Idle
<1>3. Stored = {} BY <1>1, UnallocatedIsEmpty DEF Stored
<1>4. Dict = [k \in {} |-> {}] BY <1>3 DEF Dict, DictOf
<1>5. Hands = Value BY <1>1 DEF Hands
<1>6. QED BY <1>2, <1>4, <1>5 DEF Promised!Init

(* insert, remove and drop of the two buffers, whatever collides, wraps, is *)
(* rehomed or fails to be allocated, implement a finite map that owns its   *)
(* values: for every set of keys and values and every hash function.        *)
THEOREM Refinement == Spec => ImplementsFiniteMap
<1>1. Init => Pending /\ Promised!Init BY InitSimulates
<1>2. Inv /\ Pending /\ [Next]_vars => Pending' BY PendingNext
<1>3. Inv /\ Inv' /\ Pending /\ [Next]_vars => [Promised!Next]_<<Dict, Hands>>
  BY StepSimulates
<1>4. QED BY <1>1, <1>2, <1>3, Invariance, PTL DEF Spec, ImplementsFiniteMap, Promised!Spec
-----------------------------------------------------------------------------
(* Owners. *)
Inserts(v) == insert.phase \notin {"idle", "dropped"} /\ insert.entry.value = v

(* A value is in one slot of one table, in the insert that runs, or in the  *)
(* hands of the caller.                                                     *)
Once(v) ==
    /\ \A i, j \in Slots(table, v) : i = j
    /\ \A i, j \in Slots(fresh, v) : i = j
    /\ Slots(table, v) # {} => Slots(fresh, v) = {} /\ ~Inserts(v) /\ v \notin hands
    /\ Slots(fresh, v) # {} => ~Inserts(v) /\ v \notin hands
    /\ Inserts(v) => v \notin hands

AllOnce == \A v \in Value : Once(v)

Buffered ==
    buffers = (IF capacity = 0 THEN 0 ELSE 2)
                 + (CASE insert.phase = "entries" -> 1
                      [] insert.phase = "rehome" -> 2
                      [] OTHER -> 0)

(* What a write to a slot does to the slots of a value. *)
LEMMA SlotsWritten ==
    ASSUME NEW w \in Nat, NEW t \in Tables(w), NEW u, NEW s \in 0 .. w - 1, NEW e \in Entry,
           u.entries = [t.entries EXCEPT ![s] = e],
           Initialised(u) = Initialised(t) \cup {s},
           NEW v
    PROVE  Slots(u, v) = IF v = e.value THEN Slots(t, v) \cup {s} ELSE Slots(t, v) \ {s}
<1>1. Initialised(t) \subseteq 0 .. w - 1 BY TableSets
<1>2. u.entries[s] = e /\ \A i \in Initialised(t) : i # s => u.entries[i] = t.entries[i]
  BY <1>1 DEF Tables
<1>3. QED BY <1>2 DEF Slots

LEMMA SlotsTaken ==
    ASSUME NEW w \in Nat, NEW t \in Tables(w), NEW u, NEW s \in 0 .. w - 1,
           u.entries = [t.entries EXCEPT ![s] = Nothing],
           Initialised(u) = Initialised(t) \ {s},
           NEW v
    PROVE  Slots(u, v) = Slots(t, v) \ {s}
<1>1. Initialised(t) \subseteq 0 .. w - 1 BY TableSets
<1>2. \A i \in Initialised(u) : u.entries[i] = t.entries[i] BY <1>1 DEF Tables
<1>3. QED BY <1>2 DEF Slots

LEMMA NoSlots == \A v : Slots(Unallocated, v) = {}
BY UnallocatedIsEmpty DEF Slots

(* A slot a search found, or that holds an entry, is one of its value's. *)
LEMMA FoundIsSlot ==
    ASSUME Inv, insert = Idle, NEW k \in Key, NEW s \in 0 .. capacity - 1,
           FoundAt(table, capacity, k, s)
    PROVE  /\ s \in Initialised(table)
           /\ table.entries[s] \in Entry
           /\ s \in Slots(table, table.entries[s].value)
<1>1. insert.phase = "idle" /\ capacity \in Nat /\ table \in Tables(capacity)
  BY DEF Idle, Inv, TypeOK
<1>2. s \in Occupied(table) BY <1>1, TableSets DEF FoundAt, Matches, Occupied
<1>3. s \in Initialised(table) BY <1>1, <1>2 DEF Inv, CountsAreExact
<1>4. QED BY <1>1, <1>3 DEF Slots, Initialised, Tables

LEMMA ExchangeOnce ==
    ASSUME Inv, AllOnce, NEW k \in Key, NEW v \in Value, Exchange(k, v)
    PROVE  AllOnce'
<1> DEFINE e == [key |-> k, value |-> v]
<1>1. /\ e \in Entry /\ e.value = v
      /\ insert = Idle /\ insert.phase = "idle" /\ insert' = insert /\ fresh' = fresh
      /\ capacity \in Nat /\ table \in Tables(capacity) /\ v \in hands
  BY DEF Entry, Exchange, Idle, Inv, TypeOK
<1>2. PICK s \in 0 .. capacity - 1 :
         /\ FoundAt(table, capacity, k, s)
         /\ table' = [table EXCEPT !.entries[s] = e]
         /\ hands' = (hands \ {v}) \cup {table.entries[s].value}
  BY DEF Exchange
<1>3. s \in Initialised(table) /\ s \in Slots(table, table.entries[s].value)
  BY <1>1, <1>2, FoundIsSlot
<1>4. /\ Initialised(table') = Initialised(table) \cup {s}
      /\ table'.entries = [table.entries EXCEPT ![s] = e]
  BY <1>1, <1>2, <1>3, ExchangeSets, EntryWritten
<1> HIDE DEF e
<1>5. \A u : Slots(table', u) = IF u = v THEN Slots(table, u) \cup {s} ELSE Slots(table, u) \ {s}
  BY <1>1, <1>4, SlotsWritten
<1>6. ASSUME NEW u \in Value PROVE Once(u)'
  <2>1. ~Inserts(u) /\ ~Inserts(u)' /\ Slots(fresh, u)' = Slots(fresh, u)
    BY <1>1 DEF Inserts, Slots, Initialised, Width
  <2>2. Once(u) /\ Once(v) BY DEF AllOnce
  <2>3. Slots(table, v) = {} /\ Slots(fresh, v) = {} BY <1>1, <2>2 DEF Once
  <2>4. CASE u = v BY <1>1, <1>2, <1>3, <1>5, <2>1, <2>3, <2>4 DEF Once
  <2>5. CASE u # v /\ u = table.entries[s].value
    BY <1>2, <1>3, <1>5, <2>1, <2>2, <2>5 DEF Once
  <2>6. CASE u # v /\ u # table.entries[s].value
    BY <1>2, <1>5, <2>1, <2>2, <2>6 DEF Once
  <2>7. QED BY <2>4, <2>5, <2>6
<1>7. QED BY <1>6 DEF AllOnce

LEMMA GrowthOnce ==
    ASSUME Inv, AllOnce, AllocateStates \/ AllocateEntries \/ Install
    PROVE  AllOnce'
<1>1. \A v : Inserts(v)' = Inserts(v) /\ hands' = hands
  BY GrowthKeepsEntry DEF Inv, Inserts
<1>2. CASE AllocateStates
  <2>1. UNCHANGED <<table, fresh>> BY <1>2 DEF AllocateStates
  <2>2. QED BY <1>1, <2>1 DEF AllOnce, Once, Slots, Initialised, Width
<1>3. CASE AllocateEntries
  <2>1. /\ fresh = Unallocated /\ table' = table /\ fresh' = VacantTable(GrownWidth)
        /\ capacity \in Nat
    BY <1>3 DEF AllocateEntries, Inv, TypeOK
  <2>2. \A v : Slots(fresh', v) = {} BY <2>1, WidthsGrow, VacantIsSearchable DEF Slots
  <2>3. \A v : Slots(table', v) = Slots(table, v) BY <2>1
  <2>4. QED BY <1>1, <2>2, <2>3 DEF AllOnce, Once
<1>4. CASE Install
  <2>1. \A v : Slots(table', v) = Slots(fresh, v) /\ Slots(fresh', v) = {}
    BY <1>4, NoSlots DEF Install
  <2>2. QED BY <1>1, <2>1 DEF AllOnce, Once
<1>5. QED BY <1>2, <1>3, <1>4

LEMMA RehomeOnce ==
    ASSUME Inv, AllOnce, Rehome
    PROVE  AllOnce'
<1>1. \A v : Inserts(v)' = Inserts(v) /\ hands' = hands
  BY GrowthKeepsEntry DEF Inv, Inserts
<1>2. CASE table.states[insert.index] # "occupied"
  <2>1. UNCHANGED <<table, fresh>> BY <1>2 DEF Rehome
  <2>2. QED BY <1>1, <2>1 DEF AllOnce, Once, Slots, Initialised, Width
<1>3. CASE table.states[insert.index] = "occupied"
  <2> DEFINE i == insert.index
             e == table.entries[i]
  <2>1. /\ insert.phase = "rehome" /\ i \in 0 .. capacity - 1
        /\ capacity \in Nat /\ table \in Tables(capacity)
        /\ GrownWidth \in Nat /\ fresh \in Tables(GrownWidth)
    BY WidthsGrow DEF Rehome, Inv, TypeOK, Idle, Gone
  <2>2. PICK s \in 0 .. GrownWidth - 1 :
           /\ FreeAt(fresh, GrownWidth, e.key, s)
           /\ fresh' = WriteEntry(fresh, s, e)
           /\ table' = [table EXCEPT !.entries[i] = Nothing]
    BY <1>3 DEF Rehome
  <2>3. i \in Initialised(table)
    <3>1. i \in Occupied(table) BY <1>3, <2>1, TableSets DEF Occupied
    <3>2. Initialised(table) = {j \in Occupied(table) : j >= i}
      BY <2>1 DEF Inv, CountsAreExact
    <3>3. QED BY <2>1, <3>1, <3>2
  <2>4. e \in Entry /\ i \in Slots(table, e.value)
    BY <2>1, <2>3 DEF Initialised, Tables, Slots
  <2>5. fresh'.entries = [fresh.entries EXCEPT ![s] = e] BY <2>2 DEF WriteEntry
  <2>6. Initialised(fresh') = Initialised(fresh) \cup {s} BY <2>1, <2>2, <2>4, WriteSets
  <2>7. \A v : Slots(fresh', v)
                 = IF v = e.value THEN Slots(fresh, v) \cup {s} ELSE Slots(fresh, v) \ {s}
    BY <2>1, <2>4, <2>5, <2>6, SlotsWritten
  <2>8. /\ table'.entries = [table.entries EXCEPT ![i] = Nothing]
        /\ Initialised(table') = Initialised(table) \ {i}
    BY <2>1, <2>2, TakenSets, EntryWritten
  <2>9. \A v : Slots(table', v) = Slots(table, v) \ {i} BY <2>1, <2>8, SlotsTaken
  <2> HIDE DEF i, e
  <2>10. ASSUME NEW v \in Value PROVE Once(v)'
    <3>1. Once(v) BY DEF AllOnce
    <3>2. CASE v = e.value BY <1>1, <2>4, <2>7, <2>9, <3>1, <3>2 DEF Once
    <3>3. CASE v # e.value BY <1>1, <2>7, <2>9, <3>1, <3>3 DEF Once
    <3>4. QED BY <3>2, <3>3
  <2>11. QED BY <2>10 DEF AllOnce
<1>4. QED BY <1>2, <1>3

LEMMA PlaceOnce ==
    ASSUME Inv, AllOnce, Place
    PROVE  AllOnce'
<1> DEFINE e == insert.entry
<1>1. /\ insert.phase = "place" /\ e \in Entry /\ capacity \in Nat /\ table \in Tables(capacity)
      /\ fresh = Unallocated /\ fresh' = fresh /\ insert'.phase = "idle" /\ hands' = hands
  BY DEF Place, Inv, TypeOK, Idle, Gone
<1>2. PICK s \in 0 .. capacity - 1 : table' = WriteEntry(table, s, e) BY DEF Place
<1>3. table'.entries = [table.entries EXCEPT ![s] = e] BY <1>2 DEF WriteEntry
<1>4. Initialised(table') = Initialised(table) \cup {s} BY <1>1, <1>2, WriteSets
<1>5. \A v : Inserts(v) <=> v = e.value BY <1>1 DEF Inserts
<1> HIDE DEF e
<1>6. \A v : Slots(table', v)
               = IF v = e.value THEN Slots(table, v) \cup {s} ELSE Slots(table, v) \ {s}
  BY <1>1, <1>3, <1>4, SlotsWritten
<1>7. \A v : Slots(fresh, v) = {} /\ Slots(fresh', v) = {} /\ ~Inserts(v)'
  BY <1>1, NoSlots DEF Inserts
<1>8. QED BY <1>1, <1>5, <1>6, <1>7 DEF AllOnce, Once

LEMMA RemoveOnce ==
    ASSUME Inv, AllOnce, NEW k \in Key, Remove(k)
    PROVE  AllOnce'
<1>1. /\ insert = Idle /\ insert.phase = "idle" /\ insert' = insert /\ fresh' = fresh
      /\ capacity \in Nat /\ table \in Tables(capacity)
  BY DEF Remove, Idle, Inv, TypeOK
<1>2. PICK s \in 0 .. capacity - 1 :
         /\ FoundAt(table, capacity, k, s)
         /\ table' = RemovedFrom(table, s)
         /\ hands' = hands \cup {table.entries[s].value}
  BY DEF Remove, RemovedFrom
<1>3. s \in Slots(table, table.entries[s].value) /\ table.states[s] = "occupied"
  BY <1>1, <1>2, FoundIsSlot DEF FoundAt, Matches
<1>4. table'.entries = [table.entries EXCEPT ![s] = Nothing] BY <1>2 DEF RemovedFrom
<1>5. Initialised(table') = Initialised(table) \ {s} BY <1>1, <1>2, <1>3, RemoveSets
<1>6. \A v : Slots(table', v) = Slots(table, v) \ {s} BY <1>1, <1>4, <1>5, SlotsTaken
<1>7. \A v : ~Inserts(v) /\ ~Inserts(v)' /\ Slots(fresh', v) = Slots(fresh, v)
  BY <1>1 DEF Inserts
<1>8. ASSUME NEW v \in Value PROVE Once(v)'
  <2>1. Once(v) BY DEF AllOnce
  <2>2. CASE v = table.entries[s].value BY <1>2, <1>3, <1>6, <1>7, <2>1, <2>2 DEF Once
  <2>3. CASE v # table.entries[s].value BY <1>2, <1>6, <1>7, <2>1, <2>3 DEF Once
  <2>4. QED BY <2>2, <2>3
<1>9. QED BY <1>8 DEF AllOnce

LEMMA OnceNext == Inv /\ AllOnce /\ [Next]_vars => AllOnce'
<1> SUFFICES ASSUME Inv, AllOnce, [Next]_vars PROVE AllOnce' OBVIOUS
<1>1. CASE UNCHANGED vars
  BY <1>1 DEF vars, AllOnce, Once, Slots, Initialised, Width, Inserts
<1>2. ASSUME NEW k \in Key, NEW v \in Value, Exchange(k, v) PROVE AllOnce'
  BY <1>2, ExchangeOnce
<1>3. ASSUME NEW k \in Key, NEW v \in Value, BeginInsert(k, v) PROVE AllOnce'
  <2>1. \A u : Slots(table', u) = Slots(table, u) /\ Slots(fresh', u) = Slots(fresh, u)
    BY <1>3 DEF BeginInsert
  <2>2. /\ v \in hands /\ hands' = hands \ {v}
        /\ \A u : Inserts(u)' => u = v
    BY <1>3 DEF BeginInsert, Running, Inserts
  <2>3. QED BY <2>1, <2>2 DEF AllOnce, Once
<1>4. CASE AllocateStates \/ AllocateEntries \/ Install BY <1>4, GrowthOnce
<1>5. CASE Rehome BY <1>5, RehomeOnce
<1>6. CASE OutOfMemory
  <2>1. \A u : Slots(table', u) = Slots(table, u) /\ Slots(fresh', u) = Slots(fresh, u)
    BY <1>6 DEF OutOfMemory
  <2>2. hands' = hands /\ \A u : ~Inserts(u)' BY <1>6 DEF OutOfMemory, Inserts, Idle
  <2>3. QED BY <2>1, <2>2 DEF AllOnce, Once
<1>7. CASE Place BY <1>7, PlaceOnce
<1>8. ASSUME NEW k \in Key, Remove(k) PROVE AllOnce' BY <1>8, RemoveOnce
<1>9. CASE Drop
  <2>1. \A u : Slots(table', u) = {} /\ Slots(fresh', u) = Slots(fresh, u)
    BY <1>9, NoSlots DEF Drop
  <2>2. hands' = hands /\ \A u : ~Inserts(u)' BY <1>9 DEF Drop, Inserts, Gone
  <2>3. QED BY <2>1, <2>2 DEF AllOnce, Once
<1>10. QED BY <1>1, <1>2, <1>3, <1>4, <1>5, <1>6, <1>7, <1>8, <1>9 DEF Next

LEMMA BufferedNext == Inv /\ Buffered /\ [Next]_vars => Buffered'
<1> SUFFICES ASSUME Inv, Buffered, [Next]_vars PROVE Buffered' OBVIOUS
<1>1. capacity \in Nat /\ buffers \in Int /\ GrownWidth \in Nat /\ GrownWidth > 0
  BY WidthsGrow DEF Inv, TypeOK
<1>2. CASE UNCHANGED vars BY <1>2 DEF vars, Buffered
<1>3. ASSUME NEW k \in Key, NEW v \in Value, Exchange(k, v) PROVE Buffered'
  BY <1>3 DEF Exchange, Buffered
<1>4. ASSUME NEW k \in Key, NEW v \in Value, BeginInsert(k, v) PROVE Buffered'
  BY <1>4 DEF BeginInsert, Buffered, Idle, Running
<1>5. CASE AllocateStates \/ AllocateEntries \/ Rehome
  <2>1. insert \notin {Idle, Gone} BY <1>5, GrowthKeepsEntry DEF Inv, Idle, Gone
  <2>2. QED
    BY <1>1, <1>5, <2>1 DEF AllocateStates, AllocateEntries, Rehome, Buffered, Inv, TypeOK
<1>6. CASE OutOfMemory BY <1>1, <1>6 DEF OutOfMemory, Buffered, Idle
<1>7. CASE Install
  <2>1. insert'.phase = "place" /\ insert.phase = "rehome" /\ capacity' > 0
    BY <1>1, <1>7 DEF Install, Inv, TypeOK, Idle, Gone
  <2>2. QED BY <1>1, <1>7, <2>1 DEF Install, Buffered
<1>8. CASE Place BY <1>8 DEF Place, Buffered, Idle
<1>9. ASSUME NEW k \in Key, Remove(k) PROVE Buffered' BY <1>9 DEF Remove, Buffered
<1>10. CASE Drop BY <1>1, <1>10 DEF Drop, Buffered, Idle, Gone
<1>11. QED BY <1>2, <1>3, <1>4, <1>5, <1>6, <1>7, <1>8, <1>9, <1>10 DEF Next

LEMMA OnceCounts ==
    ASSUME TypeOK, NEW v \in Value, Once(v)
    PROVE  Cardinality(Holders(v)) <= 1
<1>1. insert \notin {Idle, Gone} /\ v \in {v} \cap {insert.entry.value} => Inserts(v)
  BY Phases DEF Inserts
<1>2. \A x, y \in Holders(v) : x = y
  <2>1. \A x \in Holders(v) :
           \/ \E i \in Slots(table, v) : x = <<"table", i>>
           \/ \E i \in Slots(fresh, v) : x = <<"fresh", i>>
           \/ x = <<"insert", v>> /\ Inserts(v)
           \/ x = <<"hands", v>> /\ v \in hands
    BY <1>1 DEF Holders
  <2>2. QED BY <2>1 DEF Once
<1>3. CASE Holders(v) = {} BY <1>3, FS_EmptySet
<1>4. CASE Holders(v) # {}
  <2>1. PICK x : Holders(v) = {x} BY <1>2, <1>4
  <2>2. QED BY <2>1, FS_Singleton
<1>5. QED BY <1>3, <1>4

(* However values are inserted, replaced, moved by a growth, removed or     *)
(* given back by a failed insert, each has at most one owner, and the       *)
(* buffers that are allocated are those of the tables (hash_map.silk:       *)
(* insert, rehome, remove, drop).                                           *)
THEOREM Ownership == Spec => []StorageHasOneOwner
<1>1. Init => AllOnce /\ Buffered
  <2> SUFFICES ASSUME Init PROVE AllOnce /\ Buffered OBVIOUS
  <2>1. /\ \A v : Slots(table, v) = {} /\ Slots(fresh, v) = {} /\ ~Inserts(v)
        /\ buffers = 0 /\ capacity = 0 /\ insert.phase = "idle"
    BY NoSlots DEF Init, Inserts, Idle
  <2>2. QED BY <2>1 DEF AllOnce, Once, Buffered
<1>2. Inv /\ AllOnce /\ Buffered => StorageHasOneOwner
  BY OnceCounts DEF Inv, AllOnce, Buffered, StorageHasOneOwner
<1>3. QED BY <1>1, <1>2, OnceNext, BufferedNext, Invariance, PTL DEF Spec
=============================================================================
