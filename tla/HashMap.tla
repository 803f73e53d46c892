------------------------------ MODULE HashMap ------------------------------
(***************************************************************************)
(* silk.hash_map: open addressing with linear probing over two buffers of  *)
(* one width, the states and the entries.  An insert that needs room runs  *)
(* in several steps: two allocations, either of which may fail, one step   *)
(* per slot of the old table, and the placement of the new entry.          *)
(***************************************************************************)
EXTENDS Integers, FiniteSets

CONSTANTS
    Key,            \* keys, up to equivalence
    Value,          \* the values a caller owns at first, told apart
    Hash,           \* Hash[k]: the hash of k under the seed of the map
    InitialWidth,   \* INITIAL_WIDTH: the width of the first table (8)
    MaxWidth,       \* no table is wider: the allocation of one is refused
    Nothing         \* the content of an uninitialised entry slot

ASSUME HashAssumption == Hash \in [Key -> Nat]
ASSUME WidthAssumption == InitialWidth \in Nat /\ InitialWidth >= 4
ASSUME NothingAssumption == Nothing \notin [key : Key, value : Value]

VARIABLES
    table,          \* the installed storage: its states and its entries
    fresh,          \* the replacement table while an insert grows the map
    capacity, length, used,
    insert,         \* the insert that is running, by phase
    buffers,        \* how many buffers are allocated
    hands           \* the values the caller owns

vars == <<table, fresh, capacity, length, used, insert, buffers, hands>>

Entry == [key : Key, value : Value]
State == {"vacant", "occupied", "removed"}
Width(t) == DOMAIN t.states
Tables(w) ==
    [states : [0 .. w - 1 -> State], entries : [0 .. w - 1 -> Entry \cup {Nothing}]]

Unallocated == [states |-> [i \in {} |-> {}], entries |-> [i \in {} |-> {}]]
VacantTable(w) ==
    [states |-> [i \in 0 .. w - 1 |-> "vacant"], entries |-> [i \in 0 .. w - 1 |-> Nothing]]

Idle == [phase |-> "idle"]
Running(phase, e, i) == [phase |-> phase, entry |-> e, index |-> i]
Gone == [phase |-> "dropped"]

-----------------------------------------------------------------------------
(* bucketOf, and the slots that a probe run from `home' visits before s. *)
Home(k, w) == Hash[k] % w
Before(w, home, s) ==
    IF home <= s THEN home .. s - 1 ELSE (home .. w - 1) \cup (0 .. s - 1)

Matches(t, i, k) == t.states[i] = "occupied" /\ t.entries[i].key = k

\* Faulty variant of FoundAt: the search stops at a removed mark.
FoundBeforeMarks(t, w, k, s) ==
    /\ Matches(t, s, k)
    /\ \A j \in Before(w, Home(k, w), s) : t.states[j] = "occupied" /\ ~Matches(t, j, k)

(* A search for k passes removed marks and other keys, stops at a vacant  *)
(* slot, and ends at slot s with its key.                                 *)
FoundAt(t, w, k, s) ==
    /\ Matches(t, s, k)
    /\ \A j \in Before(w, Home(k, w), s) : t.states[j] # "vacant" /\ ~Matches(t, j, k)

Found(k) == \E s \in 0 .. capacity - 1 : FoundAt(table, capacity, k, s)

(* The first slot of the probe run of k that is not occupied. *)
FreeAt(t, w, k, s) ==
    /\ t.states[s] # "occupied"
    /\ \A j \in Before(w, Home(k, w), s) : t.states[j] = "occupied"

WriteEntry(t, s, e) ==
    [states |-> [t.states EXCEPT ![s] = "occupied"],
     entries |-> [t.entries EXCEPT ![s] = e]]

\* Faulty variant of NeedsRoom: the new entry is not counted.
NeedsRoomTooLate == capacity = 0 \/ capacity - (capacity \div 4) < used

NeedsRoom == capacity = 0 \/ capacity - (capacity \div 4) < used + 1
GrownWidth == IF capacity = 0 THEN InitialWidth ELSE capacity + capacity

-----------------------------------------------------------------------------
Init ==
    /\ table = Unallocated /\ fresh = Unallocated
    /\ capacity = 0 /\ length = 0 /\ used = 0
    /\ insert = Idle
    /\ buffers = 0
    /\ hands = Value

(* insert under a key that is present: the slot keeps its place, the value *)
(* it held goes to the caller.                                             *)
Exchange(k, v) ==
    /\ insert = Idle
    /\ v \in hands
    /\ \E s \in 0 .. capacity - 1 :
          /\ FoundAt(table, capacity, k, s)
          /\ table' = [table EXCEPT !.entries[s] = [key |-> k, value |-> v]]
          /\ hands' = (hands \ {v}) \cup {table.entries[s].value}
    /\ UNCHANGED <<fresh, capacity, length, used, insert, buffers>>

BeginInsert(k, v) ==
    /\ insert = Idle
    /\ v \in hands
    /\ ~Found(k)
    /\ hands' = hands \ {v}
    /\ insert' = Running(IF NeedsRoom THEN "states" ELSE "place", [key |-> k, value |-> v], 0)
    /\ UNCHANGED <<table, fresh, capacity, length, used, buffers>>

AllocateStates ==
    /\ insert.phase = "states"
    /\ GrownWidth <= MaxWidth
    /\ buffers' = buffers + 1
    /\ insert' = [insert EXCEPT !.phase = "entries"]
    /\ UNCHANGED <<table, fresh, capacity, length, used, hands>>

AllocateEntries ==
    /\ insert.phase = "entries"
    /\ buffers' = buffers + 1
    /\ fresh' = VacantTable(GrownWidth)
    /\ insert' = [insert EXCEPT !.phase = "rehome"]
    /\ UNCHANGED <<table, capacity, length, used, hands>>

\* Faulty variant of OutOfMemory: the buffer of the states is not released.
OutOfMemoryKeepingBuffer ==
    /\ insert.phase \in {"states", "entries"}
    /\ insert' = Idle
    /\ UNCHANGED <<table, fresh, capacity, length, used, buffers, hands>>

(* Either allocation fails: the one already taken is released, and so are *)
(* the key and the value of the insert.                                   *)
OutOfMemory ==
    /\ insert.phase \in {"states", "entries"}
    /\ buffers' = IF insert.phase = "entries" THEN buffers - 1 ELSE buffers
    /\ insert' = Idle
    /\ UNCHANGED <<table, fresh, capacity, length, used, hands>>

(* One round of the loop of rehome, with settle.  The slot that is taken   *)
(* from is left uninitialised; its state is not written.                   *)
Rehome ==
    LET i == insert.index IN
    /\ insert.phase = "rehome"
    /\ i < capacity
    /\ IF table.states[i] = "occupied"
       THEN \E s \in 0 .. GrownWidth - 1 :
               /\ FreeAt(fresh, GrownWidth, table.entries[i].key, s)
               /\ fresh' = WriteEntry(fresh, s, table.entries[i])
               /\ table' = [table EXCEPT !.entries[i] = Nothing]
       ELSE UNCHANGED <<table, fresh>>
    /\ insert' = [insert EXCEPT !.index = i + 1]
    /\ UNCHANGED <<capacity, length, used, buffers, hands>>

\* Faulty variant of Install: the removed marks stay counted.
InstallKeepingUsed ==
    /\ insert.phase = "rehome"
    /\ insert.index = capacity
    /\ table' = fresh /\ fresh' = Unallocated
    /\ capacity' = GrownWidth
    /\ buffers' = IF capacity = 0 THEN buffers ELSE buffers - 2
    /\ insert' = [insert EXCEPT !.phase = "place", !.index = 0]
    /\ UNCHANGED <<length, used, hands>>

(* The old buffers are released and the replacement is installed. *)
Install ==
    /\ insert.phase = "rehome"
    /\ insert.index = capacity
    /\ table' = fresh /\ fresh' = Unallocated
    /\ capacity' = GrownWidth
    /\ used' = length
    /\ buffers' = IF capacity = 0 THEN buffers ELSE buffers - 2
    /\ insert' = [insert EXCEPT !.phase = "place", !.index = 0]
    /\ UNCHANGED <<length, hands>>

Place ==
    /\ insert.phase = "place"
    /\ \E s \in 0 .. capacity - 1 :
          /\ FreeAt(table, capacity, insert.entry.key, s)
          /\ table' = WriteEntry(table, s, insert.entry)
          /\ used' = IF table.states[s] = "vacant" THEN used + 1 ELSE used
    /\ length' = length + 1
    /\ insert' = Idle
    /\ UNCHANGED <<fresh, capacity, buffers, hands>>

\* Faulty variant of Remove: the slot becomes vacant.
RemoveAsVacant(k) ==
    /\ insert = Idle
    /\ \E s \in 0 .. capacity - 1 :
          /\ FoundAt(table, capacity, k, s)
          /\ table' = [states |-> [table.states EXCEPT ![s] = "vacant"],
                       entries |-> [table.entries EXCEPT ![s] = Nothing]]
          /\ hands' = hands \cup {table.entries[s].value}
    /\ length' = length - 1
    /\ UNCHANGED <<fresh, capacity, used, insert, buffers>>

(* remove of a key that is present; of another key it changes nothing. *)
Remove(k) ==
    /\ insert = Idle
    /\ \E s \in 0 .. capacity - 1 :
          /\ FoundAt(table, capacity, k, s)
          /\ table' = [states |-> [table.states EXCEPT ![s] = "removed"],
                       entries |-> [table.entries EXCEPT ![s] = Nothing]]
          /\ hands' = hands \cup {table.entries[s].value}
    /\ length' = length - 1
    /\ UNCHANGED <<fresh, capacity, used, insert, buffers>>

\* Faulty variant of Drop: the width of the released table is kept.
DropKeepingCapacity ==
    /\ insert = Idle
    /\ table' = Unallocated
    /\ length' = 0
    /\ buffers' = IF capacity = 0 THEN buffers ELSE buffers - 2
    /\ insert' = Gone
    /\ UNCHANGED <<fresh, capacity, used, hands>>

(* drop: every entry is released once, then both buffers. *)
Drop ==
    /\ insert = Idle
    /\ table' = Unallocated
    /\ capacity' = 0 /\ length' = 0
    /\ buffers' = IF capacity = 0 THEN buffers ELSE buffers - 2
    /\ insert' = Gone
    /\ UNCHANGED <<fresh, used, hands>>

Next ==
    \/ \E k \in Key, v \in Value : Exchange(k, v) \/ BeginInsert(k, v)
    \/ AllocateStates \/ AllocateEntries \/ OutOfMemory
    \/ Rehome \/ Install \/ Place
    \/ \E k \in Key : Remove(k)
    \/ Drop

Spec == Init /\ [][Next]_vars

-----------------------------------------------------------------------------
Occupied(t) == {i \in Width(t) : t.states[i] = "occupied"}
Initialised(t) == {i \in Width(t) : t.entries[i] # Nothing}
Marked(t) == {i \in Width(t) : t.states[i] # "vacant"}

(* Types of the storage, the counters and the running insert. *)
TypeOK ==
    /\ capacity \in Nat /\ used \in Int /\ length \in Int /\ buffers \in Int
    /\ table \in Tables(capacity)
    /\ fresh \in IF insert.phase = "rehome" THEN Tables(GrownWidth) ELSE {Unallocated}
    /\ insert \in {Idle, Gone}
                  \cup [phase : {"states", "entries", "place"}, entry : Entry, index : {0}]
                  \cup [phase : {"rehome"}, entry : Entry, index : 0 .. capacity]
    /\ hands \subseteq Value

(* A search finds every stored key at the slot that stores it, so no mark  *)
(* of a removal, no wrap at the end of the table and no earlier equal key   *)
(* hides it: in the installed table between the steps of an insert, and in *)
(* the replacement table all through the rehoming.                         *)
StoredKeysAreFound ==
    /\ insert.phase # "rehome" =>
          \A i \in Occupied(table) : FoundAt(table, capacity, table.entries[i].key, i)
    /\ insert.phase = "rehome" =>
          \A i \in Occupied(fresh) : FoundAt(fresh, GrownWidth, fresh.entries[i].key, i)

(* The loops that look for a slot have no bound of their own: they end      *)
(* because a vacant slot is left, in the table and in its replacement.      *)
ProbesEnd ==
    /\ capacity > 0 => Marked(table) # Width(table)
    /\ insert.phase = "rehome" => Marked(fresh) # Width(fresh)

(* length and used, which decide the growth, count the entries and the     *)
(* slots that are not vacant; and an entry slot is initialised exactly when *)
(* its state says so, apart from those rehome has taken from already.      *)
CountsAreExact ==
    /\ length = Cardinality(Initialised(table)) + Cardinality(Initialised(fresh))
    /\ insert # Gone => used = Cardinality(Marked(table))
    /\ Initialised(table) =
          {i \in Occupied(table) : insert.phase = "rehome" => i >= insert.index}
    /\ Initialised(fresh) = Occupied(fresh) /\ Marked(fresh) = Occupied(fresh)

(* Whoever holds a value: slots of the two tables, the insert that runs, *)
(* the caller.                                                           *)
Slots(t, v) == {i \in Initialised(t) : t.entries[i].value = v}
Holders(v) ==
    ({"table"} \X Slots(table, v)) \cup ({"fresh"} \X Slots(fresh, v))
    \cup ({"insert"} \X (IF insert \in {Idle, Gone} THEN {} ELSE {v} \cap {insert.entry.value}))
    \cup ({"hands"} \X ({v} \cap hands))

(* No value has two owners, however it was replaced, moved or given back;  *)
(* and no buffer is lost when an allocation or the whole growth fails: the *)
(* allocated buffers are those of the tables.                              *)
StorageHasOneOwner ==
    /\ \A v \in Value : Cardinality(Holders(v)) <= 1
    /\ buffers = (IF capacity = 0 THEN 0 ELSE 2)
                    + (CASE insert.phase = "entries" -> 1
                         [] insert.phase = "rehome" -> 2
                         [] OTHER -> 0)

-----------------------------------------------------------------------------
(* The map a caller sees: the entries of both tables, and as its hands the  *)
(* caller's until the insert that runs is decided.                          *)
Stored ==
    {table.entries[i] : i \in Initialised(table)} \cup {fresh.entries[i] : i \in Initialised(fresh)}
DictOf(entries) ==
    [k \in {e.key : e \in entries} |-> (CHOOSE e \in entries : e.key = k).value]
Dict == DictOf(Stored)
Hands ==
    IF insert \in {Idle, Gone} THEN hands ELSE hands \cup {insert.entry.value}

Promised == INSTANCE FiniteMap WITH dict <- Dict, hands <- Hands

(* Whatever collides, wraps, is removed, grows or fails half way, the map   *)
(* behaves as a finite map that gives each value back once.                 *)
ImplementsFiniteMap == Promised!Spec
=============================================================================
