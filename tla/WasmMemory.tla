----------------------------- MODULE WasmMemory -----------------------------
(***************************************************************************)
(* The linear memory of a compiled WebAssembly module: the static data,    *)
(* the shadow stack of frames that grows up from its end, and the heap, a   *)
(* table of free lists by size class at a fixed address and the blocks that *)
(* are carved above it.  Addresses wrap at the width of a machine word.     *)
(***************************************************************************)
EXTENDS Integers, Sequences, FiniteSets

CONSTANTS
    WordBits,       \* the width of an address (32)
    PageBits,       \* log2 of a page of memory (16)
    Shift,          \* heapClassShift: log2 of heapHeaderBytes (4)
    ClassCount,     \* heapClassCount (27)
    TableBase,      \* heapTableBase, which is also stackLimit (65536)
    StaticEnd,      \* where the static data ends and the stack begins
    Layouts,        \* the sizes and alignments that are allocated
    FrameSizes,     \* the frame sizes of the functions
    MaxDepth        \* bound: frames on the stack

Modulus == 2 ^ WordBits
Page == 2 ^ PageBits
Header == 2 ^ Shift
Powers == {2 ^ n : n \in 0 .. WordBits - 1}

Wrap(n) == n % Modulus
Down(n, a) == n - (n % a)

(* heapBase: the table has a word per list, and the irregular list is last. *)
HeapBase == TableBase + Down(((ClassCount + 1) * (Header \div 4)) + Header - 1, Header)
LargestClass == 2 ^ (Shift + ClassCount - 1)

ASSUME MemoryAssumption ==
    /\ WordBits \in Nat /\ PageBits \in 1 .. WordBits - 1 /\ Shift \in 2 .. PageBits
    /\ ClassCount \in 1 .. WordBits - Shift
    /\ TableBase \in Nat /\ StaticEnd \in Nat /\ MaxDepth \in Nat
    /\ HeapBase + Header <= Modulus
    /\ Layouts \subseteq [bytes : 0 .. Modulus - 1, alignment : Powers]
    /\ FrameSizes \subseteq 1 .. Modulus - 1

VARIABLES
    stackPointer, frames,
    heapPointer,
    heads,          \* the table: the first block of each free list, or 0
    blocks,         \* the header of every block that was carved
    owned,          \* the layout each owned block was allocated for
    pages,          \* memory.size
    status          \* the status word

vars == <<stackPointer, frames, heapPointer, heads, blocks, owned, pages, status>>
stackVars == <<stackPointer, frames, status>>

-----------------------------------------------------------------------------
(* The size class of a layout.  BitLength is 32 - clz. *)
BitLength(n) == CHOOSE b \in 0 .. WordBits : n < 2 ^ b /\ (b > 0 => 2 ^ (b - 1) <= n)
Alignment(r) == IF r.alignment < Header THEN Header ELSE r.alignment
Class(r) ==
    IF Alignment(r) # Header \/ r.bytes > LargestClass THEN -1
    ELSE IF r.bytes <= Header THEN 0 ELSE BitLength(r.bytes - 1) - Shift
Capacity(r) == IF Class(r) = -1 THEN r.bytes ELSE 2 ^ (Class(r) + Shift)

List(class) == IF class \in 0 .. ClassCount - 1 THEN class ELSE ClassCount
FirstFree(r) == heads[List(Class(r))]

(* Faulty variant, for the checks of this model: no head is measured. *)
HeadServesUnmeasured(r) == FirstFree(r) # 0

(* Only an irregular head is measured. *)
HeadServes(r) ==
    /\ FirstFree(r) # 0
    /\ \/ Class(r) >= 0
       \/ blocks[FirstFree(r)].capacity >= r.bytes /\ (FirstFree(r) + Header) % Alignment(r) = 0

(* The place of a fresh block, and whether none of its sums wrapped. *)
Cursor == Down(Wrap(heapPointer + Header - 1), Header)
Payload(r) == Down(Wrap(Cursor + Header + Alignment(r) - 1), Alignment(r))
Reach(r) == Wrap(Payload(r) + Capacity(r) + Header - 1)
Representable(r) == Payload(r) >= Cursor /\ Reach(r) >= Payload(r)

PagesFor(end) == (Wrap(end - 1) \div Page) + 1
(* Faulty variant: grows by all the pages needed, not by those missing. *)
CoverAgain(end) == pages' = IF PagesFor(end) > pages THEN pages + PagesFor(end) ELSE pages
Cover(end) == pages' = IF PagesFor(end) > pages THEN PagesFor(end) ELSE pages

-----------------------------------------------------------------------------
(* The table is zero because fresh memory is, where no static data lies: if *)
(* StaticEnd is above TableBase, Init is a module whose static data happens *)
(* to be zero there.  Other bytes would be taken for the heads of lists.    *)
Init ==
    /\ stackPointer = StaticEnd /\ frames = <<>> /\ status = "fine"
    /\ heapPointer = HeapBase
    /\ heads = [l \in 0 .. ClassCount |-> 0]
    /\ blocks = [b \in {} |-> 0] /\ owned = [b \in {} |-> 0]
    /\ pages = 2

(* heapAllocate from the head of the free list of the request. *)
Reuse(r) ==
    LET block == FirstFree(r) IN
    /\ HeadServes(r)
    /\ heads' = [heads EXCEPT ![List(Class(r))] = blocks[block].next]
    /\ blocks' = [blocks EXCEPT ![block].next = 0]
    /\ owned' = [b \in DOMAIN owned \cup {block} |-> IF b = block THEN r ELSE owned[b]]
    /\ UNCHANGED <<heapPointer, pages, stackVars>>

(* heapAllocate of a fresh block.  When the place is not representable, or  *)
(* the host refuses to grow the memory, the request is answered with 0 and  *)
(* nothing changes.                                                        *)
Carve(r) ==
    LET block == Payload(r) - Header
        end == Down(Reach(r), Header)
    IN
    /\ ~HeadServes(r)
    /\ Representable(r)
    /\ Cover(end)
    /\ heapPointer' = end
    /\ blocks' = [b \in DOMAIN blocks \cup {block} |->
                    IF b = block THEN [capacity |-> Capacity(r), class |-> Class(r), next |-> 0]
                    ELSE blocks[b]]
    /\ owned' = [b \in DOMAIN owned \cup {block} |-> IF b = block THEN r ELSE owned[b]]
    /\ UNCHANGED <<heads, stackVars>>

(* Faulty variants: a released block forgets the list below it; the largest *)
(* class is taken for irregular.                                           *)
ReleaseUnlinked(b) ==
    /\ blocks' = [blocks EXCEPT ![b].next = 0]
    /\ heads' = [heads EXCEPT ![List(blocks[b].class)] = b]
    /\ owned' = [o \in DOMAIN owned \ {b} |-> owned[o]]
    /\ UNCHANGED <<heapPointer, pages, stackVars>>
ReleaseOffByOne(b) ==
    LET list == IF blocks[b].class \in 0 .. ClassCount - 2 THEN blocks[b].class ELSE ClassCount IN
    /\ blocks' = [blocks EXCEPT ![b].next = heads[list]]
    /\ heads' = [heads EXCEPT ![list] = b]
    /\ owned' = [o \in DOMAIN owned \ {b} |-> owned[o]]
    /\ UNCHANGED <<heapPointer, pages, stackVars>>

(* heapRelease of a block whose owner is dropped.  The blocks that the      *)
(* frames of a trap owned are leaked in the code and may be released here.  *)
Release(b) ==
    LET list == List(blocks[b].class) IN
    /\ blocks' = [blocks EXCEPT ![b].next = heads[list]]
    /\ heads' = [heads EXCEPT ![list] = b]
    /\ owned' = [o \in DOMAIN owned \ {b} |-> owned[o]]
    /\ UNCHANGED <<heapPointer, pages, stackVars>>

-----------------------------------------------------------------------------
(* reserveFrame.  A trap ends every frame; one that would cross into the   *)
(* heap is reported and rewinds the stack.                                 *)
FrameEnd(size) == Wrap(stackPointer + size)

(* Faulty variant: the stack is not bounded by the table of the allocator. *)
EnterUnbounded(size) ==
    /\ FrameEnd(size) >= stackPointer /\ Len(frames) < MaxDepth
    /\ Cover(FrameEnd(size))
    /\ frames' = Append(frames, [base |-> stackPointer, end |-> FrameEnd(size)])
    /\ stackPointer' = FrameEnd(size)
    /\ UNCHANGED <<heapPointer, heads, blocks, owned, status>>

Enter(size) ==
    /\ FrameEnd(size) >= stackPointer /\ FrameEnd(size) <= TableBase
    /\ Len(frames) < MaxDepth
    /\ Cover(FrameEnd(size))
    /\ frames' = Append(frames, [base |-> stackPointer, end |-> FrameEnd(size)])
    /\ stackPointer' = FrameEnd(size)
    /\ UNCHANGED <<heapPointer, heads, blocks, owned, status>>

Overflow(size) ==
    /\ FrameEnd(size) >= stackPointer /\ FrameEnd(size) > TableBase
    /\ frames' = <<>> /\ stackPointer' = StaticEnd
    /\ status' = "overflow"
    /\ UNCHANGED <<heapPointer, heads, blocks, owned, pages>>

WrapTrap(size) ==
    /\ FrameEnd(size) < stackPointer
    /\ frames' = <<>>
    /\ UNCHANGED <<stackPointer, status, heapPointer, heads, blocks, owned, pages>>

(* restoreFrame *)
Leave ==
    /\ frames # <<>>
    /\ stackPointer' = frames[Len(frames)].base
    /\ frames' = SubSeq(frames, 1, Len(frames) - 1)
    /\ UNCHANGED <<status, heapPointer, heads, blocks, owned, pages>>

Next ==
    \/ \E r \in Layouts : Reuse(r) \/ Carve(r)
    \/ \E b \in DOMAIN owned : Release(b)
    \/ \E size \in FrameSizes : Enter(size) \/ Overflow(size) \/ WrapTrap(size)
    \/ Leave

Spec == Init /\ [][Next]_vars

-----------------------------------------------------------------------------
Address == 0 .. Modulus - 1
BlockHeader == [capacity : Address, class : -1 .. ClassCount - 1, next : Address]

(* Types of the registers, the table, the headers and the frames. *)
TypeOK ==
    /\ stackPointer \in Nat /\ heapPointer \in Nat /\ pages \in 1 .. 2 ^ (WordBits - PageBits)
    /\ frames \in Seq([base : Nat, end : Address])
    /\ heads \in [0 .. ClassCount -> Address]
    /\ DOMAIN blocks \subseteq Address /\ blocks \in [DOMAIN blocks -> BlockHeader]
    /\ DOMAIN owned \subseteq DOMAIN blocks /\ owned \in [DOMAIN owned -> Layouts]
    /\ status \in {"fine", "overflow"}

(* What the program keeps in memory never overlaps: static data, the frames *)
(* of active calls, and the blocks with their headers; and no frame reaches *)
(* the table of the allocator.  The compiler does not compare the end of    *)
(* the static data with the table (WasmBackend.ts:5930).                    *)
BlockExtent(b) == b .. b + Header + blocks[b].capacity - 1
FrameExtent(i) == frames[i].base .. frames[i].end - 1
LiveDataIsDisjoint ==
    /\ \A i \in 1 .. Len(frames) :
          /\ frames[i].base >= StaticEnd /\ frames[i].end <= TableBase
          /\ \A j \in 1 .. Len(frames) : i < j => frames[i].end <= frames[j].base
          /\ \A b \in DOMAIN blocks : FrameExtent(i) \cap BlockExtent(b) = {}
    /\ \A b \in DOMAIN blocks :
          /\ b >= StaticEnd /\ b >= HeapBase /\ b + Header + blocks[b].capacity <= heapPointer
          /\ \A c \in DOMAIN blocks \ {b} : BlockExtent(b) \cap BlockExtent(c) = {}

(* An owned block is aligned for its layout, holds its bytes, and lies in  *)
(* memory that is mapped, at every boundary of the classes and of the word. *)
OwnersAreServed ==
    \A b \in DOMAIN owned :
        /\ (b + Header) % owned[b].alignment = 0
        /\ owned[b].bytes <= blocks[b].capacity
        /\ b + Header + owned[b].bytes <= pages * Page

(* A carved block has one owner or is on the one free list of its class:    *)
(* none is handed out twice, and none is lost.                              *)
After[n \in 0 .. Cardinality(DOMAIN blocks)] ==
    IF n = 0 THEN heads
    ELSE LET before == After[n - 1] IN
         [l \in 0 .. ClassCount |-> IF before[l] = 0 THEN 0 ELSE blocks[before[l]].next]
Listed(l) == {After[n][l] : n \in 0 .. Cardinality(DOMAIN blocks)} \ {0}
EveryBlockIsOwnedOrListed ==
    /\ \A l \in 0 .. ClassCount :
          /\ After[Cardinality(DOMAIN blocks)][l] = 0
          /\ \A b \in Listed(l) : b \in DOMAIN blocks \ DOMAIN owned /\ List(blocks[b].class) = l
    /\ DOMAIN blocks = DOMAIN owned \cup UNION {Listed(l) : l \in 0 .. ClassCount}

(* Acquire and release in any order keep a bounded heap: a block of a size  *)
(* class is carved only while every block of that class has an owner.       *)
ReleasedBlocksAreReused ==
    [][\A c \in DOMAIN blocks' \ DOMAIN blocks :
          blocks'[c].class >= 0 =>
            \A b \in DOMAIN blocks : blocks[b].class = blocks'[c].class => b \in DOMAIN owned]_vars
=============================================================================
