--------------------------- MODULE HeapAllocator ---------------------------
(***************************************************************************)
(* One HeapAllocator (src/src/state/heap.cpp): a bump allocator over a     *)
(* growing list of equally sized blocks.  The same memory is handed out on *)
(* two paths: Alloc, in C++, which keeps (index, offset), and FlFastAlloc, *)
(* inlined in the generated C code, which only moves slot.curr.            *)
(*                                                                         *)
(* An address is a pair (block number, offset).  Reset reclaims everything *)
(* at once and keeps the blocks.                                           *)
(***************************************************************************)
EXTENDS Integers, Sequences

CONSTANTS
    BLOCK_SIZE,   \* bytes per block
    ALIGN,        \* alignof(std::max_align_t); FlFastAlloc rounds sizes to it too
    Sizes,        \* sizes that callers request
    MaxAllocs,    \* bound: allocations between two Resets
    MaxBlocks     \* bound: blocks the system grants

ASSUME BlockAssumption ==
    /\ BLOCK_SIZE \in Nat \ {0}
    /\ ALIGN \in Nat \ {0}
    /\ BLOCK_SIZE % ALIGN = 0
    /\ Sizes \subseteq Nat
    /\ MaxAllocs \in Nat
    /\ MaxBlocks \in Nat

VARIABLES
    blocks,       \* blocks_.size()
    index,        \* current_block_index_
    offset,       \* current_block_offset_
    slotBlock,    \* the block slot_->curr points into, -1 for a null slot
    slotCurr,     \* offset of slot_->curr in that block (slot_->end is BLOCK_SIZE)
    live,         \* history: what was handed out since the last Reset, in order
    destructors   \* destructors_: positions in live of objects made by New

vars == <<blocks, index, offset, slotBlock, slotCurr, live, destructors>>

Null == -1

\* A range of bytes that a caller may use, and whether Alloc or FlFastAlloc chose it.
Extent == [block : Nat, lo : Nat, hi : Nat, fast : BOOLEAN]

Init ==
    /\ blocks = 0
    /\ index = 0
    /\ offset = 0
    /\ slotBlock = Null
    /\ slotCurr = 0
    /\ live = <<>>
    /\ destructors = {}

-----------------------------------------------------------------------------

\* Mutant: Alloc trusts its own offset and ignores what FlFastAlloc consumed.
PulledOffsetStale == offset

\* Alloc first pulls back what FlFastAlloc consumed in the current block.
PulledOffset ==
    IF slotBlock # Null /\ index < blocks /\ slotBlock = index
    THEN slotCurr
    ELSE offset

\* Bytes that Alloc skips to reach the next multiple of ALIGN.
Padding(o) == (ALIGN - (o % ALIGN)) % ALIGN

FitsInBlock(size) == PulledOffset + Padding(PulledOffset) + size <= BLOCK_SIZE

AllocIndex(size)  == IF FitsInBlock(size) THEN index ELSE index + 1
AllocOffset(size) == IF FitsInBlock(size) THEN PulledOffset + Padding(PulledOffset) ELSE 0

NeedsBlock(size) == AllocIndex(size) >= blocks

\* Alloc(size), successful: a block is appended when the chosen index has none.
AllocWith(size, dtor) ==
    /\ Len(live) < MaxAllocs
    /\ size <= BLOCK_SIZE
    /\ NeedsBlock(size) => blocks < MaxBlocks
    /\ blocks' = IF NeedsBlock(size) THEN blocks + 1 ELSE blocks
    /\ index' = AllocIndex(size)
    /\ offset' = AllocOffset(size) + size
    /\ slotBlock' = AllocIndex(size)
    /\ slotCurr' = AllocOffset(size) + size
    /\ live' = Append(live, [block |-> AllocIndex(size), lo |-> AllocOffset(size),
                             hi |-> AllocOffset(size) + size, fast |-> FALSE])
    /\ destructors' = destructors \cup dtor

Alloc(size) == AllocWith(size, {})

\* New<T>(...): Alloc, construct, and remember the destructor.
New(size) == AllocWith(size, {Len(live) + 1})

\* Alloc(size) with size > BLOCK_SIZE throws, after the offset was pulled back.
AllocTooLarge(size) ==
    /\ size > BLOCK_SIZE
    /\ offset' = PulledOffset
    /\ UNCHANGED <<blocks, index, slotBlock, slotCurr, live, destructors>>

\* Alloc(size) throws because the system has no block left: index and offset
\* have already moved on, slot has not.
AllocNoMemory(size) ==
    /\ size <= BLOCK_SIZE
    /\ NeedsBlock(size)
    /\ index' = AllocIndex(size)
    /\ offset' = IF FitsInBlock(size) THEN PulledOffset ELSE 0
    /\ UNCHANGED <<blocks, slotBlock, slotCurr, live, destructors>>

RoundUp(size) == ((size + ALIGN - 1) \div ALIGN) * ALIGN

\* Mutant: the room left is compared with the size before it is rounded.
FastFitsUnrounded(size) ==
    /\ slotBlock # Null
    /\ RoundUp(size) > 0
    /\ slotCurr + size <= BLOCK_SIZE

\* FlFastAlloc's test, which fails for a null slot and for size 0.
FastFits(size) ==
    /\ slotBlock # Null
    /\ RoundUp(size) > 0
    /\ slotCurr + RoundUp(size) <= BLOCK_SIZE

\* FlFastAlloc(size) on its fast path; otherwise it calls FakeluaAlloc, that is Alloc.
FastAlloc(size) ==
    /\ FastFits(size)
    /\ Len(live) < MaxAllocs
    /\ slotCurr' = slotCurr + RoundUp(size)
    /\ live' = Append(live, [block |-> slotBlock, lo |-> slotCurr,
                             hi |-> slotCurr + RoundUp(size), fast |-> TRUE])
    /\ UNCHANGED <<blocks, index, offset, slotBlock, destructors>>

\* Reset: run the destructors, forget everything, keep the blocks.
Reset ==
    /\ index' = 0
    /\ offset' = 0
    /\ slotBlock' = IF blocks > 0 THEN 0 ELSE Null
    /\ slotCurr' = 0
    /\ live' = <<>>
    /\ destructors' = {}
    /\ UNCHANGED blocks

Next ==
    \/ \E size \in Sizes : \/ Alloc(size)
                           \/ New(size)
                           \/ AllocTooLarge(size)
                           \/ AllocNoMemory(size)
                           \/ FastAlloc(size)
    \/ Reset

Spec == Init /\ [][Next]_vars

-----------------------------------------------------------------------------

\* The state variables have their types.
TypeOK ==
    /\ blocks \in Nat
    /\ index \in Nat
    /\ offset \in 0..BLOCK_SIZE
    /\ slotBlock \in Nat \cup {Null}
    /\ slotCurr \in 0..BLOCK_SIZE
    /\ live \in Seq(Extent)
    /\ destructors \subseteq Nat

\* Two ranges handed out since the last Reset never share a byte, whichever of
\* Alloc and FlFastAlloc chose them (the comment at heap.cpp:29-31).
NoOverlap ==
    \A i, j \in DOMAIN live :
        (i # j /\ live[i].block = live[j].block)
            => (live[i].hi <= live[j].lo \/ live[j].hi <= live[i].lo)

\* Every range lies inside a block that exists: Alloc and FlFastAlloc never
\* return memory past slot_->end or in a block that was never appended.
InsideBlocks ==
    \A i \in DOMAIN live : live[i].block < blocks /\ live[i].hi <= BLOCK_SIZE

\* What Alloc returns is aligned to ALIGN (heap.cpp:46,55-57).  The fast path makes
\* no such promise: it starts where the last C++ allocation ended.
AllocAligned ==
    \A i \in DOMAIN live : ~live[i].fast => live[i].lo % ALIGN = 0

\* What is handed out is inside the memory that there is, aligned, and nobody else's.
AllocationsSound == NoOverlap /\ InsideBlocks /\ AllocAligned

\* The extents in the callers' hands, and the arena that they make up.
Held == {live[i] : i \in DOMAIN live}
A == INSTANCE Arena WITH held <- Held

\* Alloc, New, FlFastAlloc and Reset together implement an arena: every step hands out
\* one extent disjoint from all the others, reclaims all of them, or changes none.
ImplementsArena == A!Spec

\* Reset only destroys objects whose memory has not been handed out again.
DestructorsLive == destructors \subseteq DOMAIN live

-----------------------------------------------------------------------------

\* Where the two bump pointers may stand: together, or, after a block could not
\* be obtained, with index one past the last block and slot left behind.
PointersOK ==
    \/ /\ slotBlock = Null
       /\ blocks = 0 /\ index = 0 /\ offset = 0 /\ live = <<>>
    \/ /\ slotBlock \in 0..(blocks - 1)
       /\ \/ index = slotBlock
          \/ index = slotBlock + 1 /\ index = blocks /\ offset = 0

\* Everything handed out lies below slot_->curr.
BelowSlot ==
    \A i \in DOMAIN live :
        \/ live[i].block < slotBlock
        \/ live[i].block = slotBlock /\ live[i].hi <= slotCurr

\* Ranges are handed out in increasing address order.
Ordered ==
    \A i, j \in DOMAIN live :
        i < j => \/ live[i].block < live[j].block
                 \/ live[i].block = live[j].block /\ live[i].hi <= live[j].lo

\* The inductive invariant of the allocator: types, pointers, and the order of
\* the ranges that Alloc and FlFastAlloc hand out.
IInv ==
    /\ TypeOK
    /\ PointersOK
    /\ BelowSlot
    /\ Ordered
    /\ InsideBlocks
    /\ DestructorsLive
=============================================================================
