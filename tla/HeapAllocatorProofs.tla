------------------------ MODULE HeapAllocatorProofs ------------------------
(***************************************************************************)
(* Proofs about HeapAllocator, for every block size, alignment, set of     *)
(* requested sizes and number of blocks.                                   *)
(***************************************************************************)
EXTENDS HeapAllocator, TLAPS

\* The padding that Alloc inserts is a natural number (heap.cpp:46).
LEMMA PaddingNat ==
    ASSUME NEW o \in Nat
    PROVE  Padding(o) \in Nat
BY BlockAssumption DEF Padding

\* A block's start needs no padding.
LEMMA PaddingZero == Padding(0) = 0
<1>1. 0 % ALIGN = 0
  BY BlockAssumption
<1>2. ALIGN % ALIGN = 0
  BY BlockAssumption
<1>3. QED
  BY <1>1, <1>2, BlockAssumption DEF Padding

\* A bump allocation is at least as high as the point the allocator had reached:
\* either in the block that slot points into, at or above slot_->curr, or in a later one.
LEMMA AllocAbove ==
    ASSUME IInv, NEW size \in Nat, size <= BLOCK_SIZE
    PROVE  /\ AllocIndex(size) \in Nat
           /\ AllocOffset(size) \in Nat
           /\ AllocOffset(size) + size <= BLOCK_SIZE
           /\ AllocIndex(size) <= blocks
           /\ \/ slotBlock = Null
              \/ slotBlock < AllocIndex(size)
              \/ slotBlock = AllocIndex(size) /\ slotCurr <= AllocOffset(size)
<1> USE BlockAssumption DEF IInv, TypeOK, PointersOK, Null
<1>1. PulledOffset \in Nat
  BY DEF PulledOffset
<1>2. Padding(PulledOffset) \in Nat
  BY <1>1, PaddingNat
<1>3. CASE FitsInBlock(size)
  BY <1>1, <1>2, <1>3 DEF FitsInBlock, AllocIndex, AllocOffset, PulledOffset
<1>4. CASE ~FitsInBlock(size)
  <2>1. AllocIndex(size) = index + 1 /\ AllocOffset(size) = 0
    BY <1>4 DEF AllocIndex, AllocOffset
  <2>2. CASE index < blocks
    BY <2>1, <2>2
  <2>3. CASE ~(index < blocks)
    <3>1. PulledOffset = 0
      BY <2>3 DEF PulledOffset
    <3>2. QED
      BY <2>1, <2>3, <3>1, <1>4, PaddingZero DEF FitsInBlock
  <2>4. QED
    BY <2>2, <2>3
<1>5. QED
  BY <1>3, <1>4

\* Handing out an extent at or above the point reached keeps the extents ordered,
\* below the new bump pointer and inside the blocks.  Both Alloc and FlFastAlloc do this.
LEMMA HandOut ==
    ASSUME IInv,
           NEW e \in Extent, e.lo <= e.hi, e.hi <= BLOCK_SIZE,
           live' = Append(live, e), slotBlock' = e.block, slotCurr' = e.hi,
           blocks' \in Nat, blocks <= blocks', e.block < blocks',
           \/ slotBlock = Null
           \/ slotBlock < e.block
           \/ slotBlock = e.block /\ slotCurr <= e.lo
    PROVE  /\ live' \in Seq(Extent)
           /\ DOMAIN live' = DOMAIN live \cup {Len(live) + 1}
           /\ BelowSlot' /\ Ordered' /\ InsideBlocks'
           /\ \A i \in DOMAIN live : A!Disjoint(e, live[i])
<1> USE BlockAssumption DEF IInv, TypeOK
<1>1. live \in Seq(Extent) /\ Len(live) \in Nat /\ DOMAIN live = 1..Len(live)
  OBVIOUS
<1>2. live' \in Seq(Extent) /\ DOMAIN live' = DOMAIN live \cup {Len(live) + 1}
  BY <1>1
<1>3. live'[Len(live) + 1] = e /\ \A i \in DOMAIN live : live'[i] = live[i]
  BY <1>1
<1>4. \A i \in DOMAIN live : live[i] \in Extent
  BY <1>1
<1>5. \A i \in DOMAIN live : slotBlock # Null
  BY <1>1 DEF PointersOK, Null
<1>6. \A i \in DOMAIN live :
        \/ live[i].block < e.block
        \/ live[i].block = e.block /\ live[i].hi <= e.lo
  <2> SUFFICES ASSUME NEW i \in DOMAIN live
               PROVE  \/ live[i].block < e.block
                      \/ live[i].block = e.block /\ live[i].hi <= e.lo
    OBVIOUS
  <2>1. slotBlock \in Nat /\ slotCurr \in Nat /\ live[i] \in Extent
    BY <1>4, <1>5
  <2>2. slotBlock < e.block \/ (slotBlock = e.block /\ slotCurr <= e.lo)
    BY <1>5
  <2>3. live[i].block < slotBlock \/ (live[i].block = slotBlock /\ live[i].hi <= slotCurr)
    BY DEF BelowSlot
  <2>4. QED
    <3>1. live[i].block \in Nat /\ live[i].hi \in Nat /\ e.block \in Nat /\ e.lo \in Nat
      BY <2>1 DEF Extent
    <3>2. QED
      BY <2>1, <2>2, <2>3, <3>1
<1>7. BelowSlot'
  <2>1. e.block \in Nat /\ e.lo \in Nat /\ e.hi \in Nat
    BY DEF Extent
  <2>2. \A i \in DOMAIN live : live[i].block \in Nat /\ live[i].hi \in Nat
    BY <1>4 DEF Extent
  <2>3. \A i \in DOMAIN live :
          \/ live'[i].block < slotBlock'
          \/ live'[i].block = slotBlock' /\ live'[i].hi <= slotCurr'
    BY <1>3, <1>6, <2>1, <2>2
  <2>4. live'[Len(live) + 1].block = slotBlock' /\ live'[Len(live) + 1].hi <= slotCurr'
    BY <1>3, <2>1
  <2>5. QED
    BY <1>2, <2>3, <2>4 DEF BelowSlot
<1>8. Ordered'
  <2> SUFFICES ASSUME NEW i \in DOMAIN live', NEW j \in DOMAIN live', i < j
               PROVE  \/ live'[i].block < live'[j].block
                      \/ live'[i].block = live'[j].block /\ live'[i].hi <= live'[j].lo
    BY DEF Ordered
  <2>1. i \in DOMAIN live
    BY <1>1, <1>2
  <2>2. CASE j \in DOMAIN live
    BY <1>3, <2>1, <2>2 DEF Ordered
  <2>3. CASE j = Len(live) + 1
    BY <1>3, <1>6, <2>1, <2>3
  <2>4. QED
    BY <1>2, <2>2, <2>3
<1>9. InsideBlocks'
  <2>1. \A i \in DOMAIN live : live[i].block \in Nat
    BY <1>4 DEF Extent
  <2>2. e.block \in Nat
    BY DEF Extent
  <2>3. QED
    BY <1>2, <1>3, <2>1, <2>2 DEF InsideBlocks
<1>10. \A i \in DOMAIN live : A!Disjoint(e, live[i])
  BY <1>4, <1>6 DEF A!Disjoint, Extent
<1>11. QED
  BY <1>2, <1>7, <1>8, <1>9, <1>10

\* Alloc and New keep the invariant.
LEMMA AllocKeeps ==
    ASSUME IInv, NEW size \in Sizes, NEW dtor \in SUBSET {Len(live) + 1},
           AllocWith(size, dtor)
    PROVE  /\ IInv'
           /\ \E e \in Extent : /\ live' = Append(live, e)
                               /\ \A i \in DOMAIN live : A!Disjoint(e, live[i])
<1> DEFINE e == [block |-> AllocIndex(size), lo |-> AllocOffset(size),
                 hi |-> AllocOffset(size) + size, fast |-> FALSE]
<1>1. size \in Nat /\ size <= BLOCK_SIZE
  BY BlockAssumption DEF AllocWith
<1>2. /\ AllocIndex(size) \in Nat
      /\ AllocOffset(size) \in Nat
      /\ AllocOffset(size) + size <= BLOCK_SIZE
      /\ AllocIndex(size) <= blocks
      /\ \/ slotBlock = Null
         \/ slotBlock < AllocIndex(size)
         \/ slotBlock = AllocIndex(size) /\ slotCurr <= AllocOffset(size)
  BY <1>1, AllocAbove
<1>3. /\ e \in Extent /\ e.lo <= e.hi /\ e.hi <= BLOCK_SIZE
      /\ live' = Append(live, e) /\ slotBlock' = e.block /\ slotCurr' = e.hi
  BY <1>1, <1>2 DEF AllocWith, Extent
<1>4. blocks' \in Nat /\ blocks <= blocks' /\ e.block < blocks'
  BY <1>2 DEF AllocWith, NeedsBlock, IInv, TypeOK
<1>5. /\ live' \in Seq(Extent)
      /\ DOMAIN live' = DOMAIN live \cup {Len(live) + 1}
      /\ BelowSlot' /\ Ordered' /\ InsideBlocks'
      /\ \A i \in DOMAIN live : A!Disjoint(e, live[i])
  <2> HIDE DEF e
  <2>1. QED
    BY <1>2, <1>3, <1>4, HandOut DEF e
<1>6. Len(live) + 1 \in Nat
  BY DEF IInv, TypeOK
<1>7. DestructorsLive' /\ destructors' \subseteq Nat
  BY <1>5, <1>6 DEF AllocWith, DestructorsLive, IInv, TypeOK
<1>8. TypeOK'
  BY <1>1, <1>2, <1>4, <1>5, <1>7, BlockAssumption DEF AllocWith, TypeOK
<1>9. PointersOK'
  BY <1>2, <1>3, <1>4 DEF AllocWith, PointersOK
<1>10. QED
  BY <1>3, <1>5, <1>7, <1>8, <1>9 DEF IInv

\* FlFastAlloc keeps the invariant.
LEMMA FastAllocKeeps ==
    ASSUME IInv, NEW size \in Sizes, FastAlloc(size)
    PROVE  /\ IInv'
           /\ \E e \in Extent : /\ live' = Append(live, e)
                               /\ \A i \in DOMAIN live : A!Disjoint(e, live[i])
<1> DEFINE e == [block |-> slotBlock, lo |-> slotCurr,
                 hi |-> slotCurr + RoundUp(size), fast |-> TRUE]
<1>1. RoundUp(size) \in Int
  BY BlockAssumption DEF RoundUp
<1>2. slotBlock \in Nat /\ slotCurr \in Nat /\ slotBlock < blocks
  BY BlockAssumption DEF FastAlloc, FastFits, IInv, TypeOK, PointersOK, Null
<1>3. RoundUp(size) > 0 /\ slotCurr + RoundUp(size) <= BLOCK_SIZE
  BY DEF FastAlloc, FastFits
<1>4. /\ e \in Extent /\ e.lo <= e.hi /\ e.hi <= BLOCK_SIZE
      /\ live' = Append(live, e) /\ slotBlock' = e.block /\ slotCurr' = e.hi
      /\ slotBlock = e.block /\ slotCurr <= e.lo
  BY <1>1, <1>2, <1>3 DEF FastAlloc, Extent
<1>5. blocks' \in Nat /\ blocks <= blocks' /\ e.block < blocks'
  BY <1>2 DEF FastAlloc, IInv, TypeOK
<1>6. /\ live' \in Seq(Extent)
      /\ DOMAIN live' = DOMAIN live \cup {Len(live) + 1}
      /\ BelowSlot' /\ Ordered' /\ InsideBlocks'
      /\ \A i \in DOMAIN live : A!Disjoint(e, live[i])
  <2> HIDE DEF e
  <2>1. QED
    BY <1>4, <1>5, HandOut
<1>7. TypeOK' /\ DestructorsLive'
  BY <1>1, <1>2, <1>3, <1>5, <1>6, BlockAssumption
     DEF FastAlloc, TypeOK, IInv, DestructorsLive
<1>8. PointersOK'
  BY <1>2 DEF FastAlloc, PointersOK, IInv, TypeOK, Null
<1>9. QED
  BY <1>4, <1>6, <1>7, <1>8 DEF IInv

\* Reset and the two ways in which Alloc throws keep the invariant; none of the
\* latter changes what is handed out.
LEMMA OthersKeep ==
    ASSUME IInv,
           \/ Reset
           \/ \E size \in Sizes : AllocTooLarge(size) \/ AllocNoMemory(size)
    PROVE  IInv' /\ (live' = live \/ live' = <<>>)
<1> USE BlockAssumption DEF IInv, TypeOK
<1>1. CASE Reset
  <2>1. live' = <<>> /\ DOMAIN live' = {} /\ live' \in Seq(Extent)
    BY <1>1 DEF Reset
  <2>2. BelowSlot' /\ Ordered' /\ InsideBlocks' /\ DestructorsLive'
    BY <1>1, <2>1 DEF Reset, BelowSlot, Ordered, InsideBlocks, DestructorsLive
  <2>3. PointersOK'
    BY <1>1 DEF Reset, PointersOK, Null
  <2>4. QED
    BY <1>1, <2>1, <2>2, <2>3 DEF Reset, Null
<1>2. ASSUME NEW size \in Sizes, AllocTooLarge(size)
      PROVE  IInv' /\ live' = live
  <2>1. offset' \in 0..BLOCK_SIZE /\ PointersOK'
    BY <1>2 DEF AllocTooLarge, PulledOffset, PointersOK, Null
  <2>2. BelowSlot' /\ Ordered' /\ InsideBlocks' /\ DestructorsLive'
    BY <1>2 DEF AllocTooLarge, BelowSlot, Ordered, InsideBlocks, DestructorsLive
  <2>3. QED
    BY <1>2, <2>1, <2>2 DEF AllocTooLarge
<1>3. ASSUME NEW size \in Sizes, AllocNoMemory(size)
      PROVE  IInv' /\ live' = live
  <2>1. size \in Nat /\ size <= BLOCK_SIZE
    BY <1>3 DEF AllocNoMemory
  <2>2. AllocIndex(size) \in Nat /\ AllocIndex(size) = blocks
    BY <1>3, <2>1, AllocAbove DEF AllocNoMemory, NeedsBlock
  <2>3. /\ index' = blocks
        /\ offset' = 0
    <3>1. CASE FitsInBlock(size)
      <4>1. index = blocks
        BY <2>2, <3>1 DEF AllocIndex
      <4>2. offset = 0
        BY <4>1 DEF PointersOK
      <4>3. QED
        BY <1>3, <2>2, <3>1, <4>1, <4>2 DEF AllocNoMemory, PulledOffset
    <3>2. CASE ~FitsInBlock(size)
      BY <1>3, <2>2, <3>2 DEF AllocNoMemory
    <3>3. QED
      BY <3>1, <3>2
  <2>4. PointersOK'
    <3>1. CASE FitsInBlock(size)
      <4>1. index = blocks
        BY <2>2, <3>1 DEF AllocIndex
      <4>2. QED
        BY <1>3, <2>3, <4>1 DEF AllocNoMemory, PointersOK, Null
    <3>2. CASE ~FitsInBlock(size)
      <4>1. index + 1 = blocks
        BY <2>2, <3>2 DEF AllocIndex
      <4>2. QED
        BY <1>3, <2>3, <4>1 DEF AllocNoMemory, PointersOK, Null
    <3>3. QED
      BY <3>1, <3>2
  <2>5. BelowSlot' /\ Ordered' /\ InsideBlocks' /\ DestructorsLive'
    BY <1>3 DEF AllocNoMemory, BelowSlot, Ordered, InsideBlocks, DestructorsLive
  <2>6. QED
    BY <1>3, <2>3, <2>4, <2>5 DEF AllocNoMemory
<1>4. QED
  BY <1>1, <1>2, <1>3

\* Every step keeps the invariant, and hands out at most one extent, disjoint from
\* all the others, or reclaims them all.
LEMMA StepKeeps ==
    ASSUME IInv, [Next]_vars
    PROVE  /\ IInv'
           /\ \/ live' = live
              \/ live' = <<>>
              \/ \E e \in Extent : /\ live' = Append(live, e)
                                  /\ \A i \in DOMAIN live : A!Disjoint(e, live[i])
<1>1. ASSUME NEW size \in Sizes, Alloc(size)
      PROVE  /\ IInv'
             /\ \E e \in Extent : /\ live' = Append(live, e)
                                 /\ \A i \in DOMAIN live : A!Disjoint(e, live[i])
  BY <1>1, AllocKeeps DEF Alloc
<1>2. ASSUME NEW size \in Sizes, New(size)
      PROVE  /\ IInv'
             /\ \E e \in Extent : /\ live' = Append(live, e)
                                 /\ \A i \in DOMAIN live : A!Disjoint(e, live[i])
  BY <1>2, AllocKeeps DEF New
<1>3. CASE UNCHANGED vars
  BY <1>3 DEF vars, IInv, TypeOK, PointersOK, BelowSlot, Ordered, InsideBlocks,
              DestructorsLive
<1>4. QED
  BY <1>1, <1>2, <1>3, FastAllocKeeps, OthersKeep DEF Next

\* The invariant holds initially.
LEMMA InitKeeps == Init => IInv
<1> SUFFICES ASSUME Init PROVE IInv
  OBVIOUS
<1>1. TypeOK
  BY BlockAssumption DEF Init, TypeOK, Null
<1>2. DOMAIN live = {}
  BY DEF Init
<1>3. QED
  BY <1>1, <1>2 DEF Init, IInv, PointersOK, BelowSlot, Ordered, InsideBlocks, DestructorsLive

\* For every block size and alignment the allocator keeps its inductive invariant:
\* the two bump pointers of heap.cpp and c_runtime_header.h never drift apart.
THEOREM InductiveInvariant == Spec => []IInv
<1>1. IInv /\ [Next]_vars => IInv'
  BY StepKeeps
<1>2. QED
  BY InitKeeps, <1>1, PTL DEF Spec

\* No byte is handed out twice between two Resets, whichever path chose it.
THEOREM AllocationsDisjoint == Spec => []NoOverlap
<1>1. IInv => NoOverlap
  <2> SUFFICES ASSUME IInv, NEW i \in DOMAIN live, NEW j \in DOMAIN live,
                      i # j, live[i].block = live[j].block
               PROVE  live[i].hi <= live[j].lo \/ live[j].hi <= live[i].lo
    BY DEF NoOverlap
  <2>1. DOMAIN live = 1..Len(live) /\ Len(live) \in Nat
    BY DEF IInv, TypeOK
  <2>2. i < j \/ j < i
    BY <2>1
  <2>3. live[i] \in Extent /\ live[j] \in Extent
    BY DEF IInv, TypeOK
  <2>4. live[i].block \in Nat /\ live[j].block \in Nat
    BY <2>3 DEF Extent
  <2>5. QED
    BY <2>2, <2>4 DEF IInv, Ordered
<1>2. QED
  BY InductiveInvariant, <1>1, PTL

\* Quotient and remainder, and the two remainders that the padding is made of.
LEMMA Quotient ==
    ASSUME NEW o \in Nat
    PROVE  o \div ALIGN \in Nat /\ o % ALIGN \in 0..(ALIGN - 1) /\ o = ALIGN * (o \div ALIGN) + (o % ALIGN)
BY BlockAssumption

LEMMA MultipleAligned ==
    ASSUME NEW q \in Nat
    PROVE  (ALIGN * q) % ALIGN = 0
BY BlockAssumption

LEMMA SmallRemainder ==
    ASSUME NEW r \in 0..(ALIGN - 1)
    PROVE  r % ALIGN = r
BY BlockAssumption

\* The padding leads to the next multiple of ALIGN (heap.cpp:46).
LEMMA PaddedAligned ==
    ASSUME NEW o \in Nat
    PROVE  (o + Padding(o)) % ALIGN = 0
<1> DEFINE q == o \div ALIGN
           r == o % ALIGN
<1>1. ALIGN \in Nat \ {0} /\ q \in Nat /\ r \in 0..(ALIGN - 1) /\ o = ALIGN * q + r
  BY BlockAssumption, Quotient
<1>2. CASE r = 0
  <2>1. (ALIGN - r) % ALIGN = 0
    BY <1>1, <1>2, PaddingZero DEF Padding
  <2>2. QED
    BY <1>1, <1>2, <2>1, MultipleAligned DEF Padding
<1>3. CASE r # 0
  <2> HIDE DEF q, r
  <2>1. ALIGN - r \in 0..(ALIGN - 1)
    BY <1>1, <1>3
  <2>2. (ALIGN - r) % ALIGN = ALIGN - r
    BY <2>1, SmallRemainder
  <2>3. Padding(o) = ALIGN - r
    BY <2>2 DEF Padding, r
  <2>4. o + Padding(o) = ALIGN * (q + 1)
    BY <1>1, <2>3
  <2>5. QED
    BY <1>1, <2>4, MultipleAligned
<1>4. QED
  BY <1>2, <1>3

\* Alloc returns an aligned offset, in the current block or at the start of the next.
LEMMA AllocOffsetAligned ==
    ASSUME IInv, NEW size \in Sizes
    PROVE  AllocOffset(size) % ALIGN = 0
<1>1. PulledOffset \in Nat
  BY BlockAssumption DEF PulledOffset, IInv, TypeOK
<1>2. 0 % ALIGN = 0
  BY BlockAssumption
<1>3. QED
  BY <1>1, <1>2, PaddedAligned DEF AllocOffset

\* Every step keeps what Alloc has returned aligned; FlFastAlloc's extents are not concerned.
LEMMA StepAligned ==
    ASSUME IInv, AllocAligned, [Next]_vars
    PROVE  AllocAligned'
<1>1. live \in Seq(Extent)
  BY DEF IInv, TypeOK
<1>2. ASSUME NEW e \in Extent, live' = Append(live, e), ~e.fast => e.lo % ALIGN = 0
      PROVE  AllocAligned'
  <2>1. DOMAIN live' = DOMAIN live \cup {Len(live) + 1}
    BY <1>1, <1>2
  <2>2. live'[Len(live) + 1] = e /\ \A i \in DOMAIN live : live'[i] = live[i]
    BY <1>1, <1>2
  <2>3. QED
    BY <1>2, <2>1, <2>2 DEF AllocAligned
<1>3. CASE live' = live
  BY <1>3 DEF AllocAligned
<1>4. CASE live' = <<>>
  BY <1>4 DEF AllocAligned
<1>5. ASSUME NEW size \in Sizes, NEW dtor, AllocWith(size, dtor)
      PROVE  AllocAligned'
  <2> DEFINE e == [block |-> AllocIndex(size), lo |-> AllocOffset(size),
                   hi |-> AllocOffset(size) + size, fast |-> FALSE]
  <2>1. live' = Append(live, e) /\ e.lo % ALIGN = 0
    BY <1>5, AllocOffsetAligned DEF AllocWith
  <2>2. size \in Nat /\ size <= BLOCK_SIZE
    BY <1>5, BlockAssumption DEF AllocWith
  <2>3. e \in Extent
    BY <2>2, AllocAbove DEF Extent
  <2> HIDE DEF e
  <2>4. QED
    BY <1>2, <2>1, <2>3
<1>6. ASSUME NEW size \in Sizes, FastAlloc(size)
      PROVE  AllocAligned'
  <2> DEFINE e == [block |-> slotBlock, lo |-> slotCurr,
                   hi |-> slotCurr + RoundUp(size), fast |-> TRUE]
  <2>1. live' = Append(live, e) /\ e.fast
    BY <1>6 DEF FastAlloc
  <2>2. RoundUp(size) \in Int /\ RoundUp(size) > 0
    BY <1>6, BlockAssumption DEF RoundUp, FastAlloc, FastFits
  <2>3. slotBlock \in Nat /\ slotCurr \in Nat
    BY <1>6, BlockAssumption DEF FastAlloc, FastFits, IInv, TypeOK
  <2>4. e \in Extent
    BY <2>2, <2>3 DEF Extent
  <2> HIDE DEF e
  <2>5. QED
    BY <1>2, <2>1, <2>4
<1>7. CASE UNCHANGED vars
  BY <1>3, <1>7 DEF vars
<1>8. QED
  BY <1>3, <1>4, <1>5, <1>6, <1>7 DEF Next, Alloc, New, AllocTooLarge, AllocNoMemory, Reset

\* What Alloc and FlFastAlloc hand out is inside the blocks, nobody else's, and, from Alloc, aligned.
THEOREM AllocatorSound == Spec => []AllocationsSound
<1>1. Init => AllocAligned
  BY DEF Init, AllocAligned
<1>2. IInv /\ AllocAligned /\ [Next]_vars => AllocAligned'
  BY StepAligned
<1>3. IInv => InsideBlocks
  BY DEF IInv
<1>4. NoOverlap /\ InsideBlocks /\ AllocAligned => AllocationsSound
  BY DEF AllocationsSound
<1>5. QED
  BY InductiveInvariant, AllocationsDisjoint, <1>1, <1>2, <1>3, <1>4, PTL DEF Spec

\* The allocator implements the arena that the rest of the system relies on.
THEOREM AllocatorImplementsArena == Spec => ImplementsArena
<1>1. Init => A!Init
  BY DEF Init, A!Init, Held
<1>2. IInv /\ [Next]_vars => [A!Next]_Held
  <2> SUFFICES ASSUME IInv, [Next]_vars
               PROVE  [A!Next]_Held
    OBVIOUS
  <2>1. CASE live' = live
    BY <2>1 DEF Held
  <2>2. CASE live' = <<>>
    BY <2>2 DEF Held, A!Next, A!Reclaim
  <2>3. ASSUME NEW e \in Extent, live' = Append(live, e),
               \A i \in DOMAIN live : A!Disjoint(e, live[i])
        PROVE  A!Give
    <3>1. live \in Seq(Extent)
      BY DEF IInv, TypeOK
    <3>2. /\ DOMAIN live' = DOMAIN live \cup {Len(live) + 1}
          /\ live'[Len(live) + 1] = e
          /\ \A i \in DOMAIN live : live'[i] = live[i]
      BY <2>3, <3>1
    <3>3. Held' = Held \cup {e}
      BY <3>2 DEF Held
    <3>4. \A x \in Held : A!Disjoint(e, x)
      BY <2>3 DEF Held
    <3>5. QED
      BY <3>3, <3>4 DEF A!Give
  <2>4. QED
    BY <2>1, <2>2, <2>3, StepKeeps DEF A!Next
<1>3. QED
  BY InductiveInvariant, <1>1, <1>2, PTL DEF Spec, ImplementsArena, A!Spec
=============================================================================
