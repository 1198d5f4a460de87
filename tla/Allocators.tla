----------------------------- MODULE Allocators -----------------------------
(***************************************************************************)
(* Three of the arenas of engine/include/Allocators.h: LinearAllocator,    *)
(* StackAllocator and PoolAllocator.  Addresses count from the start of    *)
(* the arena.  A request that does not fit throws and changes nothing, so  *)
(* it is no step.                                                          *)
(*                                                                         *)
(* Callers return a block once, and return nothing after Reset(); those of *)
(* a StackAllocator return the newest block first, since Deallocate()      *)
(* takes the size of the block off the top whatever is above it.           *)
(***************************************************************************)
EXTENDS Integers, Sequences, SequencesExt

CONSTANTS
    Size,           \* _size of a linear or stack arena
    HeaderSize,     \* sizeof(AllocationHeader)
    Request,        \* what is asked for, size * typeSize
    BlockCount,     \* _blockCount and
    BlockSize       \* _blockSize of a pool, room for a PoolBlock

ASSUME SizesAssumption ==
    /\ Size \in Nat /\ HeaderSize \in Nat /\ Request \subseteq Nat
    /\ BlockCount \in Nat /\ BlockSize \in Nat \ {0}

VARIABLES
    kind,           \* which of the three
    top,            \* _offset, or _top
    list,           \* _poolList, the addresses from its head on
    live            \* ghost: the blocks handed out and not returned, in the
                    \* order they were

vars == <<kind, top, list, live>>

Block == [at : Nat, size : Nat]

PoolAddressFromOne(i) == i * BlockSize   \* variant: counts from the second one
PoolAddress(i) == (i - 1) * BlockSize

PoolAddresses == {PoolAddress(i) : i \in 1 .. BlockCount}

(* InitializePoolList() pushes the blocks from the first to the last. *)
PoolList == [i \in 1 .. BlockCount |-> PoolAddress(BlockCount + 1 - i)]

TypeOK ==
    /\ kind \in {"Linear", "Stack", "Pool"}
    /\ top  \in Nat
    /\ list \in Seq(0 .. (BlockCount - 1) * BlockSize)
    /\ live \in Seq(Block)

Init ==
    /\ kind \in {"Linear", "Stack", "Pool"}
    /\ top  = 0
    /\ list = PoolList
    /\ live = << >>

-----------------------------------------------------------------------------
LinearAllocate(n) ==
    /\ kind = "Linear"
    /\ top + n <= Size
    /\ live' = Append(live, [at |-> top, size |-> n])
    /\ top' = top + n
    /\ UNCHANGED <<kind, list>>

(* Deallocate() does nothing. *)
LinearDeallocate(i) ==
    /\ kind = "Linear"
    /\ live' = RemoveAt(live, i)
    /\ UNCHANGED <<kind, top, list>>

StackFitsBefore(n) == top <= Size   \* variant: looks at the top before the block
StackFits(n) == top + n <= Size

TotalSizeOfBlock(n) == n   \* variant: without the header
TotalSize(n) == n + HeaderSize

(* The header lies before the block, and is not counted in the check. *)
StackAllocate(n) ==
    /\ kind = "Stack"
    /\ StackFits(n)
    /\ live' = Append(live, [at |-> top + HeaderSize, size |-> n])
    /\ top' = top + TotalSize(n)
    /\ UNCHANGED <<kind, list>>

TopWithoutBlock(block) == top - block.size   \* variant: the header stays
TopBelow(block) == top - (block.size + HeaderSize)

(* Deallocate(), of the newest block: the total size is in its header. *)
StackDeallocate ==
    /\ kind = "Stack"
    /\ live # << >>
    /\ top' = TopBelow(Last(live))
    /\ live' = Front(live)
    /\ UNCHANGED <<kind, list>>

PoolAllocate ==
    /\ kind = "Pool"
    /\ list # << >>
    /\ live' = Append(live, [at |-> Head(list), size |-> BlockSize])
    /\ list' = Tail(list)
    /\ UNCHANGED <<kind, top>>

PoolDeallocate(i) ==
    /\ kind = "Pool"
    /\ list' = <<live[i].at>> \o list
    /\ live' = RemoveAt(live, i)
    /\ UNCHANGED <<kind, top>>

Reset ==
    /\ top' = 0
    /\ list' = PoolList
    /\ live' = << >>
    /\ UNCHANGED kind

Next ==
    \/ \E n \in Request : LinearAllocate(n) \/ StackAllocate(n)
    \/ \E i \in DOMAIN live : LinearDeallocate(i) \/ PoolDeallocate(i)
    \/ StackDeallocate
    \/ PoolAllocate
    \/ Reset

Spec == Init /\ [][Next]_vars

-----------------------------------------------------------------------------
(* What a block takes of the arena, its header included. *)
Start(block) == IF kind = "Stack" THEN block.at - HeaderSize ELSE block.at
End(block)   == block.at + block.size

(* No two blocks in use have a byte in common, nor one with the header of  *)
(* another: what is written to one block does not change another one, nor  *)
(* what Deallocate() reads of it.                                          *)
BlocksAreDisjoint ==
    \A i, j \in DOMAIN live :
        i # j => End(live[i]) <= Start(live[j]) \/ End(live[j]) <= Start(live[i])

(* A block lies within the arena; but the check of StackAllocator does not *)
(* count the header, so the last block may end up to one header after it.  *)
OverrunIsAtMostAHeader ==
    \A i \in DOMAIN live :
        /\ 0 <= Start(live[i])
        /\ End(live[i]) <= CASE kind = "Linear" -> Size
                             [] kind = "Stack"  -> Size + HeaderSize
                             [] kind = "Pool"   -> BlockCount * BlockSize

(* No memory is lost whatever the calls before: a stack without blocks is  *)
(* empty, and each block of a pool is either in use or free, once.         *)
NothingIsLost ==
    /\ kind = "Stack" /\ live = << >> => top = 0
    /\ kind = "Pool" =>
          /\ Len(live) + Len(list) = BlockCount
          /\ {live[i].at : i \in DOMAIN live} \cup ToSet(list) = PoolAddresses
=============================================================================
