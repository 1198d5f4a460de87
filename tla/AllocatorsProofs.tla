-------------------------- MODULE AllocatorsProofs --------------------------
(***************************************************************************)
(* Proofs about Allocators, for arenas, headers and requests of any size.  *)
(***************************************************************************)
EXTENDS Allocators, SequenceTheorems, TLAPS

(* RemoveAt() keeps the order of what it leaves. *)
LEMMA RemoveAtProperties ==
    ASSUME NEW S, NEW s \in Seq(S), NEW i \in 1 .. Len(s)
    PROVE  /\ RemoveAt(s, i) \in Seq(S)
           /\ Len(RemoveAt(s, i)) = Len(s) - 1
           /\ \A j \in 1 .. Len(s) - 1 :
                 RemoveAt(s, i)[j] = IF j < i THEN s[j] ELSE s[j + 1]
<1>. DEFINE l == SubSeq(s, 1, i - 1)
            r == SubSeq(s, i + 1, Len(s))
<1>1. /\ l \in Seq(S) /\ Len(l) = i - 1
      /\ \A j \in 1 .. i - 1 : l[j] = s[j]
  BY SubSeqProperties
<1>2. /\ r \in Seq(S) /\ Len(r) = Len(s) - i
      /\ \A j \in 1 .. Len(s) - i : r[j] = s[i + j]
  <2>1. \A j \in i + 1 .. Len(s) : s[j] \in S
    OBVIOUS
  <2>. QED  BY <2>1, SubSeqProperties
<1>3. RemoveAt(s, i) = l \o r
  BY DEF RemoveAt
<1>. HIDE DEF l, r
<1>4. /\ l \o r \in Seq(S)
      /\ Len(l \o r) = Len(l) + Len(r)
      /\ \A j \in 1 .. Len(l) + Len(r) :
            (l \o r)[j] = IF j <= Len(l) THEN l[j] ELSE r[j - Len(l)]
  BY <1>1, <1>2, ConcatProperties
<1>5. ASSUME NEW j \in 1 .. Len(s) - 1
      PROVE  (l \o r)[j] = IF j < i THEN s[j] ELSE s[j + 1]
  <2>1. CASE j < i
    BY <1>1, <1>2, <1>4, <2>1
  <2>2. CASE i <= j
    <3>1. j - (i - 1) \in 1 .. Len(s) - i /\ i + (j - (i - 1)) = j + 1
      BY <2>2
    <3>. QED  BY <1>1, <1>2, <1>4, <2>2, <3>1
  <2>3. j < i \/ i <= j
    OBVIOUS
  <2>. QED  BY <2>1, <2>2, <2>3
<1>. QED  BY <1>1, <1>2, <1>3, <1>4, <1>5

-----------------------------------------------------------------------------
(* The blocks in use lie in the arena in the order they were handed out.   *)
InOrder == \A i, j \in DOMAIN live : i < j => End(live[i]) <= Start(live[j])

(* A linear arena: all blocks below the top, and the top within the arena. *)
LinearInv ==
    kind = "Linear" =>
        /\ top <= Size
        /\ InOrder
        /\ \A i \in DOMAIN live : End(live[i]) <= top

(* A stack: each block begins where the one before it ends, the first one  *)
(* at the start of the arena, and the top is where the last one ends.      *)
StackInv ==
    kind = "Stack" =>
        /\ InOrder
        /\ \A i \in DOMAIN live :
              /\ 0 <= Start(live[i]) /\ End(live[i]) <= Size + HeaderSize
              /\ Start(live[i]) = IF i = 1 THEN 0 ELSE End(live[i - 1])
        /\ top = IF live = << >> THEN 0 ELSE End(Last(live))

(* A pool: no address twice, among the blocks in use and those in the list.*)
PoolInv ==
    kind = "Pool" =>
        /\ \A i \in DOMAIN live : live[i].at \in PoolAddresses /\ live[i].size = BlockSize
        /\ \A i \in DOMAIN list : list[i] \in PoolAddresses
        /\ \A i, j \in DOMAIN live : i # j => live[i].at # live[j].at
        /\ \A i, j \in DOMAIN list : i # j => list[i] # list[j]
        /\ \A i \in DOMAIN live : \A j \in DOMAIN list : live[i].at # list[j]
        /\ Len(live) + Len(list) = BlockCount
        /\ \A a \in PoolAddresses :
              \/ \E i \in DOMAIN live : live[i].at = a
              \/ \E i \in DOMAIN list : list[i] = a

ArenaInv == TypeOK /\ LinearInv /\ StackInv /\ PoolInv

-----------------------------------------------------------------------------
LEMMA PoolAddressType ==
    ASSUME NEW i \in 1 .. BlockCount
    PROVE  /\ PoolAddress(i) \in Nat
           /\ PoolAddress(i) \in 0 .. (BlockCount - 1) * BlockSize
           /\ PoolAddress(i) + BlockSize <= BlockCount * BlockSize
<1>. DEFINE a == i - 1
            b == BlockCount - i
<1>1. a \in Nat /\ b \in Nat /\ BlockSize \in Nat
  BY SizesAssumption
<1>2. a * BlockSize \in Nat /\ b * BlockSize \in Nat
  BY <1>1
<1>3. (BlockCount - 1) * BlockSize = a * BlockSize + b * BlockSize
  BY <1>1, SizesAssumption
<1>4. BlockCount * BlockSize = a * BlockSize + b * BlockSize + BlockSize
  BY <1>1, SizesAssumption
<1>. QED  BY <1>1, <1>2, <1>3, <1>4 DEF PoolAddress

(* Two blocks of a pool have no byte in common. *)
LEMMA PoolAddressApart ==
    ASSUME NEW i \in 1 .. BlockCount, NEW j \in 1 .. BlockCount, i < j
    PROVE  PoolAddress(i) + BlockSize <= PoolAddress(j)
<1>. DEFINE d == j - i - 1
<1>1. d \in Nat /\ BlockSize \in Nat /\ i \in Nat /\ j \in Nat
  BY SizesAssumption
<1>2. d * BlockSize \in Nat
  BY <1>1
<1>3. (j - 1) * BlockSize = (i - 1) * BlockSize + BlockSize + d * BlockSize
  BY <1>1
<1>4. (i - 1) * BlockSize \in Int
  BY <1>1
<1>. QED  BY <1>1, <1>2, <1>3, <1>4 DEF PoolAddress

LEMMA PoolListProperties ==
    /\ PoolList \in Seq(0 .. (BlockCount - 1) * BlockSize)
    /\ Len(PoolList) = BlockCount
    /\ \A i \in DOMAIN PoolList : PoolList[i] \in PoolAddresses
    /\ \A i, j \in DOMAIN PoolList : i # j => PoolList[i] # PoolList[j]
    /\ \A a \in PoolAddresses : \E i \in DOMAIN PoolList : PoolList[i] = a
<1>1. BlockCount \in Nat /\ BlockSize \in Nat \ {0}
  BY SizesAssumption
<1>2. /\ DOMAIN PoolList = 1 .. BlockCount
      /\ \A i \in 1 .. BlockCount : PoolList[i] = PoolAddress(BlockCount + 1 - i)
  BY DEF PoolList
<1>3. \A i \in 1 .. BlockCount : BlockCount + 1 - i \in 1 .. BlockCount
  BY <1>1
<1>4. /\ PoolList \in Seq(0 .. (BlockCount - 1) * BlockSize)
      /\ Len(PoolList) = BlockCount
  <2>1. \A i \in 1 .. BlockCount : PoolList[i] \in 0 .. (BlockCount - 1) * BlockSize
    BY <1>2, <1>3, PoolAddressType
  <2>2. PoolList \in [1 .. BlockCount -> 0 .. (BlockCount - 1) * BlockSize]
    BY <2>1 DEF PoolList
  <2>. QED  BY <1>1, <2>2
<1>5. \A i \in DOMAIN PoolList : PoolList[i] \in PoolAddresses
  BY <1>2, <1>3 DEF PoolAddresses
<1>6. ASSUME NEW i \in 1 .. BlockCount, NEW j \in 1 .. BlockCount, i # j
      PROVE  PoolList[i] # PoolList[j]
  <2>. DEFINE k == BlockCount + 1 - i
              l == BlockCount + 1 - j
  <2>1. k \in 1 .. BlockCount /\ l \in 1 .. BlockCount /\ (k < l \/ l < k)
    BY <1>1, <1>6
  <2>2. PoolAddress(k) # PoolAddress(l)
    <3>. HIDE DEF k, l
    <3>1. PoolAddress(k) \in Nat /\ PoolAddress(l) \in Nat
      BY <2>1, PoolAddressType
    <3>2. PoolAddress(k) + BlockSize <= PoolAddress(l)
             \/ PoolAddress(l) + BlockSize <= PoolAddress(k)
      BY <2>1, PoolAddressApart
    <3>. QED  BY <1>1, <3>1, <3>2
  <2>. QED  BY <1>2, <2>2
<1>7. ASSUME NEW a \in PoolAddresses
      PROVE  \E i \in DOMAIN PoolList : PoolList[i] = a
  <2>1. PICK i \in 1 .. BlockCount : a = PoolAddress(i)
    BY DEF PoolAddresses
  <2>2. BlockCount + 1 - (BlockCount + 1 - i) = i
    BY <1>1
  <2>. QED  BY <1>2, <1>3, <2>1, <2>2
<1>. QED  BY <1>2, <1>4, <1>5, <1>6, <1>7
-----------------------------------------------------------------------------
LEMMA InitArena == Init => ArenaInv
<1>. SUFFICES ASSUME Init PROVE ArenaInv
  OBVIOUS
<1>1. Len(live) = 0 /\ DOMAIN live = {} /\ live \in Seq(Block)
  BY DEF Init
<1>2. TypeOK
  BY <1>1, PoolListProperties DEF Init, TypeOK
<1>3. LinearInv /\ StackInv
  BY <1>1, SizesAssumption DEF Init, LinearInv, StackInv, InOrder
<1>4. PoolInv
  BY <1>1, PoolListProperties, SizesAssumption DEF Init, PoolInv
<1>. QED  BY <1>2, <1>3, <1>4 DEF ArenaInv

(* A block at the end of the sequence. *)
LEMMA AppendBlock ==
    ASSUME TypeOK, NEW block \in Block
    PROVE  /\ Append(live, block) \in Seq(Block)
           /\ Len(Append(live, block)) = Len(live) + 1
           /\ Append(live, block)[Len(live) + 1] = block
           /\ \A i \in 1 .. Len(live) : Append(live, block)[i] = live[i]
BY DEF TypeOK

LEMMA LiveTypes ==
    ASSUME TypeOK, NEW i \in DOMAIN live
    PROVE  /\ live[i] \in Block /\ live[i].at \in Nat /\ live[i].size \in Nat
           /\ Start(live[i]) \in Int /\ End(live[i]) \in Int
<1>1. live[i] \in Block
  BY DEF TypeOK
<1>2. live[i].at \in Nat /\ live[i].size \in Nat /\ HeaderSize \in Nat
  BY <1>1, SizesAssumption DEF Block
<1>. QED  BY <1>1, <1>2 DEF Start, End

LEMMA LinearAllocateArena ==
    ASSUME ArenaInv, NEW n \in Request, LinearAllocate(n)
    PROVE  ArenaInv'
<1>. DEFINE block == [at |-> top, size |-> n]
<1>1. /\ TypeOK /\ kind = "Linear" /\ n \in Nat /\ top \in Nat /\ Size \in Nat
      /\ kind' = kind /\ list' = list /\ top' = top + n
      /\ top + n <= Size /\ live' = Append(live, block)
  BY SizesAssumption DEF ArenaInv, TypeOK, LinearAllocate
<1>2. block \in Block
  BY <1>1 DEF Block
<1>3. /\ live' \in Seq(Block)
      /\ Len(live') = Len(live) + 1
      /\ live'[Len(live) + 1] = block
      /\ \A i \in 1 .. Len(live) : live'[i] = live[i]
  <2>. HIDE DEF block
  <2>. QED  BY <1>1, <1>2, AppendBlock
<1>4. /\ DOMAIN live = 1 .. Len(live) /\ DOMAIN live' = 1 .. Len(live) + 1
      /\ Len(live) \in Nat
  BY <1>1, <1>3 DEF TypeOK
<1>5. TypeOK'
  BY <1>1, <1>3 DEF TypeOK
<1>6. \A i \in 1 .. Len(live) :
         /\ live[i].at \in Nat /\ live[i].size \in Nat
         /\ live[i].at + live[i].size <= top
  BY <1>1, <1>4, LiveTypes DEF ArenaInv, LinearInv, End
<1>7. \A i \in DOMAIN live' : End(live'[i]) <= top'
  BY <1>1, <1>3, <1>4, <1>6 DEF End
<1>8. InOrder'
  <2>. SUFFICES ASSUME NEW i \in 1 .. Len(live) + 1, NEW j \in 1 .. Len(live) + 1, i < j
                PROVE  (End(live[i]) <= Start(live[j]))'
    BY <1>4 DEF InOrder
  <2>1. i \in 1 .. Len(live) /\ live'[i] = live[i]
    BY <1>3, <1>4
  <2>2. CASE j \in 1 .. Len(live)
    BY <1>1, <1>3, <1>4, <2>1, <2>2 DEF ArenaInv, LinearInv, InOrder, Start, End
  <2>3. CASE j = Len(live) + 1
    BY <1>1, <1>3, <1>6, <2>1, <2>3 DEF Start, End
  <2>. QED  BY <1>4, <2>2, <2>3
<1>. QED  BY <1>1, <1>5, <1>7, <1>8 DEF ArenaInv, LinearInv, StackInv, PoolInv

(* Where the block at position j was before the i-th one was removed. *)
Old(i, j) == IF j < i THEN j ELSE j + 1

LEMMA RemoveBlock ==
    ASSUME TypeOK, NEW i \in DOMAIN live
    PROVE  /\ RemoveAt(live, i) \in Seq(Block)
           /\ Len(RemoveAt(live, i)) = Len(live) - 1
           /\ \A j \in DOMAIN RemoveAt(live, i) :
                 /\ Old(i, j) \in DOMAIN live /\ Old(i, j) # i
                 /\ RemoveAt(live, i)[j] = live[Old(i, j)]
           /\ \A j, k \in DOMAIN RemoveAt(live, i) : j < k => Old(i, j) < Old(i, k)
<1>1. live \in Seq(Block) /\ i \in 1 .. Len(live) /\ Len(live) \in Nat
  BY DEF TypeOK
<1>2. /\ RemoveAt(live, i) \in Seq(Block)
      /\ Len(RemoveAt(live, i)) = Len(live) - 1
      /\ \A j \in 1 .. Len(live) - 1 :
            RemoveAt(live, i)[j] = IF j < i THEN live[j] ELSE live[j + 1]
  BY <1>1, RemoveAtProperties
<1>3. DOMAIN RemoveAt(live, i) = 1 .. Len(live) - 1 /\ DOMAIN live = 1 .. Len(live)
  BY <1>1, <1>2
<1>. QED  BY <1>1, <1>2, <1>3 DEF Old

LEMMA LinearDeallocateArena ==
    ASSUME ArenaInv, NEW i \in DOMAIN live, LinearDeallocate(i)
    PROVE  ArenaInv'
<1>1. /\ TypeOK /\ kind = "Linear" /\ kind' = kind /\ list' = list /\ top' = top
      /\ live' = RemoveAt(live, i)
  BY DEF ArenaInv, LinearDeallocate
<1>2. /\ live' \in Seq(Block)
      /\ \A j \in DOMAIN live' : Old(i, j) \in DOMAIN live /\ live'[j] = live[Old(i, j)]
      /\ \A j, k \in DOMAIN live' : j < k => Old(i, j) < Old(i, k)
  BY <1>1, RemoveBlock
<1>3. TypeOK'
  BY <1>1, <1>2 DEF TypeOK
<1>4. LinearInv'
  BY <1>1, <1>2 DEF ArenaInv, LinearInv, InOrder, Start, End
<1>. QED  BY <1>1, <1>3, <1>4 DEF ArenaInv, StackInv, PoolInv

LEMMA StackAllocateArena ==
    ASSUME ArenaInv, NEW n \in Request, StackAllocate(n)
    PROVE  ArenaInv'
<1>. DEFINE block == [at |-> top + HeaderSize, size |-> n]
<1>1. /\ TypeOK /\ kind = "Stack" /\ n \in Nat /\ top \in Nat
      /\ Size \in Nat /\ HeaderSize \in Nat
      /\ kind' = kind /\ list' = list /\ top' = top + (n + HeaderSize)
      /\ top + n <= Size /\ live' = Append(live, block)
  BY SizesAssumption DEF ArenaInv, TypeOK, StackAllocate, StackFits, TotalSize
<1>2. block \in Block
  BY <1>1 DEF Block
<1>3. /\ live' \in Seq(Block)
      /\ Len(live') = Len(live) + 1
      /\ live'[Len(live) + 1] = block
      /\ \A i \in 1 .. Len(live) : live'[i] = live[i]
  <2>. HIDE DEF block
  <2>. QED  BY <1>1, <1>2, AppendBlock
<1>4. /\ DOMAIN live = 1 .. Len(live) /\ DOMAIN live' = 1 .. Len(live) + 1
      /\ Len(live) \in Nat /\ (live = << >> <=> Len(live) = 0)
  BY <1>1, <1>3 DEF TypeOK
<1>5. TypeOK'
  BY <1>1, <1>3 DEF TypeOK
<1>6. \A i \in 1 .. Len(live) :
         /\ live[i].at \in Nat /\ live[i].size \in Nat
         /\ Start(live[i]) = live[i].at - HeaderSize
         /\ End(live[i]) = live[i].at + live[i].size
         /\ 0 <= Start(live[i]) /\ End(live[i]) <= Size + HeaderSize
         /\ Start(live[i]) = IF i = 1 THEN 0 ELSE End(live[i - 1])
  BY <1>1, <1>4, LiveTypes DEF ArenaInv, StackInv, Start, End
<1>7. \A i \in 1 .. Len(live) : Start(live[i])' = Start(live[i]) /\ End(live[i])' = End(live[i])
  BY <1>1, <1>3 DEF Start, End
<1>8. block.at - HeaderSize = top /\ block.at + block.size = top' /\ top' <= Size + HeaderSize
  BY <1>1
<1>9. top = IF Len(live) = 0 THEN 0 ELSE End(live[Len(live)])
  BY <1>1, <1>4 DEF ArenaInv, StackInv, Last
<1>10. \A i \in 1 .. Len(live) : End(live[i]) <= top
  <2>. SUFFICES ASSUME NEW i \in 1 .. Len(live)
                PROVE  End(live[i]) <= top
    OBVIOUS
  <2>1. CASE i = Len(live)
    BY <1>1, <1>4, <1>6, <1>9, <2>1 DEF End
  <2>2. CASE i < Len(live)
    <3>1. Len(live) \in 1 .. Len(live)
      BY <1>4, <2>2
    <3>2. End(live[i]) <= Start(live[Len(live)])
      BY <1>1, <1>4, <2>2, <3>1 DEF ArenaInv, StackInv, InOrder
    <3>3. Start(live[Len(live)]) <= End(live[Len(live)])
      BY <1>1, <1>6, <3>1 DEF Start, End
    <3>4. End(live[i]) \in Int /\ Start(live[Len(live)]) \in Int /\ End(live[Len(live)]) \in Int
      BY <1>1, <1>4, <3>1, LiveTypes
    <3>5. End(live[Len(live)]) = top
      BY <1>4, <1>9, <2>2
    <3>. QED  BY <1>1, <3>2, <3>3, <3>4, <3>5
  <2>3. Len(live) \in Int /\ i \in Int /\ i <= Len(live)
    BY <1>4
  <2>4. i = Len(live) \/ i < Len(live)
    BY <2>3
  <2>. QED  BY <2>1, <2>2, <2>4
<1>11. InOrder'
  <2>. SUFFICES ASSUME NEW i \in 1 .. Len(live) + 1, NEW j \in 1 .. Len(live) + 1, i < j
                PROVE  (End(live[i]) <= Start(live[j]))'
    BY <1>4 DEF InOrder
  <2>1. i \in 1 .. Len(live)
    BY <1>4
  <2>2. CASE j \in 1 .. Len(live)
    BY <1>1, <1>4, <1>7, <2>1, <2>2 DEF ArenaInv, StackInv, InOrder
  <2>3. CASE j = Len(live) + 1
    BY <1>1, <1>3, <1>6, <1>10, <2>1, <2>3 DEF Start, End
  <2>. QED  BY <1>4, <2>2, <2>3
<1>12. StackInv'
  <2>1. ASSUME NEW i \in DOMAIN live'
        PROVE  (/\ 0 <= Start(live[i]) /\ End(live[i]) <= Size + HeaderSize
                /\ Start(live[i]) = IF i = 1 THEN 0 ELSE End(live[i - 1]))'
    <3>1. CASE i \in 1 .. Len(live)
      <4>1. i # 1 => i - 1 \in 1 .. Len(live)
        BY <3>1
      <4>. QED  BY <1>6, <1>7, <3>1, <4>1
    <3>2. CASE i = Len(live) + 1
      <4>1. i # 1 => i - 1 \in 1 .. Len(live) /\ i - 1 = Len(live)
        BY <1>4, <3>2
      <4>2. Start(live[i])' = top /\ End(live[i])' = top'
        BY <1>1, <1>3, <1>4, <3>2 DEF Start, End
      <4>3. i # 1 => End(live[i - 1])' = top /\ Len(live) # 0
        BY <1>1, <1>3, <1>4, <1>9, <3>2, <4>1 DEF End
      <4>4. i = 1 => top = 0
        BY <1>4, <1>9, <3>2
      <4>. QED  BY <1>1, <1>8, <4>2, <4>3, <4>4
    <3>. QED  BY <1>4, <2>1, <3>1, <3>2
  <2>2. live' # << >> /\ Last(live') = block
    BY <1>3, <1>4 DEF Last
  <2>3. (top = IF live = << >> THEN 0 ELSE End(Last(live)))'
    BY <1>1, <1>8, <2>2 DEF End
  <2>. QED  BY <1>11, <2>1, <2>3 DEF StackInv
<1>. QED  BY <1>1, <1>5, <1>12 DEF ArenaInv, LinearInv, PoolInv

LEMMA StackDeallocateArena ==
    ASSUME ArenaInv, StackDeallocate
    PROVE  ArenaInv'
<1>. DEFINE n == Len(live)
<1>1. /\ TypeOK /\ kind = "Stack" /\ kind' = kind /\ list' = list /\ live # << >>
      /\ HeaderSize \in Nat /\ live' = Front(live)
      /\ top' = top - (Last(live).size + HeaderSize)
  BY SizesAssumption DEF ArenaInv, StackDeallocate, TopBelow
<1>2. /\ live \in Seq(Block) /\ n \in Nat \ {0} /\ DOMAIN live = 1 .. n
  BY <1>1 DEF TypeOK
<1>3. live' = SubSeq(live, 1, n - 1)
  BY <1>1 DEF Front
<1>4. /\ live' \in Seq(Block) /\ Len(live') = n - 1
      /\ \A i \in 1 .. n - 1 : live'[i] = live[i]
  BY <1>2, <1>3, SubSeqProperties
<1>5. DOMAIN live' = 1 .. n - 1 /\ (live' = << >> <=> n = 1)
  BY <1>2, <1>4
<1>6. \A i \in 1 .. n :
         /\ live[i].at \in Nat /\ live[i].size \in Nat
         /\ Start(live[i]) = live[i].at - HeaderSize
         /\ End(live[i]) = live[i].at + live[i].size
         /\ 0 <= Start(live[i]) /\ End(live[i]) <= Size + HeaderSize
         /\ Start(live[i]) = IF i = 1 THEN 0 ELSE End(live[i - 1])
  BY <1>1, <1>2, LiveTypes DEF ArenaInv, StackInv, Start, End
<1>7. \A i \in 1 .. n - 1 : Start(live[i])' = Start(live[i]) /\ End(live[i])' = End(live[i])
  BY <1>1, <1>4 DEF Start, End
<1>8. top' = Start(live[n]) /\ top' \in Nat
  <2>1. top = End(live[n]) /\ Last(live) = live[n]
    BY <1>1, <1>2 DEF ArenaInv, StackInv, Last
  <2>. QED  BY <1>1, <1>2, <1>6, <2>1
<1>9. TypeOK'
  BY <1>1, <1>4, <1>8 DEF TypeOK
<1>10. InOrder'
  BY <1>1, <1>2, <1>5, <1>7 DEF ArenaInv, StackInv, InOrder
<1>11. \A i \in 1 .. n - 1 :
         (/\ 0 <= Start(live[i]) /\ End(live[i]) <= Size + HeaderSize
          /\ Start(live[i]) = IF i = 1 THEN 0 ELSE End(live[i - 1]))'
  <2>. SUFFICES ASSUME NEW i \in 1 .. n - 1
                PROVE  (/\ 0 <= Start(live[i]) /\ End(live[i]) <= Size + HeaderSize
                        /\ Start(live[i]) = IF i = 1 THEN 0 ELSE End(live[i - 1]))'
    OBVIOUS
  <2>1. i \in 1 .. n /\ (i # 1 => i - 1 \in 1 .. n - 1)
    BY <1>2
  <2>. QED  BY <1>6, <1>7, <2>1
<1>12. (top = IF live = << >> THEN 0 ELSE End(Last(live)))'
  <2>1. CASE n = 1
    BY <1>2, <1>5, <1>6, <1>8, <2>1
  <2>2. CASE n # 1
    <3>1. n - 1 \in 1 .. n - 1 /\ n \in 1 .. n
      BY <1>2, <2>2
    <3>2. Last(live') = live'[n - 1] /\ live' # << >>
      BY <1>4, <1>5, <2>2 DEF Last
    <3>3. End(Last(live))' = End(live[n - 1])
      BY <1>1, <1>4, <3>1, <3>2 DEF End
    <3>. QED  BY <1>6, <1>8, <2>2, <3>1, <3>2, <3>3
  <2>. QED  BY <2>1, <2>2
<1>13. StackInv'
  BY <1>5, <1>10, <1>11, <1>12 DEF StackInv
<1>. QED  BY <1>1, <1>9, <1>13 DEF ArenaInv, LinearInv, PoolInv

LEMMA PoolAllocateArena ==
    ASSUME ArenaInv, PoolAllocate
    PROVE  ArenaInv'
<1>. DEFINE block == [at |-> Head(list), size |-> BlockSize]
<1>1. /\ TypeOK /\ kind = "Pool" /\ kind' = kind /\ top' = top
      /\ list # << >> /\ list' = Tail(list) /\ live' = Append(live, block)
      /\ PoolAddresses' = PoolAddresses
  BY DEF ArenaInv, PoolAllocate, PoolAddresses, PoolAddress
<1>2. /\ list \in Seq(0 .. (BlockCount - 1) * BlockSize)
      /\ Len(list) \in Nat \ {0} /\ Head(list) = list[1]
      /\ DOMAIN list = 1 .. Len(list) /\ 1 \in DOMAIN list
  BY <1>1 DEF TypeOK
<1>3. /\ list' \in Seq(0 .. (BlockCount - 1) * BlockSize)
      /\ Len(list') = Len(list) - 1 /\ DOMAIN list' = 1 .. Len(list) - 1
      /\ \A i \in 1 .. Len(list) - 1 : list'[i] = list[i + 1]
  BY <1>1, <1>2, HeadTailProperties
<1>4. block \in Block /\ block.at = list[1] /\ block.size = BlockSize
  <2>1. list[1] \in PoolAddresses
    BY <1>1, <1>2 DEF ArenaInv, PoolInv
  <2>2. list[1] \in Nat
    BY <2>1, PoolAddressType DEF PoolAddresses
  <2>. QED  BY <1>2, <2>2, SizesAssumption DEF Block
<1>. HIDE DEF block
<1>5. /\ live' \in Seq(Block)
      /\ Len(live') = Len(live) + 1
      /\ live'[Len(live) + 1] = block
      /\ \A i \in 1 .. Len(live) : live'[i] = live[i]
  BY <1>1, <1>4, AppendBlock
<1>6. /\ DOMAIN live = 1 .. Len(live) /\ DOMAIN live' = 1 .. Len(live) + 1
      /\ Len(live) \in Nat
  BY <1>1, <1>5 DEF TypeOK
<1>7. TypeOK'
  BY <1>1, <1>3, <1>5 DEF TypeOK
<1>8. \A i \in 1 .. Len(list) - 1 : i + 1 \in DOMAIN list /\ i + 1 # 1
  BY <1>2
<1>9. \A i \in DOMAIN live' : live'[i].at \in PoolAddresses /\ live'[i].size = BlockSize
  BY <1>1, <1>2, <1>4, <1>5, <1>6 DEF ArenaInv, PoolInv
<1>10. \A i \in DOMAIN list' : list'[i] \in PoolAddresses
  BY <1>1, <1>3, <1>8 DEF ArenaInv, PoolInv
<1>11. \A i, j \in DOMAIN live' : i # j => live'[i].at # live'[j].at
  BY <1>1, <1>2, <1>4, <1>5, <1>6 DEF ArenaInv, PoolInv
<1>12. \A i, j \in DOMAIN list' : i # j => list'[i] # list'[j]
  <2>1. \A i, j \in 1 .. Len(list) - 1 : i # j => i + 1 # j + 1
    BY <1>2
  <2>. QED  BY <1>1, <1>3, <1>8, <2>1 DEF ArenaInv, PoolInv
<1>13. \A i \in DOMAIN live' : \A j \in DOMAIN list' : live'[i].at # list'[j]
  BY <1>1, <1>2, <1>3, <1>4, <1>5, <1>6, <1>8 DEF ArenaInv, PoolInv
<1>14. Len(live') + Len(list') = BlockCount
  <2>1. Len(live) + Len(list) = BlockCount
    BY <1>1 DEF ArenaInv, PoolInv
  <2>. QED  BY <1>2, <1>3, <1>5, <1>6, <2>1
<1>15. ASSUME NEW a \in PoolAddresses
       PROVE  \/ \E i \in DOMAIN live' : live'[i].at = a
              \/ \E i \in DOMAIN list' : list'[i] = a
  <2>1. CASE \E i \in DOMAIN live : live[i].at = a
    BY <1>5, <1>6, <2>1
  <2>2. CASE list[1] = a
    BY <1>4, <1>5, <1>6, <2>2
  <2>3. ASSUME NEW i \in DOMAIN list, i # 1, list[i] = a
        PROVE  \E j \in DOMAIN list' : list'[j] = a
    <3>1. i - 1 \in 1 .. Len(list) - 1 /\ (i - 1) + 1 = i
      BY <1>2, <2>3
    <3>. QED  BY <1>3, <2>3, <3>1
  <2>. QED  BY <1>1, <2>1, <2>2, <2>3 DEF ArenaInv, PoolInv
<1>16. PoolInv'
  BY <1>1, <1>9, <1>10, <1>11, <1>12, <1>13, <1>14, <1>15 DEF PoolInv
<1>. QED  BY <1>1, <1>7, <1>16 DEF ArenaInv, LinearInv, StackInv

LEMMA PoolDeallocateArena ==
    ASSUME ArenaInv, NEW i \in DOMAIN live, PoolDeallocate(i)
    PROVE  ArenaInv'
<1>. DEFINE address == live[i].at
<1>1. /\ TypeOK /\ kind = "Pool" /\ kind' = kind /\ top' = top
      /\ list' = <<address>> \o list /\ live' = RemoveAt(live, i)
      /\ PoolAddresses' = PoolAddresses /\ address \in PoolAddresses
  BY DEF ArenaInv, PoolInv, PoolDeallocate, PoolAddresses, PoolAddress
<1>2. address \in 0 .. (BlockCount - 1) * BlockSize
  BY <1>1, PoolAddressType DEF PoolAddresses
<1>. HIDE DEF address
<1>3. /\ list \in Seq(0 .. (BlockCount - 1) * BlockSize) /\ live \in Seq(Block)
      /\ Len(list) \in Nat /\ DOMAIN list = 1 .. Len(list)
      /\ Len(live) \in Nat /\ DOMAIN live = 1 .. Len(live)
  BY <1>1 DEF TypeOK
<1>4. /\ list' \in Seq(0 .. (BlockCount - 1) * BlockSize)
      /\ Len(list') = Len(list) + 1 /\ DOMAIN list' = 1 .. Len(list) + 1
      /\ list'[1] = address
      /\ \A j \in 1 .. Len(list) : list'[j + 1] = list[j]
  <2>1. /\ <<address>> \in Seq(0 .. (BlockCount - 1) * BlockSize)
        /\ Len(<<address>>) = 1 /\ <<address>>[1] = address
    BY <1>2
  <2>2. /\ <<address>> \o list \in Seq(0 .. (BlockCount - 1) * BlockSize)
        /\ Len(<<address>> \o list) = 1 + Len(list)
        /\ \A j \in 1 .. 1 + Len(list) : (<<address>> \o list)[j] =
              IF j <= 1 THEN <<address>>[j] ELSE list[j - 1]
    BY <1>3, <2>1, ConcatProperties
  <2>3. \A j \in 1 .. Len(list) : list'[j + 1] = list[j]
    BY <1>1, <1>3, <2>2
  <2>. QED  BY <1>1, <1>3, <2>1, <2>2, <2>3
<1>5. \A j \in 1 .. Len(list) + 1 : j # 1 => j - 1 \in DOMAIN list /\ list'[j] = list[j - 1]
  <2>. SUFFICES ASSUME NEW j \in 1 .. Len(list) + 1, j # 1
                PROVE  j - 1 \in DOMAIN list /\ list'[j] = list[j - 1]
    OBVIOUS
  <2>1. j - 1 \in 1 .. Len(list) /\ (j - 1) + 1 = j
    BY <1>3
  <2>. QED  BY <1>3, <1>4, <2>1
<1>6. /\ live' \in Seq(Block) /\ Len(live') = Len(live) - 1
      /\ DOMAIN live' = 1 .. Len(live) - 1
      /\ \A j \in DOMAIN live' : Old(i, j) \in DOMAIN live /\ Old(i, j) # i
                                /\ live'[j] = live[Old(i, j)]
      /\ \A j, k \in DOMAIN live' : j < k => Old(i, j) < Old(i, k)
  <2>1. /\ live' \in Seq(Block) /\ Len(live') = Len(live) - 1
        /\ \A j \in DOMAIN live' : Old(i, j) \in DOMAIN live /\ Old(i, j) # i
                                  /\ live'[j] = live[Old(i, j)]
        /\ \A j, k \in DOMAIN live' : j < k => Old(i, j) < Old(i, k)
    BY <1>1, RemoveBlock
  <2>2. DOMAIN live' = 1 .. Len(live')
    BY <2>1
  <2>. QED  BY <2>1, <2>2
<1>7. TypeOK'
  BY <1>1, <1>4, <1>6 DEF TypeOK
<1>8. \A j \in DOMAIN live : j # i => live[j].at # address
  BY <1>1 DEF ArenaInv, PoolInv, address
<1>9. \A j \in DOMAIN list : list[j] # address
  BY <1>1 DEF ArenaInv, PoolInv, address
<1>10. \A j \in DOMAIN live' : live'[j].at \in PoolAddresses /\ live'[j].size = BlockSize
  BY <1>1, <1>6 DEF ArenaInv, PoolInv
<1>11. \A j \in DOMAIN list' : list'[j] \in PoolAddresses
  BY <1>1, <1>4, <1>5 DEF ArenaInv, PoolInv
<1>12. \A j, k \in DOMAIN live' : j # k => live'[j].at # live'[k].at
  <2>. SUFFICES ASSUME NEW j \in DOMAIN live', NEW k \in DOMAIN live', j # k
                PROVE  live'[j].at # live'[k].at
    OBVIOUS
  <2>1. Old(i, j) # Old(i, k)
    <3>1. j \in Int /\ k \in Int /\ i \in Int
      BY <1>3, <1>6
    <3>. QED  BY <3>1 DEF Old
  <2>. QED  BY <1>1, <1>6, <2>1 DEF ArenaInv, PoolInv
<1>13. \A j, k \in DOMAIN list' : j # k => list'[j] # list'[k]
  <2>. SUFFICES ASSUME NEW j \in 1 .. Len(list) + 1, NEW k \in 1 .. Len(list) + 1, j # k
                PROVE  list'[j] # list'[k]
    BY <1>4
  <2>1. CASE j = 1
    BY <1>4, <1>5, <1>9, <2>1
  <2>2. CASE k = 1
    BY <1>4, <1>5, <1>9, <2>2
  <2>3. CASE j # 1 /\ k # 1
    <3>1. j - 1 # k - 1
      OBVIOUS
    <3>. QED  BY <1>1, <1>5, <2>3, <3>1 DEF ArenaInv, PoolInv
  <2>. QED  BY <2>1, <2>2, <2>3
<1>14. \A j \in DOMAIN live' : \A k \in DOMAIN list' : live'[j].at # list'[k]
  BY <1>1, <1>4, <1>5, <1>6, <1>8 DEF ArenaInv, PoolInv
<1>15. Len(live') + Len(list') = BlockCount
  <2>1. Len(live) + Len(list) = BlockCount
    BY <1>1 DEF ArenaInv, PoolInv
  <2>. QED  BY <1>3, <1>4, <1>6, <2>1
<1>16. ASSUME NEW a \in PoolAddresses
       PROVE  \/ \E j \in DOMAIN live' : live'[j].at = a
              \/ \E j \in DOMAIN list' : list'[j] = a
  <2>1. CASE a = address
    BY <1>3, <1>4, <2>1
  <2>2. ASSUME NEW k \in DOMAIN live, k # i, live[k].at = a
        PROVE  \E j \in DOMAIN live' : live'[j].at = a
    <3>. DEFINE j == IF k < i THEN k ELSE k - 1
    <3>1. j \in 1 .. Len(live) - 1 /\ Old(i, j) = k
      BY <1>3, <2>2 DEF Old
    <3>. HIDE DEF j
    <3>. QED  BY <1>6, <2>2, <3>1
  <2>3. ASSUME NEW k \in DOMAIN list, list[k] = a
        PROVE  \E j \in DOMAIN list' : list'[j] = a
    <3>1. k + 1 \in 1 .. Len(list) + 1
      BY <1>3
    <3>. QED  BY <1>3, <1>4, <2>3, <3>1
  <2>4. \/ \E k \in DOMAIN live : live[k].at = a
        \/ \E k \in DOMAIN list : list[k] = a
    BY <1>1 DEF ArenaInv, PoolInv
  <2>. QED  BY <2>1, <2>2, <2>3, <2>4 DEF address
<1>17. PoolInv'
  BY <1>1, <1>10, <1>11, <1>12, <1>13, <1>14, <1>15, <1>16 DEF PoolInv
<1>. QED  BY <1>1, <1>7, <1>17 DEF ArenaInv, LinearInv, StackInv

LEMMA ResetArena ==
    ASSUME ArenaInv, Reset
    PROVE  ArenaInv'
<1>1. /\ kind' = kind /\ kind \in {"Linear", "Stack", "Pool"}
      /\ top' = 0 /\ list' = PoolList /\ live' = << >>
      /\ PoolAddresses' = PoolAddresses
  BY DEF ArenaInv, TypeOK, Reset, PoolAddresses, PoolAddress
<1>2. live' \in Seq(Block) /\ Len(live') = 0 /\ DOMAIN live' = {}
  BY <1>1
<1>3. TypeOK'
  BY <1>1, <1>2, PoolListProperties DEF TypeOK
<1>4. LinearInv' /\ StackInv'
  BY <1>1, <1>2, SizesAssumption DEF LinearInv, StackInv, InOrder
<1>5. PoolInv'
  BY <1>1, <1>2, PoolListProperties, SizesAssumption DEF PoolInv
<1>. QED  BY <1>3, <1>4, <1>5 DEF ArenaInv

LEMMA StepArena == ArenaInv /\ [Next]_vars => ArenaInv'
<1>. SUFFICES ASSUME ArenaInv, [Next]_vars PROVE ArenaInv'
  OBVIOUS
<1>1. ASSUME NEW n \in Request, LinearAllocate(n) PROVE ArenaInv'
  BY <1>1, LinearAllocateArena
<1>2. ASSUME NEW n \in Request, StackAllocate(n) PROVE ArenaInv'
  BY <1>2, StackAllocateArena
<1>3. ASSUME NEW i \in DOMAIN live, LinearDeallocate(i) PROVE ArenaInv'
  BY <1>3, LinearDeallocateArena
<1>4. ASSUME NEW i \in DOMAIN live, PoolDeallocate(i) PROVE ArenaInv'
  BY <1>4, PoolDeallocateArena
<1>5. CASE StackDeallocate
  BY <1>5, StackDeallocateArena
<1>6. CASE PoolAllocate
  BY <1>6, PoolAllocateArena
<1>7. CASE Reset
  BY <1>7, ResetArena
<1>8. CASE UNCHANGED vars
  BY <1>8 DEF vars, ArenaInv, TypeOK, LinearInv, StackInv, PoolInv, InOrder, Start, End,
              Last, PoolAddresses, PoolAddress
<1>. QED  BY <1>1, <1>2, <1>3, <1>4, <1>5, <1>6, <1>7, <1>8 DEF Next

(* The inductive invariant. *)
THEOREM ArenaCorrect == Spec => []ArenaInv
BY InitArena, StepArena, PTL DEF Spec

-----------------------------------------------------------------------------
LEMMA ArenaTypes == ArenaInv => TypeOK
BY DEF ArenaInv

LEMMA ArenaDisjoint == ArenaInv => BlocksAreDisjoint
<1>. SUFFICES ASSUME ArenaInv, NEW i \in DOMAIN live, NEW j \in DOMAIN live, i # j
              PROVE  End(live[i]) <= Start(live[j]) \/ End(live[j]) <= Start(live[i])
  BY DEF BlocksAreDisjoint
<1>1. TypeOK /\ (i < j \/ j < i)
  <2>1. TypeOK /\ DOMAIN live = 1 .. Len(live)
    BY DEF ArenaInv, TypeOK
  <2>. QED  BY <2>1
<1>2. CASE kind \in {"Linear", "Stack"}
  BY <1>1, <1>2 DEF ArenaInv, LinearInv, StackInv, InOrder
<1>3. CASE kind = "Pool"
  <2>1. /\ live[i].at \in PoolAddresses /\ live[j].at \in PoolAddresses
        /\ live[i].at # live[j].at
        /\ live[i].size = BlockSize /\ live[j].size = BlockSize
    BY <1>3 DEF ArenaInv, PoolInv
  <2>2. PICK m \in 1 .. BlockCount : live[i].at = PoolAddress(m)
    BY <2>1 DEF PoolAddresses
  <2>3. PICK n \in 1 .. BlockCount : live[j].at = PoolAddress(n)
    BY <2>1 DEF PoolAddresses
  <2>4. m < n \/ n < m
    <3>1. m # n
      BY <2>1, <2>2, <2>3
    <3>. QED  BY <3>1
  <2>5. \/ PoolAddress(m) + BlockSize <= PoolAddress(n)
        \/ PoolAddress(n) + BlockSize <= PoolAddress(m)
    BY <2>4, PoolAddressApart
  <2>6. /\ Start(live[i]) = live[i].at /\ End(live[i]) = live[i].at + live[i].size
        /\ Start(live[j]) = live[j].at /\ End(live[j]) = live[j].at + live[j].size
    BY <1>3 DEF Start, End
  <2>. QED  BY <2>1, <2>2, <2>3, <2>5, <2>6
<1>. QED  BY <1>1, <1>2, <1>3 DEF TypeOK

LEMMA ArenaOverrun == ArenaInv => OverrunIsAtMostAHeader
<1>. SUFFICES ASSUME ArenaInv, NEW i \in DOMAIN live
              PROVE  /\ 0 <= Start(live[i])
                     /\ kind = "Linear" => End(live[i]) <= Size
                     /\ kind = "Stack" => End(live[i]) <= Size + HeaderSize
                     /\ kind = "Pool" => End(live[i]) <= BlockCount * BlockSize
  BY DEF OverrunIsAtMostAHeader, ArenaInv, TypeOK
<1>1. TypeOK /\ End(live[i]) \in Int /\ live[i].at \in Nat
  BY LiveTypes DEF ArenaInv
<1>2. CASE kind = "Linear"
  BY <1>1, <1>2, SizesAssumption DEF ArenaInv, TypeOK, LinearInv, Start
<1>3. CASE kind = "Stack"
  BY <1>3 DEF ArenaInv, StackInv
<1>4. CASE kind = "Pool"
  <2>1. PICK m \in 1 .. BlockCount : live[i].at = PoolAddress(m)
    BY <1>4 DEF ArenaInv, PoolInv, PoolAddresses
  <2>2. live[i].size = BlockSize
    BY <1>4 DEF ArenaInv, PoolInv
  <2>. QED  BY <1>1, <1>4, <2>1, <2>2, PoolAddressType DEF Start, End
<1>. QED  BY <1>1, <1>2, <1>3, <1>4 DEF TypeOK

LEMMA ArenaNothingLost == ArenaInv => NothingIsLost
<1>. SUFFICES ASSUME ArenaInv PROVE NothingIsLost
  OBVIOUS
<1>1. kind = "Stack" /\ live = << >> => top = 0
  BY DEF ArenaInv, StackInv
<1>2. ASSUME kind = "Pool"
      PROVE  /\ Len(live) + Len(list) = BlockCount
             /\ {live[i].at : i \in DOMAIN live} \cup ToSet(list) = PoolAddresses
  BY <1>2 DEF ArenaInv, PoolInv, ToSet
<1>. QED  BY <1>1, <1>2 DEF NothingIsLost

(* Every variable keeps its type, for arenas of any size. *)
THEOREM TypeCorrect == Spec => []TypeOK
BY ArenaCorrect, ArenaTypes, PTL

(* No two blocks in use share memory: what is written to one changes       *)
(* neither another one nor the header Deallocate() reads before it.        *)
THEOREM BlocksAlwaysDisjoint == Spec => []BlocksAreDisjoint
BY ArenaCorrect, ArenaDisjoint, PTL

(* The missing header in the check of StackAllocator costs one header and  *)
(* no more, however many blocks there are; the other arenas stay inside.   *)
THEOREM OverrunAlwaysBounded == Spec => []OverrunIsAtMostAHeader
BY ArenaCorrect, ArenaOverrun, PTL

(* A stack without blocks is empty, and no block of a pool is ever lost.   *)
THEOREM NothingEverLost == Spec => []NothingIsLost
BY ArenaCorrect, ArenaNothingLost, PTL
=============================================================================
