--------------------------- MODULE ManagedMemory ---------------------------
(***************************************************************************)
(* The two allocators of proj/common: mmem.c, which compacts its memory on *)
(* every free and keeps its blocks in a list (list.c), and mempool.c,      *)
(* which hands out blocks of one size from a free list threaded through    *)
(* the blocks.  Nothing in the four images calls them.                     *)
(*                                                                         *)
(* Owner b fills a block it has got with its own name; a block's link is   *)
(* the four bytes before the bytes its owner may use.                      *)
(***************************************************************************)
EXTENDS Integers, Sequences, FiniteSets

CONSTANTS
  Blocks,      \* the struct mmem objects of the callers
  MmemSize,    \* MMEM_SIZE                                     (2048)
  BlockSizes,  \* sizes asked for
  PoolCount    \* itemcount of the pool

ASSUME MemoryAssumption ==
  /\ MmemSize \in Nat /\ BlockSizes \subseteq Nat /\ PoolCount \in Nat \ {0}

NoBlock == 0   \* the null pointer; the blocks of the pool are 1 .. PoolCount

VARIABLES
  memory,    \* memory[], a function from offsets to the owner of the byte
  mmemList,  \* mmemlist, the managed blocks in the order of their memory
  mmem,      \* ptr and size of every struct mmem, as offset and size
  avail,     \* avail_memory
  pool,      \* free_list and the next_block of every block
  owned      \* the blocks of the pool its callers hold

memVars == <<memory, mmemList, mmem, avail, pool, owned>>

Offsets == 0 .. MmemSize - 1
PoolBlocks == 1 .. PoolCount

\* mmem_init, mempool_init: each block is linked to the one after it.
MemInit ==
  /\ memory \in [Offsets -> {NoBlock}] /\ mmemList = <<>>
  /\ mmem = [b \in Blocks |-> [ptr |-> 0, size |-> 0]] /\ avail = MmemSize
  /\ pool = [free |-> 1, next |-> [p \in PoolBlocks |-> IF p = PoolCount THEN NoBlock ELSE p + 1]]
  /\ owned = {}

MemTypeOK ==
  /\ memory \in [Offsets -> Blocks \cup {NoBlock}] /\ mmemList \in Seq(Blocks)
  /\ mmem \in [Blocks -> [ptr : 0 .. MmemSize, size : BlockSizes \cup {0}]]
  /\ avail \in 0 .. MmemSize
  /\ pool \in [free : PoolBlocks \cup {NoBlock},
                next : [PoolBlocks -> PoolBlocks \cup {NoBlock}]]
  /\ owned \subseteq PoolBlocks

Managed == {mmemList[j] : j \in DOMAIN mmemList}
End(b) == mmem[b].ptr + mmem[b].size
Span(b) == mmem[b].ptr .. End(b) - 1

-----------------------------------------------------------------------------
(* mmem.c.  list_add appends, list_remove takes out the one element.         *)

MmemAlloc(b, size) ==
  /\ b \notin Managed /\ avail >= size
  /\ mmemList' = Append(mmemList, b)
  /\ mmem' = [mmem EXCEPT ![b] = [ptr |-> MmemSize - avail, size |-> size]]
  /\ avail' = avail - size
  /\ memory' = [o \in Offsets |-> IF o \in MmemSize - avail .. MmemSize - avail + size - 1
                                  THEN b ELSE memory[o]]
  /\ UNCHANGED <<pool, owned>>

\* memmove of string.c copies upwards, one byte after the other: what it takes from
\* within the destination it has written there before.
Memmove(mem, dest, src, n) ==
  [o \in Offsets |->
     IF o \notin dest .. dest + n - 1 THEN mem[o]
     ELSE IF dest <= src THEN mem[src + (o - dest)]
                         ELSE mem[src + ((o - dest) % (dest - src))]]

\* The blocks behind b in the list.
PlaceOf(b) == CHOOSE j \in DOMAIN mmemList : mmemList[j] = b
Behind(b) == {mmemList[j] : j \in PlaceOf(b) + 1 .. Len(mmemList)}

\* Mutant: only the next block's pointer follows its data.
MovedDownNext(b) ==
  [c \in Blocks |->
     IF c \in Behind(b) /\ mmemList[1 + PlaceOf(b)] = c
     THEN [mmem[c] EXCEPT !.ptr = @ - mmem[b].size] ELSE mmem[c]]

\* The pointers of all blocks behind b follow their data.
MovedDown(b) ==
  [c \in Blocks |-> IF c \in Behind(b) THEN [mmem[c] EXCEPT !.ptr = @ - mmem[b].size] ELSE mmem[c]]

MmemFree(b) ==
  LET next == mmem[mmemList[PlaceOf(b) + 1]].ptr IN
  /\ b \in Managed
  /\ memory' = IF Behind(b) = {} THEN memory
               ELSE Memmove(memory, mmem[b].ptr, next, MmemSize - avail - next)
  /\ mmem' = MovedDown(b)
  /\ avail' = avail + mmem[b].size
  /\ mmemList' = SubSeq(mmemList, 1, PlaceOf(b) - 1)
                   \o SubSeq(mmemList, PlaceOf(b) + 1, Len(mmemList))
  /\ UNCHANGED <<pool, owned>>

-----------------------------------------------------------------------------
(* mempool.c *)

MempoolAlloc ==
  /\ pool.free # NoBlock
  /\ owned' = owned \cup {pool.free}
  /\ pool' = [pool EXCEPT !.free = pool.next[@]]
  /\ UNCHANGED <<memory, mmemList, mmem, avail>>

\* Mutant: the freed block is not linked to the rest.
MempoolFreeUnlinked(p) ==
  /\ p \in owned /\ owned' = owned \ {p}
  /\ pool' = [pool EXCEPT !.free = p]
  /\ UNCHANGED <<memory, mmemList, mmem, avail>>

MempoolFree(p) ==
  /\ p \in owned /\ owned' = owned \ {p}
  /\ pool' = [free |-> p, next |-> [pool.next EXCEPT ![p] = pool.free]]
  /\ UNCHANGED <<memory, mmemList, mmem, avail>>

-----------------------------------------------------------------------------
MemNext ==
  \/ \E b \in Blocks, size \in BlockSizes : MmemAlloc(b, size)
  \/ \E b \in Blocks : MmemFree(b)
  \/ MempoolAlloc
  \/ \E p \in PoolBlocks : MempoolFree(p)

MemSpec == MemInit /\ [][MemNext]_memVars
-----------------------------------------------------------------------------
\* The n blocks of c are the free list of the pool, in the order it hands them out.
IsFreeList(c, n) ==
  /\ pool.free = IF n = 0 THEN NoBlock ELSE c[1]
  /\ \A j \in 1 .. n : pool.next[c[j]] = IF j = n THEN NoBlock ELSE c[j + 1]

\* Every block its callers do not hold is on the free list, once.
PoolIsSound ==
  LET n == Cardinality(PoolBlocks \ owned) IN
  \E c \in [1 .. n -> PoolBlocks] :
    {c[j] : j \in 1 .. n} = PoolBlocks \ owned /\ IsFreeList(c, n)

(* Frees in any order: every owner finds its own bytes in all of its block,   *)
(* the blocks lie side by side without a gap, and all that no block holds can *)
(* be allocated; a block of the pool is held or can be handed out, once.      *)
MemoryIsSound ==
  /\ \A b \in Managed : \A o \in Span(b) : memory[o] = b
  /\ \A j \in 1 .. Len(mmemList) - 1 : mmem[mmemList[j + 1]].ptr = End(mmemList[j])
  /\ mmemList # <<>> => End(mmemList[Len(mmemList)]) = MmemSize - avail
  /\ mmemList = <<>> => avail = MmemSize
  /\ PoolIsSound
=============================================================================
