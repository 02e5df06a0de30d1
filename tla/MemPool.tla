------------------------------ MODULE MemPool -------------------------------
(***************************************************************************)
(* The memory pools of 3_pool/3.1.2-mempool-main:                          *)
(*   "paged"  mempool.c, a list of pages, each filled from its start,      *)
(*   "block"  mempool-v1.c, one page of equal blocks in a free list.       *)
(* kind is the pool that is used.  Memory is counted in words of 8 bytes;  *)
(* an address is a page and an offset in it, and the block pool has one    *)
(* page.  The program that uses a pool frees what it got, once, and writes *)
(* what it likes into its blocks, which is where the free list is kept.    *)
(***************************************************************************)
EXTENDS Integers, FiniteSets

CONSTANTS
  Kinds,      \* the pools to check
  PageSizes,  \* MEM_PAGE_SIZE
  Sizes,      \* the sizes that are asked for
  Header,     \* sizeof(mp_node_t)
  MinBlock,   \* the 16 bytes of mempool-v1.c:21
  MaxPages,   \* a bound on the pages that the paged pool may need
  NULL,
  JUNK        \* what no pool has written

ASSUME PoolsKnown == Kinds \subseteq {"paged", "block"}
ASSUME SizesPositive ==
  {Header, MinBlock, MaxPages} \cup PageSizes \cup Sizes \subseteq Nat \ {0}
ASSUME NoPageIsNULL == NULL \notin 1 .. MaxPages
ASSUME RoomForHeader == \A max \in PageSizes : Header < max

VARIABLES
  kind,
  max,          \* the size of a page
  pc,
  blocks,       \* the blocks that the program has: page, offset and size
  \* mempool.c
  first, current,
  next,         \* the link of each page that is allocated
  free_ptr,     \* the offset of the free space of each page, or (block)
                \* of the first free block
  node, size,   \* locals of mp_alloc
  \* mempool-v1.c
  block_size, free_count,
  cell          \* the words of the page, and the one behind it

vars == <<kind, max, pc, blocks, first, current, next, free_ptr, node, size,
          block_size, free_count, cell>>
chain == <<first, current, next>>
list == <<block_size, free_count, cell>>

Pages == DOMAIN next

Block(page, at, words) == [page |-> page, at |-> at, size |-> words]

Init ==
  /\ kind \in Kinds
  /\ max \in PageSizes
  /\ pc = "init"
  /\ blocks = {}
  /\ first = NULL /\ current = NULL
  /\ next = [p \in {} |-> NULL]
  /\ free_ptr = [p \in {} |-> 0]
  /\ node = NULL /\ size = 0
  /\ block_size = 0 /\ free_count = 0
  /\ cell = [a \in 0 .. max |-> JUNK]

Goto(from, to) == pc = from /\ pc' = to

-----------------------------------------------------------------------------
(* mempool.c *)

\* malloc gives page p, which becomes the head of the list.
AddPage(p, link, used) ==
  /\ next' = [q \in Pages \cup {p} |-> IF q = p THEN link ELSE next[q]]
  /\ free_ptr' = [q \in Pages \cup {p} |-> IF q = p THEN used ELSE free_ptr[q]]
  /\ current' = p

InitPaged ==
  /\ kind = "paged"
  /\ Goto("init", "idle")
  /\ AddPage(1, NULL, Header)
  /\ first' = 1
  /\ UNCHANGED <<kind, max, blocks, node, size, list>>

\* The comment of mp_alloc: no more than a page without its header.
BeginAlloc(words) ==
  /\ kind = "paged"
  /\ Goto("idle", "search")
  /\ words <= max - Header
  /\ size' = words
  /\ node' = current
  /\ UNCHANGED <<kind, max, blocks, chain, free_ptr, list>>

\* Faulty: free_ptr is tested but not the size.
TakeRoomUnchecked ==
  /\ Goto("search", "idle")
  /\ free_ptr[node] < max
  /\ free_ptr' = [free_ptr EXCEPT ![node] = @ + size]
  /\ blocks' = blocks \cup {Block(node, free_ptr[node], size)}
  /\ UNCHANGED <<kind, max, chain, node, size, list>>

\* One turn of the loop: the page has room,
TakeRoom ==
  /\ Goto("search", "idle")
  /\ size <= max - free_ptr[node]
  /\ free_ptr' = [free_ptr EXCEPT ![node] = @ + size]
  /\ blocks' = blocks \cup {Block(node, free_ptr[node], size)}
  /\ UNCHANGED <<kind, max, chain, node, size, list>>

\* or the next one is looked at,
NextPage ==
  /\ Goto("search", IF next[node] = NULL THEN "grow" ELSE "search")
  /\ size > max - free_ptr[node]
  /\ node' = next[node]
  /\ UNCHANGED <<kind, max, blocks, chain, free_ptr, size, list>>

\* or a new page is put in front.
Grow ==
  /\ Goto("grow", "idle")
  /\ LET p == Cardinality(Pages) + 1 IN
       /\ p <= MaxPages
       /\ AddPage(p, current, Header + size)
       /\ blocks' = blocks \cup {Block(p, Header, size)}
  /\ UNCHANGED <<kind, max, first, node, size, list>>

\* The result of malloc is not checked, here and in mp_init: the header of the
\* new page is written to address 0 and the process ends.
OutOfMemory ==
  /\ kind = "paged"
  /\ Goto("init", "dead") \/ Goto("grow", "dead")
  /\ UNCHANGED <<kind, max, blocks, chain, free_ptr, node, size, list>>

\* mp_free does nothing, and mp_dest frees pages while first is NULL, which it
\* never is: all pages stay.
FreePaged(b) ==
  /\ kind = "paged" /\ pc = "idle"
  /\ blocks' = blocks \ {b}
  /\ UNCHANGED <<kind, max, pc, chain, free_ptr, node, size, list>>

DestPaged ==
  /\ kind = "paged"
  /\ Goto("idle", "destroyed")
  /\ first # NULL
  /\ UNCHANGED <<kind, max, blocks, chain, free_ptr, node, size, list>>

-----------------------------------------------------------------------------
(* mempool-v1.c *)

\* The blocks are linked in a loop; the NULL behind the last one may fall
\* outside of the page.
InitBlock(words) ==
  /\ kind = "block"
  /\ Goto("init", "idle")
  /\ LET b == IF words < MinBlock THEN MinBlock ELSE words
         n == max \div b IN
       /\ block_size' = b
       /\ free_count' = n
       /\ cell' = [a \in 0 .. max |->
                     IF a % b = 0 /\ a < n * b THEN a + b
                     ELSE IF a = n * b THEN NULL ELSE JUNK]
  /\ next' = [p \in {1} |-> NULL]
  /\ free_ptr' = [p \in {1} |-> 0]
  /\ UNCHANGED <<kind, max, blocks, first, current, node, size>>

InitFails ==
  /\ kind = "block"
  /\ Goto("init", "failed")
  /\ UNCHANGED <<kind, max, blocks, chain, free_ptr, node, size, list>>

Alloc ==
  /\ kind = "block" /\ pc = "idle"
  /\ free_count # 0
  /\ free_ptr' = [free_ptr EXCEPT ![1] = cell[free_ptr[1]]]
  /\ free_count' = free_count - 1
  /\ blocks' = blocks \cup {Block(1, free_ptr[1], block_size)}
  /\ UNCHANGED <<kind, max, pc, chain, node, size, block_size, cell>>

\* mp_alloc returns NULL.
AllocNothing ==
  /\ kind = "block" /\ pc = "idle"
  /\ free_count = 0
  /\ UNCHANGED vars

\* Faulty: free_ptr stays where it was.
FreeKeepingHead(b) ==
  /\ kind = "block" /\ pc = "idle"
  /\ cell' = [cell EXCEPT ![b.at] = free_ptr[1]]
  /\ free_count' = free_count + 1
  /\ blocks' = blocks \ {b}
  /\ UNCHANGED <<kind, max, pc, chain, free_ptr, node, size, block_size>>

Free(b) ==
  /\ kind = "block" /\ pc = "idle"
  /\ cell' = [cell EXCEPT ![b.at] = free_ptr[1]]
  /\ free_ptr' = [free_ptr EXCEPT ![1] = b.at]
  /\ free_count' = free_count + 1
  /\ blocks' = blocks \ {b}
  /\ UNCHANGED <<kind, max, pc, chain, node, size, block_size>>

\* The program writes into a block of its own.
WriteBlock(b) ==
  /\ kind = "block" /\ pc = "idle"
  /\ cell' = [a \in 0 .. max |-> IF b.at <= a /\ a < b.at + b.size THEN JUNK ELSE cell[a]]
  /\ UNCHANGED <<kind, max, pc, blocks, chain, free_ptr, node, size, block_size,
                 free_count>>

\* The program has given up its blocks.
DestBlock ==
  /\ kind = "block"
  /\ Goto("idle", "destroyed")
  /\ next' = [p \in {} |-> NULL]
  /\ free_ptr' = [p \in {} |-> 0]
  /\ blocks' = {}
  /\ UNCHANGED <<kind, max, first, current, node, size, list>>

-----------------------------------------------------------------------------
Next ==
  \/ InitPaged \/ TakeRoom \/ NextPage \/ Grow \/ OutOfMemory \/ DestPaged
  \/ InitFails \/ Alloc \/ AllocNothing \/ DestBlock
  \/ \E words \in Sizes : BeginAlloc(words) \/ InitBlock(words)
  \/ \E b \in blocks : FreePaged(b) \/ Free(b) \/ WriteBlock(b)

Spec == Init /\ [][Next]_vars

-----------------------------------------------------------------------------
TypeOK ==
  /\ kind \in Kinds /\ max \in PageSizes
  /\ pc \in {"init", "idle", "search", "grow", "destroyed", "dead", "failed"}
  /\ Pages \subseteq 1 .. MaxPages
  /\ free_ptr \in [Pages -> 0 .. max \cup {NULL, JUNK}]
  /\ {first, current, node} \subseteq Pages \cup {NULL}
  /\ next \in [Pages -> Pages \cup {NULL}]
  /\ size \in Sizes \cup {0}
  /\ block_size \in Nat /\ free_count \in Nat
  /\ cell \in [0 .. max -> 0 .. max \cup {NULL, JUNK}]

\* The first word of every block of the block pool.
Grid == {i * block_size : i \in 0 .. (max \div block_size) - 1}

\* No block reaches out of its page or into its header, no two overlap, and no
\* page takes back a block that the program still has.
BlocksApart ==
  /\ TypeOK
  /\ \A b \in blocks :
       /\ b.page \in Pages
       /\ b.at >= (IF kind = "paged" THEN Header ELSE 0)
       /\ b.at + b.size <= (IF kind = "paged" THEN free_ptr[b.page] ELSE max)
  /\ kind = "paged" => \A p \in Pages : free_ptr[p] <= max
  /\ \A b, c \in blocks :
       b # c /\ b.page = c.page => b.at + b.size <= c.at \/ c.at + c.size <= b.at

\* From start the links lead through S and meet each of its elements once.
Through(start, S, link) ==
  LET n == Cardinality(S) IN
    \E s \in [1 .. n -> S] :
      /\ s[1] = start
      /\ \A i, j \in 1 .. n : s[i] = s[j] => i = j
      /\ \A i \in 1 .. n - 1 : link[s[i]] = s[i + 1]

\* The space that is left is found again.  Paged: from current the links lead to
\* every page, and a new one is made only if none has room.  Block: the free list
\* runs through exactly the blocks that the program does not have.
SpaceIsFound ==
  /\ kind = "paged" /\ Pages # {} =>
       /\ Through(current, Pages, next)
       /\ pc = "grow" => \A p \in Pages : max - free_ptr[p] < size
  /\ kind = "block" /\ Pages # {} =>
       LET rest == Grid \ {b.at : b \in blocks} IN
         /\ free_count = Cardinality(rest)
         /\ rest # {} => Through(free_ptr[1], rest, cell)
=============================================================================
