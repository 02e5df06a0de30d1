---------------------------- MODULE MemPoolProofs ----------------------------
(***************************************************************************)
(* The blocks that a program has from a memory pool never overlap, for any *)
(* sizes of pages and of blocks and any number of pages.                   *)
(***************************************************************************)
EXTENDS MemPool, FiniteSetTheorems, TLAPS

\* mempool.c: the pages are numbered as malloc gave them, the search is for a
\* size that a page has room for, and free_ptr is behind all blocks.
Paged ==
  kind = "paged" =>
    /\ pc \in {"init", "idle", "search", "grow", "destroyed", "dead"}
    /\ \E n \in 0 .. MaxPages :
         /\ Pages = 1 .. n
         /\ n > 0 => current = n
         /\ \A p \in 1 .. n : next[p] = IF p = 1 THEN NULL ELSE p - 1
    /\ pc = "init" => Pages = {}
    /\ pc \in {"idle", "search", "grow"} => current \in Pages
    /\ pc \in {"search", "grow"} => size \in Nat \ {0} /\ size <= max - Header
    /\ pc = "search" =>
         node \in Pages /\ \A p \in Pages : p > node => max - free_ptr[p] < size
    /\ pc = "grow" => \A p \in Pages : max - free_ptr[p] < size
    /\ \A p \in Pages : free_ptr[p] \in Header .. max
    /\ \A b \in blocks : b = Block(b.page, b.at, b.size) /\ b.at \in Nat /\ b.size \in Nat

\* mempool-v1.c: s is the free list.
FreeList(s) ==
  /\ \A i, j \in 1 .. free_count : s[i] = s[j] => i = j
  /\ \A i \in 1 .. free_count, b \in blocks : s[i] # b.at
  /\ free_count > 0 => free_ptr[1] = s[1]
  /\ \A i \in 1 .. free_count - 1 : cell[s[i]] = s[i + 1]
  /\ \A a \in Grid : (\E i \in 1 .. free_count : a = s[i]) \/ (\E b \in blocks : a = b.at)

InBlocks ==
  kind = "block" =>
    /\ pc \in {"init", "idle", "destroyed", "failed"}
    /\ first = NULL /\ current = NULL /\ node = NULL
    /\ pc # "idle" => blocks = {} /\ Pages = {}
    /\ pc = "idle" =>
         /\ block_size \in Nat \ {0}
         /\ Pages = {1}
         /\ \A b \in blocks : b = Block(1, b.at, block_size) /\ b.at \in Grid
         /\ \E s \in [1 .. free_count -> Grid] : FreeList(s)

PoolInv == BlocksApart /\ Paged /\ InBlocks

-----------------------------------------------------------------------------
(* Multiples *)

LEMMA TimesGrows ==
  ASSUME NEW i \in Nat, NEW j \in Nat, NEW b \in Nat, i < j
  PROVE  i * b \in Nat /\ i * b + b <= j * b
<1>1. PICK d \in Nat : j = i + 1 + d
  <2>1. j - i - 1 \in Nat /\ j = i + 1 + (j - i - 1)
    OBVIOUS
  <2>2. QED BY <2>1
<1>2. i * b \in Nat /\ d * b \in Nat
  OBVIOUS
<1>3. (i + 1 + d) * b = i * b + b + d * b
  OBVIOUS
<1>4. QED BY <1>1, <1>2, <1>3

LEMMA DivTimes ==
  ASSUME NEW m \in Nat, NEW b \in Nat \ {0}
  PROVE  /\ m \div b \in Nat /\ (m \div b) * b <= m
         /\ m % b = 0 => (m \div b) * b = m
OBVIOUS

LEMMA TimesMod ==
  ASSUME NEW i \in Nat, NEW b \in Nat \ {0}
  PROVE  (i * b) % b = 0
OBVIOUS

\* The blocks of the grid lie side by side in the page.
LEMMA GridApart ==
  ASSUME max \in Nat, block_size \in Nat \ {0}, NEW a \in Grid
  PROVE  /\ a \in 0 .. max /\ a + block_size <= max
         /\ \A c \in Grid : c = a \/ a + block_size <= c \/ c + block_size <= a
<1> DEFINE n == max \div block_size
<1>1. n \in Nat /\ n * block_size <= max
  BY DivTimes
<1>2. \A i \in 0 .. n - 1 : i \in Nat /\ i < n
  BY <1>1
<1>3. PICK i \in 0 .. n - 1 : a = i * block_size
  BY DEF Grid
<1> HIDE DEF n
<1>4. a \in Nat /\ a + block_size <= n * block_size
  BY <1>1, <1>2, <1>3, TimesGrows
<1>5. n * block_size \in Nat
  BY <1>1
<1>6. a \in 0 .. max /\ a + block_size <= max
  BY ONLY <1>1, <1>4, <1>5, max \in Nat, block_size \in Nat \ {0}
<1>7. ASSUME NEW c \in Grid
      PROVE  c = a \/ a + block_size <= c \/ c + block_size <= a
  <2>1. PICK j \in 0 .. n - 1 : c = j * block_size
    BY DEF Grid, n
  <2>2. CASE i < j
    BY <1>2, <1>3, <2>1, <2>2, TimesGrows
  <2>3. CASE j < i
    BY <1>2, <1>3, <2>1, <2>3, TimesGrows
  <2>4. CASE i = j
    BY <1>3, <2>1, <2>4
  <2>5. QED BY <1>2, <2>2, <2>3, <2>4
<1>8. QED BY <1>6, <1>7

-----------------------------------------------------------------------------
(* mempool.c *)

LEMMA PagedKeeps ==
  ASSUME PoolInv, kind = "paged", Next
  PROVE  PoolInv'
<1> USE SizesPositive, RoomForHeader DEF Goto, chain, list
<1>0. /\ TypeOK /\ BlocksApart /\ Paged
      /\ max \in Nat /\ Header \in Nat /\ Header > 0 /\ Header < max
      /\ MaxPages \in Nat /\ MaxPages > 0
      /\ \A p \in Pages : free_ptr[p] \in Nat /\ free_ptr[p] >= Header /\ free_ptr[p] <= max
      /\ \A b \in blocks : /\ b.page \in Pages /\ b.at >= Header
                           /\ b.at + b.size <= free_ptr[b.page]
                           /\ b = Block(b.page, b.at, b.size)
                           /\ b.at \in Nat /\ b.size \in Nat
  <2>1. TypeOK /\ BlocksApart /\ Paged
    BY DEF PoolInv, BlocksApart
  <2>2. /\ max \in Nat /\ Header \in Nat /\ Header > 0 /\ Header < max
        /\ MaxPages \in Nat /\ MaxPages > 0
    <3>1. max \in PageSizes
      BY <2>1 DEF TypeOK
    <3> QED BY ONLY <3>1, SizesPositive, RoomForHeader
  <2>3. \A p \in Pages : free_ptr[p] \in Nat /\ free_ptr[p] >= Header /\ free_ptr[p] <= max
    BY <2>1, <2>2 DEF Paged
  <2>4. \A b \in blocks : /\ b.page \in Pages /\ b.at >= Header
                         /\ b.at + b.size <= free_ptr[b.page]
                         /\ b = Block(b.page, b.at, b.size)
                         /\ b.at \in Nat /\ b.size \in Nat
    BY <2>1 DEF BlocksApart, Paged
  <2>5. QED BY <2>1, <2>2, <2>3, <2>4
<1>1. CASE /\ UNCHANGED <<kind, max, chain, free_ptr, list>>
           /\ blocks' \subseteq blocks
           /\ pc' \in {"idle", "search", "grow", "destroyed", "dead"}
           /\ size' \in Sizes \cup {0} /\ node' \in Pages \cup {NULL}
           /\ pc' \in {"idle", "search", "grow"} => current \in Pages
           /\ pc' \in {"search", "grow"} => size' \in Nat \ {0} /\ size' <= max - Header
           /\ pc' = "search" => /\ node' \in Pages
                               /\ \A p \in Pages : p > node' => max - free_ptr[p] < size'
           /\ pc' = "grow" => \A p \in Pages : max - free_ptr[p] < size'
  <2> USE <1>1
  <2>1. TypeOK'
    BY <1>0 DEF TypeOK, Pages
  <2>2. BlocksApart'
    BY <1>0, <2>1 DEF BlocksApart, Pages
  <2>3. Paged'
    <3>1. UNCHANGED <<Pages, next, current, free_ptr, max>>
      BY DEF Pages
    <3>2. \A b \in blocks' : b = Block(b.page, b.at, b.size) /\ b.at \in Nat /\ b.size \in Nat
      BY <1>0
    <3>3. PICK n \in 0 .. MaxPages :
            /\ Pages = 1 .. n
            /\ n > 0 => current = n
            /\ \A p \in 1 .. n : next[p] = IF p = 1 THEN NULL ELSE p - 1
      BY <1>0 DEF Paged
    <3>4. \A p \in Pages : free_ptr[p] \in Header .. max
      BY <1>0 DEF Paged
    <3>5. QED BY <3>1, <3>2, <3>3, <3>4 DEF Paged
  <2>4. QED BY <2>1, <2>2, <2>3 DEF PoolInv, InBlocks
<1>2. ASSUME NEW p \in 1 .. MaxPages, NEW link \in Pages \cup {NULL}, NEW used \in Header .. max,
             AddPage(p, link, used), p \notin Pages, pc' = "idle",
             UNCHANGED <<kind, max, size, list>>,
             node' = node, first' \in Pages \cup {p, NULL},
             \E n \in 0 .. MaxPages :
               /\ Pages = 1 .. n /\ p = n + 1
               /\ link = IF n = 0 THEN NULL ELSE n
               /\ \A q \in 1 .. n : next[q] = IF q = 1 THEN NULL ELSE q - 1,
             blocks' \subseteq blocks \cup {Block(p, Header, used - Header)}
      PROVE  PoolInv'
  <2> USE <1>2 DEF AddPage
  <2>1. /\ Pages' = Pages \cup {p}
        /\ \E n \in 0 .. MaxPages :
             /\ Pages' = 1 .. n
             /\ n > 0 => current' = n
             /\ \A q \in 1 .. n : next'[q] = IF q = 1 THEN NULL ELSE q - 1
    <3>1. Pages' = Pages \cup {p}
      BY DEF Pages
    <3>2. PICK n \in 0 .. MaxPages :
            /\ Pages = 1 .. n /\ p = n + 1
            /\ link = IF n = 0 THEN NULL ELSE n
            /\ \A q \in 1 .. n : next[q] = IF q = 1 THEN NULL ELSE q - 1
      BY <1>2
    <3>3. n + 1 \in 0 .. MaxPages /\ 1 .. n + 1 = (1 .. n) \cup {n + 1}
      BY <1>0, <3>2
    <3>4. current' = n + 1
      BY <3>2
    <3>5. ASSUME NEW q \in 1 .. n + 1
          PROVE  next'[q] = IF q = 1 THEN NULL ELSE q - 1
      <4>1. CASE q = n + 1
        BY <3>1, <3>2, <4>1
      <4>2. CASE q # n + 1
        <5>1. q \in 1 .. n /\ q \in Pages
          BY <3>2, <4>2
        <5>2. next'[q] = next[q]
          BY <3>2, <4>2, <5>1
        <5>3. QED BY <3>2, <5>1, <5>2
      <4>3. QED BY <4>1, <4>2
    <3>6. QED BY <3>1, <3>2, <3>3, <3>4, <3>5
  <2>2. /\ free_ptr' \in [Pages' -> 0 .. max \cup {NULL, JUNK}]
        /\ \A q \in Pages' : free_ptr'[q] \in Header .. max
        /\ \A q \in Pages : free_ptr'[q] = free_ptr[q]
        /\ free_ptr'[p] = used
    <3>1. /\ \A q \in Pages : free_ptr[q] \in Header .. max
          /\ Header .. max \subseteq 0 .. max
          /\ used \in Header .. max
      BY <1>0
    <3>2. free_ptr' = [q \in Pages \cup {p} |-> IF q = p THEN used ELSE free_ptr[q]]
      OBVIOUS
    <3>3. p \notin Pages
      BY <1>2
    <3>4. QED BY ONLY <2>1, <3>1, <3>2, <3>3
  <2>3. TypeOK'
    <3>1. Pages' \subseteq 1 .. MaxPages /\ next' \in [Pages' -> Pages' \cup {NULL}]
      BY <1>0, <2>1 DEF TypeOK
    <3>2. pc' \in {"init", "idle", "search", "grow", "destroyed", "dead", "failed"}
      OBVIOUS
    <3>3. {first, current, node}' \subseteq Pages' \cup {NULL}
      <4>1. first' \in Pages \cup {p, NULL} /\ current' = p /\ node' = node
        BY <1>2
      <4>2. node \in Pages \cup {NULL}
        BY <1>0 DEF TypeOK
      <4>3. QED BY ONLY <2>1, <4>1, <4>2
    <3>4. QED BY <1>0, <2>2, <3>1, <3>2, <3>3 DEF TypeOK
  <2>4. BlocksApart'
    <3>1. \A b \in blocks' : \/ b \in blocks /\ b.page # p
                             \/ b.page = p /\ b.at = Header /\ b.size = used - Header
      BY <1>0 DEF Block
    <3>2. \A b \in blocks' : b.page \in Pages' /\ b.at >= Header /\ b.at + b.size <= free_ptr'[b.page]
      BY <1>0, <2>1, <2>2, <3>1
    <3>3. \A b, c \in blocks' : b # c /\ b.page = c.page =>
             b.at + b.size <= c.at \/ c.at + c.size <= b.at
      BY <1>0, <3>1 DEF BlocksApart, Block
    <3>4. \A q \in Pages' : free_ptr'[q] <= max
      BY <1>0, <2>2, <2>3
    <3>5. kind' = "paged" /\ max' = max
      OBVIOUS
    <3>6. QED BY <2>3, <3>2, <3>3, <3>4, <3>5 DEF BlocksApart
  <2>5. Paged'
    <3>1. \A b \in blocks' : b = Block(b.page, b.at, b.size) /\ b.at \in Nat /\ b.size \in Nat
      BY <1>0 DEF Block
    <3>2. QED BY <2>1, <2>2, <3>1 DEF Paged
  <2>6. QED BY <2>4, <2>5 DEF PoolInv, InBlocks
<1>3. CASE InitPaged
  <2>1. pc = "init"
    BY <1>3 DEF InitPaged
  <2>2. Pages = {} /\ Pages = 1 .. 0 /\ 1 \in 1 .. MaxPages /\ 0 \in 0 .. MaxPages
    BY <1>0, <2>1 DEF Paged
  <2>3. AddPage(1, NULL, Header) /\ Header \in Header .. max
    BY <1>0, <1>3 DEF InitPaged
  <2>4. \A q \in 1 .. 0 : FALSE
    OBVIOUS
  <2>5. QED BY <1>0, <1>2, <1>3, <2>1, <2>2, <2>3, <2>4 DEF InitPaged
<1>4. CASE Grow
  <2>1. PICK n \in 0 .. MaxPages :
          /\ Pages = 1 .. n /\ (n > 0 => current = n)
          /\ \A q \in 1 .. n : next[q] = IF q = 1 THEN NULL ELSE q - 1
    BY <1>0 DEF Paged
  <2>2. Cardinality(Pages) = n
    BY <2>1, FS_Interval
  <2>3. size \in Nat \ {0} /\ size <= max - Header /\ current \in Pages
    BY <1>0, <1>4 DEF Grow, Paged
  <2>4. /\ n + 1 \in 1 .. MaxPages /\ n + 1 \notin Pages
        /\ Header + size \in Header .. max /\ (Header + size) - Header = size
    BY <1>0, <1>4, <2>1, <2>2, <2>3 DEF Grow
  <2>5. first \in Pages \cup {NULL}
    BY <1>0 DEF TypeOK
  <2>6. current = IF n = 0 THEN NULL ELSE n
    BY <2>1, <2>3
  <2>7. QED BY <1>2, <1>4, <2>1, <2>2, <2>3, <2>4, <2>5, <2>6 DEF Grow
<1>5. CASE TakeRoom
  <2> USE <1>5 DEF TakeRoom
  <2> DEFINE f == free_ptr[node]
  <2>1. node \in Pages /\ size \in Nat \ {0} /\ f \in Nat /\ f + size <= max /\ f >= Header
    BY <1>0 DEF Paged
  <2>2. /\ free_ptr' \in [Pages -> 0 .. max \cup {NULL, JUNK}]
        /\ \A q \in Pages : free_ptr'[q] \in Header .. max /\ free_ptr'[q] >= free_ptr[q]
        /\ free_ptr'[node] = f + size
    BY <1>0, <2>1 DEF TypeOK
  <2>3. TypeOK' /\ Pages' = Pages
    BY <1>0, <2>2 DEF TypeOK, Pages
  <2>4. BlocksApart'
    <3>0. blocks' = blocks \cup {Block(node, f, size)}
      OBVIOUS
    <3>1. \A b \in blocks' : \/ b \in blocks
                             \/ b.page = node /\ b.at = f /\ b.size = size
      BY ONLY <3>0 DEF Block
    <3>2. \A b \in blocks' : b.page \in Pages /\ b.at >= Header /\ b.at + b.size <= free_ptr'[b.page]
      <4>1. ASSUME NEW b \in blocks
            PROVE  b.page \in Pages /\ b.at >= Header /\ b.at + b.size <= free_ptr'[b.page]
        <5>1. b.page \in Pages /\ b.at >= Header /\ b.at + b.size <= free_ptr[b.page]
          BY <1>0
        <5>2. CASE b.page = node
          <6>1. b.at \in Nat /\ b.size \in Nat /\ b.at + b.size <= f /\ f <= f + size
            BY <1>0, <2>1, <5>1, <5>2
          <6>2. QED BY <2>1, <2>2, <5>1, <5>2, <6>1
        <5>3. CASE b.page # node
          BY <1>0, <5>1, <5>3 DEF TypeOK
        <5>4. QED BY <5>1, <5>2, <5>3
      <4>2. QED BY <2>1, <2>2, <3>1, <4>1
    <3>3. \A b, c \in blocks' : b # c /\ b.page = c.page =>
             b.at + b.size <= c.at \/ c.at + c.size <= b.at
      BY <1>0, <3>1 DEF BlocksApart, Block
    <3>4. \A q \in Pages' : free_ptr'[q] <= max
      BY <1>0, <2>2, <2>3
    <3>5. kind' = "paged" /\ max' = max
      OBVIOUS
    <3>6. QED BY <2>3, <3>2, <3>3, <3>4, <3>5 DEF BlocksApart
  <2>5. Paged'
    <3>1. \A b \in blocks' : b = Block(b.page, b.at, b.size) /\ b.at \in Nat /\ b.size \in Nat
      BY <1>0, <2>1 DEF Block
    <3>2. QED BY <1>0, <2>2, <2>3, <3>1 DEF Paged
  <2>6. QED BY <1>0, <2>4, <2>5 DEF PoolInv, InBlocks
<1>6. ASSUME NEW words \in Sizes, BeginAlloc(words)
      PROVE  PoolInv'
  <2>1. \A p \in Pages : ~(p > current)
    BY <1>0 DEF Paged
  <2>2. current \in Pages /\ words \in Nat \ {0}
    BY <1>0, <1>6 DEF BeginAlloc, Paged
  <2>3. QED BY <1>0, <1>1, <1>6, <2>1, <2>2 DEF BeginAlloc, TypeOK
<1>7. CASE NextPage
  <2>1. PICK n \in 0 .. MaxPages :
          /\ Pages = 1 .. n
          /\ \A q \in 1 .. n : next[q] = IF q = 1 THEN NULL ELSE q - 1
    BY <1>0 DEF Paged
  <2>2. /\ node \in 1 .. n /\ current \in Pages
        /\ size \in Nat \ {0} /\ size <= max - Header /\ size > max - free_ptr[node]
        /\ \A p \in Pages : p > node => max - free_ptr[p] < size
    BY <1>0, <1>7, <2>1 DEF NextPage, Paged
  <2>3. \A p \in Pages : p >= node => max - free_ptr[p] < size
    BY <1>0, <2>1, <2>2
  <2>4. next[node] = IF node = 1 THEN NULL ELSE node - 1
    BY <2>1, <2>2
  <2>5. CASE node = 1
    <3>1. pc' = "grow" /\ node' = NULL
      BY <1>7, <2>4, <2>5 DEF NextPage
    <3>2. \A p \in Pages : max - free_ptr[p] < size
      BY <2>1, <2>3, <2>5
    <3>3. QED BY <1>0, <1>1, <1>7, <2>2, <3>1, <3>2 DEF NextPage, TypeOK
  <2>6. CASE node # 1
    <3>1. node - 1 \in 1 .. MaxPages /\ node - 1 \in Pages
      BY <1>0, <2>1, <2>2, <2>6
    <3>2. pc' = "search" /\ node' = node - 1
      BY <1>7, <2>4, <2>6, <3>1, NoPageIsNULL DEF NextPage
    <3>3. \A p \in Pages : p > node - 1 => max - free_ptr[p] < size
      BY <2>1, <2>2, <2>3
    <3>4. QED BY <1>0, <1>1, <1>7, <2>2, <3>1, <3>2, <3>3 DEF NextPage, TypeOK
  <2>7. QED BY <2>5, <2>6
<1>8. CASE OutOfMemory
  BY <1>0, <1>1, <1>8 DEF OutOfMemory, Paged, TypeOK
<1>9. CASE DestPaged
  BY <1>0, <1>1, <1>9 DEF DestPaged, Paged, TypeOK
<1>10. ASSUME NEW b \in blocks, FreePaged(b)
       PROVE  PoolInv'
  BY <1>0, <1>1, <1>10 DEF FreePaged, Paged, TypeOK
<1>11. QED BY <1>3, <1>4, <1>5, <1>6, <1>7, <1>8, <1>9, <1>10
           DEF Next, InitFails, Alloc, AllocNothing, DestBlock, InitBlock, Free, WriteBlock

-----------------------------------------------------------------------------
(* mempool-v1.c *)

\* The words that InitBlock links are the first ones of the blocks.
LEMMA GridOfInit ==
  ASSUME NEW m \in Nat, NEW b \in Nat \ {0}
  PROVE  /\ m \div b \in Nat
         /\ \A a \in 0 .. m : a % b = 0 /\ a < (m \div b) * b => a + b \in 0 .. m
         /\ \A i \in 0 .. (m \div b) - 1 : /\ i * b \in 0 .. m /\ (i * b) % b = 0
                                         /\ i * b < (m \div b) * b
                                         /\ i * b + b = (i + 1) * b
         /\ \A i, j \in 0 .. (m \div b) - 1 : i * b = j * b => i = j
<1> DEFINE n == m \div b
<1>1. n \in Nat /\ n * b <= m /\ n * b \in Nat
  BY DivTimes
<1> HIDE DEF n
<1>2. ASSUME NEW a \in 0 .. m, a % b = 0, a < n * b
      PROVE  a + b \in 0 .. m
  <2>0. a \in Nat /\ a % b = 0
    BY <1>2
  <2>1. PICK q \in Nat : a = q * b
    BY <2>0, DivTimes
  <2>2. q < n
    <3>1. SUFFICES ASSUME n < q PROVE FALSE
      BY <1>1, <1>2, <2>1
    <3>2. n * b + b <= q * b
      BY <1>1, <3>1, TimesGrows
    <3>3. QED BY <1>1, <1>2, <2>1, <3>2
  <2>3. q * b + b <= n * b
    BY <1>1, <2>2, TimesGrows
  <2>4. QED BY <1>1, <2>1, <2>3
<1>3. ASSUME NEW i \in 0 .. n - 1
      PROVE  /\ i * b \in 0 .. m /\ (i * b) % b = 0
             /\ i * b < n * b
             /\ i * b + b = (i + 1) * b
  <2>1. i \in Nat /\ i < n
    BY <1>1
  <2>2. i * b \in Nat /\ i * b + b <= n * b
    BY <1>1, <2>1, TimesGrows
  <2>3. i * b + b = (i + 1) * b
    BY <2>1
  <2>4. (i * b) % b = 0
    BY <2>1, TimesMod
  <2>5. i * b \in 0 .. m /\ i * b < n * b
    BY ONLY <1>1, <2>2, m \in Nat, b \in Nat \ {0}
  <2>6. QED BY <2>3, <2>4, <2>5
<1>4. ASSUME NEW i \in 0 .. n - 1, NEW j \in 0 .. n - 1, i * b = j * b
      PROVE  i = j
  <2>1. i \in Nat /\ j \in Nat
    BY <1>1
  <2>2. ~(i < j) /\ ~(j < i)
    <3>1. i * b \in Nat /\ j * b \in Nat
      BY <2>1
    <3>2. QED BY <1>4, <2>1, <3>1, TimesGrows
  <2>3. QED BY <2>1, <2>2
<1>5. QED BY <1>1, <1>2, <1>3, <1>4 DEF n

LEMMA InitBlockKeeps ==
  ASSUME PoolInv, NEW words \in Sizes, InitBlock(words)
  PROVE  PoolInv'
<1> DEFINE b == IF words < MinBlock THEN MinBlock ELSE words
           n == max \div b
<1>0. /\ TypeOK /\ kind = "block" /\ blocks = {} /\ pc' = "idle"
      /\ UNCHANGED <<kind, max, blocks, first, current, node, size>>
      /\ next' = [p \in {1} |-> NULL] /\ free_ptr' = [p \in {1} |-> 0]
      /\ block_size' = b /\ free_count' = n
      /\ cell' = [a \in 0 .. max |->
                    IF a % b = 0 /\ a < n * b THEN a + b ELSE IF a = n * b THEN NULL ELSE JUNK]
  BY DEF PoolInv, BlocksApart, InBlocks, InitBlock, Goto
<1>1. max \in Nat /\ b \in Nat \ {0} /\ 1 \in 1 .. MaxPages
  <2>1. max \in PageSizes /\ words \in Nat \ {0} /\ MinBlock \in Nat \ {0}
    BY <1>0, SizesPositive DEF TypeOK
  <2>2. max \in Nat /\ 1 \in 1 .. MaxPages
    BY <2>1, SizesPositive
  <2>3. QED BY <2>1, <2>2
<1> HIDE DEF b
<1>2. /\ n \in Nat
      /\ \A a \in 0 .. max : a % b = 0 /\ a < n * b => a + b \in 0 .. max
      /\ \A i \in 0 .. n - 1 : /\ i * b \in 0 .. max /\ (i * b) % b = 0
                              /\ i * b < n * b /\ i * b + b = (i + 1) * b
      /\ \A i, j \in 0 .. n - 1 : i * b = j * b => i = j
  BY <1>1, GridOfInit
<1>3. Grid' = {i * b : i \in 0 .. n - 1}
  BY <1>0 DEF Grid
<1> HIDE DEF n
<1>4. Pages' = {1}
  BY <1>0 DEF Pages
<1>5. TypeOK'
  <2>1. cell' \in [0 .. max -> 0 .. max \cup {NULL, JUNK}]
    BY <1>0, <1>2
  <2>2. {first, current, node}' \subseteq Pages' \cup {NULL}
    <3>1. {first, current, node} \subseteq {NULL}
      BY <1>0 DEF PoolInv, InBlocks
    <3>2. QED BY <1>0, <3>1
  <2>3. /\ 0 \in 0 .. max
        /\ free_ptr' \in [Pages' -> 0 .. max \cup {NULL, JUNK}]
        /\ next' \in [Pages' -> Pages' \cup {NULL}]
    BY <1>0, <1>1, <1>4
  <2>4. block_size' \in Nat /\ free_count' \in Nat /\ Pages' \subseteq 1 .. MaxPages
    BY <1>0, <1>1, <1>2, <1>4
  <2>5. QED BY <1>0, <2>1, <2>2, <2>3, <2>4 DEF TypeOK
<1>6. BlocksApart'
  BY <1>0, <1>5 DEF BlocksApart
<1>7. \E s \in [1 .. n -> Grid'] : FreeList(s)'
  <2>1. \A i \in 1 .. n : i - 1 \in 0 .. n - 1
    BY <1>2
  <2>2. PICK s \in [1 .. n -> Grid'] : \A i \in 1 .. n : s[i] = (i - 1) * b
    <3> DEFINE f == [i \in 1 .. n |-> (i - 1) * b]
    <3>1. f \in [1 .. n -> Grid'] /\ \A i \in 1 .. n : f[i] = (i - 1) * b
      BY <1>3, <2>1
    <3>2. QED BY <3>1
  <2>3. \A i, j \in 1 .. n : s[i] = s[j] => i = j
    <3>1. ASSUME NEW i \in 1 .. n, NEW j \in 1 .. n, s[i] = s[j]
          PROVE  i = j
      <4>1. i - 1 = j - 1
        BY <1>2, <2>1, <2>2, <3>1
      <4>2. QED BY <1>2, <4>1
    <3>2. QED BY <3>1
  <2>4. ASSUME NEW i \in 1 .. n - 1
        PROVE  cell'[s[i]] = s[i + 1]
    <3>1. i \in 1 .. n /\ i + 1 \in 1 .. n /\ i - 1 \in 0 .. n - 1 /\ (i - 1) + 1 = i /\ (i + 1) - 1 = i
      BY <1>2
    <3>2. cell'[(i - 1) * b] = (i - 1) * b + b
      BY <1>0, <1>2, <3>1
    <3>3. (i - 1) * b + b = i * b
      BY <1>2, <3>1
    <3>4. s[i] = (i - 1) * b /\ s[i + 1] = i * b
      BY <2>2, <3>1
    <3>5. QED BY <3>2, <3>3, <3>4
  <2>5. n > 0 => free_ptr'[1] = s[1]
    <3>1. free_ptr'[1] = 0 /\ (1 - 1) * b = 0
      BY <1>0, <1>1
    <3>2. n > 0 => 1 \in 1 .. n
      BY <1>2
    <3>3. QED BY <2>2, <3>1, <3>2
  <2>6. ASSUME NEW a \in Grid'
        PROVE  \E i \in 1 .. n : a = s[i]
    <3>1. PICK i \in 0 .. n - 1 : a = i * b
      BY <1>3
    <3>2. i + 1 \in 1 .. n /\ (i + 1) - 1 = i
      BY <1>2
    <3>3. QED BY <2>2, <3>1, <3>2
  <2>7. FreeList(s)'
    BY <1>0, <2>3, <2>4, <2>5, <2>6 DEF FreeList
  <2>8. QED BY <2>7
<1>8. QED BY <1>0, <1>1, <1>4, <1>6, <1>7 DEF PoolInv, Paged, InBlocks

\* What a program and the pool have between calls.
LEMMA BlockPool ==
  ASSUME PoolInv, kind = "block", pc = "idle"
  PROVE  /\ TypeOK /\ max \in Nat /\ block_size \in Nat \ {0} /\ free_count \in Nat
         /\ Pages = {1} /\ first = NULL /\ current = NULL /\ node = NULL
         /\ \A b \in blocks : /\ b = Block(1, b.at, block_size) /\ b.page = 1
                              /\ b.size = block_size /\ b.at \in Grid
         /\ \A a \in Grid : /\ a \in 0 .. max /\ a + block_size <= max
                            /\ \A c \in Grid : \/ c = a \/ a + block_size <= c
                                               \/ c + block_size <= a
         /\ \E s \in [1 .. free_count -> Grid] : FreeList(s)
<1>1. /\ TypeOK /\ block_size \in Nat \ {0} /\ Pages = {1}
      /\ first = NULL /\ current = NULL /\ node = NULL
      /\ \A b \in blocks : b = Block(1, b.at, block_size) /\ b.at \in Grid
      /\ \E s \in [1 .. free_count -> Grid] : FreeList(s)
  BY DEF PoolInv, BlocksApart, InBlocks
<1>2. max \in Nat /\ free_count \in Nat
  BY <1>1, SizesPositive DEF TypeOK
<1>3. \A a \in Grid : /\ a \in 0 .. max /\ a + block_size <= max
                      /\ \A c \in Grid : \/ c = a \/ a + block_size <= c
                                         \/ c + block_size <= a
  BY <1>1, <1>2, GridApart
<1>4. QED BY <1>1, <1>2, <1>3 DEF Block

\* Blocks of the grid keep apart.
LEMMA OnGridApart ==
  ASSUME TypeOK', kind' = "block", max' \in Nat, block_size' \in Nat \ {0}, 1 \in Pages',
         NEW G, G = Grid',
         \A b \in blocks' : b = Block(1, b.at, block_size') /\ b.at \in G,
         \A a \in G : /\ a \in 0 .. max' /\ a + block_size' <= max'
                      /\ \A c \in G : \/ c = a \/ a + block_size' <= c
                                      \/ c + block_size' <= a
  PROVE  BlocksApart'
<1>1. \A b \in blocks' : b.page = 1 /\ b.size = block_size' /\ b.at \in G
  BY DEF Block
<1>2. \A b \in blocks' : b.page \in Pages' /\ b.at >= 0 /\ b.at + b.size <= max'
  BY <1>1
<1>3. ASSUME NEW b \in blocks', NEW c \in blocks', b # c
      PROVE  b.at + b.size <= c.at \/ c.at + c.size <= b.at
  <2>1. b.at # c.at
    BY <1>3
  <2>2. QED BY <1>1, <2>1
<1>4. QED BY <1>2, <1>3 DEF BlocksApart

LEMMA AllocKeeps ==
  ASSUME PoolInv, Alloc
  PROVE  PoolInv'
<1> DEFINE m == free_count
           here == free_ptr[1]
<1>0. kind = "block" /\ pc = "idle" /\ m # 0
  BY DEF Alloc
<1>1. /\ TypeOK /\ max \in Nat /\ block_size \in Nat \ {0} /\ m \in Nat
      /\ Pages = {1} /\ first = NULL /\ current = NULL /\ node = NULL
      /\ \A b \in blocks : b = Block(1, b.at, block_size) /\ b.at \in Grid
      /\ \A a \in Grid : /\ a \in 0 .. max /\ a + block_size <= max
                         /\ \A c \in Grid : \/ c = a \/ a + block_size <= c
                                            \/ c + block_size <= a
  BY <1>0, BlockPool
<1>2. PICK s \in [1 .. m -> Grid] : FreeList(s)
  BY <1>0, BlockPool
<1>3. 1 \in 1 .. m /\ here = s[1] /\ here \in Grid /\ \A b \in blocks : here # b.at
  BY <1>0, <1>1, <1>2 DEF FreeList
<1>4. /\ UNCHANGED <<kind, max, pc, first, current, next, node, size, block_size, cell>>
      /\ free_ptr' = [free_ptr EXCEPT ![1] = cell[here]]
      /\ free_count' = m - 1
      /\ blocks' = blocks \cup {Block(1, here, block_size)}
  BY DEF Alloc, chain
<1>5. Pages' = {1} /\ Grid' = Grid
  BY <1>1, <1>4 DEF Pages, Grid
<1>6. TypeOK'
  <2>1. free_ptr' \in [Pages -> 0 .. max \cup {NULL, JUNK}]
    BY <1>1, <1>3, <1>4 DEF TypeOK
  <2>2. free_count' \in Nat
    BY <1>0, <1>1, <1>4
  <2>3. QED BY <1>1, <1>4, <1>5, <2>1, <2>2 DEF TypeOK
<1>7. \A b \in blocks' : b = Block(1, b.at, block_size) /\ b.at \in Grid
  BY <1>1, <1>3, <1>4 DEF Block
<1>8. BlocksApart'
  BY <1>0, <1>1, <1>4, <1>5, <1>6, <1>7, OnGridApart
<1>9. \E t \in [1 .. free_count' -> Grid'] : FreeList(t)'
  <2>1. \A i \in 1 .. m - 1 : i \in 1 .. m /\ i + 1 \in 1 .. m /\ i + 1 # 1
    BY <1>1
  <2>2. PICK t \in [1 .. m - 1 -> Grid] : \A i \in 1 .. m - 1 : t[i] = s[i + 1]
    <3> DEFINE f == [i \in 1 .. m - 1 |-> s[i + 1]]
    <3>1. f \in [1 .. m - 1 -> Grid] /\ \A i \in 1 .. m - 1 : f[i] = s[i + 1]
      BY <2>1
    <3>2. QED BY <3>1
  <2>3. ASSUME NEW i \in 1 .. m - 1, NEW j \in 1 .. m - 1, t[i] = t[j]
        PROVE  i = j
    <3>1. i + 1 = j + 1
      BY <1>2, <2>1, <2>2, <2>3 DEF FreeList
    <3>2. QED BY <1>1, <3>1
  <2>4. ASSUME NEW i \in 1 .. m - 1, NEW b \in blocks'
        PROVE  t[i] # b.at
    <3>1. t[i] = s[i + 1] /\ s[i + 1] # s[1]
      BY <1>2, <1>3, <2>1, <2>2 DEF FreeList
    <3>2. CASE b \in blocks
      BY <1>2, <2>1, <3>1, <3>2 DEF FreeList
    <3>3. CASE b = Block(1, here, block_size)
      BY <1>3, <3>1, <3>3 DEF Block
    <3>4. QED BY <1>4, <3>2, <3>3
  <2>5. m - 1 > 0 => free_ptr'[1] = t[1]
    <3>1. SUFFICES ASSUME m - 1 > 0 PROVE free_ptr'[1] = t[1]
      OBVIOUS
    <3>2. 1 \in 1 .. m - 1 /\ 1 + 1 = 2
      BY <1>1, <3>1
    <3>3. cell[s[1]] = s[2]
      BY <1>2, <3>2 DEF FreeList
    <3>4. free_ptr'[1] = cell[here]
      BY <1>1, <1>4 DEF TypeOK
    <3>5. QED BY <1>3, <2>2, <3>2, <3>3, <3>4
  <2>6. ASSUME NEW i \in 1 .. (m - 1) - 1
        PROVE  cell[t[i]] = t[i + 1]
    <3>1. i \in 1 .. m - 1 /\ i + 1 \in 1 .. m - 1
      BY <1>1
    <3>2. cell[s[i + 1]] = s[(i + 1) + 1]
      BY <1>2, <3>1 DEF FreeList
    <3>3. QED BY <2>2, <3>1, <3>2
  <2>7. ASSUME NEW a \in Grid
        PROVE  (\E i \in 1 .. m - 1 : a = t[i]) \/ (\E b \in blocks' : a = b.at)
    <3>1. CASE \E b \in blocks : a = b.at
      BY <1>4, <3>1
    <3>2. CASE a = s[1]
      <4>1. Block(1, here, block_size) \in blocks' /\ Block(1, here, block_size).at = here
        BY <1>4 DEF Block
      <4>2. QED BY <1>3, <3>2, <4>1
    <3>3. ASSUME NEW i \in 1 .. m, a = s[i], i # 1
          PROVE  \E j \in 1 .. m - 1 : a = t[j]
      <4>1. i - 1 \in 1 .. m - 1 /\ (i - 1) + 1 = i
        BY <1>1, <3>3
      <4>2. QED BY <2>2, <3>3, <4>1
    <3>4. (\E i \in 1 .. m : a = s[i]) \/ (\E b \in blocks : a = b.at)
      BY <1>2 DEF FreeList
    <3>5. QED BY <3>1, <3>2, <3>3, <3>4
  <2>8. FreeList(t)'
    BY <1>4, <1>5, <2>3, <2>4, <2>5, <2>6, <2>7 DEF FreeList
  <2>9. QED BY <1>4, <1>5, <2>8
<1>10. QED BY <1>0, <1>1, <1>4, <1>5, <1>7, <1>8, <1>9 DEF PoolInv, Paged, InBlocks

LEMMA FreeKeeps ==
  ASSUME PoolInv, NEW b \in blocks, Free(b)
  PROVE  PoolInv'
<1> DEFINE m == free_count
           here == b.at
<1>0. kind = "block" /\ pc = "idle"
  BY DEF Free
<1>1. /\ TypeOK /\ max \in Nat /\ block_size \in Nat \ {0} /\ m \in Nat
      /\ Pages = {1} /\ first = NULL /\ current = NULL /\ node = NULL
      /\ \A c \in blocks : c = Block(1, c.at, block_size) /\ c.at \in Grid
      /\ \A a \in Grid : /\ a \in 0 .. max /\ a + block_size <= max
                         /\ \A c \in Grid : \/ c = a \/ a + block_size <= c
                                            \/ c + block_size <= a
  BY <1>0, BlockPool
<1>2. PICK s \in [1 .. m -> Grid] : FreeList(s)
  BY <1>0, BlockPool
<1>3. here \in Grid /\ here \in 0 .. max /\ \A c \in blocks \ {b} : c.at # here
  BY <1>1
<1>4. /\ UNCHANGED <<kind, max, pc, first, current, next, node, size, block_size>>
      /\ free_ptr' = [free_ptr EXCEPT ![1] = here]
      /\ cell' = [cell EXCEPT ![here] = free_ptr[1]]
      /\ free_count' = m + 1
      /\ blocks' = blocks \ {b}
  BY DEF Free, chain
<1>5. Pages' = {1} /\ Grid' = Grid
  BY <1>1, <1>4 DEF Pages, Grid
<1>6. TypeOK'
  <2>1. /\ free_ptr' \in [Pages -> 0 .. max \cup {NULL, JUNK}]
        /\ cell' \in [0 .. max -> 0 .. max \cup {NULL, JUNK}]
    BY <1>1, <1>3, <1>4 DEF TypeOK
  <2>2. free_count' \in Nat
    BY <1>1, <1>4
  <2>3. QED BY <1>1, <1>4, <1>5, <2>1, <2>2 DEF TypeOK
<1>7. \A c \in blocks' : c = Block(1, c.at, block_size) /\ c.at \in Grid
  BY <1>1, <1>4
<1>8. BlocksApart'
  BY <1>0, <1>1, <1>4, <1>5, <1>6, <1>7, OnGridApart
<1>9. \E t \in [1 .. free_count' -> Grid'] : FreeList(t)'
  <2>1. \A i \in 1 .. m + 1 : i # 1 => i - 1 \in 1 .. m
    BY <1>1
  <2>2. PICK t \in [1 .. m + 1 -> Grid] :
          \A i \in 1 .. m + 1 : t[i] = IF i = 1 THEN here ELSE s[i - 1]
    <3> DEFINE f == [i \in 1 .. m + 1 |-> IF i = 1 THEN here ELSE s[i - 1]]
    <3>1. /\ f \in [1 .. m + 1 -> Grid]
          /\ \A i \in 1 .. m + 1 : f[i] = IF i = 1 THEN here ELSE s[i - 1]
      BY <1>3, <2>1
    <3>2. QED BY <3>1
  <2>3. \A i \in 1 .. m : s[i] # here /\ \A c \in blocks \ {b} : s[i] # c.at
    BY <1>2 DEF FreeList
  <2>4. ASSUME NEW i \in 1 .. m + 1, NEW j \in 1 .. m + 1, t[i] = t[j]
        PROVE  i = j
    <3>1. (i = 1) <=> (j = 1)
      BY <2>1, <2>2, <2>3, <2>4
    <3>2. CASE i # 1
      <4>1. i - 1 = j - 1
        BY <1>2, <2>1, <2>2, <2>4, <3>1, <3>2 DEF FreeList
      <4>2. QED BY <1>1, <4>1
    <3>3. QED BY <3>1, <3>2
  <2>5. ASSUME NEW i \in 1 .. m + 1, NEW c \in blocks'
        PROVE  t[i] # c.at
    BY <1>3, <1>4, <2>1, <2>2, <2>3
  <2>6. free_ptr'[1] = t[1]
    BY <1>1, <1>4, <2>2 DEF TypeOK
  <2>7. ASSUME NEW i \in 1 .. (m + 1) - 1
        PROVE  cell'[t[i]] = t[i + 1]
    <3>1. i \in 1 .. m + 1 /\ i + 1 \in 1 .. m + 1 /\ i + 1 # 1 /\ (i + 1) - 1 = i /\ i \in 1 .. m
      BY <1>1
    <3>2. t[i + 1] = s[i] /\ s[i] \in Grid
      BY <2>2, <3>1
    <3>3. CASE i = 1
      <4>1. t[i] = here /\ cell'[here] = free_ptr[1]
        BY <1>1, <1>3, <1>4, <2>2, <3>1, <3>3 DEF TypeOK
      <4>2. free_ptr[1] = s[1]
        BY <1>1, <1>2, <3>1 DEF FreeList
      <4>3. QED BY <3>2, <3>3, <4>1, <4>2
    <3>4. CASE i # 1
      <4>1. i - 1 \in 1 .. m /\ i - 1 \in 1 .. m - 1 /\ (i - 1) + 1 = i
        BY <1>1, <3>1, <3>4
      <4>2. t[i] = s[i - 1] /\ cell[s[i - 1]] = s[i]
        BY <1>2, <2>2, <3>1, <3>4, <4>1 DEF FreeList
      <4>3. s[i - 1] # here /\ s[i - 1] \in 0 .. max
        BY <1>1, <2>3, <4>1
      <4>4. QED BY <1>1, <1>4, <3>2, <4>2, <4>3 DEF TypeOK
    <3>5. QED BY <3>3, <3>4
  <2>8. ASSUME NEW a \in Grid
        PROVE  (\E i \in 1 .. m + 1 : a = t[i]) \/ (\E c \in blocks' : a = c.at)
    <3>1. CASE a = here
      BY <1>1, <2>2, <3>1
    <3>2. CASE \E c \in blocks \ {b} : a = c.at
      BY <1>4, <3>2
    <3>3. ASSUME NEW i \in 1 .. m, a = s[i]
          PROVE  \E j \in 1 .. m + 1 : a = t[j]
      <4>1. i + 1 \in 1 .. m + 1 /\ i + 1 # 1 /\ (i + 1) - 1 = i
        BY <1>1
      <4>2. QED BY <2>2, <3>3, <4>1
    <3>4. (\E i \in 1 .. m : a = s[i]) \/ (\E c \in blocks : a = c.at)
      BY <1>2 DEF FreeList
    <3>5. QED BY <3>1, <3>2, <3>3, <3>4
  <2>9. FreeList(t)'
    BY <1>4, <1>5, <2>4, <2>5, <2>6, <2>7, <2>8 DEF FreeList
  <2>10. QED BY <1>4, <1>5, <2>9
<1>10. QED BY <1>0, <1>1, <1>4, <1>5, <1>7, <1>8, <1>9 DEF PoolInv, Paged, InBlocks

\* A program that writes only into its own blocks does not touch the free list.
LEMMA WriteBlockKeeps ==
  ASSUME PoolInv, NEW b \in blocks, WriteBlock(b)
  PROVE  PoolInv'
<1> DEFINE m == free_count
<1>0. kind = "block" /\ pc = "idle"
  BY DEF WriteBlock
<1>1. /\ TypeOK /\ max \in Nat /\ block_size \in Nat \ {0} /\ m \in Nat
      /\ Pages = {1} /\ first = NULL /\ current = NULL /\ node = NULL
      /\ \A c \in blocks : /\ c = Block(1, c.at, block_size) /\ c.at \in Grid
                           /\ c.size = block_size
      /\ \A a \in Grid : /\ a \in 0 .. max /\ a + block_size <= max
                         /\ \A c \in Grid : \/ c = a \/ a + block_size <= c
                                            \/ c + block_size <= a
  BY <1>0, BlockPool
<1>2. PICK s \in [1 .. m -> Grid] : FreeList(s)
  BY <1>0, BlockPool
<1>4. /\ UNCHANGED <<kind, max, pc, blocks, first, current, next, free_ptr, node, size,
                     block_size, free_count>>
      /\ cell' = [a \in 0 .. max |->
                    IF b.at <= a /\ a < b.at + block_size THEN JUNK ELSE cell[a]]
  BY <1>1 DEF WriteBlock, chain
<1>5. Pages' = {1} /\ Grid' = Grid
  BY <1>1, <1>4 DEF Pages, Grid
<1>6. TypeOK'
  <2>1. cell' \in [0 .. max -> 0 .. max \cup {NULL, JUNK}]
    BY <1>1, <1>4 DEF TypeOK
  <2>2. QED BY <1>1, <1>4, <1>5, <2>1 DEF TypeOK
<1>7. BlocksApart'
  BY <1>0, <1>1, <1>4, <1>5, <1>6, OnGridApart
<1>8. ASSUME NEW i \in 1 .. m - 1
      PROVE  cell'[s[i]] = s[i + 1]
  <2>1. i \in 1 .. m
    BY <1>1
  <2>2. s[i] \in Grid /\ s[i] # b.at /\ b.at \in Grid /\ s[i] \in 0 .. max /\ b.at \in 0 .. max
    BY <1>1, <1>2, <2>1 DEF FreeList
  <2>3. s[i] + block_size <= b.at \/ b.at + block_size <= s[i]
    BY <1>1, <2>2
  <2>4. ~(b.at <= s[i] /\ s[i] < b.at + block_size)
    BY <1>1, <2>2, <2>3
  <2>5. QED BY <1>2, <1>4, <2>2, <2>4 DEF FreeList
<1>9. FreeList(s)'
  BY <1>2, <1>4, <1>5, <1>8 DEF FreeList
<1>10. QED BY <1>0, <1>1, <1>2, <1>4, <1>5, <1>7, <1>9 DEF PoolInv, Paged, InBlocks

-----------------------------------------------------------------------------
LEMMA InitPool == Init => PoolInv
<1> SUFFICES ASSUME Init PROVE PoolInv
  OBVIOUS
<1>1. Pages = {} /\ 1 .. 0 = {} /\ 0 \in 0 .. MaxPages
  BY SizesPositive DEF Init, Pages
<1>2. TypeOK
  <2>1. free_ptr \in [Pages -> 0 .. max \cup {NULL, JUNK}] /\ next \in [Pages -> Pages \cup {NULL}]
    BY <1>1 DEF Init
  <2>2. QED BY <1>1, <2>1 DEF Init, TypeOK
<1>3. BlocksApart
  BY <1>1, <1>2 DEF Init, BlocksApart
<1>4. Paged /\ InBlocks
  BY <1>1 DEF Init, Paged, InBlocks
<1>5. QED BY <1>3, <1>4 DEF PoolInv

LEMMA PoolStep == PoolInv /\ [Next]_vars => PoolInv'
<1> SUFFICES ASSUME PoolInv, [Next]_vars
             PROVE  PoolInv'
  OBVIOUS
<1>1. CASE UNCHANGED vars
  <2> USE <1>1 DEF vars
  <2>1. BlocksApart'
    BY DEF PoolInv, BlocksApart, TypeOK, Pages
  <2>2. Paged'
    BY DEF PoolInv, Paged, Pages
  <2>3. Pages' = Pages /\ Grid' = Grid
    BY DEF Pages, Grid
  <2>4. ASSUME NEW s \in [1 .. free_count -> Grid], FreeList(s)
        PROVE  FreeList(s)'
    BY <2>3, <2>4 DEF FreeList
  <2>5. InBlocks'
    BY <2>3, <2>4 DEF PoolInv, InBlocks
  <2>6. QED BY <2>1, <2>2, <2>5 DEF PoolInv
<1>2. CASE kind = "paged" /\ Next
  BY <1>2, PagedKeeps
<1>3. ASSUME NEW words \in Sizes, InitBlock(words)
      PROVE  PoolInv'
  BY <1>3, InitBlockKeeps
<1>4. CASE Alloc
  BY <1>4, AllocKeeps
<1>5. ASSUME NEW b \in blocks, Free(b)
      PROVE  PoolInv'
  BY <1>5, FreeKeeps
<1>6. ASSUME NEW b \in blocks, WriteBlock(b)
      PROVE  PoolInv'
  BY <1>6, WriteBlockKeeps
<1>7. CASE DestBlock
  <2>1. /\ kind = "block" /\ blocks' = {} /\ pc' = "destroyed"
        /\ UNCHANGED <<kind, max, first, current, node, size, block_size, free_count, cell>>
        /\ next' = [p \in {} |-> NULL] /\ free_ptr' = [p \in {} |-> 0]
    BY <1>7 DEF DestBlock, Goto, list
  <2>2. TypeOK /\ first = NULL /\ current = NULL /\ node = NULL
    BY <2>1 DEF PoolInv, BlocksApart, InBlocks
  <2>3. Pages' = {}
    BY <2>1 DEF Pages
  <2>4. TypeOK'
    <3>1. /\ free_ptr' \in [Pages' -> 0 .. max \cup {NULL, JUNK}]
          /\ next' \in [Pages' -> Pages' \cup {NULL}]
      BY <2>1, <2>3
    <3>2. QED BY <2>1, <2>2, <2>3, <3>1 DEF TypeOK
  <2>5. BlocksApart'
    BY <2>1, <2>3, <2>4 DEF BlocksApart
  <2>6. QED BY <2>1, <2>2, <2>3, <2>5 DEF PoolInv, Paged, InBlocks
<1>8. CASE InitFails
  <2>1. /\ kind = "block" /\ pc = "init" /\ pc' = "failed"
        /\ UNCHANGED <<kind, max, blocks, chain, free_ptr, node, size, list>>
    BY <1>8 DEF InitFails, Goto
  <2>2. TypeOK' /\ Pages' = Pages
    BY <2>1 DEF PoolInv, BlocksApart, TypeOK, chain, list, Pages
  <2>3. BlocksApart'
    BY <2>1, <2>2 DEF PoolInv, BlocksApart
  <2>4. QED BY <2>1, <2>2, <2>3 DEF PoolInv, Paged, InBlocks, chain, list
<1>9. CASE AllocNothing
  BY <1>1, <1>9 DEF AllocNothing
<1>10. kind \in {"paged", "block"}
  BY PoolsKnown DEF PoolInv, BlocksApart, TypeOK
<1>11. kind = "block" => pc \notin {"search", "grow"}
  BY DEF PoolInv, InBlocks
<1>12. QED
  BY <1>1, <1>2, <1>3, <1>4, <1>5, <1>6, <1>7, <1>8, <1>9, <1>10, <1>11
     DEF Goto, Next, InitPaged, TakeRoom, NextPage, Grow, OutOfMemory, DestPaged,
       BeginAlloc, FreePaged

LEMMA PoolAlways == Spec => []PoolInv
<1>1. QED BY InitPool, PoolStep, PTL DEF Spec

\* No block that mp_alloc returned reaches out of its page or into a header, and
\* no two overlap, whatever order blocks are freed in and whatever the program
\* writes into its own; in mempool-v1.c the writes never reach the free list.
THEOREM BlocksNeverOverlap == Spec => []BlocksApart
<1>1. PoolInv => BlocksApart
  BY DEF PoolInv
<1>2. QED BY <1>1, PoolAlways, PTL

\* The links of mempool.c lead to every page, a page is added only if none has
\* room, and the free list of mempool-v1.c runs through exactly the blocks that
\* are not in use, as many as free_count says.
THEOREM SpaceFound == Spec => []SpaceIsFound
<1>1. ASSUME PoolInv, kind = "paged", Pages # {}
      PROVE  /\ Through(current, Pages, next)
             /\ pc = "grow" => \A p \in Pages : max - free_ptr[p] < size
  <2>1. PICK n \in 0 .. MaxPages :
          /\ Pages = 1 .. n
          /\ n > 0 => current = n
          /\ \A p \in 1 .. n : next[p] = IF p = 1 THEN NULL ELSE p - 1
    BY <1>1 DEF PoolInv, Paged
  <2>2. n \in Nat /\ n > 0 /\ Cardinality(Pages) = n
    BY <1>1, <2>1, SizesPositive, FS_Interval
  <2>3. PICK s \in [1 .. n -> Pages] : \A i \in 1 .. n : s[i] = n + 1 - i
    <3> DEFINE f == [i \in 1 .. n |-> n + 1 - i]
    <3>1. f \in [1 .. n -> Pages] /\ \A i \in 1 .. n : f[i] = n + 1 - i
      BY <2>1, <2>2
    <3>2. QED BY <3>1
  <2>4. s[1] = current
    BY <2>1, <2>2, <2>3
  <2>5. \A i, j \in 1 .. n : s[i] = s[j] => i = j
    BY <2>2, <2>3
  <2>6. ASSUME NEW i \in 1 .. n - 1
        PROVE  next[s[i]] = s[i + 1]
    <3>1. i \in 1 .. n /\ i + 1 \in 1 .. n /\ n + 1 - i \in 1 .. n /\ n + 1 - i # 1
      BY <2>2
    <3>2. next[n + 1 - i] = (n + 1 - i) - 1 /\ (n + 1 - i) - 1 = n + 1 - (i + 1)
      BY <2>1, <2>2, <3>1
    <3>3. QED BY <2>3, <3>1, <3>2
  <2>7. Through(current, Pages, next)
    BY <2>2, <2>4, <2>5, <2>6 DEF Through
  <2>8. QED BY <1>1, <2>7 DEF PoolInv, Paged
<1>2. ASSUME PoolInv, kind = "block", Pages # {},
             NEW rest, rest = Grid \ {b.at : b \in blocks}
      PROVE  /\ free_count = Cardinality(rest)
             /\ rest # {} => Through(free_ptr[1], rest, cell)
  <2>1. pc = "idle"
    BY <1>2 DEF PoolInv, InBlocks
  <2>2. free_count \in Nat /\ \E s \in [1 .. free_count -> Grid] : FreeList(s)
    BY <1>2, <2>1, BlockPool
  <2>3. PICK s \in [1 .. free_count -> Grid] : FreeList(s)
    BY <2>2
  <2>4. /\ s \in [1 .. free_count -> rest]
        /\ \A i, j \in 1 .. free_count : s[i] = s[j] => i = j
        /\ \A a \in rest : \E i \in 1 .. free_count : s[i] = a
    BY <1>2, <2>3 DEF FreeList
  <2>5. ExistsBijection(1 .. free_count, rest)
    BY <2>4 DEF ExistsBijection, Bijection, Injection, IsInjective, Surjection
  <2>6. Cardinality(rest) = free_count
    BY <2>2, <2>5, FS_CountingElements
  <2>7. rest # {} => free_count > 0
    BY <2>2, <2>4
  <2>8. /\ free_count > 0 => s[1] = free_ptr[1]
        /\ \A i \in 1 .. free_count - 1 : cell[s[i]] = s[i + 1]
    BY <2>3 DEF FreeList
  <2>9. rest # {} => Through(free_ptr[1], rest, cell)
    BY <2>4, <2>6, <2>7, <2>8 DEF Through
  <2>10. QED BY <2>6, <2>9
<1>3. PoolInv => SpaceIsFound
  BY <1>1, <1>2 DEF SpaceIsFound
<1>4. QED BY <1>3, PoolAlways, PTL
=============================================================================
