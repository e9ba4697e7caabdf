------------------------------ MODULE Umalloc -------------------------------
(***************************************************************************)
(* The user-level allocator of umalloc.c.  Memory is counted in units of   *)
(* sizeof(Header); a block is known by the address of its header, address  *)
(* 0 is the static base and the heap starts at 2.  A heap is a record      *)
(* h of the links and sizes kept in the headers and of freep, so that      *)
(* free() and malloc() are functions from heap to heap.                    *)
(***************************************************************************)
EXTENDS Integers, FiniteSets, FiniteSetsExt

CONSTANTS HeapTop,   \* the heap ends below this address: sbrk() fails beyond
          NALLOC,    \* units morecore() asks for at least (4096)
          MaxUnits   \* bound: the largest block asked for, header included

VARIABLES h, brk,
          used,      \* the blocks the program has been given: header -> units
          owned,     \* the units that sbrk() has given to morecore()
          grew       \* did the last malloc() call sbrk(), and need to?

heapVars == <<h, brk, used, owned, grew>>

base == 0
Addr == 0 .. HeapTop

HeapInit ==
    /\ h = [ptr |-> [a \in Addr |-> base], size |-> [a \in Addr |-> 0], freep |-> base]
    /\ brk = 2 /\ used = [a \in {} |-> 0] /\ owned = {} /\ grew = FALSE

\* The place for bp: between p and its successor, or at the end of the list.
Place(g, bp, p) ==
    \/ bp > p /\ bp < g.ptr[p]
    \/ p >= g.ptr[p] /\ (bp > p \/ bp < g.ptr[p])

RECURSIVE Seek(_, _, _)
Seek(g, bp, p) == IF Place(g, bp, p) THEN p ELSE Seek(g, bp, g.ptr[p])

\* Join bp to the block above it, then the one below it to bp.  A header
\* inside a block is never read again and is cleared.
JoinUpper(g, bp, p) ==
    LET q == g.ptr[p] IN
    IF bp + g.size[bp] = q
    THEN [g EXCEPT !.size[bp] = @ + g.size[q], !.ptr[bp] = g.ptr[q],
                   !.size[q] = 0, !.ptr[q] = base]
    ELSE [g EXCEPT !.ptr[bp] = q]

JoinLower(g, bp, p) ==
    IF p + g.size[p] = bp
    THEN [g EXCEPT !.size[p] = @ + g.size[bp], !.ptr[p] = g.ptr[bp],
                   !.size[bp] = 0, !.ptr[bp] = base]
    ELSE [g EXCEPT !.ptr[p] = bp]

FreeBlock(g, bp) ==
    LET p == Seek(g, bp, g.freep)
    IN [JoinLower(JoinUpper(g, bp, p), bp, p) EXCEPT !.freep = p]

\* malloc()'s scan: the predecessor of the first block that is large enough,
\* from the one after freep to freep itself; -1 when there is none.
Fits(g, p, units) == g.size[p] >= units

RECURSIVE Scan(_, _, _)
Scan(g, prev, units) ==
    IF Fits(g, g.ptr[prev], units) THEN prev
    ELSE IF g.ptr[prev] = g.freep THEN -1
    ELSE Scan(g, g.ptr[prev], units)

\* Take the block after prev: all of it, or its tail end.
TailAtStart(g, p, units) == p + units
TailAt(g, p, units) == p + g.size[p] - units

Taken(g, prev, units) ==
    LET p == g.ptr[prev] IN
    IF g.size[p] = units
    THEN [heap |-> [g EXCEPT !.ptr[prev] = g.ptr[p], !.ptr[p] = base, !.freep = prev],
          block |-> p]
    ELSE LET b == TailAt(g, p, units) IN
         [heap |-> [g EXCEPT !.size[p] = @ - units, !.size[b] = units, !.freep = prev],
          block |-> b]

Give(g, units) ==
    LET t == Taken(g, Scan(g, g.freep, units), units)
    IN h' = t.heap /\ used' = [a \in DOMAIN used \cup {t.block} |->
                                  IF a = t.block THEN units ELSE used[a]]

\* malloc(): morecore() when the scan comes back to freep, which fails when
\* sbrk() does.
malloc(units) ==
    IF Scan(h, h.freep, units) # -1
    THEN Give(h, units) /\ grew' = FALSE /\ UNCHANGED <<brk, owned>>
    ELSE LET nu == Max({units, NALLOC}) IN
         /\ grew' = TRUE
         /\ IF brk + nu > HeapTop
            THEN UNCHANGED <<h, brk, used, owned>>
            ELSE /\ brk' = brk + nu /\ owned' = owned \cup brk .. brk + nu - 1
                 /\ Give(FreeBlock([h EXCEPT !.size[brk] = nu], brk), units)

free(bp) ==
    /\ bp \in DOMAIN used /\ h' = FreeBlock(h, bp)
    /\ used' = [a \in DOMAIN used \ {bp} |-> used[a]]
    /\ grew' = FALSE /\ UNCHANGED <<brk, owned>>

\* The program moves the break itself: the heap is then in pieces.
sbrk ==
    /\ brk < HeapTop /\ brk' = brk + 1
    /\ grew' = FALSE /\ UNCHANGED <<h, used, owned>>

HeapNext == sbrk \/ (\E units \in 1 .. MaxUnits : malloc(units)) \/ (\E bp \in DOMAIN used : free(bp))

HeapSpec == HeapInit /\ [][HeapNext]_heapVars

-----------------------------------------------------------------------------
\* The free list, from base around to base.
RECURSIVE ListFrom(_, _)
ListFrom(p, seen) == IF p \in seen THEN seen ELSE ListFrom(h.ptr[p], seen \cup {p})
FreeList == ListFrom(base, {})

Extent(a, size) == a .. a + size - 1

(* Every unit that morecore() got is in exactly one block, free or in use, *)
(* after any sequence of malloc() and free(), splits and joins: no two     *)
(* callers share memory and none is lost.                                  *)
BlocksTileHeap ==
    LET blocks == {<<a, used[a]>> : a \in DOMAIN used}
                  \cup {<<a, h.size[a]>> : a \in FreeList \ {base}}
    IN /\ owned = UNION {Extent(b[1], b[2]) : b \in blocks}
       /\ Cardinality(owned) = MapThenSumSet(LAMBDA b : b[2], blocks)

(* The free list is circular and sorted by address, freep is on it, and no *)
(* two of its blocks are adjacent: free() joins a block to both            *)
(* neighbours, wherever freep points when it starts to look.               *)
FreeListSorted ==
    /\ h.freep \in FreeList
    /\ \A a \in FreeList : h.ptr[a] = IF \A b \in FreeList : b <= a THEN base
                                      ELSE Min({b \in FreeList : b > a})
    /\ \A a \in FreeList \ {base} : a + h.size[a] \notin FreeList

(* malloc() asks the kernel for memory only when no free block is large    *)
(* enough: its scan, which starts in the middle of the list, sees them all.*)
GrowsOnlyWhenNeeded ==
    [][\A units \in 1 .. MaxUnits : grew' /\ malloc(units) =>
          \A a \in FreeList : h.size[a] < units]_heapVars

\* umalloc.c: the blocks tile the heap, the free list is in order and joined,
\* and the heap grows only when it has to.
HeapSound ==
    [](BlocksTileHeap /\ FreeListSorted) /\ GrowsOnlyWhenNeeded

=============================================================================
