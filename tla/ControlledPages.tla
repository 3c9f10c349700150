---------------------------- MODULE ControlledPages ----------------------------
(* ControlledPages and A64HookInit: where the loader finds room for writable     *)
(* views of code and for the pool of inline hooks.  Addresses count pages; the   *)
(* kernel answers a query with the whole block of equal pages around an address. *)
EXTENDS Integers

CONSTANTS
    Top,            \* pages of the address space: 0 .. Top - 1
    Heap, Alias,    \* the heap and the alias region, [base, end]
    Aslr,           \* the region the search is for, [base, end]
    Layouts,        \* used pages a process may start with
    Text,           \* first page of the game's code
    PoolPages,      \* inline_hook_pool_size
    Sizes           \* pages claimed at once

Page == 0 .. Top - 1

ASSUME PagesAssumption ==
    /\ Top \in Nat /\ Text \in Page
    /\ \A region \in {Heap, Alias, Aslr} : region \in [base : Nat, end : Nat] /\ region.base <= region.end
    /\ Aslr.base \in Page
    /\ Layouts \subseteq SUBSET Page
    /\ PoolPages \in Nat \ {0} /\ Sizes \subseteq Nat \ {0}

VARIABLES
    inUse,          \* pages in use
    purpose,        \* what is searched for: "None", "Claim", "Pool"
    cur_base,       \* the address the search has come to
    size,           \* how much it is for
    found,          \* where it ended, or NotFound
    pool,           \* the page of __inline_hook_jit, or NotFound
    claimed         \* pages of the view that is mapped now

pageVars == <<inUse, purpose, cur_base, size, found, pool, claimed>>

NotFound == 0 - 1
Pages(at, n) == at .. at + n - 1

PagesInit ==
    /\ inUse \in Layouts
    /\ purpose = "None" /\ cur_base = 0 /\ size = 0
    /\ found = NotFound /\ pool = NotFound /\ claimed = {}

\* svcQueryMemory: the end and the start of the block around a page.
Alike(p, q) == p \in inUse <=> q \in inUse
Ends(p) == {e \in p + 1 .. Top : /\ \A q \in p .. e - 1 : Alike(p, q)
                                 /\ e = Top \/ ~Alike(p, e)}
BlockEnd(p) == CHOOSE e \in Ends(p) : TRUE
BlockStart(p) == CHOOSE s \in 0 .. p :
                  /\ \A q \in s .. p : Alike(p, q)
                  /\ s = 0 \/ ~Alike(p, s - 1)

-------------------------------------------------------------------------------
(* locateMappableSpaceModern. *)

\* ControlledPages::claim; the view of a code range is one search at a time.
StartClaim(n) ==
    /\ purpose = "None" /\ claimed = {} /\ pool # NotFound
    /\ purpose' = "Claim" /\ size' = n /\ cur_base' = Aslr.base /\ found' = NotFound
    /\ UNCHANGED <<inUse, pool, claimed>>

Overlaps(region) ==
    region.base # region.end /\ region.base <= cur_base + size - 1 /\ cur_base <= region.end - 1

\* A failed search is fatal: R_ERRORONFAIL in claim.
Fails == purpose' = "Aborted" /\ UNCHANGED <<inUse, cur_base, size, found, pool, claimed>>

Continue(next) ==
    IF cur_base < next /\ next < Top
    THEN cur_base' = next /\ UNCHANGED <<inUse, purpose, size, found, pool, claimed>>
    ELSE Fails

SkipHeap == Overlaps(Heap) /\ Continue(Heap.end)
SkipAlias == ~Overlaps(Heap) /\ Overlaps(Alias) /\ Continue(Alias.end)

Room(p) == p \notin inUse /\ BlockEnd(p) - p >= size

TakeBlock ==
    /\ ~Overlaps(Heap) /\ ~Overlaps(Alias)
    /\ Room(cur_base)
    /\ found' = cur_base
    /\ UNCHANGED <<inUse, purpose, cur_base, size, pool, claimed>>

SkipBlock ==
    /\ ~Overlaps(Heap) /\ ~Overlaps(Alias)
    /\ ~Room(cur_base)
    /\ IF BlockEnd(cur_base) < Aslr.end THEN Continue(BlockEnd(cur_base)) ELSE Fails

locateMappableSpace ==
    /\ purpose = "Claim" /\ found = NotFound
    /\ SkipHeap \/ SkipAlias \/ TakeBlock \/ SkipBlock

\* The rest of claim, and unclaim.
MapView ==
    /\ purpose = "Claim" /\ found # NotFound
    /\ claimed' = Pages(found, size)
    /\ inUse' = inUse \cup Pages(found, size)
    /\ purpose' = "None" /\ found' = NotFound
    /\ UNCHANGED <<cur_base, size, pool>>

Unclaim ==
    /\ claimed # {}
    /\ inUse' = inUse \ claimed /\ claimed' = {}
    /\ UNCHANGED <<purpose, cur_base, size, found, pool>>

-------------------------------------------------------------------------------
(* A64HookInit: from right before .text downwards, one page at a time. *)

StartPool ==
    /\ purpose = "None" /\ pool = NotFound /\ claimed = {}
    /\ Text >= PoolPages
    /\ purpose' = "Pool" /\ cur_base' = Text - PoolPages
    /\ UNCHANGED <<inUse, size, found, pool, claimed>>

BlockFits == cur_base \notin inUse /\ BlockEnd(cur_base) - BlockStart(cur_base) >= PoolPages

SearchDown ==
    /\ purpose = "Pool" /\ ~BlockFits /\ cur_base > 0
    /\ cur_base' = cur_base - 1
    /\ UNCHANGED <<inUse, purpose, size, found, pool, claimed>>

\* The pool goes to the end of the block, nearest to the code.
CreatePool ==
    /\ purpose = "Pool" /\ BlockFits
    /\ pool' = BlockEnd(cur_base) - PoolPages
    /\ inUse' = inUse \cup Pages(BlockEnd(cur_base) - PoolPages, PoolPages)
    /\ purpose' = "None"
    /\ UNCHANGED <<cur_base, size, found, claimed>>

PagesNext ==
    \/ \E n \in Sizes : StartClaim(n)
    \/ locateMappableSpace
    \/ MapView
    \/ Unclaim
    \/ StartPool
    \/ SearchDown
    \/ CreatePool

PagesSpec == PagesInit /\ [][PagesNext]_pageVars

-------------------------------------------------------------------------------
\* What a search found is used by nobody and lies outside heap and alias region,
\* whose unused pages the kernel calls free as well: the search steps over whole
\* blocks and tests each region for the length it needs.
FoundIsFree ==
    found # NotFound =>
        /\ Pages(found, size) \cap inUse = {}
        /\ Pages(found, size) \cap (Heap.base .. Heap.end - 1) = {}
        /\ Pages(found, size) \cap (Alias.base .. Alias.end - 1) = {}

===============================================================================
