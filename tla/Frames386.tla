------------------------------ MODULE Frames386 ------------------------------
(***************************************************************************)
(* The i386 port's page tables and frame bitmap                            *)
(* (arch/i386/memory/paging.c).  A page directory entry covers SPAN pages, *)
(* a word of the bitmap WORD frames.  Memory is identity mapped, so a page *)
(* table's frame is its address.                                           *)
(***************************************************************************)
EXTENDS Integers, FiniteSets, FiniteSetsExt, Loops

CONSTANTS SPAN, WORD,
          nframes,     \* frames of memory
          Pages386,    \* bound: pages of the address space
          KernelEnd,   \* placement_address when init_paging() starts, in pages
          EXTRA,       \* identity-mapped pages past it
          BootRanges,  \* ranges init_paging() maps, <<first, last>> in pages
          Window,      \* bound: the pages later calls name
          Ranges386    \* ranges mapped later

VARIABLES pde,         \* directory: index -> present
          pte,         \* page -> [present, frame, user]
          frames,      \* the set bits of the bitmap, wherever they fall
          tables,      \* pages holding page tables
          top,         \* placement_address, in pages
          tlb386,      \* the pages whose translation is cached, with it
          freed        \* pages last changed by free_frame() or alloc_frame(),
                       \* which leave the TLB alone

fvars == <<pde, pte, frames, tables, top, tlb386, freed>>

Page == 0 .. Pages386 - 1

Clear == [present |-> FALSE, frame |-> 0, user |-> FALSE]

BITSET_INDEX(a) == a \div WORD

\* The bits the bitmap has room for.
Bitmap == 0 .. BITSET_INDEX(nframes) * WORD - 1

(***************************************************************************)
(* The functions thread s = [pde, pte, frames, tables, top, tlb].          *)
(***************************************************************************)
set_frame(s, f) == [s EXCEPT !.frames = @ \cup {f}]

clear_frame(s, f) == [s EXCEPT !.frames = @ \ {f}]

test_frame(s, f) == f \in s.frames

FreeFrames(s) == {f \in Bitmap : ~test_frame(s, f)}

\* -1 when every word is full
first_frame(s) == IF FreeFrames(s) = {} THEN -1 ELSE Min(FreeFrames(s))

\* get_page(addr, make = 1): the directory entry exists afterwards
get_page(s, v) ==
    IF s.pde[v \div SPAN] THEN s
    ELSE [s EXCEPT !.pde[v \div SPAN] = TRUE,
                   !.tables = @ \cup {s.top},
                   !.top = @ + 1,
                   !.pte = [w \in Page |-> IF w \div SPAN = v \div SPAN THEN Clear ELSE @[w]]]

\* A frame number of 0 reads as "not allocated yet".
alloc_frame(s, v, iskernel) ==
    LET idx == first_frame(s)
    IN  IF s.pte[v].frame # 0 THEN s
        ELSE [set_frame(s, idx) EXCEPT
                 !.pte[v] = [present |-> TRUE, frame |-> idx, user |-> @.user \/ ~iskernel]]

\* Mutant: the entry keeps its present bit.
free_frame_keeps(s, v) ==
    IF s.pte[v].frame = 0 THEN s ELSE clear_frame(s, s.pte[v].frame)

free_frame(s, v) ==
    IF s.pte[v].frame = 0 THEN s
    ELSE [clear_frame(s, s.pte[v].frame) EXCEPT !.pte[v] = Clear]

map_page(s, v, f, iskernel) ==
    LET g == get_page(s, v)
    IN  [set_frame(g, f) EXCEPT
            !.pte[v] = [present |-> TRUE, frame |-> f, user |-> @.user \/ ~iskernel],
            !.tlb = {e \in @ : e[1] # v}]

map_physical_range(s, first, last, iskernel) ==
    For(LAMBDA x, v : [set_frame(get_page(x, v), v) EXCEPT
                          !.pte[v] = [present |-> TRUE, frame |-> v, user |-> ~iskernel],
                          !.tlb = {e \in @ : e[1] # v}],
        s, first, last)

is_page_mapped(s, v) == s.pde[v \div SPAN] /\ s.pte[v].present

\* The frame bitmap is left alone: the caller owns the frame.
unmap_page(s, v) ==
    IF ~is_page_mapped(s, v) THEN s
    ELSE [s EXCEPT !.pte[v] = Clear, !.tlb = {e \in @ : e[1] # v}]

\* switch_page_directory() at the end turns paging on over these tables.
init_paging ==
    LET zero == [pde |-> [i \in 0 .. (Pages386 - 1) \div SPAN |-> FALSE],
                 pte |-> [v \in Page |-> Clear], frames |-> {}, tables |-> {},
                 top |-> KernelEnd + 2, tlb |-> {}]
        identity == For(LAMBDA x, v : alloc_frame(get_page(x, v), v, TRUE),
                        zero, 0, KernelEnd + 2 + EXTRA - 1)
    IN  FoldSet(LAMBDA r, x : map_physical_range(x, r[1], r[2], TRUE), identity, BootRanges)

S == [pde |-> pde, pte |-> pte, frames |-> frames, tables |-> tables, top |-> top, tlb |-> tlb386]

Set(s) == /\ pde' = s.pde
          /\ pte' = s.pte
          /\ frames' = s.frames
          /\ tables' = s.tables
          /\ top' = s.top
          /\ tlb386' = s.tlb

FInit == LET s == init_paging
         IN  /\ pde = s.pde /\ pte = s.pte /\ frames = s.frames
             /\ tables = s.tables /\ top = s.top /\ tlb386 = {}
             /\ freed = {}

Backed(v) == is_page_mapped(S, v)

Sharers(f) == {v \in Page : Backed(v) /\ pte[v].frame = f}

\* alloc_frame() halts the machine when no frame is left.
Alloc(v) == /\ first_frame(S) # -1 \/ pte[v].frame # 0
            /\ Set(alloc_frame(get_page(S, v), v, TRUE))
            /\ freed' = freed \cup {v}

\* A caller frees a frame through its only mapping.
Free(v) == /\ Backed(v) /\ Cardinality(Sharers(pte[v].frame)) = 1
           /\ Set(free_frame(S, v))
           /\ freed' = freed \cup {v}

MapPage(v, f, k) == /\ Set(map_page(S, v, f, k))
                    /\ freed' = freed \ {v}

MapRange(r) == /\ Set(map_physical_range(S, r[1], r[2], TRUE))
               /\ freed' = freed \ (r[1] .. r[2])

Unmap(v) == /\ Set(unmap_page(S, v))
            /\ freed' = freed \ (IF Backed(v) THEN {v} ELSE {})

\* Bound: one cached translation.
Touch(v) == /\ Backed(v) /\ tlb386 = {}
            /\ tlb386' = {<<v, pte[v].frame>>}
            /\ freed' = freed \ {v}
            /\ UNCHANGED <<pde, pte, frames, tables, top>>

FNext == \/ \E v \in Window : Alloc(v) \/ Free(v) \/ Unmap(v) \/ Touch(v)
         \/ \E v \in Window, f \in Window \cap Bitmap : MapPage(v, f, v < nframes)
         \/ \E r \in Ranges386 : MapRange(r)

(***************************************************************************)
(* Properties.                                                             *)
(***************************************************************************)
\* A frame some page maps is marked in the bitmap, however it was mapped and
\* whatever was unmapped or freed since, so first_frame() hands out no frame
\* in use.
BitmapCovers == \A v \in Page : Backed(v) /\ pte[v].frame \in Bitmap => test_frame(S, pte[v].frame)

\* "Map physical address X to virtual address X for kernel memory": the
\* pages init_paging() maps reach their own frames, the page tables it made
\* on the way among them, although alloc_frame() takes whatever frame comes
\* first; later calls on other pages disturb none of them.
KernelIdentity == /\ \A v \in (0 .. KernelEnd + 1 + EXTRA) \ Window : Backed(v) /\ pte[v].frame = v
                  /\ tables \cap 0 .. KernelEnd + 1 = {}

\* A cached translation is the one in the tables, except for a page whose
\* last change was made by free_frame() or alloc_frame().
Tlb386Coherent == \A e \in tlb386 : \/ e[1] \in freed
                                    \/ Backed(e[1]) /\ pte[e[1]].frame = e[2]
=============================================================================
