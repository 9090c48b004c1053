----------------------------- MODULE Foundation -----------------------------
(***************************************************************************)
(* What the rest of the kernel stands on: the containers of its C library, *)
(* each under its own client (kind says which), and the library's          *)
(* functions on bounded inputs (alg says which).  They share no state, so  *)
(* a behaviour is that of one.                                             *)
(***************************************************************************)
EXTENDS StructClient

CONSTANTS Values, MaxLen, Bytes, MemSize, MaxStr, Numbers, FormatChars, LogChars

VARIABLES side, alg, in, out

Fn == INSTANCE Algorithms

cvars == <<kind, hdr, ds, abs>>
fvars == <<alg, in, out>>
foundation_vars == <<side, cvars, fvars>>

FoundationInit ==
    /\ side \in {"container", "function"}
    /\ IF side = "container"
       THEN ListInit \/ HListInit \/ VectorInit \/ HeapInit \/ UfdsInit \/ RbInit \/ BstInit \/ LinkInit
       ELSE kind = "none" /\ hdr = "none" /\ ds = <<>> /\ abs = <<>>
    /\ IF side = "function" THEN Fn!Init ELSE alg = "none" /\ in = <<>> /\ out = <<>>

FoundationNext ==
    /\ UNCHANGED side
    /\ \/ /\ side = "container"
          /\ \/ ListNext \/ HListNext \/ VectorNext \/ HeapNext \/ UfdsNext
             \/ RbNext \/ BstNext \/ LinkNext
          /\ UNCHANGED fvars
       \/ side = "function" /\ Fn!Next /\ UNCHANGED cvars

FoundationSpec == FoundationInit /\ [][FoundationNext]_foundation_vars
-----------------------------------------------------------------------------
\* The lists of dsa/list.h and klist.h, and hash lists, stay well linked in
\* both directions and hold what was put in, in order, through every cut,
\* splice, swap and rotation; every way of walking one visits the same
\* entries.
ListsHold == ListRepresents /\ WalksAgree /\ HListRepresents

\* The other containers hold what their operations say: vectors (a realloc
\* that fails included), heaps, disjoint sets, and the three trees, of which
\* the red-black tree is one by rb_verify_properties()'s own measure too.
ContainersHold ==
    /\ VectorHolds /\ HeapPopsLeast /\ UnionIsPartition
    /\ RbIsRedBlack /\ RbVerifyAccepts /\ BstFinds /\ LinkTreeSorted

\* Each function of libc, and each formatter of the kernel's messages,
\* returns what its definition says: sorts and searches, segment trees,
\* copies and comparisons, conversions, printf() and the loggers.
FunctionsCompute ==
    /\ Fn!SortsSort /\ Fn!MergeSortsOneMore /\ Fn!SearchFinds /\ Fn!SegtreeSums
    /\ Fn!CopiesRegion /\ Fn!ComparesInOrder /\ Fn!DigitsDenote
    /\ Fn!PrintfExpands /\ Fn!LogsAgree
=============================================================================
