---------------------------- MODULE ArrayStructs ----------------------------
(***************************************************************************)
(* The array based structures of libc/datastructures: the growing vector,  *)
(* the binary heap with its heapsort, the union find forest and the        *)
(* segment tree.  A C array is a function on an interval of indices; an    *)
(* operation is a function from structure to structure.                    *)
(***************************************************************************)
EXTENDS Integers, Sequences, FiniteSets, Loops

(* --- linear/vector/vector.c --------------------------------------------- *)

\* items holds the cells that realloc has provided; a cell past the capacity
\* is memory the vector does not own.
vector_new(VECTOR_INIT_CAPACITY) ==
    [capacity |-> VECTOR_INIT_CAPACITY, size |-> 0, items |-> <<>>]

\* realloc may fail: then items and capacity stay as they are.
vector_resize(v, capacity, ok) ==
    IF ok THEN [v EXCEPT !.capacity = capacity] ELSE v

vector_add(v, elem, ok) ==
    LET w == IF v.capacity = v.size THEN vector_resize(v, v.capacity * 2, ok) ELSE v
    IN  [w EXCEPT !.items = SubSeq(w.items, 1, w.size) \o <<elem>>,
                  !.size = w.size + 1]

vector_set(v, index, item) ==
    IF index >= 0 /\ index < v.size THEN [v EXCEPT !.items[index + 1] = item] ELSE v

vector_get(v, index) ==
    IF index >= 0 /\ index < v.size THEN v.items[index + 1] ELSE "NULL"

vector_rm(v, index, ok) ==
    IF index < 0 \/ index >= v.size THEN v
    ELSE LET w == [v EXCEPT !.size = @ - 1,
                            !.items = [i \in 1..(v.size - 1) |->
                                IF i <= index THEN v.items[i] ELSE v.items[i + 1]]]
         IN  IF w.size > 0 /\ w.size = w.capacity \div 4
             THEN vector_resize(w, w.capacity \div 2, ok) ELSE w

(* --- trees/heap/heap.c --------------------------------------------------- *)

ROOT == 1

\* The comparator of the heap's test program: real_ge.
comp(a, b) == a >= b

swap(arr, a, b) == [arr EXCEPT ![a] = arr[b], ![b] = arr[a]]
parent(i) == i \div 2
left(i) == 2 * i
right(i) == 2 * i + 1

percolateUp(arr, i) ==
    LET Climb(s) == IF s.i # ROOT /\ ~comp(s.a[s.i], s.a[parent(s.i)])
                    THEN [a |-> swap(s.a, s.i, parent(s.i)), i |-> parent(s.i)]
                    ELSE s
    IN  Repeat(Climb, [a |-> arr, i |-> i], i).a

\* The child below i that takes its place, or i itself.  heap_pop and
\* heapsort use the comparator the opposite way round.
PercolateTo(arr, heap_size, i, straight) ==
    LET l == IF left(i) <= heap_size /\ comp(arr[i], arr[left(i)]) # straight
             THEN left(i) ELSE i
    IN  IF right(i) <= heap_size /\ comp(arr[l], arr[right(i)]) # straight
        THEN right(i) ELSE l

RECURSIVE percolateDown(_, _, _)
percolateDown(arr, heap_size, i) ==
    LET swapi == PercolateTo(arr, heap_size, i, TRUE)
    IN  IF i = swapi THEN arr
        ELSE percolateDown(swap(arr, i, swapi), heap_size, swapi)

RECURSIVE _percolateDown(_, _, _)
_percolateDown(arr, heap_size, i) ==
    LET swapi == PercolateTo(arr, heap_size, i, FALSE)
    IN  IF i = swapi THEN arr
        ELSE _percolateDown(swap(arr, i, swapi), heap_size, swapi)

\* A heap is [arr |-> cells 1..arr_len, heap_size |-> how many are in use].
heap_insert(hp, val) ==
    IF hp.heap_size = Len(hp.arr) THEN hp
    ELSE LET n == hp.heap_size + 1
         IN  [arr |-> percolateUp([hp.arr EXCEPT ![n] = val], n), heap_size |-> n]

heap_pop(hp) ==
    IF hp.heap_size = 0 THEN [ret |-> -1, hp |-> hp]
    ELSE LET n == hp.heap_size - 1
         IN  [ret |-> hp.arr[ROOT],
              hp  |-> [arr |-> _percolateDown(swap(hp.arr, ROOT, hp.heap_size), n, ROOT),
                       heap_size |-> n]]

build_heap(arr) ==
    ForDown(LAMBDA a, i : percolateDown(a, Len(arr), i), arr, Len(arr), ROOT)

heapsort(arr) ==
    ForDown(LAMBDA a, i : percolateDown(swap(a, i, ROOT), i - 1, ROOT),
            build_heap(arr), Len(arr), ROOT)

(* --- ufds/ufds.c ---------------------------------------------------------- *)

\* memset clears size bytes of the rank array: an int takes 4 of them, and
\* the ranks of the items behind are whatever malloc returned (garbage), one
\* of them perhaps without its low bytes.
WithoutLow(rank, bytes) == (rank \div 256^bytes) * 256^bytes
UnionFind(size, garbage) ==
    [parent |-> [i \in 0..(size - 1) |-> i],
     rank   |-> [i \in 0..(size - 1) |-> IF 4 * i + 4 <= size THEN 0
                                         ELSE IF 4 * i < size THEN WithoutLow(garbage, size - 4 * i)
                                         ELSE garbage]]

RECURSIVE findSet(_, _)
findSet(i, uf) ==
    IF uf.parent[i] = i THEN [ret |-> i, uf |-> uf]
    ELSE LET r == findSet(uf.parent[i], uf)
         IN  [ret |-> r.ret, uf |-> [r.uf EXCEPT !.parent[i] = r.ret]]

in_same_set(i, j, uf) ==
    LET a == findSet(i, uf)
        b == findSet(j, a.uf)
    IN  [ret |-> a.ret = b.ret, uf |-> b.uf]

unionSet(i, j, uf) ==
    LET s  == in_same_set(i, j, uf)
        ri == findSet(i, s.uf).ret
        rj == findSet(j, s.uf).ret
    IN  IF s.ret THEN s.uf
        ELSE IF s.uf.rank[ri] < s.uf.rank[rj] THEN [s.uf EXCEPT !.parent[ri] = rj]
        ELSE IF s.uf.rank[ri] = s.uf.rank[rj]
        THEN [s.uf EXCEPT !.parent[rj] = ri, !.rank[rj] = @ + 1]
        ELSE [s.uf EXCEPT !.parent[rj] = ri]

(* --- trees/segtree/segtree.c ---------------------------------------------- *)

lchild(i) == 2 * i + 1
rchild(i) == 2 * i + 2
isleaf(i, n) == i >= n \div 2 /\ i < n

RECURSIVE build(_, _, _)
build(tree, n, i) ==
    IF isleaf(i, n) THEN tree
    ELSE LET l == build(tree, n, lchild(i))
             r == build(l, n, rchild(i))
         IN  [r EXCEPT ![i] = r[lchild(i)] + r[rchild(i)]]

segtree_build(arr) ==
    LET n == Len(arr)
    IN  build([k \in 0..(2 * n - 2) |-> IF k < n - 1 THEN 0 ELSE arr[k - n + 2]],
              2 * n - 1, 0)

segtree_update(tree, i, value) ==
    LET diff == value - tree[i]
        Climb(s) == IF s.i > 0 THEN [t |-> [s.t EXCEPT ![s.i] = @ + diff], i |-> parent(s.i)]
                    ELSE s
    IN  [Repeat(Climb, [t |-> tree, i |-> i], i).t EXCEPT ![0] = @ + diff]
=============================================================================
