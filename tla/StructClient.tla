---------------------------- MODULE StructClient ----------------------------
(***************************************************************************)
(* A client of the intrusive lists: two heads, a few entries, and every    *)
(* operation of dsa/list.h or of klist.h (hdr says which header it was     *)
(* compiled with) called on operands its documentation allows.             *)
(*                                                                         *)
(* Clients of the other containers of libc/datastructures: the vector, the *)
(* heap as a priority queue, the union find forest, the red-black tree,    *)
(* and the two binary search trees.                                        *)
(*                                                                         *)
(* ds is the memory or the structure, abs what the client put into it: for *)
(* the lists, which entries each head should list, in order.               *)
(***************************************************************************)
EXTENDS Integers, Sequences, FiniteSets, SequencesExt

CONSTANTS Entries       \* the entries the client owns

VARIABLES kind, hdr, ds, abs

L == INSTANCE ListHead
K == INSTANCE KList

Heads == {"A", "B"}
Other(hd) == CHOOSE x \in Heads : x # hd
By(dsa, klist) == IF hdr = "dsa" THEN dsa ELSE klist

On(hd) == ToSet(abs[hd])
Listed == UNION {On(hd) : hd \in Heads}
Loose == Entries \ Listed
HeadOf(e) == CHOOSE hd \in Heads : e \in On(hd)

Without(e) == [hd \in Heads |-> SelectSeq(abs[hd], LAMBDA x : x # e)]
Renamed(f) == [hd \in Heads |-> [i \in DOMAIN abs[hd] |-> f[abs[hd][i]]]]
Put(hd, s) == [abs EXCEPT ![hd] = s]
Joined(to, s) == [hd \in Heads |-> IF hd = to THEN s ELSE <<>>]
At(e) == CHOOSE i \in DOMAIN abs[HeadOf(e)] : abs[HeadOf(e)][i] = e
UpTo(hd, e) == IF e = hd THEN 0 ELSE At(e)

Step(mem, lists) == ds' = mem /\ abs' = lists /\ UNCHANGED <<kind, hdr>>

(* --- list_head ------------------------------------------------------------ *)

\* A client that compiles a file initialises both heads; the links of an
\* entry that was never listed hold whatever was in memory.
ListInit ==
    /\ kind = "list"
    /\ hdr \in {"dsa", "klist"}
    /\ ds = By(L!INIT_LIST_HEAD(L!INIT_LIST_HEAD(
                   [next |-> [n \in Heads \cup Entries |-> L!NULL],
                    prev |-> [n \in Heads \cup Entries |-> L!NULL]], "A"), "B"),
               K!INIT_LIST_HEAD(K!INIT_LIST_HEAD(
                   [next |-> [n \in Heads \cup Entries |-> L!NULL],
                    prev |-> [n \in Heads \cup Entries |-> L!NULL]], "A"), "B"))
    /\ abs = [hd \in Heads |-> <<>>]

ListAdd == \E e \in Loose, hd \in Heads :
    \/ Step(By(L!list_add(ds, e, hd), K!list_add(ds, e, hd)), Put(hd, <<e>> \o abs[hd]))
    \/ Step(By(L!list_add_tail(ds, e, hd), K!list_add_tail(ds, e, hd)),
            Put(hd, Append(abs[hd], e)))

ListDel == \E e \in Listed :
    \/ Step(By(L!list_del(ds, e), K!list_del(ds, e)), Without(e))
    \/ Step(By(L!list_del_init(ds, e), K!list_del_init(ds, e)), Without(e))
    \/ hdr = "dsa" /\ Step(L!list_del_init_careful(ds, e), Without(e))
    \/ hdr = "dsa" /\ Step(L!__list_del_clearprev(ds, e), Without(e))

ListMove == \E e \in Listed, hd \in Heads :
    \/ Step(By(L!list_move(ds, e, hd), K!list_move(ds, e, hd)),
            [Without(e) EXCEPT ![hd] = <<e>> \o @])
    \/ Step(By(L!list_move_tail(ds, e, hd), K!list_move_tail(ds, e, hd)),
            [Without(e) EXCEPT ![hd] = Append(@, e)])

ListReplace == \E old \in Listed, new \in Loose :
    LET swapped == Renamed([[x \in Entries |-> x] EXCEPT ![old] = new])
    IN  \/ Step(By(L!list_replace(ds, old, new), K!list_replace(ds, old, new)), swapped)
        \/ Step(By(L!list_replace_init(ds, old, new), K!list_replace_init(ds, old, new)),
                swapped)

ListSwap == \E a, b \in Listed :
    /\ a # b
    /\ Step(By(L!list_swap(ds, a, b), K!list_swap(ds, a, b)),
            Renamed([[x \in Entries |-> x] EXCEPT ![a] = b, ![b] = a]))

\* first .. last are neighbours of one list; they go behind the last entry
\* of hd.
ListBulkMove == \E first, last \in Listed, hd \in Heads :
    LET from == HeadOf(first)
        rest == SubSeq(abs[from], 1, At(first) - 1)
                \o SubSeq(abs[from], At(last) + 1, Len(abs[from]))
        run  == SubSeq(abs[from], At(first), At(last))
    IN  /\ HeadOf(last) = from /\ At(first) <= At(last)
        /\ Step(By(L!list_bulk_move_tail(ds, hd, first, last),
                   K!list_bulk_move_tail(ds, hd, first, last)),
                LET m == Put(from, rest) IN [m EXCEPT ![hd] = @ \o run])

ListRotate == \E hd \in Heads :
    \/ Step(By(L!list_rotate_left(ds, hd), K!list_rotate_left(ds, hd)),
            IF abs[hd] = <<>> THEN abs ELSE Put(hd, Tail(abs[hd]) \o <<Head(abs[hd])>>))
    \/ \E e \in On(hd) :
          Step(By(L!list_rotate_to_front(ds, e, hd), K!list_rotate_to_front(ds, e, hd)),
               Put(hd, SubSeq(abs[hd], At(e), Len(abs[hd])) \o SubSeq(abs[hd], 1, At(e) - 1)))

\* The list that receives the entries is empty, or its content would be lost.
ListCut == \E hd \in Heads :
    /\ abs[Other(hd)] = <<>>
    /\ \/ \E e \in On(hd) \cup {hd} :
             Step(By(L!list_cut_position(ds, Other(hd), hd, e),
                     K!list_cut_position(ds, Other(hd), hd, e)),
                  [abs EXCEPT ![Other(hd)] = SubSeq(abs[hd], 1, UpTo(hd, e)),
                              ![hd] = SubSeq(abs[hd], UpTo(hd, e) + 1, Len(abs[hd]))])
       \/ \E e \in On(hd) \cup {hd} :
             LET moved == IF e = hd THEN Len(abs[hd]) ELSE At(e) - 1
             IN  Step(By(L!list_cut_before(ds, Other(hd), hd, e),
                         K!list_cut_before(ds, Other(hd), hd, e)),
                      [abs EXCEPT ![Other(hd)] = SubSeq(abs[hd], 1, moved),
                                  ![hd] = SubSeq(abs[hd], moved + 1, Len(abs[hd]))])

\* list_splice leaves the source head with stale links: the client
\* initialises it again before it is used.
ListSplice == \E to \in Heads :
    LET from  == Other(to)
        front == Joined(to, abs[from] \o abs[to])
        back  == Joined(to, abs[to] \o abs[from])
    IN  \/ Step(By(L!INIT_LIST_HEAD(L!list_splice(ds, from, to), from),
                   K!INIT_LIST_HEAD(K!list_splice(ds, from, to), from)), front)
        \/ Step(By(L!INIT_LIST_HEAD(L!list_splice_tail(ds, from, to), from),
                   K!INIT_LIST_HEAD(K!list_splice_tail(ds, from, to), from)), back)
        \/ Step(By(L!list_splice_init(ds, from, to), K!list_splice_init(ds, from, to)), front)
        \/ Step(By(L!list_splice_tail_init(ds, from, to),
                   K!list_splice_tail_init(ds, from, to)), back)

\* A safe loop that unlinks what it visits.
ListDrain == \E hd \in Heads :
    \/ Step(By(L!list_for_each_safe(ds, hd), K!list_for_each_safe(ds, hd)).h, Put(hd, <<>>))
    \/ Step(By(L!list_for_each_prev_safe(ds, hd), K!list_for_each_prev_safe(ds, hd)).h,
            Put(hd, <<>>))
    \/ Step(By(L!list_for_each_entry_safe(ds, hd), K!list_for_each_entry_safe(ds, hd)).h,
            Put(hd, <<>>))
    \/ Step(By(L!list_for_each_entry_safe_reverse(ds, hd),
               K!list_for_each_entry_safe_reverse(ds, hd)).h, Put(hd, <<>>))
    \/ \E e \in On(hd) :
          \/ Step(By(L!list_for_each_entry_safe_from(ds, e, hd),
                     K!list_for_each_entry_safe_from(ds, e, hd)).h,
                  Put(hd, SubSeq(abs[hd], 1, At(e) - 1)))
          \/ Step(By(L!list_for_each_entry_safe_continue(ds, e, hd),
                     K!list_for_each_entry_safe_continue(ds, e, hd)).h,
                  Put(hd, SubSeq(abs[hd], 1, At(e))))

ListNext ==
    /\ kind = "list"
    /\ \/ ListAdd \/ ListDel \/ ListMove \/ ListReplace \/ ListSwap \/ ListBulkMove
       \/ ListRotate \/ ListCut \/ ListSplice \/ ListDrain

\* After every sequence of calls the links of a head list exactly the
\* entries the client put there, in order, forwards and backwards, and what
\* the predicates say of the head and of its first and last entry is true.
ListRepresents ==
    kind = "list" => \A hd \in Heads :
        LET s == abs[hd]
            n == Len(s)
        IN  /\ By(L!list_for_each(ds, hd), K!list_for_each(ds, hd)) = s
            /\ By(L!list_for_each_prev(ds, hd), K!list_for_each_prev(ds, hd)) = Reverse(s)
            /\ By(L!list_empty(ds, hd), K!list_empty(ds, hd)) = (n = 0)
            /\ By(L!list_empty_careful(ds, hd), K!list_empty_careful(ds, hd)) = (n = 0)
            /\ By(L!list_is_singular(ds, hd), K!list_is_singular(ds, hd)) = (n = 1)
            /\ By(L!list_first_entry_or_null(ds, hd), K!list_first_entry_or_null(ds, hd))
                  = IF n = 0 THEN L!NULL ELSE s[1]
            /\ \A i \in 1..n :
                  /\ By(L!list_is_first(ds, s[i], hd), K!list_is_first(ds, s[i], hd)) = (i = 1)
                  /\ By(L!list_is_last(ds, s[i], hd), K!list_is_last(ds, s[i], hd)) = (i = n)

\* Every loop macro visits what its documentation says: the whole list, the
\* rest of it after or from a position, the part before it; the circular
\* successors wrap at the head and nowhere else.
WalksAgree ==
    kind = "list" => \A hd \in Heads :
        LET s == abs[hd]
            n == Len(s)
        IN  /\ By(L!list_for_each_entry(ds, hd), K!list_for_each_entry(ds, hd)) = s
            /\ By(L!list_for_each_entry_reverse(ds, hd),
                  K!list_for_each_entry_reverse(ds, hd)) = Reverse(s)
            /\ hdr = "dsa" => /\ L!list_for_each_rcu(ds, hd) = s
                              /\ L!list_for_each_reverse(ds, hd) = Reverse(s)
                              /\ L!list_count_nodes(ds, hd) = n
            /\ By(L!list_for_each_entry_continue(ds, L!list_prepare_entry(L!NULL, hd), hd),
                  K!list_for_each_entry_continue(ds, K!list_prepare_entry(L!NULL, hd), hd)) = s
            /\ \A i \in 1..n :
                 /\ By(L!list_for_each_entry_from(ds, s[i], hd),
                       K!list_for_each_entry_from(ds, s[i], hd)) = SubSeq(s, i, n)
                 /\ By(L!list_for_each_entry_from_reverse(ds, s[i], hd),
                       K!list_for_each_entry_from_reverse(ds, s[i], hd))
                       = Reverse(SubSeq(s, 1, i))
                 /\ By(L!list_for_each_entry_continue(ds, s[i], hd),
                       K!list_for_each_entry_continue(ds, s[i], hd)) = SubSeq(s, i + 1, n)
                 /\ By(L!list_for_each_entry_continue_reverse(ds, s[i], hd),
                       K!list_for_each_entry_continue_reverse(ds, s[i], hd))
                       = Reverse(SubSeq(s, 1, i - 1))
                 /\ hdr = "dsa" =>
                      /\ L!list_for_each_continue(ds, s[i], hd) = SubSeq(s, i + 1, n)
                      /\ L!list_next_entry_circular(ds, s[i], hd) = s[(i % n) + 1]
                      /\ L!list_prev_entry_circular(ds, s[(i % n) + 1], hd) = s[i]

(* --- hlist -------------------------------------------------------------------- *)

HListInit ==
    /\ kind = "hlist"
    /\ hdr \in {"dsa", "klist"}
    /\ ds = By(L!INIT_HLIST_HEAD(L!INIT_HLIST_HEAD(
                   [first |-> [hd \in Heads |-> L!LIST_POISON1],
                    next  |-> [e \in Entries |-> L!NULL],
                    pprev |-> [e \in Entries |-> L!NoPlace]], "A"), "B"),
               K!INIT_HLIST_HEAD(K!INIT_HLIST_HEAD(
                   [first |-> [hd \in Heads |-> L!LIST_POISON1],
                    next  |-> [e \in Entries |-> L!NULL],
                    pprev |-> [e \in Entries |-> L!NoPlace]], "A"), "B"))
    /\ abs = [hd \in Heads |-> <<>>]

HListAdd == \E e \in Loose :
    \/ \E hd \in Heads :
          Step(By(L!hlist_add_head(ds, e, hd), K!hlist_add_head(ds, e, hd)),
               Put(hd, <<e>> \o abs[hd]))
    \/ \E at \in Listed :
          LET hd == HeadOf(at)
          IN  \/ Step(By(L!hlist_add_before(ds, e, at), K!hlist_add_before(ds, e, at)),
                      Put(hd, InsertAt(abs[hd], At(at), e)))
              \/ Step(By(L!hlist_add_behind(ds, e, at), K!hlist_add_behind(ds, e, at)),
                      Put(hd, InsertAt(abs[hd], At(at) + 1, e)))

\* hlist_del_init may be called on a node that is on no list, provided its
\* pprev says so or it was faked.
HListDel ==
    \/ \E e \in Listed : Step(By(L!hlist_del(ds, e), K!hlist_del(ds, e)), Without(e))
    \/ \E e \in Entries :
          /\ e \in Loose => By(L!hlist_unhashed(ds, e) \/ L!hlist_fake(ds, e),
                               K!hlist_unhashed(ds, e) \/ K!hlist_fake(ds, e))
          /\ Step(By(L!hlist_del_init(ds, e), K!hlist_del_init(ds, e)), Without(e))

HListFake == \E e \in Loose :
    Step(By(L!hlist_add_fake(L!INIT_HLIST_NODE(ds, e), e),
            K!hlist_add_fake(K!INIT_HLIST_NODE(ds, e), e)), abs)

HListMove == \E to \in Heads :
    LET from == Other(to)
    IN  \/ /\ abs[to] = <<>>
           /\ Step(By(L!hlist_move_list(ds, from, to), K!hlist_move_list(ds, from, to)),
                   Joined(to, abs[from]))
        \/ /\ hdr = "dsa" /\ abs[from] # <<>>
           /\ Step(L!hlist_splice_init(ds, from, Last(abs[from]), to),
                   Joined(to, abs[from] \o abs[to]))

HListDrain == \E hd \in Heads :
    \/ Step(By(L!hlist_for_each_safe(ds, hd), K!hlist_for_each_safe(ds, hd)).h, Put(hd, <<>>))
    \/ Step(By(L!hlist_for_each_entry_safe(ds, hd), K!hlist_for_each_entry_safe(ds, hd)).h,
            Put(hd, <<>>))

HListNext ==
    kind = "hlist" /\ (HListAdd \/ HListDel \/ HListFake \/ HListMove \/ HListDrain)

\* After every sequence of calls the links of a head list exactly its
\* entries, and each entry's pprev is the place of the one link that points
\* at it, so that hlist_del can unhook it without walking the list.
HListRepresents ==
    kind = "hlist" =>
        /\ \A hd \in Heads :
             LET s == abs[hd]
                 n == Len(s)
             IN  /\ By(L!hlist_for_each(ds, hd), K!hlist_for_each(ds, hd)) = s
                 /\ By(L!hlist_for_each_entry(ds, hd), K!hlist_for_each_entry(ds, hd)) = s
                 /\ By(L!hlist_empty(ds, hd), K!hlist_empty(ds, hd)) = (n = 0)
                 /\ hdr = "dsa" => L!hlist_count_nodes(ds, hd) = n
                 /\ \A i \in 1..n :
                      /\ ds.pprev[s[i]] = IF i = 1 THEN <<"first", hd>> ELSE <<"next", s[i - 1]>>
                      /\ By(L!hlist_is_singular_node(ds, s[i], hd),
                            K!hlist_is_singular_node(ds, s[i], hd)) = (n = 1)
                      /\ By(L!hlist_for_each_entry_from(ds, s[i]),
                            K!hlist_for_each_entry_from(ds, s[i])) = SubSeq(s, i, n)
                      /\ By(L!hlist_for_each_entry_continue(ds, s[i]),
                            K!hlist_for_each_entry_continue(ds, s[i])) = SubSeq(s, i + 1, n)
        /\ \A e \in Listed : /\ ~By(L!hlist_unhashed(ds, e), K!hlist_unhashed(ds, e))
                             /\ hdr = "dsa" => ~L!hlist_unhashed_lockless(ds, e)
-----------------------------------------------------------------------------

CONSTANTS Items,        \* values stored in the vector
          Cap,          \* the vector's first capacity and the heap's length
          MaxSize,      \* bound: the vector's elements
          Keys,         \* keys of the heap and of the trees
          Nodes,        \* bound: nodes of a tree, 1 being its root
          Elems         \* the union find forest's elements are 0 .. Elems - 1

A == INSTANCE ArrayStructs
T == INSTANCE Trees

(* --- the vector ------------------------------------------------------------- *)

\* abs is the intended sequence and whether a growing realloc ever failed.
VectorInit ==
    /\ kind = "vector" /\ hdr = "none"
    /\ ds = A!vector_new(Cap)
    /\ abs = [seq |-> <<>>, failed |-> FALSE]

VectorAdd == \E x \in Items, ok \in BOOLEAN :
    /\ ds.size < MaxSize
    /\ Step(A!vector_add(ds, x, ok),
          [seq |-> Append(abs.seq, x),
           failed |-> abs.failed \/ (~ok /\ ds.size = ds.capacity)])

VectorSet == \E i \in -1..MaxSize, x \in Items :
    Step(A!vector_set(ds, i, x),
       IF i + 1 \in DOMAIN abs.seq THEN [abs EXCEPT !.seq[i + 1] = x] ELSE abs)

VectorRm == \E i \in -1..MaxSize, ok \in BOOLEAN :
    Step(A!vector_rm(ds, i, ok),
       IF i + 1 \in DOMAIN abs.seq THEN [abs EXCEPT !.seq = RemoveAt(@, i + 1)] ELSE abs)

VectorNext == kind = "vector" /\ (VectorAdd \/ VectorSet \/ VectorRm)

\* The vector holds the intended sequence, vector_get reads it and nothing
\* outside it, and the elements fit the memory that realloc provided unless
\* a growing realloc once failed: vector_add stores the element all the same.
VectorHolds ==
    kind = "vector" =>
        /\ ds.size = Len(abs.seq)
        /\ \A i \in -1..MaxSize :
              A!vector_get(ds, i) = IF i + 1 \in DOMAIN abs.seq THEN abs.seq[i + 1] ELSE "NULL"
        /\ ~abs.failed => ds.size <= ds.capacity

(* --- the heap ------------------------------------------------------------------ *)

\* abs counts the keys that are in the heap and remembers the last key popped.
HeapInit ==
    /\ kind = "heap" /\ hdr = "none"
    /\ ds = [arr |-> [i \in 1..(Cap + 3) |-> 0], heap_size |-> 0]
    /\ abs = [count |-> [k \in Keys |-> 0], popped |-> {}]

HeapInsert == \E k \in Keys :
    Step(A!heap_insert(ds, k),
       IF ds.heap_size = Len(ds.arr) THEN abs
       ELSE [count |-> [abs.count EXCEPT ![k] = @ + 1], popped |-> {}])

HeapPop ==
    LET r == A!heap_pop(ds)
    IN  Step(r.hp, IF ds.heap_size = 0 THEN [abs EXCEPT !.popped = {}]
                 ELSE [count |-> [abs.count EXCEPT ![r.ret] = @ - 1], popped |-> {r.ret}])

HeapNext == kind = "heap" /\ (HeapInsert \/ HeapPop)

\* heap_pop returns the least key that was in the heap, whatever was inserted
\* and popped before, and the heap keeps exactly the keys not yet popped.
HeapPopsLeast ==
    kind = "heap" =>
        /\ \A k \in Keys :
              abs.count[k] = Cardinality({i \in 1..ds.heap_size : ds.arr[i] = k})
        /\ \A p \in abs.popped, k \in Keys : abs.count[k] > 0 => p <= k

(* --- union find ----------------------------------------------------------------- *)

All == 0..(Elems - 1)
ClassOf(x) == CHOOSE c \in abs : x \in c

UfdsInit ==
    /\ kind = "ufds" /\ hdr = "none"
    /\ \E g \in {0, 1, 257} : ds = A!UnionFind(Elems, g)
    /\ abs = {{x} : x \in All}

UfdsUnion == \E i, j \in All :
    Step(A!unionSet(i, j, ds),
       (abs \ {ClassOf(i), ClassOf(j)}) \cup {ClassOf(i) \cup ClassOf(j)})

UfdsQuery == \E i, j \in All : Step(A!in_same_set(i, j, ds).uf, abs)

UfdsNext == kind = "ufds" /\ (UfdsUnion \/ UfdsQuery)

\* in_same_set answers the partition the unions made, whatever the path
\* compression of the queries before and the uninitialised ranks.
UnionIsPartition ==
    kind = "ufds" => \A i, j \in All : A!in_same_set(i, j, ds).ret = (ClassOf(i) = ClassOf(j))

(* --- trees ------------------------------------------------------------------------ *)

Forest == [parent |-> [n \in Nodes |-> T!NIL], left |-> [n \in Nodes |-> T!NIL],
           right |-> [n \in Nodes |-> T!NIL], key |-> [n \in Nodes |-> 0],
           color |-> [n \in Nodes |-> "RED"], next |-> [n \in Nodes |-> <<>>],
           root |-> 1, wild |-> {}, lost |-> FALSE]

\* The nodes that were inserted are 1 .. abs; rb/main.c leaves the root's key
\* as malloc returned it.
RbInit ==
    /\ kind = "rb" /\ hdr = "none"
    /\ \E k \in Keys : ds = [Forest EXCEPT !.key[1] = k]
    /\ abs = 1

RbInsert == \E k \in Keys :
    abs + 1 \in Nodes /\ ~ds.lost /\ Step(T!rb_ins(ds, abs + 1, k), abs + 1)

RbNext == kind = "rb" /\ RbInsert

KeysOf(walk) == [i \in DOMAIN walk |-> ds.key[walk[i]]]
Ascending(s) == \A i, j \in DOMAIN s : i < j => s[i] <= s[j]

RECURSIVE BlackHeights(_)
BlackHeights(n) ==
    IF n = T!NIL THEN {0}
    ELSE {h + (IF ds.color[n] = "BLACK" THEN 1 ELSE 0) :
             h \in BlackHeights(ds.left[n]) \cup BlackHeights(ds.right[n])}

\* An insertion keeps every node reachable, once and in key order, keeps the
\* parent links the inverse of the child links, and rebalances: the root is
\* black, no red node has a red child, every path has as many black nodes.
\* It says nothing once a right rotation below a left link has lost nodes.
RbIsRedBlack ==
    kind = "rb" /\ ~ds.lost /\ abs > 1 =>
        LET walk == T!do_inorder(ds, ds.root)
        IN  /\ Len(walk) = abs /\ ToSet(walk) = 1..abs
            /\ Ascending(KeysOf(walk))
            /\ \A n \in 1..abs : \A c \in {ds.left[n], ds.right[n]} \ {T!NIL} : ds.parent[c] = n
            /\ ds.color[ds.root] = "BLACK" /\ ds.parent[ds.root] = T!NIL
            /\ \A n \in 1..abs \ {ds.root} :
                  ds.color[n] = "RED" => ds.color[ds.parent[n]] = "BLACK"
            /\ Cardinality(BlackHeights(ds.root)) = 1

\* The benchmark's self check accepts every tree that insertion builds, and
\* the three traversals visit the same nodes.
RbVerifyAccepts ==
    kind = "rb" /\ ~ds.lost =>
        /\ T!rb_verify(ds) = "OK"
        /\ ToSet(T!do_preorder(ds, ds.root)) = 1..abs
        /\ ToSet(T!do_postorder(ds, ds.root)) = 1..abs
        /\ \A n \in 1..abs :
              LET walk == T!do_inorder(ds, ds.root)
                  i    == CHOOSE j \in DOMAIN walk : walk[j] = n
              IN  T!inorder_successor(ds, n) = IF i = Len(walk) THEN T!NIL ELSE walk[i + 1]

BstInit ==
    /\ kind = "bst" /\ hdr = "none"
    /\ \E k \in Keys, w \in {{}, {1}} : ds = [Forest EXCEPT !.key[1] = k, !.wild = w]
    /\ abs = 1

BstInsert == \E k \in Keys, w \in BOOLEAN :
    /\ abs + 1 \in Nodes /\ ~ds.lost
    /\ Step(LET t == T!bst_insert(ds, 1, abs + 1, k)
          IN  IF w THEN [t EXCEPT !.wild = @ \cup {abs + 1}] ELSE t, abs + 1)

BstNext == kind = "bst" /\ BstInsert

\* bst_find returns the first of the nodes with the key, whose chain holds
\* the other ones in the order of insertion, and null when there is none; the
\* inorder walk visits the distinct keys in order.
BstFinds ==
    kind = "bst" /\ ~ds.lost =>
        /\ \A k \in Keys :
              LET n == T!bst_find(ds, 1, k)
                  same == SelectSeq([i \in 1..abs |-> i], LAMBDA i : ds.key[i] = k)
              IN  IF n = T!NIL THEN same = <<>> ELSE same = <<n>> \o ds.next[n]
        /\ LET walk == T!bst_inorder(ds, 1)
           IN  /\ Ascending(KeysOf(walk))
               /\ T!bst_minimum(ds, 1) = walk[1]
               /\ T!bst_maximum(ds, 1) = walk[Len(walk)]
               /\ ToSet(T!bst_preorder(ds, 1)) = ToSet(walk)
               /\ ToSet(T!bst_postorder(ds, 1)) = ToSet(walk)

\* BST_INIT makes the three links of the root point at the root itself.
LinkInit ==
    /\ kind = "link" /\ hdr = "none"
    /\ \E k \in Keys : ds = [Forest EXCEPT !.key[1] = k, !.parent[1] = 1,
                                           !.left[1] = 1, !.right[1] = 1]
    /\ abs = 1

LinkInsert == \E k \in Keys :
    abs + 1 \in Nodes /\ Step(T!bst_ins(ds, 1, abs + 1, k), abs + 1)

LinkNext == kind = "link" /\ LinkInsert

\* The tree of bst/new/bst.h lists every node in key order, and its postorder
\* walk, which the demonstration uses to free the nodes, visits a node after
\* everything below it.
LinkTreeSorted ==
    kind = "link" =>
        LET walk == T!bst_do_inorder(ds, 1)
            post == T!bst_do_postorder(ds, 1)
        IN  /\ ToSet(walk) = 1..abs /\ Len(walk) = abs
            /\ Ascending(KeysOf(walk))
            /\ ToSet(post) = 1..abs /\ ToSet(T!bst_do_preorder(ds, 1)) = 1..abs
            /\ \A i, j \in DOMAIN post : ds.parent[post[i]] = post[j] => i <= j
=============================================================================
