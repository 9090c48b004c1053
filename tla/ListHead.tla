------------------------------ MODULE ListHead ------------------------------
(***************************************************************************)
(* The intrusive lists of libc/include/dsa/list.h: circular doubly linked  *)
(* lists (struct list_head) and hash lists with a single pointer head      *)
(* (struct hlist_head).  An operation is a function from memory to memory. *)
(* The memory of the first kind is h.next and h.prev, one link per node    *)
(* (entry or head); of the second kind h.first per head, h.next and        *)
(* h.pprev per node.  A pprev is the place of the link that points at the  *)
(* node: <<"first", head>> or <<"next", node>>.                            *)
(***************************************************************************)
EXTENDS Naturals, Sequences, FiniteSets

NULL == "NULL"
LIST_POISON1 == "poison1"
LIST_POISON2 == "poison2"

\* The same two values as the pprev of an hlist node.
NoPlace == <<"null", NULL>>
PoisonPlace == <<"poison", LIST_POISON2>>

(* --- list_head: construction, insertion and removal -------------------- *)

INIT_LIST_HEAD(h, list) ==
    [h EXCEPT !.next[list] = list, !.prev[list] = list]

__list_add(h, new, prev, next) ==
    [h EXCEPT !.prev[next] = new, !.next[new] = next,
              !.prev[new] = prev, !.next[prev] = new]

list_add(h, new, head) == __list_add(h, new, head, h.next[head])

list_add_tail(h, new, head) == __list_add(h, new, h.prev[head], head)

__list_del(h, prev, next) == [h EXCEPT !.prev[next] = prev, !.next[prev] = next]

__list_del_entry(h, entry) == __list_del(h, h.prev[entry], h.next[entry])

__list_del_clearprev(h, entry) ==
    [__list_del_entry(h, entry) EXCEPT !.prev[entry] = NULL]

list_del(h, entry) ==
    [__list_del_entry(h, entry) EXCEPT !.next[entry] = LIST_POISON1,
                                       !.prev[entry] = LIST_POISON2]

list_del_init(h, entry) == INIT_LIST_HEAD(__list_del_entry(h, entry), entry)

list_del_init_careful(h, entry) ==
    LET d == __list_del_entry(h, entry)
        p == [d EXCEPT !.prev[entry] = entry]
    IN  [p EXCEPT !.next[entry] = entry]

list_replace(h, old, new) ==
    LET a == [h EXCEPT !.next[new] = h.next[old]]
        b == [a EXCEPT !.prev[a.next[new]] = new]
        c == [b EXCEPT !.prev[new] = b.prev[old]]
    IN  [c EXCEPT !.next[c.prev[new]] = new]

list_replace_init(h, old, new) == INIT_LIST_HEAD(list_replace(h, old, new), old)

\* An entry2 right behind entry1 is not told apart.
list_swap_apart(h, entry1, entry2) ==
    LET pos == h.prev[entry2]
    IN  list_add(list_replace(list_del(h, entry2), entry1, entry2), entry1, pos)

list_swap(h, entry1, entry2) ==
    LET pos == h.prev[entry2]
        r   == list_replace(list_del(h, entry2), entry1, entry2)
    IN  list_add(r, entry1, IF pos = entry1 THEN entry2 ELSE pos)

(* --- moving entries and runs of entries -------------------------------- *)

list_move(h, list, head) == list_add(__list_del_entry(h, list), list, head)

list_move_tail(h, list, head) ==
    list_add_tail(__list_del_entry(h, list), list, head)

list_bulk_move_tail(h, head, first, last) ==
    LET a == [h EXCEPT !.next[h.prev[first]] = h.next[last]]
        b == [a EXCEPT !.prev[a.next[last]] = a.prev[first]]
        c == [b EXCEPT !.next[b.prev[head]] = first]
        d == [c EXCEPT !.prev[first] = c.prev[head]]
    IN  [d EXCEPT !.next[last] = head, !.prev[head] = last]

list_is_first(h, list, head) == h.prev[list] = head
list_is_last(h, list, head) == h.next[list] = head
list_is_head(list, head) == list = head
list_empty(h, head) == h.next[head] = head

list_empty_careful(h, head) ==
    /\ list_is_head(h.next[head], head)
    /\ h.next[head] = h.prev[head]

list_is_singular(h, head) == ~list_empty(h, head) /\ h.next[head] = h.prev[head]

list_rotate_left(h, head) ==
    IF list_empty(h, head) THEN h ELSE list_move_tail(h, h.next[head], head)

list_rotate_to_front(h, list, head) == list_move_tail(h, head, list)

__list_cut_position(h, list, head, entry) ==
    LET new_first == h.next[entry]
        a == [h EXCEPT !.next[list] = h.next[head]]
        b == [a EXCEPT !.prev[a.next[list]] = list]
    IN  [b EXCEPT !.prev[list] = entry, !.next[entry] = list,
                  !.next[head] = new_first, !.prev[new_first] = head]

list_cut_position(h, list, head, entry) ==
    IF \/ list_empty(h, head)
       \/ list_is_singular(h, head) /\ entry \notin {head, h.next[head]}
    THEN h
    ELSE IF list_is_head(entry, head) THEN INIT_LIST_HEAD(h, list)
    ELSE __list_cut_position(h, list, head, entry)

list_cut_before(h, list, head, entry) ==
    IF h.next[head] = entry THEN INIT_LIST_HEAD(h, list)
    ELSE LET a == [h EXCEPT !.next[list] = h.next[head]]
             b == [a EXCEPT !.prev[a.next[list]] = list]
             c == [b EXCEPT !.prev[list] = b.prev[entry]]
             d == [c EXCEPT !.next[c.prev[list]] = list]
         IN  [d EXCEPT !.next[head] = entry, !.prev[entry] = head]

__list_splice(h, list, prev, next) ==
    LET first == h.next[list]
        last  == h.prev[list]
    IN  [h EXCEPT !.prev[first] = prev, !.next[prev] = first,
                  !.next[last] = next,  !.prev[next] = last]

list_splice(h, list, head) ==
    IF list_empty(h, list) THEN h ELSE __list_splice(h, list, head, h.next[head])

list_splice_tail(h, list, head) ==
    IF list_empty(h, list) THEN h ELSE __list_splice(h, list, h.prev[head], head)

list_splice_init(h, list, head) ==
    IF list_empty(h, list) THEN h
    ELSE INIT_LIST_HEAD(__list_splice(h, list, head, h.next[head]), list)

list_splice_tail_init(h, list, head) ==
    IF list_empty(h, list) THEN h
    ELSE INIT_LIST_HEAD(__list_splice(h, list, h.prev[head], head), list)

(* --- walking ----------------------------------------------------------- *)

\* The positions a loop visits: from start, along the link, until stop.  A
\* walk that has not ended after as many steps as there are nodes is cut
\* there, which no circular list of distinct nodes allows.
Visits(link, start, stop) ==
    LET walk[n \in 0..Cardinality(DOMAIN link)] ==
            IF n = 0 THEN <<start>>
            ELSE LET w == walk[n - 1]
                     p == w[Len(w)]
                 IN  IF p = stop \/ p \notin DOMAIN link THEN w
                     ELSE Append(w, link[p])
        w == walk[Cardinality(DOMAIN link)]
    IN  IF w[Len(w)] = stop THEN SubSeq(w, 1, Len(w) - 1) ELSE w

list_first_entry(h, head) == h.next[head]
list_last_entry(h, head) == h.prev[head]
list_first_entry_or_null(h, head) ==
    IF h.next[head] # head THEN h.next[head] ELSE NULL
list_next_entry_circular(h, pos, head) ==
    IF list_is_last(h, pos, head) THEN list_first_entry(h, head) ELSE h.next[pos]
list_prev_entry_circular(h, pos, head) ==
    IF list_is_first(h, pos, head) THEN list_last_entry(h, head) ELSE h.prev[pos]

list_for_each(h, head) == Visits(h.next, h.next[head], head)
list_for_each_reverse(h, head) == Visits(h.prev, h.prev[head], head)
list_for_each_rcu(h, head) == Visits(h.next, h.next[head], head)
list_for_each_continue(h, pos, head) == Visits(h.next, h.next[pos], head)
list_for_each_prev(h, head) == Visits(h.prev, h.prev[head], head)
list_for_each_entry(h, head) == Visits(h.next, list_first_entry(h, head), head)
list_for_each_entry_reverse(h, head) ==
    Visits(h.prev, list_last_entry(h, head), head)
list_prepare_entry(pos, head) == IF pos # NULL THEN pos ELSE head
list_for_each_entry_continue(h, pos, head) == Visits(h.next, h.next[pos], head)
list_for_each_entry_continue_reverse(h, pos, head) ==
    Visits(h.prev, h.prev[pos], head)
list_for_each_entry_from(h, pos, head) == Visits(h.next, pos, head)
list_for_each_entry_from_reverse(h, pos, head) == Visits(h.prev, pos, head)
list_count_nodes(h, head) == Len(list_for_each(h, head))

\* A safe loop whose body unlinks pos: n is read before the body runs.  The
\* result is the memory and the entries that were visited.
SafeLoop(h, start, head, dir, Unlink(_, _)) ==
    LET run[k \in 0..Cardinality(DOMAIN h.next)] ==
            IF k = 0 THEN [h |-> h, pos |-> start, n |-> h[dir][start], seen |-> <<>>]
            ELSE LET s == run[k - 1]
                 IN  IF list_is_head(s.pos, head) THEN s
                     ELSE LET d == Unlink(s.h, s.pos)
                          IN  [h |-> d, pos |-> s.n, n |-> d[dir][s.n],
                               seen |-> Append(s.seen, s.pos)]
    IN  run[Cardinality(DOMAIN h.next)]

list_for_each_safe(h, head) == SafeLoop(h, h.next[head], head, "next", list_del)
list_for_each_prev_safe(h, head) ==
    SafeLoop(h, h.prev[head], head, "prev", list_del_init)
list_for_each_entry_safe(h, head) ==
    SafeLoop(h, list_first_entry(h, head), head, "next", list_del)
list_for_each_entry_safe_continue(h, pos, head) ==
    SafeLoop(h, h.next[pos], head, "next", list_del)
list_for_each_entry_safe_from(h, pos, head) == SafeLoop(h, pos, head, "next", list_del)
list_for_each_entry_safe_reverse(h, head) ==
    SafeLoop(h, list_last_entry(h, head), head, "prev", list_del_init)

(* --- hlist ------------------------------------------------------------- *)

INIT_HLIST_HEAD(h, ptr) == [h EXCEPT !.first[ptr] = NULL]
INIT_HLIST_NODE(h, n) == [h EXCEPT !.next[n] = NULL, !.pprev[n] = NoPlace]
hlist_unhashed(h, n) == h.pprev[n] = NoPlace
hlist_unhashed_lockless(h, n) == h.pprev[n] = NoPlace
hlist_empty(h, head) == h.first[head] = NULL

\* *pprev = v: the write goes to the link that pprev is the place of.
Store(h, pprev, v) ==
    IF pprev[1] = "first" THEN [h EXCEPT !.first[pprev[2]] = v]
    ELSE [h EXCEPT !.next[pprev[2]] = v]

\* next->pprev = p, when there is a next node.
SetPprev(h, next, p) ==
    IF next = NULL THEN h ELSE [h EXCEPT !.pprev[next] = p]

__hlist_del(h, n) ==
    SetPprev(Store(h, h.pprev[n], h.next[n]), h.next[n], h.pprev[n])

hlist_del(h, n) ==
    [__hlist_del(h, n) EXCEPT !.next[n] = LIST_POISON1, !.pprev[n] = PoisonPlace]

hlist_del_init(h, n) ==
    IF hlist_unhashed(h, n) THEN h ELSE INIT_HLIST_NODE(__hlist_del(h, n), n)

hlist_add_head(h, n, head) ==
    LET first == h.first[head]
        a == SetPprev([h EXCEPT !.next[n] = first], first, <<"next", n>>)
    IN  [a EXCEPT !.first[head] = n, !.pprev[n] = <<"first", head>>]

hlist_add_before(h, n, next) ==
    LET a == [h EXCEPT !.pprev[n] = h.pprev[next], !.next[n] = next,
                       !.pprev[next] = <<"next", n>>]
    IN  Store(a, a.pprev[n], n)

hlist_add_behind(h, n, prev) ==
    LET a == [h EXCEPT !.next[n] = h.next[prev], !.next[prev] = n,
                       !.pprev[n] = <<"next", prev>>]
    IN  SetPprev(a, a.next[n], <<"next", n>>)

hlist_add_fake(h, n) == [h EXCEPT !.pprev[n] = <<"next", n>>]
hlist_fake(h, n) == h.pprev[n] = <<"next", n>>

hlist_is_singular_node(h, n, head) ==
    h.next[n] = NULL /\ h.pprev[n] = <<"first", head>>

hlist_move_list(h, old, new) ==
    LET a == [h EXCEPT !.first[new] = h.first[old]]
    IN  [SetPprev(a, a.first[new], <<"first", new>>) EXCEPT !.first[old] = NULL]

hlist_splice_init(h, from, last, to) ==
    LET a == SetPprev(h, h.first[to], <<"next", last>>)
        b == [a EXCEPT !.next[last] = a.first[to], !.first[to] = a.first[from]]
    IN  [b EXCEPT !.pprev[b.first[from]] = <<"first", to>>, !.first[from] = NULL]

hlist_for_each(h, head) == Visits(h.next, h.first[head], NULL)
hlist_for_each_entry(h, head) == Visits(h.next, h.first[head], NULL)
hlist_for_each_entry_continue(h, pos) == Visits(h.next, h.next[pos], NULL)
hlist_for_each_entry_from(h, pos) == Visits(h.next, pos, NULL)
hlist_count_nodes(h, head) == Len(hlist_for_each(h, head))

\* hlist_for_each_safe with hlist_del_init in its body.
hlist_for_each_safe(h, head) ==
    LET run[k \in 0..Cardinality(DOMAIN h.next)] ==
            IF k = 0 THEN [h |-> h, pos |-> h.first[head], seen |-> <<>>]
            ELSE LET s == run[k - 1]
                 IN  IF s.pos = NULL THEN s
                     ELSE [h |-> hlist_del_init(s.h, s.pos), pos |-> s.h.next[s.pos],
                           seen |-> Append(s.seen, s.pos)]
    IN  run[Cardinality(DOMAIN h.next)]

hlist_for_each_entry_safe(h, head) == hlist_for_each_safe(h, head)
=============================================================================
