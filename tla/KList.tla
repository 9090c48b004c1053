-------------------------------- MODULE KList --------------------------------
(***************************************************************************)
(* The older copy of the intrusive lists,                                  *)
(* libc/datastructures/linear/list/new/klist.h.  Function by function it   *)
(* does to memory what dsa/list.h does: the loops compare &pos->member     *)
(* with head where the newer header calls list_is_head, and WRITE_ONCE is  *)
(* a plain store, which one thread cannot tell apart.  It has neither      *)
(* list_del_init_careful, __list_del_clearprev, list_count_nodes and the   *)
(* circular successors, nor hlist_splice_init and hlist_count_nodes.       *)
(***************************************************************************)
LH == INSTANCE ListHead

INIT_LIST_HEAD(h, list) == LH!INIT_LIST_HEAD(h, list)
__list_add(h, new, prev, next) == LH!__list_add(h, new, prev, next)
list_add(h, new, head) == LH!list_add(h, new, head)
list_add_tail(h, new, head) == LH!list_add_tail(h, new, head)
__list_del(h, prev, next) == LH!__list_del(h, prev, next)
__list_del_entry(h, entry) == LH!__list_del_entry(h, entry)
list_del(h, entry) == LH!list_del(h, entry)
list_replace(h, old, new) == LH!list_replace(h, old, new)
list_replace_init(h, old, new) == LH!list_replace_init(h, old, new)
list_swap(h, entry1, entry2) == LH!list_swap(h, entry1, entry2)
list_del_init(h, entry) == LH!list_del_init(h, entry)
list_move(h, list, head) == LH!list_move(h, list, head)
list_move_tail(h, list, head) == LH!list_move_tail(h, list, head)
list_bulk_move_tail(h, head, first, last) ==
    LH!list_bulk_move_tail(h, head, first, last)
list_is_first(h, list, head) == LH!list_is_first(h, list, head)
list_is_last(h, list, head) == LH!list_is_last(h, list, head)
list_empty(h, head) == LH!list_empty(h, head)
list_empty_careful(h, head) == LH!list_empty_careful(h, head)
list_rotate_left(h, head) == LH!list_rotate_left(h, head)
list_rotate_to_front(h, list, head) == LH!list_rotate_to_front(h, list, head)
list_is_singular(h, head) == LH!list_is_singular(h, head)
__list_cut_position(h, list, head, entry) ==
    LH!__list_cut_position(h, list, head, entry)
list_cut_position(h, list, head, entry) ==
    LH!list_cut_position(h, list, head, entry)
list_cut_before(h, list, head, entry) ==
    LH!list_cut_before(h, list, head, entry)
__list_splice(h, list, prev, next) == LH!__list_splice(h, list, prev, next)
list_splice(h, list, head) == LH!list_splice(h, list, head)
list_splice_tail(h, list, head) == LH!list_splice_tail(h, list, head)
list_splice_init(h, list, head) == LH!list_splice_init(h, list, head)
list_splice_tail_init(h, list, head) == LH!list_splice_tail_init(h, list, head)
list_first_entry(h, head) == LH!list_first_entry(h, head)
list_last_entry(h, head) == LH!list_last_entry(h, head)
list_first_entry_or_null(h, head) == LH!list_first_entry_or_null(h, head)
list_for_each(h, head) == LH!list_for_each(h, head)
list_for_each_prev(h, head) == LH!list_for_each_prev(h, head)
list_for_each_safe(h, head) == LH!list_for_each_safe(h, head)
list_for_each_prev_safe(h, head) == LH!list_for_each_prev_safe(h, head)
list_for_each_entry(h, head) == LH!list_for_each_entry(h, head)
list_for_each_entry_reverse(h, head) == LH!list_for_each_entry_reverse(h, head)
list_prepare_entry(pos, head) == LH!list_prepare_entry(pos, head)
list_for_each_entry_continue(h, pos, head) ==
    LH!list_for_each_entry_continue(h, pos, head)
list_for_each_entry_continue_reverse(h, pos, head) ==
    LH!list_for_each_entry_continue_reverse(h, pos, head)
list_for_each_entry_from(h, pos, head) ==
    LH!list_for_each_entry_from(h, pos, head)
list_for_each_entry_from_reverse(h, pos, head) ==
    LH!list_for_each_entry_from_reverse(h, pos, head)
list_for_each_entry_safe(h, head) == LH!list_for_each_entry_safe(h, head)
list_for_each_entry_safe_continue(h, pos, head) ==
    LH!list_for_each_entry_safe_continue(h, pos, head)
list_for_each_entry_safe_from(h, pos, head) ==
    LH!list_for_each_entry_safe_from(h, pos, head)
list_for_each_entry_safe_reverse(h, head) ==
    LH!list_for_each_entry_safe_reverse(h, head)
INIT_HLIST_HEAD(h, ptr) == LH!INIT_HLIST_HEAD(h, ptr)
INIT_HLIST_NODE(h, n) == LH!INIT_HLIST_NODE(h, n)
hlist_unhashed(h, n) == LH!hlist_unhashed(h, n)
hlist_empty(h, head) == LH!hlist_empty(h, head)
__hlist_del(h, n) == LH!__hlist_del(h, n)
hlist_del(h, n) == LH!hlist_del(h, n)
hlist_del_init(h, n) == LH!hlist_del_init(h, n)
hlist_add_head(h, n, head) == LH!hlist_add_head(h, n, head)
hlist_add_before(h, n, next) == LH!hlist_add_before(h, n, next)
hlist_add_behind(h, n, prev) == LH!hlist_add_behind(h, n, prev)
hlist_add_fake(h, n) == LH!hlist_add_fake(h, n)
hlist_fake(h, n) == LH!hlist_fake(h, n)
hlist_is_singular_node(h, n, head) == LH!hlist_is_singular_node(h, n, head)
hlist_move_list(h, old, new) == LH!hlist_move_list(h, old, new)
hlist_for_each(h, head) == LH!hlist_for_each(h, head)
hlist_for_each_safe(h, head) == LH!hlist_for_each_safe(h, head)
hlist_for_each_entry(h, head) == LH!hlist_for_each_entry(h, head)
hlist_for_each_entry_continue(h, pos) ==
    LH!hlist_for_each_entry_continue(h, pos)
hlist_for_each_entry_from(h, pos) == LH!hlist_for_each_entry_from(h, pos)
hlist_for_each_entry_safe(h, head) == LH!hlist_for_each_entry_safe(h, head)
==============================================================================
