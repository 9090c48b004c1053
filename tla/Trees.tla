-------------------------------- MODULE Trees --------------------------------
(***************************************************************************)
(* The pointer trees of libc/datastructures/trees.  A forest t gives every *)
(* node its parent, left, right, key and color; NIL is the null pointer.   *)
(* include/rotate.c and include/traversals.c, the red-black insertion of   *)
(* rb/rb.c with the self check of rb/main.c, the unbalanced tree of        *)
(* bst/bst.c, and the tree of bst/new/bst.h whose missing children are     *)
(* links of a node to itself.                                              *)
(***************************************************************************)
EXTENDS Integers, Sequences, FiniteSets

NIL == 0
Black(t, n) == [t EXCEPT !.color[n] = "BLACK"]
Red(t, n) == [t EXCEPT !.color[n] = "RED"]

(* --- include/rotate.c ----------------------------------------------------- *)

\* The link of n's parent that held n now holds m.
Rehang(t, n, m, mLeft) ==
    LET p == t.parent[n]
    IN  IF p = NIL THEN t
        ELSE IF n = t.left[p] THEN [t EXCEPT !.left[p] = mLeft]
        ELSE [t EXCEPT !.right[p] = m]

\* n->parent is not told of m.
left_rotate_hang(t, n) ==
    LET m == t.right[n]
        b == t.left[m]
        s == [t EXCEPT !.right[n] = b, !.parent[m] = t.parent[n]]
        u == IF b = NIL THEN s ELSE [s EXCEPT !.parent[b] = n]
    IN  [u EXCEPT !.left[m] = n, !.parent[n] = m]

left_rotate(t, n) ==
    IF n = NIL \/ t.right[n] = NIL THEN t
    ELSE LET m == t.right[n]
             b == t.left[m]
             s == [t EXCEPT !.right[n] = b, !.parent[m] = t.parent[n]]
             u == IF b = NIL THEN s ELSE [s EXCEPT !.parent[b] = n]
         IN  [Rehang(u, n, m, m) EXCEPT !.left[m] = n, !.parent[n] = m]

\* When n is a left child its place is given to m->left and not to m; lost
\* records that this happened.
right_rotate(t, n) ==
    IF n = NIL \/ t.left[n] = NIL THEN t
    ELSE LET m == t.left[n]
             b == t.right[m]
             p == t.parent[n]
             s == [t EXCEPT !.left[n] = b, !.parent[m] = p,
                            !.lost = @ \/ (p # NIL /\ n = t.left[p])]
             u == IF b = NIL THEN s ELSE [s EXCEPT !.parent[b] = n]
         IN  [Rehang(u, n, m, u.left[m]) EXCEPT !.right[m] = n, !.parent[n] = m]

(* --- include/traversals.c -------------------------------------------------- *)

RECURSIVE do_preorder(_, _)
do_preorder(t, root) ==
    IF root = NIL THEN <<>>
    ELSE <<root>> \o (IF t.left[root] # root THEN do_preorder(t, t.left[root]) ELSE <<>>)
                  \o (IF t.right[root] # root THEN do_preorder(t, t.right[root]) ELSE <<>>)

RECURSIVE do_inorder(_, _)
do_inorder(t, root) ==
    IF root = NIL THEN <<>>
    ELSE (IF t.left[root] \notin {NIL, root} THEN do_inorder(t, t.left[root]) ELSE <<>>)
         \o <<root>>
         \o (IF t.right[root] # NIL /\ t.left[root] # root
             THEN do_inorder(t, t.right[root]) ELSE <<>>)

RECURSIVE do_postorder(_, _)
do_postorder(t, root) ==
    IF root = NIL THEN <<>>
    ELSE (IF t.left[root] \notin {NIL, root} THEN do_postorder(t, t.left[root]) ELSE <<>>)
         \o (IF t.right[root] \notin {NIL, root} THEN do_postorder(t, t.right[root]) ELSE <<>>)
         \o <<root>>

RECURSIVE Leftmost(_, _)
Leftmost(t, n) == IF t.left[n] \in {NIL, n} THEN n ELSE Leftmost(t, t.left[n])

RECURSIVE FirstRightAncestor(_, _)
FirstRightAncestor(t, n) ==
    LET p == t.parent[n]
    IN  IF p \in {NIL, n} THEN NIL
        ELSE IF n = t.left[p] THEN p ELSE FirstRightAncestor(t, p)

inorder_successor(t, node) ==
    IF t.right[node] \notin {NIL, node} THEN Leftmost(t, t.right[node])
    ELSE FirstRightAncestor(t, node)

(* --- rb/rb.c ---------------------------------------------------------------- *)

\* One turn of the loop, seen from the side on which leaf's parent hangs:
\* near and far are that side and the other one.
Rotate(t, side, node) == IF side = "left" THEN left_rotate(t, node) ELSE right_rotate(t, node)
FixTurn(t, leaf, near, far) ==
    LET p == t.parent[leaf]
        g == t.parent[p]
        y == t[far][g]
    IN  IF y # NIL /\ t.color[y] = "RED"
        THEN [t |-> Red(Black(Black(t, p), y), g), leaf |-> g]
        ELSE LET inner == leaf = t[far][p]
                 l  == IF inner THEN p ELSE leaf
                 t1 == IF inner THEN Rotate(t, near, l) ELSE t
                 p1 == t1.parent[l]
                 g1 == t1.parent[p1]
                 t2 == Red(Black(t1, p1), g1)
                 t3 == IF t2.root = g1 THEN [t2 EXCEPT !.root = t2[near][g1]] ELSE t2
             IN  [t |-> Rotate(t3, far, g1), leaf |-> l]

RECURSIVE rb_fix(_, _)
rb_fix(t, leaf) ==
    LET p == t.parent[leaf]
    IN  IF leaf = t.root \/ p = NIL \/ t.color[p] # "RED" THEN t
        ELSE LET s == IF p = t.left[t.parent[p]]
                      THEN FixTurn(t, leaf, "left", "right")
                      ELSE FixTurn(t, leaf, "right", "left")
             IN  rb_fix(Black(s.t, s.t.root), s.leaf)

RECURSIVE Descend(_, _, _)
Descend(t, key, i) ==
    LET c == IF key < t.key[i] THEN t.left[i] ELSE t.right[i]
    IN  IF c \in {NIL, i} THEN i ELSE Descend(t, key, c)

rb_ins(t, leaf, key) ==
    LET s == [Red(Black(t, t.root), leaf) EXCEPT !.key[leaf] = key]
        i == Descend(s, key, s.root)
        u == [s EXCEPT !.parent[leaf] = i]
    IN  rb_fix(IF key < u.key[i] THEN [u EXCEPT !.left[i] = leaf]
               ELSE [u EXCEPT !.right[i] = leaf], leaf)

(* --- rb/main.c: rb_verify --------------------------------------------------- *)

\* The lengths of the paths from elem to the leaves below it.
RECURSIVE getminmaxpath(_, _)
getminmaxpath(t, elem) ==
    LET below == {c \in {t.left[elem], t.right[elem]} : c \notin {NIL, elem}}
    IN  IF t.left[elem] = NIL /\ t.right[elem] = NIL THEN {1}
        ELSE UNION {{k + 1 : k \in getminmaxpath(t, c)} : c \in below}

\* From the root along the successors; the color and height passes of
\* rb_verify discard what they find (do_inorder and the outer
\* checkblackheight return 0 for every tree).
RECURSIVE SuccessorsAscend(_, _)
SuccessorsAscend(t, n) ==
    LET s == inorder_successor(t, n)
    IN  s = NIL \/ (t.key[n] <= t.key[s] /\ SuccessorsAscend(t, s))

rb_verify(t) ==
    LET paths == getminmaxpath(t, t.root)
    IN  IF ~SuccessorsAscend(t, t.root) THEN "NOT_BST"
        ELSE IF \E s, l \in paths : 2 * s < l THEN "NOT_BALANCED" ELSE "OK"

(* --- bst/bst.c --------------------------------------------------------------- *)

\* An equal element is chained behind the node that holds its key.  bst_new
\* does not set next: the chain ends where the last node's next happens to be
\* null, and the walk follows a wild one out of the tree.
RECURSIVE bst_insert(_, _, _, _)
bst_insert(t, iterator, elem, data) ==
    IF data < t.key[iterator]
    THEN IF t.left[iterator] # NIL THEN bst_insert(t, t.left[iterator], elem, data)
         ELSE [t EXCEPT !.left[iterator] = elem, !.key[elem] = data]
    ELSE IF data > t.key[iterator]
    THEN IF t.right[iterator] # NIL THEN bst_insert(t, t.right[iterator], elem, data)
         ELSE [t EXCEPT !.right[iterator] = elem, !.key[elem] = data]
    ELSE LET chain == <<iterator>> \o t.next[iterator]
         IN  IF chain[Len(chain)] \in t.wild THEN [t EXCEPT !.lost = TRUE]
             ELSE [t EXCEPT !.next[iterator] = Append(@, elem), !.key[elem] = data]

RECURSIVE bst_find(_, _, _)
bst_find(t, iterator, data) ==
    IF t.key[iterator] = data THEN iterator
    ELSE LET c == IF data < t.key[iterator] THEN t.left[iterator] ELSE t.right[iterator]
         IN  IF c = NIL THEN NIL ELSE bst_find(t, c, data)

RECURSIVE bst_inorder(_, _)
bst_inorder(t, n) ==
    (IF t.left[n] # NIL THEN bst_inorder(t, t.left[n]) ELSE <<>>) \o <<n>>
    \o (IF t.right[n] # NIL THEN bst_inorder(t, t.right[n]) ELSE <<>>)

RECURSIVE bst_preorder(_, _)
bst_preorder(t, n) ==
    <<n>> \o (IF t.left[n] # NIL THEN bst_preorder(t, t.left[n]) ELSE <<>>)
          \o (IF t.right[n] # NIL THEN bst_preorder(t, t.right[n]) ELSE <<>>)

RECURSIVE bst_postorder(_, _)
bst_postorder(t, n) ==
    (IF t.left[n] # NIL THEN bst_postorder(t, t.left[n]) ELSE <<>>)
    \o (IF t.right[n] # NIL THEN bst_postorder(t, t.right[n]) ELSE <<>>) \o <<n>>

RECURSIVE bst_minimum(_, _)
bst_minimum(t, c) == IF t.left[c] = NIL THEN c ELSE bst_minimum(t, t.left[c])

RECURSIVE bst_maximum(_, _)
bst_maximum(t, c) == IF t.right[c] = NIL THEN c ELSE bst_maximum(t, t.right[c])

(* --- bst/new/bst.h ------------------------------------------------------------ *)

RECURSIVE InsertionPoint(_, _, _)
InsertionPoint(t, key, child) ==
    LET c == IF key <= t.key[child] THEN t.left[child] ELSE t.right[child]
    IN  IF c = child THEN child ELSE InsertionPoint(t, key, c)

bst_ins(t, root, leaf, key) ==
    LET s   == [t EXCEPT !.left[leaf] = leaf, !.right[leaf] = leaf, !.key[leaf] = key]
        cur == InsertionPoint(s, key, root)
        u   == [s EXCEPT !.parent[leaf] = cur]
    IN  IF key <= u.key[cur] THEN [u EXCEPT !.left[cur] = leaf]
        ELSE [u EXCEPT !.right[cur] = leaf]

RECURSIVE bst_do_inorder(_, _)
bst_do_inorder(t, root) ==
    (IF t.left[root] # root THEN bst_do_inorder(t, t.left[root]) ELSE <<>>) \o <<root>>
    \o (IF t.right[root] # root THEN bst_do_inorder(t, t.right[root]) ELSE <<>>)

RECURSIVE bst_do_preorder(_, _)
bst_do_preorder(t, root) ==
    <<root>> \o (IF t.left[root] # root THEN bst_do_preorder(t, t.left[root]) ELSE <<>>)
             \o (IF t.right[root] # root THEN bst_do_preorder(t, t.right[root]) ELSE <<>>)

RECURSIVE bst_do_postorder(_, _)
bst_do_postorder(t, root) ==
    (IF t.left[root] # root THEN bst_do_postorder(t, t.left[root]) ELSE <<>>)
    \o (IF t.right[root] # root THEN bst_do_postorder(t, t.right[root]) ELSE <<>>) \o <<root>>
=============================================================================
