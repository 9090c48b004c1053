------------------------------- MODULE Sorting -------------------------------
(***************************************************************************)
(* The sorts and searches of libc/include/algorithms.  An array is a       *)
(* function on 0 .. n - 1, as in C; a sort is a function from array to     *)
(* array.                                                                  *)
(***************************************************************************)
EXTENDS Integers, Sequences, FiniteSets, Loops

Length(arr) == Cardinality(DOMAIN arr)
swap(arr, a, b) == [arr EXCEPT ![a] = arr[b], ![b] = arr[a]]

\* With an empty array size - 1 is the greatest size_t and the loop runs off
\* the array: callers pass size > 0.
bubble_sort(arr, size) ==
    For(LAMBDA a, i :
            For(LAMBDA b, j : IF b[j] > b[j + 1] THEN swap(b, j, j + 1) ELSE b,
                a, 0, size - i - 2),
        arr, 0, size - 2)

counting_sort(arr, len, k) ==
    LET c0 == [v \in 0..k |-> Cardinality({i \in 0..(len - 1) : arr[i] = v})]
        c  == For(LAMBDA s, i : [s EXCEPT ![i] = @ + s[i - 1]], c0, 1, k)
        Place(s, i) == [b |-> [s.b EXCEPT ![s.c[arr[i]] - 1] = arr[i]],
                        c |-> [s.c EXCEPT ![arr[i]] = @ - 1]]
    IN  ForDown(Place, [b |-> arr, c |-> c], len - 1, 0).b

\* The shift stops at the first equal or smaller element.
RECURSIVE Shift(_, _, _)
Shift(arr, j, key) ==
    IF j >= 0 /\ arr[j] > key THEN Shift([arr EXCEPT ![j + 1] = arr[j]], j - 1, key)
    ELSE [arr EXCEPT ![j + 1] = key]

insertion_sort(arr, size) ==
    For(LAMBDA a, i : Shift(a, i - 1, a[i]), arr, 1, size - 1)

min_index(arr, low, high) ==
    For(LAMBDA ret, i : IF arr[i] < arr[ret] THEN i ELSE ret, low, low, high - 1)

selection_sort(arr, size) ==
    For(LAMBDA a, i : swap(a, i, min_index(a, i, size)), arr, 0, size - 1)

\* The two runs l..m and m+1..r of the array, taken in order.
RECURSIVE Merged(_, _)
Merged(lf, rt) ==
    IF lf = <<>> THEN rt
    ELSE IF rt = <<>> THEN lf
    ELSE IF lf[1] <= rt[1] THEN <<lf[1]>> \o Merged(Tail(lf), rt)
    ELSE <<rt[1]>> \o Merged(lf, Tail(rt))

merge(arr, l, m, r) ==
    LET both == Merged([i \in 1..(m - l + 1) |-> arr[l + i - 1]],
                       [j \in 1..(r - m) |-> arr[m + j]])
    IN  [i \in DOMAIN arr |-> IF l <= i /\ i <= r THEN both[i - l + 1] ELSE arr[i]]

RECURSIVE _merge_sort(_, _, _)
_merge_sort(arr, l, r) ==
    IF l >= r THEN arr
    ELSE LET m == l + ((r - l) \div 2)
         IN  merge(_merge_sort(_merge_sort(arr, l, m), m + 1, r), l, m, r)

\* The last index passed is len, not len - 1: the cell behind the array takes
\* part.
merge_sort(arr, len) == _merge_sort(arr, 0, len)

\* Lomuto's partition: the cells and the pivot's final place.
partition(arr, l, h) ==
    LET s == For(LAMBDA x, i : IF x.a[i] <= arr[h]
                               THEN [a |-> swap(x.a, x.ei + 1, i), ei |-> x.ei + 1] ELSE x,
                 [a |-> arr, ei |-> l - 1], l, h - 1)
    IN  [a |-> swap(s.a, s.ei + 1, h), pi |-> s.ei + 1]

RECURSIVE _quick_sort(_, _, _)
_quick_sort(arr, l, h) ==
    IF l >= h THEN arr
    ELSE LET p == partition(arr, l, h)
         IN  _quick_sort(_quick_sort(p.a, l, p.pi - 1), p.pi + 1, h)

quick_sort(arr, len) == _quick_sort(arr, 0, len - 1)

\* The digit counts start from whatever malloc returned: unless that is
\* zeros, elements are placed outside of b.
WILD == [i \in {} |-> 0]

__radix_count_sort(arr, len, index, base, garbage) ==
    LET D(x) == (x \div index) % base
        c0 == [d \in 0..(base - 1) |-> Cardinality({i \in 0..(len - 1) : D(arr[i]) = d})]
        c  == For(LAMBDA s, i : [s EXCEPT ![i] = @ + s[i - 1]], c0, 1, base - 1)
        Place(s, i) == [b |-> [s.b EXCEPT ![s.c[D(arr[i])] - 1] = arr[i]],
                        c |-> [s.c EXCEPT ![D(arr[i])] = @ - 1]]
    IN  IF garbage THEN WILD
        ELSE ForDown(Place, [b |-> arr, c |-> c], len - 1, 0).b

RECURSIVE RadixFrom(_, _, _, _, _)
RadixFrom(arr, len, i, max_element, garbage) ==
    IF max_element \div i = 0 \/ arr = WILD THEN arr
    ELSE RadixFrom(__radix_count_sort(arr, len, i, 10, garbage),
                   len, i * 10, max_element, garbage)

radix_sort(arr, len, max_element, garbage) == RadixFrom(arr, len, 1, max_element, garbage)

LOOPS == -2

\* A window that does not shrink is never left: LOOPS.
RECURSIVE SearchIn(_, _, _, _)
SearchIn(arr, elem, low, high) ==
    LET mid == (low + high) \div 2
    IN  IF low >= high THEN -1
        ELSE IF arr[mid] = elem THEN mid
        ELSE IF arr[mid] > elem THEN SearchIn(arr, elem, low, mid)
        ELSE IF mid = low THEN LOOPS
        ELSE SearchIn(arr, elem, mid, high)

binary_search(arr, n, elem) == SearchIn(arr, elem, 0, n)

linear_search(arr, n, elem) ==
    LET at == {i \in 0..(n - 1) : arr[i] = elem}
    IN  IF at = {} THEN -1 ELSE CHOOSE i \in at : \A j \in at : i <= j
=============================================================================
