----------------------------- MODULE Algorithms -----------------------------
(***************************************************************************)
(* The pure functions of libc on bounded inputs: one step computes what    *)
(* the function returns, and the properties compare it with a definition   *)
(* of what it should be.  out is empty until the function has returned.    *)
(***************************************************************************)
EXTENDS Integers, Sequences, FiniteSets, SequencesExt

CONSTANTS Values,       \* the elements of the arrays
          MaxLen,       \* bound: the length of an array
          Bytes,        \* the bytes of memory and of strings
          MemSize,      \* bound: the bytes of memory
          MaxStr,       \* bound: the length of a string
          Numbers,      \* the numbers that are converted
          FormatChars,  \* the characters of a format,
          LogChars      \* and of one that the kernel logs

VARIABLES alg, in, out

S == INSTANCE Sorting
C == INSTANCE Strings
A == INSTANCE ArrayStructs

vars == <<alg, in, out>>

Arrays == UNION {[0..(n - 1) -> Values] : n \in 1..MaxLen}
Strs == UNION {[1..n -> Bytes] : n \in 0..MaxStr}
Copies == [mem : [1..MemSize -> Bytes], dst : 1..MemSize, src : 1..MemSize, size : 0..MemSize]
InMemory(c) == c.dst + c.size <= MemSize + 1 /\ c.src + c.size <= MemSize + 1
Disjoint(c) == c.dst + c.size <= c.src \/ c.src + c.size <= c.dst
Greatest(arr) == CHOOSE v \in Range(arr) : \A w \in Range(arr) : w <= v
Sorted(arr) == \A i, j \in DOMAIN arr : i < j => arr[i] <= arr[j]
FromOne(arr) == [i \in 1..S!Length(arr) |-> arr[i - 1]]
Cells(arr) == S!Length(arr)

INT_MAX == 4
MAX_STRCMP == MaxStr
Arguments == <<[char |-> "i", str |-> <<"s">>, num |-> 27],
               [char |-> "j", str |-> <<"t", "t">>, num |-> 0],
               [char |-> "k", str |-> <<>>, num |-> 9]>>

Sorts == {"bubble", "counting", "insertion", "selection", "quick", "radix", "heap"}
Searches == {"binary", "linear"}

Init ==
    /\ out = <<>>
    /\ \/ alg \in Sorts \cup {"merge", "segtree"} /\ in \in Arrays
       \/ alg \in Searches /\ in \in [arr : {a \in Arrays : Sorted(a)}, elem : Values]
       \/ alg \in {"memmove", "memcpy", "memset"} /\ in \in {c \in Copies : InMemory(c)}
       \/ alg \in {"strcmp", "strncmp", "memcmp"} /\ in \in Strs \X Strs
       \/ alg \in {"itoa", "itoa_hex"} /\ in \in Numbers
       \/ alg = "printf" /\ in \in UNION {[1..n -> FormatChars] : n \in 0..MaxStr + 1}
       \/ alg = "logf" /\ in \in UNION {[1..n -> LogChars] : n \in 0..MaxStr + 1}

Returns(x) == out = <<>> /\ out' = <<x>> /\ UNCHANGED <<alg, in>>

Sort ==
    LET n == Cells(in)
    IN  \/ alg = "bubble" /\ Returns(S!bubble_sort(in, n))
        \/ alg = "counting" /\ Returns(S!counting_sort(in, n, Greatest(in)))
        \/ alg = "insertion" /\ Returns(S!insertion_sort(in, n))
        \/ alg = "selection" /\ Returns(S!selection_sort(in, n))
        \/ alg = "quick" /\ Returns(S!quick_sort(in, n))
        \/ alg = "radix" /\ \E g \in BOOLEAN : Returns(S!radix_sort(in, n, Greatest(in), g))
        \/ alg = "merge" /\ Returns(S!merge_sort(in, n - 1))
        \/ alg = "heap" /\ LET h == A!heapsort(FromOne(in))
                           IN  Returns([i \in 0..(n - 1) |-> h[i + 1]])

Search ==
    LET n == Cells(in.arr)
    IN  \/ alg = "binary" /\ Returns(S!binary_search(in.arr, n, in.elem))
        \/ alg = "linear" /\ Returns(S!linear_search(in.arr, n, in.elem))

\* The tree, and the tree after the leaf of the last element was set to 0.
Segtree ==
    LET t == A!segtree_build(FromOne(in))
    IN  alg = "segtree" /\ Returns([built |-> t, set |-> A!segtree_update(t, 2 * Cells(in) - 2, 0)])

Copy ==
    \/ alg = "memmove" /\ Returns(C!memmove(in.mem, in.dst, in.src, in.size))
    \/ alg = "memcpy" /\ Disjoint(in) /\ Returns(C!memcpy(in.mem, in.dst, in.src, in.size))
    \/ alg = "memset" /\ Returns(C!memset(in.mem, in.dst, 256 + in.src, in.size))

Compare ==
    \/ alg = "strcmp" /\ Returns(C!strcmp(in[1], in[2], MAX_STRCMP))
    \/ alg = "strncmp" /\ Returns([n \in 0..MaxStr |-> C!strncmp(in[1], in[2], n)])
    \/ alg = "memcmp" /\ Len(in[1]) = Len(in[2])
       /\ Returns(C!memcmp(in[1], in[2], Len(in[1])))

Convert ==
    \/ alg = "itoa" /\ Returns(C!itoa(in))
    \/ alg = "itoa_hex" /\ in >= 0 /\ Returns(C!itoa_hex(in))

Format == alg = "printf" /\ Returns(C!printf(in, Arguments, INT_MAX))

\* The i386 logger before and after logger_init_console(), and the x86_64
\* logger, which cannot run out of an int here.
Log == /\ alg = "logf"
       /\ Returns([early |-> C!logf_i386(in, Arguments, FALSE), ready |-> C!logf_i386(in, Arguments, TRUE),
                   x86_64 |-> C!logf_x86_64(in, Arguments, 100)])

Next == Log \/ Sort \/ Search \/ Segtree \/ Copy \/ Compare \/ Convert \/ Format

Spec == Init /\ [][Next]_vars

Result == out[1]
Done == out # <<>>

\* Every sort returns its input's elements in ascending order; a radix sort
\* whose uninitialised counters were not zero promises nothing.
SortsSort ==
    Done /\ alg \in Sorts /\ ~(alg = "radix" /\ Result = S!WILD) =>
        /\ Sorted(Result)
        /\ \A v \in Values : Cardinality({i \in DOMAIN in : in[i] = v})
                             = Cardinality({i \in DOMAIN Result : Result[i] = v})

\* merge_sort(arr, len) sorts the len cells of the array and the one behind
\* them, as if they were one array.
MergeSortsOneMore ==
    Done /\ alg = "merge" =>
        /\ Sorted(Result)
        /\ \A v \in Values : Cardinality({i \in DOMAIN in : in[i] = v})
                             = Cardinality({i \in DOMAIN Result : Result[i] = v})

\* In a sorted array a search finds an element that is there.  When there is
\* none linear_search says so, and binary_search says so or never returns:
\* only a window whose middle is its first cell stops shrinking.
SearchFinds ==
    Done /\ alg \in Searches =>
        IF in.elem \in Range(in.arr) THEN Result \in DOMAIN in.arr /\ in.arr[Result] = in.elem
        ELSE Result = -1 \/ (alg = "binary" /\ Result = S!LOOPS /\ in.arr[0] < in.elem)

\* Every inner node of a segment tree holds the sum of the leaves below it,
\* and the root still does after an update of the built tree.
SegtreeSums ==
    Done /\ alg = "segtree" =>
        LET n == Cells(in)
            Leaves[i \in 0..(2 * n - 2)] ==
                IF i >= n - 1 THEN {i} ELSE Leaves[A!lchild(i)] \cup Leaves[A!rchild(i)]
            Sum(t, L) == FoldSet(LAMBDA i, acc : acc + t[i], 0, L)
        IN  /\ \A i \in 0..(2 * n - 2) : Result.built[i] = Sum(Result.built, Leaves[i])
            /\ \A i \in 0..(n - 1) : Result.built[n - 1 + i] = in[i]
            /\ Result.set[0] = Sum(Result.built, Leaves[0]) - in[n - 1]

\* A copy puts the old content of the source region into the destination and
\* leaves every other byte alone, overlapping regions included for memmove;
\* memset fills it with the low byte of its argument.
CopiesRegion ==
    Done /\ alg \in {"memmove", "memcpy", "memset"} =>
        \A a \in 1..MemSize :
            Result[a] = IF a < in.dst \/ a >= in.dst + in.size THEN in.mem[a]
                        ELSE IF alg = "memset" THEN in.src
                        ELSE in.mem[a - in.dst + in.src]

Before(s, t) ==
    \E i \in 1..Len(s) : i <= Len(t) /\ s[i] < t[i] /\ SubSeq(s, 1, i - 1) = SubSeq(t, 1, i - 1)
Sign(n) == IF n > 0 THEN 1 ELSE IF n < 0 THEN -1 ELSE 0
Order(s, t) == IF Before(s, t) THEN -1 ELSE IF Before(t, s) THEN 1 ELSE 0
Chars(s, n) == [i \in 1..n |-> IF i > Len(s) THEN 0 ELSE IF s[i] > 127 THEN s[i] - 256 ELSE s[i]]

\* strcmp is the lexicographic order of signed characters, the terminator
\* included, and panics only when both strings agree on as many characters as
\* it is willing to compare; strncmp is the order of the prefixes, and memcmp
\* that of regions of one length, whose bytes are not signed.
ComparesInOrder ==
    /\ Done /\ alg = "memcmp" => Result = Order(in[1], in[2])
    /\ Done /\ alg = "strcmp" =>
         IF Result = C!PANIC
         THEN \A i \in 1..MAX_STRCMP : i <= Len(in[1]) /\ i <= Len(in[2]) /\ in[1][i] = in[2][i]
         ELSE Sign(Result) = Order(Chars(in[1], MaxStr + 1), Chars(in[2], MaxStr + 1))
    /\ Done /\ alg = "strncmp" => \A n \in 0..MaxStr :
         Sign(Result[n]) = Order(Chars(in[1], n), Chars(in[2], n))

\* The digits of a number that is not negative are in the range of the base,
\* have no leading zero and denote the number.
DigitsDenote ==
    Done /\ alg \in {"itoa", "itoa_hex"} /\ in >= 0 =>
        LET base == IF alg = "itoa" THEN 10 ELSE 16
        IN  /\ Result # <<>> /\ \A i \in DOMAIN Result : Result[i] \in 0..(base - 1)
            /\ Len(Result) > 1 => Result[1] # 0
            /\ FoldLeft(LAMBDA acc, d : acc * base + d, 0, Result) = in

\* The format read a character at a time.
Expand(format) ==
    LET Read(s, ch) ==
            IF s.stop THEN [s EXCEPT !.text = Append(@, ch)]
            ELSE IF ~s.pct THEN IF ch = "%" THEN [s EXCEPT !.pct = TRUE]
                                ELSE [s EXCEPT !.text = Append(@, ch)]
            ELSE IF ch = "%" THEN [s EXCEPT !.text = Append(@, ch), !.pct = FALSE]
            ELSE IF ch \in {"c", "s", "d", "x"}
            THEN [s EXCEPT !.text = @ \o C!Converted(ch, Arguments[s.used + 1]),
                           !.used = @ + 1, !.pct = FALSE]
            ELSE [s EXCEPT !.text = @ \o <<"%", ch>>, !.pct = FALSE, !.stop = TRUE]
        e == FoldLeft(Read, [text |-> <<>>, pct |-> FALSE, used |-> 0, stop |-> FALSE], format)
    IN  IF e.pct THEN Append(e.text, "%") ELSE e.text

\* printf writes the text with every directive replaced by its own argument
\* and returns its length, or stops with -1 only when the text would not fit
\* an int; what follows an unknown directive is written as it stands.
PrintfExpands ==
    Done /\ alg = "printf" =>
        IF Result.ret = -1
        THEN Len(Expand(in)) > INT_MAX /\ IsPrefix(Result.out, Expand(in))
        ELSE Result.out = Expand(in) /\ Result.ret = Len(Result.out)

\* Whether a format has only directives that printf() knows, and no l.
Common == \A i \in DOMAIN in : /\ in[i] \notin {"l", "u", "p", "z"}
                               /\ in[i] = "a" /\ i > 1 => in[i - 1] # "%"
Masked(text) == [i \in DOMAIN text |-> IF text[i] \in {"2", "7", "1", "b", "0", "9"} THEN "#" ELSE text[i]]

\* A message reads the same wherever it is logged: the console's and the
\* serial port's formatters write the same text, early in the boot the
\* serial port alone has it, and a format that both ports' loggers
\* understand gives the same text on both, unless it ends inside a directive.
LogsAgree ==
    Done /\ alg = "logf" =>
        /\ Result.ready.console = Result.ready.serial
        /\ Result.early = [console |-> <<>>, serial |-> Result.ready.serial]
        /\ Common /\ Result.ready.serial[Len(Result.ready.serial)] # C!OVERRUN
             => Masked(Result.ready.serial) = Result.x86_64.serial
=============================================================================
