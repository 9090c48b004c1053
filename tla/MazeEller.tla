----------------------------- MODULE MazeEller -----------------------------
(***************************************************************************)
(* The archived generator that follows Eller's algorithm, a row at a time. *)
(* random_range() is a free choice.                                        *)
(***************************************************************************)
EXTENDS MazeGrid, Loops

CONSTANT MaxGenerated    \* bound: the mazes generated

VARIABLES grid,        \* maze_eller[][], next_set_id_eller and the row y
          step,        \* the next step of the row
          generated    \* how many mazes have been generated or begun

evars == <<grid, step, generated>>

Row(y) == {c \in Cells : c[1] = y}
WalledCell(id) == [type |-> "CORRIDOR", set_id |-> id, right_wall |-> 1, bottom_wall |-> 1]

generate_maze_eller ==
    /\ step \in {"boot", "done"} /\ generated < MaxGenerated
    /\ generated' = generated + 1
    /\ grid' = [y |-> 0, next |-> MAZE_WIDTH + 1,
                 cell |-> [c \in Cells |-> IF c \in Row(0) THEN WalledCell(c[2] + 1)
                                           ELSE grid.cell[c]]]
    /\ step' = IF MAZE_HEIGHT > 1 THEN "join" ELSE "last"

(* Opens the wall right of column x if the two sets differ, and renames    *)
(* the right one throughout the row.                                       *)
Join(cell, y, x) ==
    LET old == cell[<<y, x + 1>>].set_id
        new == cell[<<y, x>>].set_id
    IN  IF old = new THEN cell
        ELSE [c \in Cells |->
                [cell[c] EXCEPT !.set_id = IF c[1] = y /\ @ = old THEN new ELSE @,
                                !.right_wall = IF c = <<y, x>> THEN 0 ELSE @]]
eller_join ==
    /\ step = "join"
    /\ \E heads \in SUBSET (0..MAZE_WIDTH - 2) :
         grid' = [grid EXCEPT !.cell =
                     For(LAMBDA s, x : IF x \in heads THEN Join(s, grid.y, x) ELSE s,
                         @, 0, MAZE_WIDTH - 2)]
    /\ step' = "drop"
    /\ UNCHANGED generated

(* Each set goes down in its first column and wherever chance has it.      *)
FirstOfSet(x) == \A w \in 0..(x - 1) :
                   grid.cell[<<grid.y, w>>].set_id # grid.cell[<<grid.y, x>>].set_id
DropAt(cols) ==
    /\ step = "drop"
    /\ grid' = [grid EXCEPT !.cell = [c \in Cells |->
                   IF c[2] \notin cols THEN @[c]
                   ELSE IF c[1] = grid.y THEN [@[c] EXCEPT !.bottom_wall = 0]
                   ELSE IF c[1] = grid.y + 1 THEN WalledCell(@[Above(c)].set_id)
                   ELSE @[c]]]
    /\ step' = "fresh"
    /\ UNCHANGED generated
eller_drop ==
    \E D \in SUBSET (0..MAZE_WIDTH - 1) :
       DropAt(D \cup {x \in 0..MAZE_WIDTH - 1 : FirstOfSet(x)})

eller_fresh ==
    /\ step = "fresh"
    /\ grid' = For(LAMBDA s, x : LET c == <<grid.y + 1, x>>
                                  IN  IF s.cell[c].type = "CORRIDOR" THEN s
                                      ELSE [s EXCEPT !.cell[c] = WalledCell(s.next), !.next = @ + 1],
                    [grid EXCEPT !.y = @ + 1], 0, MAZE_WIDTH - 1)
    /\ step' = IF grid.y + 1 < MAZE_HEIGHT - 1 THEN "join" ELSE "last"
    /\ UNCHANGED generated

eller_last ==
    /\ step = "last"
    /\ grid' = [grid EXCEPT !.cell = For(LAMBDA s, x : Join(s, MAZE_HEIGHT - 1, x),
                                           @, 0, MAZE_WIDTH - 2)]
    /\ step' = "done"
    /\ UNCHANGED generated

EInit ==
    /\ grid = [y |-> 0, next |-> 0,
               cell |-> [c \in Cells |-> [type |-> "WALL", set_id |-> 0,
                                          right_wall |-> 0, bottom_wall |-> 0]]]
    /\ step = "boot" /\ generated = 0

ENext == \/ generate_maze_eller \/ eller_join \/ eller_drop \/ eller_fresh \/ eller_last
-----------------------------------------------------------------------------
(* The maze that generate_maze_eller() builds in the zeroed static array   *)
(* is a tree over all cells.                                               *)
EllerIsTree == step = "done" /\ generated = 1 => Tree(Open(grid.cell), Cells)
=============================================================================
