------------------------------- MODULE Maze -------------------------------
(***************************************************************************)
(* The maze of the i386 shell: the iterative backtracker that carves it    *)
(* one cell at a time, the recursive solver, and the picture both leave    *)
(* on the screen.  random_range() is a free choice.                        *)
(***************************************************************************)
EXTENDS MazeGrid, Sequences, FiniteSetsExt

CONSTANTS DISPLAY_WIDTH, DISPLAY_HEIGHT,
          MaxCommands    \* bound: the maze commands of one session

VARIABLES maze,            \* struct cell maze[][]
          screen,          \* what terminal_putentryat() last drew, by position
          visited, stack,  \* locals of generate_maze()
          calls,           \* the open calls of dfs_solve()
          mpc,             \* the last step: what has been generated, solved, ...
          commands         \* how many commands have been given

mvars == <<maze, screen, visited, stack, calls, mpc, commands>>

maze_init == [c \in Cells |-> [type |-> "CORRIDOR", right_wall |-> 1, bottom_wall |-> 1]]

(* draw_maze(): what stands between two cells that no wall separates, ...  *)
Passage(m, cs) ==
    IF \E c \in cs : m[c].type = "PATH" THEN "p"
    ELSE IF \E c \in cs : m[c].type = "VISITED" THEN "v" ELSE " "
CellChar(type) ==
    CASE type = "VISITED" -> "v" [] type = "PATH" -> "p" [] type = "SOURCE" -> "S"
      [] type = "SINK" -> "E" [] OTHER -> " "
(* ... a letter, the v and the p of the line that names the commands, ...  *)
HelpText == <<"g", "v", "p">>
draw_help_text(x) ==
    LET start_x == (DISPLAY_WIDTH - Len(HelpText)) \div 2
    IN  IF x \in start_x..(start_x + Len(HelpText) - 1) THEN HelpText[x - start_x + 1] ELSE " "
(* ... the character at each position of the display buffer, ...           *)
CornerChar(m, c) ==
    IF \/ m[c].right_wall = 1 \/ m[c].bottom_wall = 1
       \/ m[RightOf(c)].bottom_wall = 1 \/ m[Below(c)].right_wall = 1
    THEN "#" ELSE Passage(m, {c, RightOf(c), Below(c), RightOf(Below(c))})
display_buffer(m, y, x) ==
    LET c == <<(y - 1) \div 2, x \div 2>>
        content == (y - 1) % 2 = 0 /\ x % 2 = 0
        right == (y - 1) % 2 = 0 /\ x % 2 = 1
        bottom == (y - 1) % 2 = 1 /\ x % 2 = 0
        corner == (y - 1) % 2 = 1 /\ x % 2 = 1
    IN  CASE y = 0 -> draw_help_text(x)
          [] y > 0 /\ c \notin Cells -> " "
          [] c \in Cells /\ content -> CellChar(m[c].type)
          [] c \in Cells /\ right /\ RightOf(c) \in Cells ->
               IF m[c].right_wall = 1 THEN "#" ELSE Passage(m, {c, RightOf(c)})
          [] c \in Cells /\ bottom /\ Below(c) \in Cells ->
               IF m[c].bottom_wall = 1 THEN "#" ELSE Passage(m, {c, Below(c)})
          [] c \in Cells /\ corner /\ RightOf(Below(c)) \in Cells -> CornerChar(m, c)
          [] OTHER -> " "
(* ... and the entry drawn for it: only the two markers keep a letter.     *)
Entry(ch) ==
    [char |-> IF ch \in {"S", "E"} THEN ch ELSE " ",
     bg |-> CASE ch = "#" -> "white" [] ch = "S" -> "green" [] ch = "E" -> "red"
              [] ch = "p" -> "cyan" [] ch = "v" -> "brown" [] OTHER -> "black"]
Positions == (0..DISPLAY_HEIGHT - 1) \X (0..DISPLAY_WIDTH - 1)
draw_maze(m) == screen' = [p \in Positions |-> Entry(display_buffer(m, p[1], p[2]))]
-----------------------------------------------------------------------------
Command == commands < MaxCommands /\ commands' = commands + 1

(* generate_maze() up to its loop: every wall stands, (0, 0) is visited.   *)
generate_maze ==
    /\ mpc \in {"boot", "generated", "solved"}
    /\ Command
    /\ maze' = maze_init
    /\ visited' = {Source}
    /\ stack' = <<Source>>
    /\ mpc' = "carve"
    /\ UNCHANGED <<screen, calls>>

(* The iterations up to the next removal of a wall: cells without an       *)
(* unvisited neighbour are popped, then the wall to one such neighbour of  *)
(* the top goes; or the stack runs empty and the two ends are set.         *)
Fresh(c) == {d \in {Above(c), Below(c), RightOf(c), LeftOf(c)} : d \in Cells \ visited}
Live == {k \in 1..Len(stack) : Fresh(stack[k]) # {}}
OpenWall(c, d) ==
    maze' = CASE d = Above(c) -> [maze EXCEPT ![d].bottom_wall = 0]
              [] d = RightOf(c) -> [maze EXCEPT ![c].right_wall = 0]
              [] d = Below(c) -> [maze EXCEPT ![c].bottom_wall = 0]
              [] d = LeftOf(c) -> [maze EXCEPT ![d].right_wall = 0]
CarveMarking(current) ==
    /\ mpc = "carve" /\ Live # {}
    /\ LET k == Max(Live)
       IN  \E d \in Fresh(stack[k]) :
             /\ OpenWall(stack[k], d)
             /\ visited' = visited \cup {IF current THEN stack[k] ELSE d}
             /\ stack' = Append(SubSeq(stack, 1, k), d)
    /\ UNCHANGED <<screen, calls, mpc, commands>>
carve_current == CarveMarking(TRUE)
carve == CarveMarking(FALSE)

generate_end ==
    /\ mpc = "carve" /\ Live = {}
    /\ maze' = [maze EXCEPT ![Source].type = "SOURCE", ![Sink].type = "SINK"]
    /\ draw_maze(maze')
    /\ mpc' = "generated"
    /\ visited' = {} /\ stack' = <<>>
    /\ UNCHANGED <<calls, commands>>

(* The four ways to read the wall between two neighbouring cells.          *)
can_move_to(m, from, to) ==
    /\ to \in Cells
    /\ \/ to = RightOf(from) /\ m[from].right_wall = 0
       \/ to = LeftOf(from) /\ m[to].right_wall = 0
       \/ to = Below(from) /\ m[from].bottom_wall = 0
       \/ to = Above(from) /\ m[to].bottom_wall = 0

(* dfs_solve() on a stack of its open calls, each with the direction it    *)
(* tries next: it returns, passes on, enters a cell, or finds the SINK,    *)
(* when every open call but the SOURCE's marks its cell PATH.              *)
directions(c) == <<Below(c), RightOf(c), Above(c), LeftOf(c)>>
CanTry(m, c, next) == can_move_to(m, c, next) /\ m[next].type \in {"CORRIDOR", "SINK"}
Mark(m, cs, type) == [c \in Cells |-> IF c \in cs /\ m[c].type # "SOURCE"
                                      THEN [m[c] EXCEPT !.type = type] ELSE m[c]]
(* solve_maze(): forget the marks of an earlier solution and search.       *)
Marked(type) == {c \in Cells : maze[c].type = type}
solve_maze ==
    /\ mpc \in {"boot", "generated", "solved"}
    /\ Command
    /\ IF Marked("SOURCE") = {} \/ Marked("SINK") = {} THEN UNCHANGED <<maze, calls, mpc>>
       ELSE \E start \in Marked("SOURCE") :
              /\ maze' = Mark(maze, Marked("VISITED") \cup Marked("PATH"), "CORRIDOR")
              /\ calls' = <<[c |-> start, i |-> 1]>>
              /\ mpc' = "solve"
    /\ UNCHANGED <<screen, visited, stack>>

dfs_solve ==
    /\ mpc = "solve"
    /\ LET n == Len(calls)
           c == calls[n].c
           next == directions(c)[calls[n].i]
           advanced == [calls EXCEPT ![n].i = @ + 1]
       IN  CASE calls[n].i > 4 ->
                  calls' = SubSeq(calls, 1, n - 1) /\ UNCHANGED <<maze, screen, mpc>>
             [] calls[n].i <= 4 /\ ~CanTry(maze, c, next) ->
                  calls' = advanced /\ UNCHANGED <<maze, screen, mpc>>
             [] calls[n].i <= 4 /\ CanTry(maze, c, next) /\ maze[next].type = "CORRIDOR" ->
                  /\ calls' = Append(advanced, [c |-> next, i |-> 1])
                  /\ maze' = Mark(maze, {next}, "VISITED")
                  /\ UNCHANGED <<screen, mpc>>
             [] OTHER ->
                  /\ calls' = <<>>
                  /\ maze' = Mark(maze, {calls[k].c : k \in 1..n}, "PATH")
                  /\ draw_maze(maze')
                  /\ mpc' = "solved"
    /\ UNCHANGED <<visited, stack, commands>>

display_maze ==
    /\ mpc \in {"boot", "generated", "solved"}
    /\ Command
    /\ draw_maze(maze)
    /\ UNCHANGED <<maze, visited, stack, calls, mpc>>
-----------------------------------------------------------------------------
MInit ==
    /\ maze = [c \in Cells |-> [type |-> "WALL", right_wall |-> 0, bottom_wall |-> 0]]
    /\ screen = [p \in Positions |-> Entry(" ")]
    /\ visited = {} /\ stack = <<>> /\ calls = <<>>
    /\ mpc = "boot" /\ commands = 0

MNext ==
    \/ generate_maze \/ carve \/ generate_end \/ display_maze
    \/ solve_maze \/ dfs_solve
-----------------------------------------------------------------------------
(* While generate_maze() carves, the passages are a tree over the visited  *)
(* cells and the stack is a path in it without a cycle, so the arrays of   *)
(* MAZE_WIDTH * MAZE_HEIGHT entries hold it; a finished maze is a tree     *)
(* over all cells: exactly one way from any cell to any other.             *)
CarvedIsTree ==
    /\ mpc = "carve" =>
         /\ Tree(Open(maze), visited)
         /\ \A i, j \in 1..Len(stack) : i # j => stack[i] # stack[j]
         /\ \A i \in 1..Len(stack) - 1 : can_move_to(maze, stack[i], stack[i + 1])
    /\ mpc \in {"generated", "solved"} => Tree(Open(maze), Cells)

(* solve_maze() finds the SINK ("No solution found!" is never printed),    *)
(* and however often it is repeated the cells marked PATH, with the two    *)
(* ends, are those on the only way from SOURCE to SINK: the ones whose     *)
(* removal cuts the ends off from each other.                              *)
SolveMarksTheWay ==
    /\ mpc = "solve" => calls # <<>>
    /\ mpc = "solved" =>
      \A c \in Cells :
        maze[c].type \in {"PATH", "SOURCE", "SINK"}
        <=> (c \in {Source, Sink} \/ Sink \notin Spread({e \in Open(maze) : c \notin e}, {Source}))

(* The picture agrees with the maze: there is white between two cells      *)
(* exactly where dfs_solve() cannot step, and once it is solved one can    *)
(* walk from S to E on the drawn path.                                     *)
PictureIsMaze ==
    mpc \in {"generated", "solved"} =>
      LET at(c) == <<2 * c[1] + 1, 2 * c[2]>>
          lit == {p \in Positions : p[1] > 0 /\ screen[p].bg \in {"cyan", "green", "red"}}
          steps == {{p, q} : p \in lit, q \in lit}
      IN  /\ \A c \in Cells : \A d \in {RightOf(c), Below(c)} \cap Cells :
               LET mid == <<c[1] + d[1] + 1, c[2] + d[2]>>
               IN  (screen[mid].bg = "white") <=> ~can_move_to(maze, c, d)
          /\ mpc = "solved" =>
               at(Sink) \in Spread({e \in steps : \A p, q \in e :
                                       (p[1] - q[1]) * (p[1] - q[1]) + (p[2] - q[2]) * (p[2] - q[2]) <= 1},
                                   {at(Source)})
=============================================================================
