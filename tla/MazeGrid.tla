------------------------------ MODULE MazeGrid ------------------------------
(***************************************************************************)
(* The cells of a maze, <<y, x>>, and the passages between them.           *)
(***************************************************************************)
EXTENDS Integers, FiniteSets

CONSTANTS MAZE_WIDTH, MAZE_HEIGHT

Cells == (0..MAZE_HEIGHT - 1) \X (0..MAZE_WIDTH - 1)
Source == <<0, 0>>
Sink == <<MAZE_HEIGHT - 1, MAZE_WIDTH - 1>>
RightOf(c) == <<c[1], c[2] + 1>>
Below(c) == <<c[1] + 1, c[2]>>
LeftOf(c) == <<c[1], c[2] - 1>>
Above(c) == <<c[1] - 1, c[2]>>

(* The passages of a maze, as pairs of cells, and what they connect.       *)
Open(m) == {{c, RightOf(c)} : c \in {d \in Cells : m[d].right_wall = 0 /\ RightOf(d) \in Cells}}
           \cup {{c, Below(c)} : c \in {d \in Cells : m[d].bottom_wall = 0 /\ Below(d) \in Cells}}
RECURSIVE Spread(_, _)
Spread(edges, S) ==
    LET T == S \cup UNION {e \in edges : e \cap S # {}}
    IN  IF T = S THEN S ELSE Spread(edges, T)
Tree(edges, nodes) == /\ Cardinality(edges) = Cardinality(nodes) - 1
                      /\ Spread(edges, {Source}) = nodes
=============================================================================
