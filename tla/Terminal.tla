------------------------------ MODULE Terminal ------------------------------
(***************************************************************************)
(* What the kernel shows and reads: the kernel log, the two shells, the    *)
(* text terminals, the maze and pong.  They share no state that a property *)
(* is about, so a behaviour is one session of one of them.                 *)
(***************************************************************************)
EXTENDS Console, Shells, Pong

CONSTANTS MAZE_WIDTH, MAZE_HEIGHT, DISPLAY_WIDTH, DISPLAY_HEIGHT, MaxCommands,
          EllerSize, MaxGenerated,
          VGA_WIDTH, VGA_HEIGHT, Chars, Decimals, MaxText

VARIABLES session,
          maze, picture, visited, stack, calls, mpc, commands,
          grid, step, generated,
          arch, term, text

Mz == INSTANCE Maze WITH screen <- picture
El == INSTANCE MazeEller WITH MAZE_WIDTH <- EllerSize, MAZE_HEIGHT <- EllerSize
Tt == INSTANCE Tty

mazevars == <<maze, picture, visited, stack, calls, mpc, commands>>
ellervars == <<grid, step, generated>>
ttyvars == <<arch, term, text>>

vars == <<session, kvars, lvars, cvars, mazevars, ellervars, ttyvars, pvars>>

(* What is not in session is in one of its initial states.                 *)
Idle ==
    /\ session # "printk" => cpu = CHOOSE p \in Printers : TRUE
    /\ session # "line" => shell = "hush"
    /\ session # "tty" => arch = "i386"
    /\ session # "pong" => /\ ball.vel_x = ball.vel_y /\ \A v \in Serves : v <= ball.vel_x
                           /\ player1.y = Middle /\ player2.y = Middle

Init ==
    /\ session \in {"printk", "line", "calls", "maze", "eller", "tty", "pong"}
    /\ KInit /\ LInit /\ Mz!MInit /\ El!EInit /\ Tt!TInit /\ PInit
    /\ Idle
    /\ IF session = "calls" THEN CInit ELSE call = "none" /\ line = <<>> /\ answer = <<>>

Next ==
    /\ UNCHANGED session
    /\ \/ session = "printk" /\ KNext
          /\ UNCHANGED <<lvars, cvars, mazevars, ellervars, ttyvars, pvars>>
       \/ session = "line" /\ LNext
          /\ UNCHANGED <<kvars, cvars, mazevars, ellervars, ttyvars, pvars>>
       \/ session = "calls" /\ CNext
          /\ UNCHANGED <<kvars, lvars, mazevars, ellervars, ttyvars, pvars>>
       \/ session = "maze" /\ Mz!MNext
          /\ UNCHANGED <<kvars, lvars, cvars, ellervars, ttyvars, pvars>>
       \/ session = "eller" /\ El!ENext
          /\ UNCHANGED <<kvars, lvars, cvars, mazevars, ttyvars, pvars>>
       \/ session = "tty" /\ Tt!TNext
          /\ UNCHANGED <<kvars, lvars, cvars, mazevars, ellervars, pvars>>
       \/ session = "pong" /\ pong_frame
          /\ UNCHANGED <<kvars, lvars, cvars, mazevars, ellervars, ttyvars>>

Spec == Init /\ [][Next]_vars
-----------------------------------------------------------------------------
\* What is logged is what is seen: the console shows the text of the
\* messages, whoever prints and wherever the tick falls, the serial port is
\* never overrun, and the colours are restored behind each message.
LogIsText == session = "printk" => ConsoleIsText /\ SerialNeverOverruns /\ ColoursRestored

\* A shell runs what was typed: the parsers lose and invent nothing of a
\* line, hush runs a command only under its whole name, and peek stays
\* within the length it allows.
ShellsObey == session = "calls" => CommandsSplit /\ RunsOnlyWhatWasTyped /\ PeekInRange

\* Both generators make spanning trees (Eller's the first time), the solver
\* marks exactly the way from SOURCE to SINK, and draw_maze() shows the maze,
\* through any sequence of the commands.
MazesRight ==
    /\ session = "maze" => Mz!CarvedIsTree /\ Mz!SolveMarksTheWay /\ Mz!PictureIsMaze
    /\ session = "eller" => El!EllerIsTree

\* The i386 terminal shows the last lines of the text; the x86_64 terminal
\* starts again at the top, over what it shows there.
TerminalsShowText == session = "tty" => Tt!TtyIsText /\ Tt!TtyGoesRound
=============================================================================
