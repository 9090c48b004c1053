-------------------------------- MODULE Pong --------------------------------
(***************************************************************************)
(* The pong game: one action is one turn of pong_start()'s frame loop.     *)
(* Speeds are pixels per second and a tick is a millisecond, as in the     *)
(* code.  A frame may be slow, and the process may be preempted between    *)
(* reading the clock for the frame and reading it again for each event.    *)
(***************************************************************************)
EXTENDS Integers, FiniteSets

CONSTANTS screen_width, screen_height, PADDLE_WIDTH, PADDLE_HEIGHT, BALL_RADIUS,
          PLAYER_SPEED, EVENT_DEBOUNCE_TICKS, PONG_FRAME_MS, PONG_WIN_SCORE,
          TickBits,      \* the width of timer_ticks()
          StartTicks,    \* the tick at which the game starts,
          PastEvent,     \* and that of the last event of the game before,
          PastRows,      \* which may have left the paddles in one of these rows
          Serves,        \* the speeds rand_range() may return
          KeySets,       \* the sets of keys that may be down in a frame
          Frames, Lags,  \* how long a frame may last; ticks until its events
          MaxFrames      \* bound: the frames played

VARIABLES player1, player2, ball, score, ticks, last, last_event,
          serves, stuck, frames

pvars == <<player1, player2, ball, score, ticks, last, last_event, serves, stuck, frames>>

abs(n) == IF n < 0 THEN -n ELSE n
Quot(a, b) == IF a < 0 THEN -((-a) \div b) ELSE a \div b    \* C division
Since(now, then) == (now - then) % 2^TickBits

(* The screen has room for the ball between the paddles and the walls, the *)
(* debounce is no longer than a frame, and the game is over before the     *)
(* clock has gone round since the last event.                              *)
ASSUME PongAssumption ==
    /\ {screen_width, screen_height, PADDLE_WIDTH, PADDLE_HEIGHT, BALL_RADIUS, MaxFrames,
        EVENT_DEBOUNCE_TICKS, PONG_FRAME_MS} \subseteq Nat
    /\ screen_width > 2 * PADDLE_WIDTH + 2 * BALL_RADIUS + 1
    /\ screen_height > BALL_RADIUS + 1
    /\ PLAYER_SPEED \in Int /\ PastRows \subseteq Int /\ Serves \subseteq Int /\ Frames \cup Lags \subseteq Nat
    /\ EVENT_DEBOUNCE_TICKS <= PONG_FRAME_MS
    /\ {2^TickBits, 2^TickBits - StartTicks, 2^TickBits - PastEvent} \subseteq Nat \ {0}
    /\ {StartTicks, PastEvent} \subseteq Nat
    /\ \E long \in Frames : /\ \A length \in Frames : length <= long
                             /\ Since(StartTicks, PastEvent) + (MaxFrames + 1) * long < 2^TickBits

Middle == screen_height \div 2 - PADDLE_HEIGHT \div 2
Paddle(x, y) == [x |-> x, y |-> y, width |-> PADDLE_WIDTH, height |-> PADDLE_HEIGHT,
                 vel_x |-> 0, vel_y |-> 0]
reset(b, vx, vy) == [b EXCEPT !.x = screen_width \div 2 - b.width \div 2,
                              !.y = screen_height \div 2 - b.height \div 2,
                              !.vel_x = vx, !.vel_y = vy]
Ball == [x |-> 0, y |-> 0, width |-> BALL_RADIUS, height |-> BALL_RADIUS, vel_x |-> 0, vel_y |-> 0]

(* pong_init(), and the beginning of pong_start(): it serves a new ball    *)
(* and leaves the paddles where they are.                                  *)
PInit ==
    /\ \E y1, y2 \in {Middle} \cup PastRows :
         player1 = Paddle(0, y1) /\ player2 = Paddle(screen_width - PADDLE_WIDTH, y2)
    /\ \E vx, vy \in Serves : ball = reset(Ball, vx, vy)
    /\ score = <<0, 0>> /\ serves = 1
    /\ ticks = StartTicks /\ last = StartTicks /\ last_event = PastEvent
    /\ stuck = 0 /\ frames = 0

Velocity(keys, up, down) == IF down \in keys THEN PLAYER_SPEED
                            ELSE IF up \in keys THEN -PLAYER_SPEED ELSE 0
pong_handle_input(p, keys, up, down) == [p EXCEPT !.vel_y = Velocity(keys, up, down)]

rects_overlap(a, b) == /\ a.x < b.x + b.width /\ a.x + a.width > b.x
                       /\ a.y < b.y + b.height /\ a.y + a.height > b.y
AtWall(b) == b.y <= 0 \/ b.y + b.height >= screen_height

(* The handlers work on s = [ball, event, score, serves, hits]; the three  *)
(* kinds of event share last_event.  hits is history: the hits of paddles  *)
(* that were taken in the frame.                                           *)
Debounced(s, now) == Since(now, s.event) >= EVENT_DEBOUNCE_TICKS
\* Mutant: the speed is turned round whichever way the ball flies.
on_wall_hit_flip(s, now) ==
    IF Debounced(s, now) THEN [s EXCEPT !.event = now, !.ball.vel_y = -@] ELSE s
pong_on_wall_hit(s, now) ==
    IF ~Debounced(s, now) THEN s
    ELSE [s EXCEPT !.event = now, !.ball.vel_y = IF s.ball.y <= 0 THEN abs(@) ELSE -abs(@)]
pong_on_player_hit(s, paddle, now) ==
    IF ~Debounced(s, now) THEN s
    ELSE [s EXCEPT !.event = now, !.hits = @ + 1,
                   !.ball.vel_x = IF paddle.x < screen_width \div 2 THEN abs(@) ELSE -abs(@),
                   !.ball.vel_y = @ + Quot(paddle.vel_y, 2)]
\* Mutant: the ball is left where it is.
on_score_keep(s, player, vx, vy, now) ==
    IF ~Debounced(s, now) THEN s
    ELSE [s EXCEPT !.event = now, !.score[player] = @ + 1]
pong_on_score(s, player, vx, vy, now) ==
    IF ~Debounced(s, now) THEN s
    ELSE [s EXCEPT !.event = now, !.score[player] = @ + 1,
                   !.ball = reset(@, vx, vy), !.serves = @ + 1]

Moved(o, delta) == [o EXCEPT !.x = @ + Quot(o.vel_x * delta, 1000),
                             !.y = @ + Quot(o.vel_y * delta, 1000)]
(* now[i] is what the i-th handler reads from timer_ticks(); only one of   *)
(* the two calls for a score is ever made.                                 *)
pong_update(p1, p2, b, vx, vy, now) ==
    LET s0 == [ball |-> b, event |-> last_event, score |-> score, serves |-> serves, hits |-> 0]
        s1 == IF AtWall(b) THEN pong_on_wall_hit(s0, now[1]) ELSE s0
        s2 == IF rects_overlap(s1.ball, p1) THEN pong_on_player_hit(s1, p1, now[2]) ELSE s1
        s3 == IF rects_overlap(s2.ball, p2) THEN pong_on_player_hit(s2, p2, now[3]) ELSE s2
        s4 == IF s3.ball.x + s3.ball.width <= 0 THEN pong_on_score(s3, 1, vx, vy, now[4]) ELSE s3
    IN  IF s4.ball.x - s4.ball.width >= screen_width THEN pong_on_score(s4, 2, vx, vy, now[4]) ELSE s4

(* Where the ball still flies into what it has hit.                        *)
Unturned(b, p1, p2) ==
    \/ b.y <= 0 /\ b.vel_y < 0
    \/ b.y + b.height >= screen_height /\ b.vel_y > 0
    \/ ~AtWall(b) /\ rects_overlap(b, p1) /\ b.vel_x < 0
    \/ ~AtWall(b) /\ rects_overlap(b, p2) /\ b.vel_x > 0

(* The ticks at which the handlers of a frame read the clock, in order.    *)
Readings(length) ==
    {lag \in [1..4 -> Lags] : lag[1] <= lag[2] /\ lag[2] <= lag[3] /\ lag[3] <= lag[4]
                             /\ lag[4] <= length}

(* One turn of the loop, with the keys down, the length of the frame, the  *)
(* clock readings and the speeds rand_range() returns.                     *)
play(keys, length, lag, vx, vy) ==
    LET delta == Since(ticks, last)
        p1 == Moved(pong_handle_input(player1, keys, "w", "s"), delta)
        p2 == Moved(pong_handle_input(player2, keys, "up", "down"), delta)
        moved == Moved(ball, delta)
        now == [i \in 1..4 |-> (ticks + lag[i]) % 2^TickBits]
        s == pong_update(p1, p2, moved, vx, vy, now)
    IN  /\ length >= PONG_FRAME_MS
        /\ player1' = p1 /\ player2' = p2
        /\ ball' = s.ball /\ score' = s.score /\ last_event' = s.event /\ serves' = s.serves
        /\ stuck' = IF Unturned(s.ball, p1, p2) /\ ~(AtWall(moved) /\ s.hits > 0)
                    THEN stuck + 1 ELSE 0
        /\ last' = ticks /\ ticks' = (ticks + length) % 2^TickBits

pong_frame ==
    /\ score[1] < PONG_WIN_SCORE /\ score[2] < PONG_WIN_SCORE
    /\ frames < MaxFrames /\ frames' = frames + 1
    /\ \E keys \in KeySets, length \in Frames, vx, vy \in Serves : \E lag \in Readings(length) :
         play(keys, length, lag, vx, vy)

PSpec == PInit /\ [][pong_frame]_pvars
-----------------------------------------------------------------------------
(* gfx_fill_rect(): the pixels x0..x1 of the rows y0..y1, if any.          *)
Least(a, b) == IF a < b THEN a ELSE b
Most(a, b) == IF a > b THEN a ELSE b
gfx_fill_rect(x0, y0, x1, y1) ==
    LET r == [x0 |-> Most(x0, 0), y0 |-> Most(y0, 0),
              x1 |-> Least(x1, screen_width - 1), y1 |-> Least(y1, screen_height - 1)]
    IN  IF r.x0 > r.x1 \/ r.y0 > r.y1 THEN {} ELSE {r}

(* pong_draw(): every rectangle it fills; a digit is up to 5 by 7 squares. *)
FONT_SCALE == 4
NET_WIDTH == 15
NET_HEIGHT == screen_height \div 20
draw_obj(o) == gfx_fill_rect(o.x, o.y, o.x + o.width, o.y + o.height)
draw_score(x, y) ==
    UNION {gfx_fill_rect(x + col * FONT_SCALE, y + row * FONT_SCALE,
                         x + (col + 1) * FONT_SCALE, y + (row + 1) * FONT_SCALE) :
             row \in 0..6, col \in 0..4}
draw_net ==
    UNION {gfx_fill_rect(screen_width \div 2 - NET_WIDTH \div 2, i,
                         screen_width \div 2 + NET_WIDTH \div 2, i + NET_HEIGHT) :
             i \in {j \in 0..screen_height - 1 : j % (2 * NET_HEIGHT) = 0}}
pong_draw ==
    draw_obj(player1) \cup draw_obj(player2) \cup draw_obj(ball) \cup draw_net
      \cup draw_score(screen_width \div 4 - (5 * FONT_SCALE) \div 2, 20)
      \cup draw_score((3 * screen_width) \div 4 - (5 * FONT_SCALE) \div 2, 20)
-----------------------------------------------------------------------------
(* However slow the frames and late the events, the ball flies on into a   *)
(* wall, or away from a wall into a paddle, for at most one frame: the     *)
(* event that the debounce swallows is taken up in the next.  (Only a      *)
(* paddle hit taken at a wall, which may add more to the ball's speed than *)
(* the wall turned round, starts the count again.)                         *)
BallTurnsBack == stuck <= 1

(* A point is scored once for a serve and only for a ball that is out: the *)
(* next serve starts from the middle, and until then no score changes.     *)
PointPerServe ==
    [][score' # score =>
         /\ \E p \in {1, 2} : score' = [score EXCEPT ![p] = @ + 1]
         /\ serves' = serves + 1
         /\ ball'.x = screen_width \div 2 - BALL_RADIUS \div 2
         /\ ball'.y = screen_height \div 2 - BALL_RADIUS \div 2]_pvars

(* The paddles and the ball may leave the screen; what is drawn of them    *)
(* stays inside the frame buffer.                                          *)
DrawnInside ==
    \A r \in pong_draw : r.x0 >= 0 /\ r.y0 >= 0 /\ r.x1 < screen_width /\ r.y1 < screen_height

(* What has been drawn, after each frame, and how the ball flies.          *)
PongInside == frames > 0 => BallTurnsBack /\ DrawnInside
=============================================================================
