------------------------------- MODULE Clocks -------------------------------
(***************************************************************************)
(* Waiting by polling a counter that wraps: sleep(), sleep_ms() and the    *)
(* timeout macro poll tick_count; uACPI's stall and sleep poll the time    *)
(* stamp counter, scaled to nanoseconds in a product that wraps.           *)
(*                                                                         *)
(* Both counters count modulo WIDTH (2^32 and 2^64 in the code), so one    *)
(* variable stands for the one that is being polled.                       *)
(***************************************************************************)
EXTENDS Integers

CONSTANTS
    WIDTH,
    TIMER_HZ,           \* ticks in a second
    NANO, FREQ,         \* nanoseconds in a second, cycles in a second
    Delays,             \* arguments of the calls
    MaxGap              \* the poller runs again before the counter moves more

(* A delay fits the counter, and adding it to the scaled counter does not   *)
(* overflow: the longest delay is of seconds, the counters run for weeks.   *)
ASSUME ClockAssumption ==
    /\ {WIDTH, NANO, FREQ} \subseteq Nat \ {0} /\ {TIMER_HZ, MaxGap} \subseteq Nat
    /\ \A d \in Delays : d \in Nat /\ d <= WIDTH /\ d + (WIDTH - 1) \div FREQ < WIDTH

VARIABLES
    now,                \* the counter
    op,                 \* the call in progress, "none" between calls
    start, limit,       \* the counter read on entry; ms, or uACPI's target
    asked,              \* history: what the caller asked for
    el,                 \* history: counts since entry
    gap,                \* counts since the last poll
    condition,          \* of timeout(): what is waited for has come
    result              \* what the call returned, "busy" until it has

clock_vars == <<now, op, start, limit, asked, el, gap, condition, result>>

MaxEl == WIDTH

CInit == /\ now \in 0 .. WIDTH - 1 /\ op = "none" /\ start = 0 /\ limit = 0 /\ asked = 0
         /\ el = 0 /\ gap = 0 /\ condition = FALSE /\ result = "none"

uacpi_kernel_get_nanoseconds_since_boot(c) == ((c * NANO) % WIDTH) \div FREQ

Enter(f, l, a) ==
    /\ op = "none" /\ op' = f
    /\ start' = now /\ limit' = l /\ asked' = a
    /\ el' = 0 /\ gap' = 0 /\ result' = "busy"
    /\ condition' \in IF f = "timeout" THEN BOOLEAN ELSE {FALSE}
    /\ UNCHANGED now

sleep_ms(ms) == Enter("sleep_ms", ms, ms)
\* The one call is sleep(1), so the product does not wrap.
sleep(s) == s * TIMER_HZ < WIDTH - MaxGap /\ Enter("sleep_ms", s * TIMER_HZ, s * TIMER_HZ)
timeout(ms) == Enter("timeout", ms, ms)
uacpi_kernel_stall(d) ==
    Enter("uacpi", (uacpi_kernel_get_nanoseconds_since_boot(now) + d) % WIDTH, d)

\* Mutant: the deadline is computed once and compared with the counter.
Waiting_deadline ==
    CASE op = "sleep_ms" -> now < (start + limit) % WIDTH
      [] op = "timeout" -> ~condition /\ now < (start + limit) % WIDTH
      [] op = "uacpi" -> uacpi_kernel_get_nanoseconds_since_boot(now) < limit
\* The condition of the loops.
Waiting ==
    CASE op = "sleep_ms" -> (now - start) % WIDTH < limit
      [] op = "timeout" -> ~condition /\ (now - start) % WIDTH < limit
      [] op = "uacpi" -> uacpi_kernel_get_nanoseconds_since_boot(now) < limit

\* The loop ends, and timeout() evaluates its condition once more.
poll ==
    /\ \/ result = "busy" /\ result' = IF Waiting THEN "busy" ELSE "over"
       \/ result = "over" /\ result' = IF op = "timeout" /\ ~condition THEN "late" ELSE "ok"
    /\ gap' = 0
    /\ UNCHANGED <<now, op, start, limit, asked, el, condition>>

leave ==
    /\ result \in {"ok", "late"} /\ result' = "none" /\ op' = "none"
    /\ start' = 0 /\ limit' = 0 /\ asked' = 0 /\ el' = 0 /\ condition' = FALSE
    /\ UNCHANGED <<now, gap>>

\* timer_interrupt_handler(), or the CPU's clock.
count ==
    /\ now' = (now + 1) % WIDTH
    /\ IF result \in {"busy", "over"} THEN gap < MaxGap /\ gap' = gap + 1 ELSE gap' = 0
    /\ el' = IF op = "none" \/ el = MaxEl THEN el ELSE el + 1
    /\ UNCHANGED <<op, start, limit, asked, condition, result>>

\* The device answers; what has come stays until the driver takes it.
answer ==
    /\ op = "timeout" /\ result \in {"busy", "over"} /\ ~condition /\ condition' = TRUE
    /\ UNCHANGED <<now, op, start, limit, asked, el, gap, result>>

CNext == \/ \E d \in Delays : sleep_ms(d) \/ sleep(d) \/ timeout(d) \/ uacpi_kernel_stall(d)
         \/ poll \/ leave \/ count \/ answer

CSpec == CInit /\ [][CNext]_clock_vars

(* Interrupts are on and the loops make no other call: both go on for ever. *)
ClockFairness == WF_clock_vars(poll) /\ WF_clock_vars(count)
-----------------------------------------------------------------------------
\* No wait ends early, wherever in its range the counter starts: a sleep has
\* taken what was asked (uACPI's to within a nanosecond), and timeout()
\* reports failure only after its time, and with nothing there.
NeverEarly ==
    /\ result = "ok" /\ op = "sleep_ms" => el >= asked
    /\ result = "late" => el >= asked /\ ~condition
    /\ result = "ok" /\ op = "uacpi" => el * NANO > (asked - 1) * FREQ

Due == result = "busy" /\ (op = "uacpi" => limit * FREQ + (MaxGap + 1) * NANO < WIDTH)

\* Every wait ends, unless uACPI's target lies where its scaled clock wraps.
Wakes == Due ~> result \in {"ok", "late"}
=============================================================================
