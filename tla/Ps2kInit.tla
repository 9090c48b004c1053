------------------------------ MODULE Ps2kInit ------------------------------
(***************************************************************************)
(* The initialisation of the PS/2 keyboard against its controller:         *)
(* init_ps2k_driver() (arch/x86_64/drivers/ps2k.c), init_ps2_controller()  *)
(* (drivers/keyboard/keyboard.c) and its older copy under arch/i386.       *)
(* Five commands are sent one after the other; each waits for its answer   *)
(* a bounded time and is skipped when none comes, so a late answer is read *)
(* by a later command.                                                     *)
(*                                                                         *)
(* The controller is external.  Answers it owes arrive in order in an      *)
(* output buffer, at any time; it may give a wrong answer or none.         *)
(***************************************************************************)
EXTENDS Integers, Sequences

CONSTANT Stale  \* bytes that may be left in the output buffer at boot

VARIABLES
  source,       \* whose code runs: "ps2k", "keyboard" or "i386"
  stage,        \* the command being executed
  waiting,      \* it has been sent and its answer is awaited
  config,       \* the configuration byte written back, or "none"
  outcome,      \* "running", "ready", "panic" or "halted"
  owed,         \* controller: answers not in the output buffer yet
  obuf,         \* controller: the output buffer
  faulty,       \* history: an answer was wrong or missing
  timed_out     \* history: the stages whose wait ended without an answer

ctl_vars == <<source, stage, waiting, config, outcome, owed, obuf, faulty, timed_out>>

Stages == <<"disable", "config", "selftest", "porttest", "reset", "bat", "scan">>
Asking == {"config", "selftest", "porttest", "reset", "scan"}
Bytes == {"cfg", "55", "00", "FA", "AA", "bad"}

CtlTypeOK ==
  /\ source \in {"ps2k", "keyboard", "i386"}
  /\ stage \in 1 .. Len(Stages)
  /\ waiting \in BOOLEAN
  /\ config \in Bytes \cup Stale \cup {"none"}
  /\ outcome \in {"running", "ready", "panic", "halted"}
  /\ owed \in Seq(Bytes) /\ obuf \in Seq(Bytes \cup Stale)
  /\ faulty \in BOOLEAN
  /\ timed_out \subseteq {Stages[i] : i \in 1 .. Len(Stages)}

CtlInit ==
  /\ source \in {"ps2k", "keyboard", "i386"}
  /\ stage = 1 /\ waiting = FALSE
  /\ config = "none"
  /\ outcome = "running"
  /\ owed = << >>
  /\ obuf \in {<< >>} \cup {<<b>> : b \in Stale}
  /\ faulty = FALSE /\ timed_out = {}

-----------------------------------------------------------------------------
(* What a working controller answers; the reset is answered twice.         *)
Answer(s) ==
  CASE s = "config" -> <<"cfg">>
    [] s = "selftest" -> <<"55">>
    [] s = "porttest" -> <<"00">>
    [] s = "reset" -> <<"FA", "AA">>
    [] s = "scan" -> <<"FA">>

(* Mutant: the self-test result is taken for another acknowledgement.      *)
Accepted_ack_twice(s, b) ==
  CASE s \in {"config", "porttest"} -> TRUE
    [] s = "selftest" -> b = "55"
    [] s \in {"reset", "bat", "scan"} -> b = "FA"

(* The answers that let the driver go on: the configuration byte is taken  *)
(* as it comes and a failed port test is only logged.                      *)
Accepted(s, b) ==
  CASE s \in {"config", "porttest"} -> TRUE
    [] s = "selftest" -> b = "55"
    [] s \in {"reset", "scan"} -> b = "FA"
    [] s = "bat" -> b = "AA"

Current == Stages[stage]

(* The stage after this one; an unanswered reset has no self-test result.  *)
Advance(answered) ==
  LET skip == IF Current = "reset" /\ ~answered THEN 2 ELSE 1 IN
    IF stage + skip > Len(Stages)
    THEN outcome' = "ready" /\ stage' = stage
    ELSE outcome' = outcome /\ stage' = stage + skip

(* Disable both ports and flush the output buffer.                         *)
disable_ports ==
  /\ outcome = "running" /\ Current = "disable"
  /\ obuf' = IF obuf = << >> THEN obuf ELSE Tail(obuf)
  /\ Advance(TRUE)
  /\ UNCHANGED <<source, waiting, config, owed, faulty, timed_out>>

send_command ==
  /\ outcome = "running" /\ ~waiting
  /\ \/ /\ Current \in Asking
        /\ \/ owed' = owed \o Answer(Current) /\ UNCHANGED faulty
           \/ owed' \in {owed, owed \o <<"bad">>} /\ faulty' = TRUE
     \/ Current = "bat" /\ UNCHANGED <<owed, faulty>>
  /\ waiting' = TRUE
  /\ UNCHANGED <<source, stage, config, outcome, obuf, timed_out>>

(* wait_for_kbd_output() sees a byte: read it; a wrong one is fatal.       *)
read_answer(fatal) ==
  /\ outcome = "running" /\ waiting /\ obuf # << >>
  /\ obuf' = Tail(obuf)
  /\ waiting' = FALSE
  /\ config' = IF Current = "config" THEN Head(obuf) ELSE config
  /\ IF Accepted(Current, Head(obuf))
     THEN Advance(TRUE)
     ELSE outcome' = fatal /\ stage' = stage
  /\ UNCHANGED <<source, owed, faulty, timed_out>>

(* It gives up: the command is skipped.                                    *)
give_up ==
  /\ outcome = "running" /\ waiting /\ obuf = << >>
  /\ waiting' = FALSE
  /\ timed_out' = timed_out \cup {Current}
  /\ Advance(FALSE)
  /\ UNCHANGED <<source, config, owed, obuf, faulty>>

ctl_answer ==
  /\ owed # << >>
  /\ obuf' = Append(obuf, Head(owed))
  /\ owed' = Tail(owed)
  /\ UNCHANGED <<source, stage, waiting, config, outcome, faulty, timed_out>>

finished ==
  /\ outcome # "running" /\ owed = << >>
  /\ UNCHANGED ctl_vars

Steps(fatal) == disable_ports \/ send_command \/ read_answer(fatal) \/ give_up

(* The same steps in the three drivers, but for how they fail.             *)
init_ps2k_driver == source = "ps2k" /\ Steps("panic")

init_ps2_controller == source = "keyboard" /\ Steps("halted")

init_ps2_controller_i386 == source = "i386" /\ Steps("halted")

Driver == init_ps2k_driver \/ init_ps2_controller \/ init_ps2_controller_i386

CtlNext == Driver \/ ctl_answer \/ finished

(* The driver executes; the controller need not answer.                    *)
CtlSpec == CtlInit /\ [][CtlNext]_ctl_vars /\ WF_ctl_vars(Driver)

-----------------------------------------------------------------------------
(* Properties                                                              *)

(* Whatever the controller does, the initialisation ends: every wait is    *)
(* bounded (ps2k.c:97-105).                                                *)
Ends == <>(outcome # "running")

(* A failure has a cause: an answer was wrong or missing, or one came      *)
(* after its wait had ended and was taken for the next one's.  In          *)
(* particular a working and prompt controller is always brought up, with   *)
(* every command answered (ps2k.c:191-269, keyboard.c:309-395).            *)
PanicHasACause ==
  /\ outcome \in {"panic", "halted"} => faulty \/ timed_out # {}
  /\ outcome = "ready" /\ ~faulty /\ timed_out = {} => obuf = << >> /\ owed = << >>

(* The configuration byte written back is the one the controller reported: *)
(* nothing left from before the driver took over is mistaken for it        *)
(* (ps2k.c:168-186).                                                       *)
ConfigIsReported == config \in {"none", "cfg"} \/ faulty

(* The initialisation fails only if an answer was wrong, missing or late,  *)
(* and the configuration byte it writes back is the one that was reported. *)
ControllerAnswers == CtlTypeOK /\ PanicHasACause /\ ConfigIsReported
=============================================================================
