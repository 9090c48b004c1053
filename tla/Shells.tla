------------------------------- MODULE Shells -------------------------------
(***************************************************************************)
(* The two shells: readline()'s treatment of a key, the x86_64 shell's     *)
(* split at the first space, hush's parser and registry, the hexadecimal   *)
(* numbers of the peek command, and a session at the console.  A string is *)
(* a sequence of characters.                                               *)
(***************************************************************************)
EXTENDS Console, FiniteSetsExt

CONSTANTS COMMAND_NAME_LEN, MAX_ARGS, ARG_LEN, MAX_COMMANDS,
          AddrBits    \* the width of virt_addr_t

iswhitespace(c) == c \in {" ", "\t", "\n", "\r"}

(* Skip(s, P) drops, and Take(s, P, n) keeps, the longest prefix of s (of  *)
(* at most n characters) whose characters all satisfy P.                   *)
Prefix(s, P(_), n) == Max({k \in 0..(IF n < Len(s) THEN n ELSE Len(s)) :
                             \A i \in 1..k : P(s[i])})
Take(s, P(_), n) == SubSeq(s, 1, Prefix(s, P, n))
Drop(s, n) == SubSeq(s, n + 1, Len(s))
Skip(s, P(_)) == Drop(s, Prefix(s, P, Len(s)))

(* parse_and_dispatch() of the x86_64 shell: command and arguments.        *)
IsSpace(c) == c = " "
NotSpace(c) == c # " "
parse_and_dispatch(line) ==
    LET cmd == Take(line, NotSpace, Len(line))
    IN  [cmd |-> cmd, args |-> Skip(Drop(line, Len(cmd)), IsSpace)]

(* parse_command_buffer() of hush: argc is -1 for a blank line; a name or  *)
(* an argument that fills its buffer ends there, and what follows it is    *)
(* the next argument.                                                      *)
NotBlank(c) == ~iswhitespace(c)
NextArg(s) ==
    LET rest == Skip(s.rest, iswhitespace)
        arg == Take(rest, NotBlank, ARG_LEN - 1)
    IN  IF rest = <<>> \/ Len(s.args) >= MAX_ARGS THEN s
        ELSE [args |-> Append(s.args, arg), rest |-> Drop(rest, Len(arg))]
parse_command_buffer(buf) ==
    LET start == Skip(buf, iswhitespace)
        name == Take(start, NotBlank, COMMAND_NAME_LEN - 1)
        parsed == Repeat(NextArg, [args |-> <<>>, rest |-> Drop(start, Len(name))], MAX_ARGS)
    IN  IF start = <<>> THEN [argc |-> -1, name |-> <<>>, args |-> <<>>]
        ELSE [argc |-> Len(parsed.args), name |-> name, args |-> parsed.args]

(* hush_register_command() ignores what does not fit; the lookup compares  *)
(* as far as the typed name goes, and the lengths as far as the buffer.    *)
hush_register_command(registry, name) ==
    IF Len(registry) < MAX_COMMANDS THEN Append(registry, name) ELSE registry
strnlen(s, n) == IF Len(s) < n THEN Len(s) ELSE n
strncmp(s, t, n) == IF Len(s) >= n /\ Len(t) >= n /\ SubSeq(s, 1, n) = SubSeq(t, 1, n) THEN 0 ELSE 1
Matches_prefix(reg, name) == strncmp(reg, name, strnlen(name, COMMAND_NAME_LEN)) = 0
Matches(reg, name) ==
    LET n == strnlen(name, COMMAND_NAME_LEN)
    IN  strncmp(reg, name, n) = 0 /\ strnlen(reg, COMMAND_NAME_LEN) = n
hush_lookup_registry(registry, name) ==
    LET hits == {i \in 1..Len(registry) : Matches(registry[i], name)}
    IN  IF hits = {} THEN <<>> ELSE registry[Min(hits)]

(* hush_execute_command(): what is run, with which arguments.              *)
hush_execute_command(registry, p) ==
    LET command == hush_lookup_registry(registry, p.name)
    IN  CASE p.argc < 0 -> [state |-> "INVALID_COMMAND"]
          [] p.argc >= 0 /\ command = <<>> -> [state |-> "COMMAND_NOT_FOUND"]
          [] OTHER -> [state |-> "OK", command |-> command, argv |-> SubSeq(p.args, 1, p.argc)]

(* parse_hex(): the value, modulo the width, and where it stopped.  The    *)
(* digits 0, 1 and f stand for all of them, and x for either case.         *)
Digit(c) == c \in {"0", "1", "f"}
nibble(c) == CASE c = "0" -> 0 [] c = "1" -> 1 [] c = "f" -> 15
parse_hex(s) ==
    LET digits == IF Len(s) > 1 /\ s[1] = "0" /\ s[2] = "x" THEN Drop(s, 2) ELSE s
        n == Prefix(digits, Digit, Len(digits))
    IN  [val |-> For(LAMBDA v, i : (v * 16 + nibble(digits[i])) % 2^AddrBits, 0, 1, n),
         end |-> Drop(digits, n)]

(* cmd_peek(): the range it dumps, in rows of 16 bytes, or how to use it.  *)
Clamp(len) == IF len = 0 \/ len > 512 THEN 64 ELSE len
cmd_peek(args) ==
    LET a == parse_hex(args)
        rest == Skip(a.end, IsSpace)
    IN  IF args = <<>> THEN [usage |-> TRUE]
        ELSE [addr |-> a.val, len |-> IF rest = <<>> THEN 64 ELSE Clamp(parse_hex(rest).val)]
PeekRows(r) == (r.len + 15) \div 16
-----------------------------------------------------------------------------
(* A user at one of the two shells: readline() edits a line and echoes it  *)
(* to the console, Enter runs the command, which prints, and the shell     *)
(* prompts again.  One character stands for each message it prints.        *)
CONSTANTS TypedKeys,    \* the characters of the KEY_EVENT_DOWN events
          BufferSize,   \* SHELL_BUFFER_SIZE, MAX_COMMAND_LEN
          MaxKeys       \* bound: the keys typed

VARIABLES shell,       \* which shell runs
          screen,      \* the console
          buf,         \* readline()'s buf up to pos
          typed        \* how many keys have been typed

lvars == <<shell, screen, buf, typed>>

Prompt == <<">">>
Registry == For(LAMBDA reg, i : hush_register_command(reg, <<<<"h">>, <<"e">>, <<"c">>>>[i]),
                <<>>, 1, 3)
Joined(argv) == IF argv = <<>> THEN <<>>
                ELSE For(LAMBDA s, i : s \o <<" ">> \o argv[i], argv[1], 2, Len(argv))

(* What the command in buf prints; "clear" stands apart.                   *)
ShellPrints(cmd, args) ==
    CASE cmd = <<"e">> -> args \o <<"\n">>
      [] cmd = <<"h">> -> <<"H", "\n">>
      [] OTHER -> <<"?">> \o cmd \o <<"\n">>
HushPrints(r) ==
    CASE r.state = "INVALID_COMMAND" -> <<"!", "\n">>
      [] r.state = "COMMAND_NOT_FOUND" -> <<"?", "\n">>
      [] r.state = "OK" /\ r.command = <<"e">> -> Joined(r.argv) \o <<"\n">>
      [] OTHER -> <<"H", "\n">>
Cleared == IF shell = "hush"
           THEN LET r == hush_execute_command(Registry, parse_command_buffer(buf))
                IN  buf # <<>> /\ r.state = "OK" /\ r.command = <<"c">>
           ELSE parse_and_dispatch(buf).cmd = <<"c">>
Printed == CASE buf = <<>> -> <<>>
             [] shell = "hush" /\ buf # <<>> ->
                  HushPrints(hush_execute_command(Registry, parse_command_buffer(buf)))
             [] shell = "shell" /\ buf # <<>> ->
                  LET p == parse_and_dispatch(buf) IN ShellPrints(p.cmd, p.args)

Type(c) == typed < MaxKeys /\ typed' = typed + 1 /\ c \in TypedKeys /\ UNCHANGED shell

readline_enter ==
    /\ Type("\n")
    /\ buf' = <<>>
    /\ screen' = IF Cleared THEN console_puts(console_clear, Prompt)
                 ELSE console_puts(screen, <<"\n">> \o Printed \o Prompt)

readline_backspace ==
    /\ Type("bs")
    /\ IF buf = <<>> THEN UNCHANGED <<buf, screen>>
       ELSE buf' = SubSeq(buf, 1, Len(buf) - 1) /\ screen' = console_backspace(screen)

readline_char ==
    \E c \in TypedKeys \ {"\n", "bs"} :
      /\ Type(c)
      /\ IF c # "\t" /\ Len(buf) < BufferSize - 1
         THEN buf' = Append(buf, c) /\ screen' = console_putchar(screen, c)
         ELSE UNCHANGED <<buf, screen>>

LInit ==
    /\ shell \in {"shell", "hush"}
    /\ buf = <<>> /\ typed = 0
    /\ screen = console_puts(console_init, Prompt)

LNext == readline_enter \/ readline_backspace \/ readline_char
-----------------------------------------------------------------------------
(* What the user sees is what the shell will read: in reading order the    *)
(* cells before the cursor hold the prompt and the line in the buffer, and *)
(* the cells from the cursor on are empty, however the line was typed,     *)
(* wrapped, scrolled and rubbed out again.                                 *)
EchoIsLine ==
    LET text == Prompt \o buf
        end == screen.row * max_cols + screen.col
    IN  /\ end >= Len(text)
        /\ \A r \in 0..max_rows - 1, x \in Xs, k \in 0..cell_h - 1 :
             LET i == r * max_cols + x - (end - Len(text)) + 1
             IN  i > 0 => screen.pix[r * cell_h + k][x] =
                            IF i <= Len(text) THEN Glyph(text[i], k) ELSE Background
-----------------------------------------------------------------------------
(* Every line of a few characters given to the two shells' parsers, hush's *)
(* registry and peek: one step is one call, and then the call has its      *)
(* answer.                                                                 *)
CONSTANTS Letters, MaxLine,    \* the characters of a line, and its length
          Names,               \* the names hush_init() registers, in order
          HexChars, MaxHex     \* the characters of peek's arguments, and their length

VARIABLES call, line, answer

cvars == <<call, line, answer>>

Blanks == {" ", "\t"}
StringsUpTo(S, n) == UNION {[1..k -> S] : k \in 0..n}
HushRegistry == For(LAMBDA reg, i : hush_register_command(reg, Names[i]), <<>>, 1, Len(Names))

CInit ==
    /\ answer = <<>>
    /\ \/ call \in {"shell", "hush"} /\ line \in StringsUpTo(Letters \cup Blanks, MaxLine)
       \/ call = "peek" /\ line \in StringsUpTo(HexChars, MaxHex)
          /\ (line = <<>> \/ line[1] # " ")

call_shell == call = "shell" /\ answer' = <<parse_and_dispatch(line)>>
call_hush ==
    LET p == parse_command_buffer(line)
    IN  call = "hush" /\ answer' = <<p, hush_execute_command(HushRegistry, p)>>
call_peek == call = "peek" /\ answer' = <<cmd_peek(line)>>

CNext == answer = <<>> /\ (call_shell \/ call_hush \/ call_peek) /\ UNCHANGED <<call, line>>

Answered(c) == call = c /\ answer # <<>>
-----------------------------------------------------------------------------
(* Where the pieces of a line begin: a word begins one, and a word too     *)
(* long for its buffer is cut every COMMAND_NAME_LEN - 1 (the first piece) *)
(* or ARG_LEN - 1 characters.                                              *)
Solid == {i \in 1..Len(line) : line[i] \notin Blanks}
WordAt(i) == Max({j \in Solid : j <= i /\ (j = 1 \/ j - 1 \notin Solid)})
FirstWord == WordAt(Min(Solid))
Starts == {i \in Solid :
            LET offset == i - WordAt(i)
                past == offset - (COMMAND_NAME_LEN - 1)
            IN  IF WordAt(i) = FirstWord
                THEN offset = 0 \/ (past >= 0 /\ past % (ARG_LEN - 1) = 0)
                ELSE offset % (ARG_LEN - 1) = 0}
PieceFrom(i) == SubSeq(line, i, Max({j \in Solid : j >= i /\ i..j \subseteq Solid
                                                   /\ Starts \cap (i + 1)..j = {}}))
Piece(k) == PieceFrom(CHOOSE i \in Starts : Cardinality({j \in Starts : j <= i}) = k)

(* hush loses and invents nothing: argv is the pieces of the line after    *)
(* the name, in order, up to MAX_ARGS of them; the x86_64 shell's command  *)
(* and arguments with the spaces between them are the line.                *)
CommandsSplit ==
    /\ Answered("hush") =>
         IF Solid = {} THEN answer[1].argc = -1
         ELSE LET pieces == Cardinality(Starts)
              IN  /\ answer[1].argc = Min({pieces - 1, MAX_ARGS})
                  /\ answer[1].name = Piece(1)
                  /\ answer[1].args = [k \in 1..answer[1].argc |-> Piece(k + 1)]
    /\ Answered("shell") =>
         \E n \in 0..Len(line) :
           /\ line = answer[1].cmd \o [i \in 1..n |-> " "] \o answer[1].args
           /\ \A i \in 1..Len(answer[1].cmd) : answer[1].cmd[i] # " "
           /\ answer[1].args # <<>> => n > 0 /\ answer[1].args[1] # " "

(* hush runs a command only when its whole name is what the parser kept of *)
(* the word typed: a prefix of a registered name runs nothing.             *)
RunsOnlyWhatWasTyped ==
    Answered("hush") /\ answer[2].state = "OK" =>
      /\ answer[2].command = answer[1].name
      /\ \E i \in 1..Len(HushRegistry) : HushRegistry[i] = answer[2].command

(* The place of the first digit of the number at the start of the line,    *)
(* behind a 0x that must be its first two characters, and of its last.     *)
NumberFrom == IF Len(line) > 1 /\ SubSeq(line, 1, 2) = <<"0", "x">> THEN 3 ELSE 1
NumberTo == Max({NumberFrom - 1} \cup {j \in NumberFrom..Len(line) :
                                        \A i \in NumberFrom..j : Digit(line[i])})

(* peek dumps between 1 and 512 bytes, in whole rows that cover them, from *)
(* the number typed, of which an address keeps the low bits; its default   *)
(* is 64 bytes.                                                            *)
PeekInRange ==
    Answered("peek") /\ line # <<>> =>
      /\ answer[1].len \in 1..512
      /\ 16 * PeekRows(answer[1]) - answer[1].len \in 0..15
      /\ answer[1].addr = MapThenSumSet(LAMBDA i : nibble(line[i]) * 16^(NumberTo - i),
                                        NumberFrom..NumberTo) % 2^AddrBits
      /\ NumberTo = Len(line) => answer[1].len = 64
=============================================================================
