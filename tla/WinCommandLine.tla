--------------------------- MODULE WinCommandLine ---------------------------
(***************************************************************************)
(* The command line process_run makes of a program and its arguments on    *)
(* Windows, where a process gets one string and takes it apart itself      *)
(* (libs/extc/process_stubs.c).  The string is written into the buffer of  *)
(* that file: a list of chunks, the last one filled up before a new one is *)
(* taken.  Characters are the quote, the backslash, the space and letters. *)
(***************************************************************************)
EXTENDS Integers, Sequences

CONSTANT Calls        \* the calls of process_run: [cmd, args]

VARIABLE call         \* the call made, with its command line once it is built

Quote == "q"
Backslash == "b"
Space == "s"

-----------------------------------------------------------------------------
(* The buffer: data begins with the chunk taken last.                      *)
InitialBlen == 16
alloc_buffer == [totlen |-> 0, blen |-> InitialBlen, data |-> << >>]

RECURSIVE Grown(_, _)
Grown(totlen, blen) == IF totlen >= 4 * blen THEN Grown(totlen, 2 * blen) ELSE blen

buffer_append_new(b, s) ==
  LET blen == Grown(b.totlen, b.blen)
      chunk == [str |-> s, size |-> IF Len(s) < blen THEN blen ELSE Len(s)]
  IN [b EXCEPT !.blen = blen, !.data = <<chunk>> \o @]

buffer_append_sub(b, s) ==
  IF s = << >> THEN b
  ELSE LET c == [b EXCEPT !.totlen = @ + Len(s)]
       IN IF c.data = << >> THEN buffer_append_new(c, s)
          ELSE LET free == c.data[1].size - Len(c.data[1].str)
                   Filled(part) == [c EXCEPT !.data[1].str = @ \o part]
               IN IF free >= Len(s) THEN Filled(s)
                  ELSE buffer_append_new(Filled(SubSeq(s, 1, free)), SubSeq(s, free + 1, Len(s)))

buffer_append_char(b, c) ==
  LET counted == [b EXCEPT !.totlen = @ + 1]
  IN IF b.data # << >> /\ Len(b.data[1].str) # b.data[1].size
     THEN [counted EXCEPT !.data[1].str = Append(@, c)]
     ELSE buffer_append_new(counted, <<c>>)

(* Written from the end backwards, so a wrong total moves or cuts it.      *)
RECURSIVE Chunks(_)
Chunks(data) == IF data = << >> THEN << >> ELSE Chunks(Tail(data)) \o Head(data).str

buffer_to_string(b) ==
  LET text == Chunks(b.data)
  IN IF Len(text) = b.totlen THEN text ELSE <<"overrun">>

-----------------------------------------------------------------------------
(* One argument: backslashes are held back until it is known whether a     *)
(* quote follows them; then each is doubled.                               *)
RECURSIVE AppendBackslashes(_, _)
AppendBackslashes(b, n) ==
  IF n = 0 THEN b ELSE AppendBackslashes(buffer_append_char(b, Backslash), n - 1)

\* Mutant of QuotedChar: backslashes before a quote are not doubled.
QuotedCharOnce(b, bs_count, c) ==
  CASE c = Quote -> <<buffer_append_sub(AppendBackslashes(b, bs_count), <<Backslash, Quote>>), 0>>
    [] c = Backslash -> <<b, bs_count + 1>>
    [] OTHER -> <<buffer_append_char(AppendBackslashes(b, bs_count), c), 0>>

QuotedChar(b, bs_count, c) ==
  CASE c = Quote -> <<buffer_append_sub(AppendBackslashes(b, bs_count * 2), <<Backslash, Quote>>), 0>>
    [] c = Backslash -> <<b, bs_count + 1>>
    [] OTHER -> <<buffer_append_char(AppendBackslashes(b, bs_count), c), 0>>

RECURSIVE QuotedChars(_, _, _)
QuotedChars(b, bs_count, v) ==
  IF v = << >> THEN AppendBackslashes(b, bs_count * 2)
  ELSE LET step == QuotedChar(b, bs_count, Head(v))
       IN QuotedChars(step[1], step[2], Tail(v))

QuotedArgument(b, v) ==
  buffer_append_char(QuotedChars(buffer_append_sub(b, <<Space, Quote>>), 0, v), Quote)

QuotedCommand(cmd) ==
  buffer_append_char(buffer_append_sub(buffer_append_char(alloc_buffer, Quote), cmd), Quote)

RECURSIVE QuotedArguments(_, _)
QuotedArguments(b, args) ==
  IF args = << >> THEN b ELSE QuotedArguments(QuotedArgument(b, Head(args)), Tail(args))

CommandLine(cmd, args) == buffer_to_string(QuotedArguments(QuotedCommand(cmd), args))

NoLine == << >>

CallRun == \E c \in Calls : call = [cmd |-> c.cmd, args |-> c.args, line |-> NoLine]

BuildCommandLine ==
  /\ call.line = NoLine
  /\ call' = [call EXCEPT !.line = CommandLine(call.cmd, call.args)]

-----------------------------------------------------------------------------
(* What the program started makes of it, as Windows documents it: the      *)
(* program is up to the next quote; later 2n backslashes before a quote    *)
(* are n of them and the quote opens or closes, 2n + 1 are n of them and a *)
(* quote of the argument; other backslashes stand for themselves.          *)
Times(n, c) == [i \in 1 .. n |-> c]

RECURSIVE ProgramEnd(_, _)
ProgramEnd(line, i) == IF i > Len(line) \/ line[i] = Quote THEN i ELSE ProgramEnd(line, i + 1)

RECURSIVE BackslashesAt(_, _)
BackslashesAt(line, i) ==
  IF i <= Len(line) /\ line[i] = Backslash THEN 1 + BackslashesAt(line, i + 1) ELSE 0

RECURSIVE Parse(_, _, _, _, _)
Parse(line, i, inQuotes, inArgument, args) ==
  LET Add(s) == [args EXCEPT ![Len(args)] = @ \o s]
      n == BackslashesAt(line, i)
  IN IF i > Len(line) THEN args
     ELSE IF line[i] = Space /\ ~inQuotes THEN Parse(line, i + 1, FALSE, FALSE, args)
     ELSE IF ~inArgument THEN Parse(line, i, inQuotes, TRUE, Append(args, << >>))
     ELSE IF n > 0 /\ i + n <= Len(line) /\ line[i + n] = Quote
     THEN IF n % 2 = 0
          THEN Parse(line, i + n + 1, ~inQuotes, TRUE, Add(Times(n \div 2, Backslash)))
          ELSE Parse(line, i + n + 1, inQuotes, TRUE, Add(Append(Times(n \div 2, Backslash), Quote)))
     ELSE IF n > 0 THEN Parse(line, i + n, inQuotes, TRUE, Add(Times(n, Backslash)))
     ELSE IF line[i] = Quote THEN Parse(line, i + 1, ~inQuotes, TRUE, args)
     ELSE Parse(line, i + 1, inQuotes, TRUE, Add(<<line[i]>>))

Argv(line) ==
  LET end == ProgramEnd(line, 2)
  IN <<SubSeq(line, 2, end - 1)>> \o Parse(line, end + 1, FALSE, FALSE, << >>)

(* process_run (process_stubs.c:252): "When args is not null, cmd and args *)
(* will be auto-quoted/escaped".  The program gets the command and the     *)
(* arguments it was given.                                                 *)
CommandArrives ==
  call.line # NoLine => Argv(call.line) = <<call.cmd>> \o call.args

(* So it does when the command has no quote, whatever quotes, backslashes  *)
(* and spaces the arguments have, whatever spaces and backslashes the      *)
(* command has, and wherever the chunks of the buffer end.  (The command   *)
(* is put between quotes and not escaped, process_stubs.c:288-290: one of  *)
(* its own ends it.)                                                       *)
ArgumentsArrive ==
  (\A i \in DOMAIN call.cmd : call.cmd[i] # Quote) => CommandArrives
=============================================================================
