------------------------------ MODULE Console ------------------------------
(***************************************************************************)
(* Console (src/src/console.h, src/src/console.cpp): a line editor with a history    *)
(* on a serial terminal, which runs each line as a command in a task of its  *)
(* own.  Its poll takes one byte of input at a time; while a command lives   *)
(* it only looks for ^C.                                                     *)
(***************************************************************************)
EXTENDS Tokens, TLC

CONSTANTS
    Typed,       \* the printable characters that are typed
    Builtins, Commands, \* names in _builtin_cmd_table and in the user's list
    MaxHistory,  \* MAX_HISTORY = 20
    EscapeBuf,   \* elements of _escape_buf, and the longest sequence: 8
    Extra,       \* columns cleared beyond the line by redisplay_cmdline: 5
    RxSize,      \* bytes the input ring holds
    MaxLine,     \* bound: length of a line
    MaxEscape    \* bound: bytes of an escape sequence

ASSUME ConsoleAssumption ==
    /\ MaxHistory \in Nat \ {0} /\ EscapeBuf \in Nat \ {0} /\ Extra \in Nat
    /\ RxSize \in Nat \ {0} /\ MaxLine \in Nat /\ MaxEscape \in Nat \ {0}

VARIABLES
    line, cursor,     \* _cmdline, _cursor_pos
    hist, hidx,       \* _cmd_history, _history_index
    escape, escLen,   \* _escape_state, _escape_len
    args,             \* _args: views of line
    cmd,              \* _cmd_thread: "none", or the life of its task: "starting",
                      \* "running", "stopping" (terminated or out of work), "ended";
                      \* after ~Console "gone", or "null_deref"
    rx,               \* _buf's input
    row, col          \* the terminal: the characters of its last row, and the cursor

consoleVars == <<line, cursor, hist, hidx, escape, escLen, args, cmd, rx, row, col>>
edits == <<line, cursor, hist, hidx, args>>
screen == <<row, col>>

Prompt == <<">", " ">>
Digits == {"3", "5"}
EscapeKeys == {"[", "A", "B", "C", "D", "~"} \cup Digits
Keys == Typed \cup EscapeKeys \cup {"ESC", "BS", "CR", "^C"}

-----------------------------------------------------------------------------
(***************************************************************************)
(* The terminal: characters replace what stands at the cursor; a backspace   *)
(* moves it; a newline begins a new row.                                     *)
(***************************************************************************)
over(r, at, cs) == SubSeq(r, 1, at) \o cs \o SubSeq(r, at + Len(cs) + 1, Len(r))

\* Mutant: one step back is missing.
back_short(at, n) == IF n = 0 \/ n > at THEN at ELSE at - n + 1
back(at, n) == IF n > at THEN 0 ELSE at - n

\* Writes cs from column at, then n backspaces.
puts(at, cs, n) ==
    /\ row' = over(row, at, cs)
    /\ col' = back(at + Len(cs), n)

newline(cs) == row' = cs /\ col' = Len(cs)

-----------------------------------------------------------------------------
(***************************************************************************)
(* Commands.                                                                *)
(***************************************************************************)
find_cmd(name, list) == name \in list
Alive == {"starting", "running", "stopping"} \* is_running()

\* The first visit of the command's task calls its function, with the views.
cmd_init ==
    /\ cmd = "starting"
    /\ LET name == chars(line, args[1])
       IN  IF find_cmd(name, Builtins) \/ find_cmd(name, Commands)
           THEN cmd' = "running" /\ UNCHANGED screen
           ELSE cmd' = "stopping" /\ newline(<<>>)
    /\ UNCHANGED <<edits, escape, escLen, rx>>

\* The command's callbacks write, and may leave a line unfinished (bound: of one
\* character).
cmd_output ==
    /\ cmd = "running" /\ (IF row = <<>> THEN puts(col, <<"o">>, 0) ELSE newline(<<>>))
    /\ UNCHANGED <<edits, escape, escLen, cmd, rx>>

\* It calls Env::exit, or has no callback left.
exit ==
    /\ cmd = "running" /\ cmd' = "stopping"
    /\ UNCHANGED <<edits, escape, escLen, rx, screen>>

\* poll() erases the last node of the task.
cmd_erased ==
    /\ cmd = "stopping" /\ cmd' = "ended"
    /\ UNCHANGED <<edits, escape, escLen, rx, screen>>

-----------------------------------------------------------------------------
(***************************************************************************)
(* History.                                                                 *)
(***************************************************************************)
\* Mutant: only the oldest line is kept from being entered twice.
first_only(h, l) == IF h # <<>> /\ Head(h) = l THEN h ELSE Append(h, l)

add_to_history(h, l) ==
    LET longer == IF h # <<>> /\ Last(h) = l THEN h ELSE Append(h, l)
    IN  IF l = <<>> THEN h ELSE IF Len(longer) > MaxHistory THEN Tail(longer) ELSE longer

\* Blanks over as much as history line i, or the line, would fill; then the prompt and
\* the line again, with the cursor behind it.
redisplay_cmdline(i, l) ==
    LET wide == Len(Prompt) + (IF i >= 0 THEN Len(hist[i + 1]) ELSE Len(l)) + Extra
    IN  /\ row' = over(over(row, 0, [j \in 1..wide |-> " "]), 0, Prompt \o l)
        /\ col' = Len(Prompt) + Len(l)

show_line(i, l) ==
    /\ hidx' = i /\ line' = l /\ cursor' = Len(l)
    /\ redisplay_cmdline(i, l)

nothing == UNCHANGED <<line, cursor, hidx, screen>>

up   == IF hidx = -1 THEN Len(hist) - 1 ELSE hidx - 1
down == IF hidx = -1 THEN Len(hist) + 1 ELSE hidx + 1

\* Upwards from the oldest line, what was made of it stays.
navigate_up ==
    IF hist = <<>> THEN nothing
    ELSE IF up >= 0 THEN show_line(up, hist[up + 1]) ELSE show_line(0, line)
navigate_down ==
    IF hist = <<>> THEN nothing
    ELSE IF down < Len(hist) THEN show_line(down, hist[down + 1]) ELSE show_line(-1, <<>>)

-----------------------------------------------------------------------------
(***************************************************************************)
(* Keys.  Each operator is what one of them does to the line and the screen.*)
(***************************************************************************)
tail == SubSeq(line, cursor + 1, Len(line))


handle_normal_char(c) ==
    /\ line' = InsertAt(line, cursor + 1, c)
    /\ cursor' = cursor + 1
    /\ puts(col, <<c>> \o tail, Len(tail))
    /\ UNCHANGED hidx

delete_backward ==
    IF cursor = 0 THEN nothing
    ELSE /\ line' = RemoveAt(line, cursor)
         /\ cursor' = cursor - 1
         /\ puts(back(col, 1), tail \o <<" ">>, Len(tail) + 1)
         /\ UNCHANGED hidx

delete_forward ==
    IF cursor = Len(line) THEN nothing
    ELSE /\ line' = RemoveAt(line, cursor + 1)
         /\ puts(col, Tail(tail) \o <<" ">>, Len(tail))
         /\ UNCHANGED <<cursor, hidx>>

move_right ==
    IF cursor = Len(line) THEN nothing
    ELSE /\ cursor' = cursor + 1 /\ puts(col, <<line[cursor + 1]>>, 0)
         /\ UNCHANGED <<line, hidx>>

move_left ==
    IF cursor = 0 THEN nothing
    ELSE cursor' = cursor - 1 /\ puts(col, <<>>, 1) /\ UNCHANGED <<line, hidx>>

clear_line == line' = <<>> /\ cursor' = 0

\* An escape sequence: 1 behind ESC, 2 behind "[", 3 behind "[3"; each byte is stored.
handle_escape_sequence(c) ==
    /\ escLen' = escLen + 1
    /\ escape' = CASE escape = 1 /\ c = "["            -> 2
                   [] escape = 2 /\ c \in Digits \ {"3"} -> 2
                   [] escape = 2 /\ c = "3" /\ escLen + 1 < EscapeBuf -> 3
                   [] escape = 3 /\ c # "~" /\ escLen + 1 < EscapeBuf -> 3
                   [] OTHER -> 0
    /\ CASE escape = 2 /\ c = "A" -> navigate_up
         [] escape = 2 /\ c = "B" -> navigate_down
         [] escape = 2 /\ c = "C" -> move_right
         [] escape = 2 /\ c = "D" -> move_left
         [] escape = 3 /\ c = "~" -> delete_forward
         [] OTHER -> nothing
    /\ UNCHANGED <<hist, args, cmd>>

interrupt_line ==
    /\ clear_line /\ hidx' = -1
    /\ newline(Prompt)
    /\ UNCHANGED <<hist, args, cmd, escape, escLen>>

begin_escape ==
    /\ escape' = 1 /\ escLen' = 0
    /\ nothing /\ UNCHANGED <<hist, args, cmd>>

enter_nothing ==
    /\ line = <<>> /\ newline(Prompt)
    /\ UNCHANGED <<edits, cmd, escape, escLen>>

\* A line of blanks gets a new prompt; it is neither cleared nor shown again.
enter ==
    /\ line # <<>>
    /\ hist' = add_to_history(hist, line) /\ hidx' = -1
    /\ args' = tokens(line)
    /\ IF args' # <<>> THEN cmd' = "starting" /\ newline(<<>>)
       ELSE UNCHANGED cmd /\ newline(Prompt)
    /\ UNCHANGED <<line, cursor, escape, escLen>>

handle_key(k) ==
    \/ k = "^C" /\ interrupt_line
    \/ k = "ESC" /\ begin_escape
    \/ k = "CR" /\ (enter_nothing \/ enter)
    \/ k = "BS" /\ delete_backward /\ UNCHANGED <<hist, args, cmd, escape, escLen>>
    \/ /\ k \notin {"^C", "ESC", "CR", "BS"}
       /\ handle_normal_char(k) /\ UNCHANGED <<hist, args, cmd, escape, escLen>>

-----------------------------------------------------------------------------
(***************************************************************************)
(* The console's poll.                                                      *)
(***************************************************************************)
\* Mutant: the code of another control key.
interrupts_on_escape(k) == k = "ESC"
interrupts(k) == k = "^C"

\* A command lives: ^C terminates its task, other bytes are dropped.  The command has
\* begun: its node was put behind the console's, and poll() has reached it since.
poll_running ==
    /\ cmd \in {"running", "stopping"} /\ rx # <<>>
    /\ rx' = Tail(rx)
    /\ cmd' = IF interrupts(Head(rx)) THEN "stopping" ELSE cmd
    /\ UNCHANGED <<edits, escape, escLen, screen>>

\* The command is over: the line is taken for the next one, and what was typed is lost.
poll_ended ==
    /\ cmd = "ended" /\ cmd' = "none"
    /\ clear_line /\ escape' = 0 /\ escLen' = 0 /\ rx' = <<>>
    /\ puts(col, Prompt, 0)
    /\ UNCHANGED <<hist, hidx, args>>

\* Mutant: a line can be edited beside a command.
EditingBeside == cmd \in {"none"} \cup Alive
Editing == cmd = "none"

poll_edit ==
    /\ Editing /\ rx # <<>>
    /\ rx' = Tail(rx)
    /\ IF escape > 0 THEN handle_escape_sequence(Head(rx)) ELSE handle_key(Head(rx))

poll == poll_running \/ poll_ended \/ poll_edit

\* ~Console asks the command's task, if there is one, whether it is running.
destroy ==
    /\ cmd \notin {"gone", "null_deref"}
    /\ cmd' = IF cmd = "none" THEN "null_deref" ELSE "gone"
    /\ UNCHANGED <<edits, escape, escLen, rx, screen>>

-----------------------------------------------------------------------------
(***************************************************************************)
(* The user.  The bounds: no character behind MaxLine, no letters of escape  *)
(* sequences outside of one, and sequences of MaxEscape bytes.               *)
(***************************************************************************)
receive(k) ==
    /\ cmd \notin {"gone", "null_deref"}
    /\ k \in Typed => cmd \in Alive \/ (rx = <<>> /\ Len(line) < MaxLine)
    /\ k \in EscapeKeys => rx = <<>> /\ escape > 0
    /\ k = "5" => escLen + 1 < MaxEscape
    /\ Len(rx) < RxSize /\ rx' = Append(rx, k)
    /\ UNCHANGED <<edits, escape, escLen, cmd, screen>>

Init ==
    /\ line = <<>> /\ cursor = 0 /\ hist = <<>> /\ hidx = -1
    /\ escape = 0 /\ escLen = 0 /\ args = <<>> /\ cmd = "none"
    /\ rx = <<>> /\ row = Prompt /\ col = Len(Prompt)

Next ==
    \/ poll \/ cmd_init \/ cmd_output \/ exit \/ cmd_erased \/ destroy
    \/ \E k \in Keys : receive(k)

\* poll() visits the console and the command's nodes in every pass.
Fairness == WF_consoleVars(poll) /\ WF_consoleVars(cmd_init) /\ WF_consoleVars(cmd_erased)
Spec == Init /\ [][Next]_consoleVars
FairSpec == Spec /\ Fairness

-----------------------------------------------------------------------------
(***************************************************************************)
(* Properties.                                                              *)
(***************************************************************************)
TypeOK ==
    /\ line \in Seq(Keys) /\ hist \in Seq(Seq(Keys)) /\ rx \in Seq(Keys)
    /\ cursor \in Nat /\ hidx \in Int /\ escape \in 0..3 /\ escLen \in Nat
    /\ cmd \in Alive \cup {"none", "ended", "gone", "null_deref"}

\* The cursor stands on the line or right behind it (erase and insert throw beyond it).
CursorOnLine == cursor <= Len(line)

\* The line chosen in the history exists, and the history never holds more than
\* MAX_HISTORY lines, nor an empty one, nor the same one twice in a row.
HistoryOK ==
    /\ hidx \in -1..(Len(hist) - 1) /\ Len(hist) <= MaxHistory
    /\ \A i \in DOMAIN hist : hist[i] # <<>> /\ (i > 1 => hist[i - 1] # hist[i])

\* The editor's state fits together.
EditorInv == TypeOK /\ CursorOnLine /\ HistoryOK

\* As long as a command's task lives, the views it was given are the tokens of the line
\* that was entered: the line they point into is not edited under it.
ArgsStay ==
    cmd \in Alive =>
        /\ hist # <<>> /\ Last(hist) = line
        /\ args = tokens(line) /\ args # <<>>
        /\ escape = 0 /\ hidx = -1

\* What the terminal shows: the prompt, the line, blanks; the cursor is where the next
\* character goes.  Unfinished output of a command may stand before the prompt.
Synced ==
    \E k \in 0..(Len(row) - Len(Prompt)) :
        LET at == k + Len(Prompt)
        IN  /\ SubSeq(row, k + 1, at) = Prompt
            /\ Len(row) >= at + Len(line)
            /\ SubSeq(row, at + 1, at + Len(line)) = line
            /\ \A i \in (at + Len(line) + 1)..Len(row) : row[i] = " "
            /\ col = at + cursor

\* The two cases in which the terminal is left with something else: a line of blanks is
\* entered; and a line of the history, or an empty one, replaces one so much longer that
\* the columns cleared do not reach its end.
BlankEntered == rx # <<>> /\ Head(rx) = "CR" /\ escape = 0 /\ line' # <<>>
Residue ==
    /\ rx # <<>> /\ Head(rx) \in {"A", "B"} /\ escape = 2
    /\ Len(row) > Len(Prompt) + (IF hidx' >= 0 THEN Len(hist[hidx' + 1]) ELSE 0) + Extra

\* Whatever key is handled, the terminal shows the edited line if it showed the line
\* before; and it always does when the prompt comes back after a command.
ScreenFollows ==
    [][cmd' = "none" /\ (cmd = "none" => Synced /\ ~BlankEntered /\ ~Residue) => Synced']_consoleVars

\* ^C in the input of a running command gives the prompt back.
InterruptPrompts ==
    (cmd \in Alive /\ \E i \in DOMAIN rx : rx[i] = "^C") ~> (cmd \notin Alive \cup {"ended"})

\* console.cpp:415, behind the collected bytes of an escape sequence: "keep the sequence
\* from getting too long".
EscapeInBuffer == escLen <= EscapeBuf
=============================================================================
