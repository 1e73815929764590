# Verification of mcu_async

TLA+ models of mcu_async, a C++ library of cooperative tasks, polls, timers,
promises, streams, coroutines and a UART console for microcontrollers, with TLC runs
that check them on small instances and TLAPS proofs for all instances. Paths below
are relative to the repository root (`src/poll.cpp` is its file of that name).

## 1. The system

One thread runs everything: `main()` registers work and calls `poll()`, which
never returns and walks a global list of callbacks for ever. Interrupt handlers
are the only true concurrency; they push received bytes into a ring buffer and
advance the millisecond tick. Everything else is callbacks that poll.

| component | files | state | operations |
|---|---|---|---|
| Poll loop | `poll.cpp`, `poll.h` | `_poll_list` (id, flags, callback, owner), `_next_id`, `_current_task` | `set_poll`, `set_once`, `Poll::remove`, `is_active`, `poll` |
| Tasks | `poll.cpp`, `poll.h` | `_task_id`, `_run`, `_name`, `_deletors` of each Task | `start_task`, main node (`_set_poll_thread`), `terminal`, `is_running`, `get_task`, deletors |
| Task commands | `poll.cpp` | the poll list | `cmd_ps`, `cmd_kill`, `cmd_killall` |
| Timers | `timeout.cpp` | deadline (uint32) in the callback's closure | `set_timeout`, `set_interval`, `Timeout::stop` |
| Ring buffer | `buf.h` | `_buf`, `_head`, `_tail` | `push`, `front`, `pop`, `clear`, `copy_to`, `size` |
| UART buffer | `uart_buf.cpp` | two rings, CRLF flag | `write`, `putc`, `flush`, `read`, `gets`, `uart_intput` |
| Promise | `promise.h` | shared `Future{result, resolved}`, weakly held by resolve | constructor, `then`, `co_await`, `promise_all` |
| Stream | `stream.h` | shared ring, `finished` | `send`, `finish`, `recv` |
| Coroutines | `async.h` | coroutine frames owned by tasks (deletors) | `Async`, `SleepAwaiter`, `loop_when`, `set_once_async`, `start_task_async` |
| Console | `console.cpp` | line buffer, cursor, history, escape state, command task | key handling, history, redisplay, tokenizer, command life |
| Printf/Scanf/Log | `printf.cpp`, `scanf.cpp`, `log.cpp` | none (pure), log level | formatting, scanning |
| Retarget | `retarget.cpp` | `_uart_buf` raw pointer | `_write`, `_read` |
| Containers, strings, enums | `list.h`, `vec.h`, `str.h`, `magic_enum.hpp`, ... | - | wrappers of the standard library |

How they interact: timers, promises (`then`), streams (`recv`), awaiters, the
UART buffer and the console are each one or more polls; a poll belongs to the
task in whose callback it was registered, and a task ends when its main node
finds no other live poll of the task in the list. Interrupts reach the main loop
only through a ring buffer and the tick.

What is hard, and what must hold:

* **Poll loop.** Callbacks change the list while `poll()` is walking it. The
  iterator must stay valid, every callback must be called once per pass, and
  removal is deferred (a flag, then an erase).
* **Tasks.** Lifetime is *derived*: the main node scans the list each pass. A
  task must not end while work is left, must end when none is left, must be
  restartable, and callbacks must run as the task that registered them.
* **Ring buffer.** Producer and consumer share indices without a lock; each
  reads the other's index several times per operation. It must remain a queue.
* **Timers.** Deadlines in a wrapping tick, tested by polling, with callbacks
  that stop themselves and others.
* **UART buffer.** Output from four calls and a poll goes through one small ring, with
  newline conversion in the middle; input comes by interrupt and may overflow.
* **Promises, streams.** A shared part lives as long as somebody can look at it; every
  callback runs once, every value is handed over once, `promise_all` counts right.
* **Coroutines.** Frames live until their task is destroyed, which polls of other
  coroutines, `erase` or an outside holder bring about; `await_resume` terminates
  the task in which others may still wait.
* **Console.** The terminal is redrawn by differences and must show the line edited; a
  command holds views of that line while keys, ^C and history go on around it.
* **Printf, scanf, strings, containers.** No concurrency but that of input
  that is still arriving; many flags, widths and boundaries that must agree with each other.

`PROJECT.json` lists the hazards line by line with the properties that cover them.

## 2. Modules

| module | models | see |
|---|---|---|
| `PollLoop`, `MCPollLoop` | `poll.cpp`: list, loop, tasks; its TLC instance | 2.1 |
| `TaskLife` | what the task layer promises: idle, started, running, outstanding work | 2.1 |
| `PollLoopRefinement` | `PollLoop` implements `TaskLife`; `phase` and `work` as functions of the list | 2.1 |
| `PollLoopProofs` | theorems about it, the refinement among them | 4 |
| `RingBuf` | `buf.h`, `UartBuf::flush` as its consumer | 2.2 |
| `BoundedFifo` | what the ring promises | 2.2 |
| `Timeout`, `TimeoutProofs` | `timeout.cpp` | 2.3, 4 |
| `Promise`, `PromiseProofs` | `promise.h` | 2.4, 4 |
| `Stream`, `StreamProofs` | `stream.h`, the receiver of `stream.cpp`; on `BoundedFifo` | 2.4, 4 |
| `UartBuf`, `UartBufProofs` | `uart_buf.cpp`, `retarget.cpp`; on `BoundedFifo` | 2.5, 4 |
| `Async`, `AsyncProofs` | `async.h` | 2.6, 4 |
| `Console`, `Tokens`, `MCConsole` | `console.cpp`; the tokenizer; the TLC instance | 2.7 |
| `ConsoleProofs` | theorems about it, about the tokenizer and about `scanf` | 4 |
| `LibraryProofs` | theorems about the ring, the containers, the strings and printf | 4 |
| `Number`, `Printf`, `Scanf` | integers and digits, `printf.cpp`, `scanf.cpp` | 2.8 |
| `CPrintf` | what C prescribes for `Printf`, and where it differs | 2.8 |
| `Str`, `StrView`, `Containers` | `str.cpp`, `str_view.cpp`, `vec.h`, `list.h`, `array.h`, `set.h`, `map.h` | 2.9 |
| `Text`, `MCLibrary` | what strings, views and tokens promise; the TLC instance of 2.8 and 2.9 | 2.9 |

How they compose: every callback of timers, promises, streams, coroutines and the UART
buffer is a node of the list of `PollLoop`. Those modules take from it that each node is called
once per pass in order of registration (`PassServesAll`, proved) and that a task
ends when its nodes are gone (`Implements`, proved); they do not carry the list along. The
rings of `Stream` and `UartBuf` are `BoundedFifo`, which `RingBuf` is proved to implement.
`Console` EXTENDS the tokenizer, and `MCLibrary` runs formatting, scanning,
strings and containers.

Operators named "Mutant" in a comment are wrong versions of the definition that
follows them. No run uses them; `PROJECT.json` pairs each with the property that
fails when it takes the definition's place, which shows the property is not
vacuous.

### 2.1 PollLoop

`poll_list` is a sequence of nodes in order of registration; `it` is the
iterator; `pc` says whether we are in `main()`, in the loop, in a user callback
or past a null dereference. A user callback is *not* one step: after
`call_user` or `main_init`, any number of user operations (`set_poll`,
`set_once`, `remove`, `start_task`, `terminal`) may happen before `return_cb`.
That covers every callback a program could register. The main node's later visits
(`main_scan`) run no user code and are one step. `erase` and `return_cb` are
the two ways the iterator moves.

The shell commands over tasks are part of it: `cmd_killall`, which flags like
`terminal` but by name, and `cmd_kill`, which converts `args[0]`, its own name, to the
id, so that it looks for task 0 and stops nothing (`killed_id`). The mutant of
`RestartReady` shows what correcting only that would do: `terminal_task_by_id` flags
the main node too, `_run` stays set, and the task could never begin again.

Two constants choose the mode of use. `RootPolls`: may `main()` register
callbacks outside any task? `RestartRunning`: may `start_task` be given a task that
still runs? The intended use is both FALSE; the run `any_use` checks the invariant and the
refinement with both TRUE, and the finding `root_polls` shows what goes wrong there. With
`RootPolls`, a scan dereferences a null `Shared<Task>`: undefined behaviour,
modelled as a choice between a trap (`null_deref`) and reading a word that equals
no task id.

A one-shot callback always runs in the pass in which it was registered, because it
is appended behind the iterator; in the intended use a main node stands before all
other nodes of its task and so never sees one pending: one-shots do not prolong a task.

Abstracted: the callbacks' code, names, deletors, and lookups that change
nothing (`get_task`, `cmd_ps`). Identifiers are bounded by `MaxId` (64 bits in the code).

### 2.2 RingBuf

Each volatile access to the other side's index is a separate step, so the
interrupt can run between any two: `size()` twice in `copy_to`, `is_continuous`,
every element of `memcpy`, `front` and `pop`. The producer has the same grain
(test, write, publish), which covers both an interrupt that runs to completion and
a second thread. The element accesses take effect in program order: the code
relies on the compiler not moving plain accesses of `_buf` over the volatile
indices, and so does the model. `flush` is `UartBuf::flush`'s use of the ring:
`copy_to(size())`, then `pop` of the result.

### 2.3 Timeout

Timers are numbered in order of registration, the order in which `poll()`
calls them once per pass; `PollLoop`'s `PassServesAll` is what justifies that
abstraction of the list. `clock` is true time and `clock % W` the tick. `Tick` can
happen between any two steps, also during a callback. The ghosts `due`, `last`, `over`
and `began` record the true deadline, the last firing, what must not fire again and
when the pass began. The clock is monotonic, which a host's `system_clock` need not be.

Tick and deadline are compared as numbers. `Epoch(t)` says how often the tick has wrapped by
then, and the properties name the two timers that a wrap may disturb: one whose deadline lies
behind the next wrap may run at once (`NeverEarly`), and one whose deadline went by before the
last wrap waits for the tick to reach it again (`ServedInPass`, `DueRuns`). All others are on time.

### 2.4 Promise and Stream

Both are an object that polls and user code share, and both say, as `Timeout` does, when
each of their polls is called: in order of registration, once per pass. All other
callbacks (timers among them) are user code, which may run before any such visit or
inside a callback. The shared part is alive while the program holds an object
(`kept`) or a closure that captured it is not erased (`Observable`, `Alive`);
`resolve`, `send` and `finish` hold it weakly and do nothing afterwards.

In `Promise`, values are told apart by promise only. `promise_all` may be given the
same promise twice, resolved ones, or other `promise_all`s. With no promises it never
resolves (no callback, no count); the model starts at one. `Promise<void>` and `then_`
differ in the type of the value only. `co_await` of a promise that is not resolved is `then`
with the resumption as its callback, and an `Event` of `Async`. If it is resolved already,
nothing is registered and the coroutine goes on at once, with `T()` in place of the result
(section 5); what a coroutine is handed is not followed further.

In `Stream`, receivers take all there is, as the one in `stream.cpp`. `Echo` says
whether a receiver's own callback may send and finish: if it may, what it sends just before
it calls `finish()` is stranded, because its poll tests the ring before the callback and
`finished` after it. No doc promises otherwise, so the run has `Echo = FALSE`. A receiver that
had emptied the ring before `finish()` is removed without a call and never learns of the end.

### 2.5 UartBuf

`out` holds the transmit ring and the ghost of what `_write_cb` was given; the operators
`push`, `make_room`, `flush`, `printf_write_char` transform it in the order of the code, and
`puts`, `write` and stdio's `_write` fold them over a string. Only the main loop touches
that ring, so a call is a step. The receive ring is filled by `uart_intput` at any
time, also between two bytes of `read` or `gets`. Both rings are the queue
`BoundedFifo`, which `LibraryProofs` proves `Buf` to implement under just such
interrupts. `terminal` ends the task, and with it the poll that flushes; all calls still work.

### 2.6 Async

One task and the coroutines called in it. `frame` is the life of each frame, `wait` what
the poll of a suspended one looks at (an event, `Once`, or another coroutine), `hold` the
`Async` objects it has not awaited yet, `stack` the coroutines that run, each called
or resumed by the one before. A coroutine's body is not one step: while it is on
top of the stack it may call, await, register `set_once_async` or end its task, any number
of times. `main` is the life of the task's main node, `stale` says that flagged nodes
are not erased yet, and `held` that somebody outside has a `Shared<Task>`. When all of
these are gone `~Task` runs the deletors and destroys every frame (`release`).

`await_resume` terminates the task it finds current, and with it every poll that its
coroutines have. `flat` tells programs apart: in a flat one, coroutine 1 awaits each
coroutine it calls at once, and those call none. There `AwaitedResumes` holds; with a third
level the first coroutine loses its poll (section 5). The other properties hold in both. `Event` covers
`sleep_ms`, `loop_when` and promises: whether and when it comes is chosen freely.

### 2.7 Console

`line`, `cursor`, `hist`, `hidx`, `escape` and `escLen` are the editor's fields, `row` and
`col` the terminal's last row and cursor as a terminal leaves them after what the code
has written: characters replace, a backspace moves, a newline starts a new row. One
step of `poll` takes one byte of input, as the code's `getc` does: `poll_edit` is
a key or a byte of an escape sequence, `poll_running` watches for ^C while a command lives,
`poll_ended` brings the prompt back. `cmd` is the life of the command's task, whose
steps (`cmd_init`, `cmd_output`, `exit`, `cmd_erased`) come at any time between bytes.
`_args` are views, offset and length, into the line that was entered.

`ScreenFollows` says that the terminal shows the line after every key if it did before.
Two cases are excepted by name, as the code does leave something else there:
`BlankEntered` (Enter on a line of blanks writes a new prompt and keeps the line) and `Residue`
(`redisplay_cmdline` clears the length of the *new* line plus five columns).

### 2.8 Printf and Scanf

`Printf` reads a format symbol by symbol; the environment chooses the next symbol and the
argument, so that all flags, widths, precisions and lengths combine without formats having
to be listed. A conversion is one step; its output is what `printf_write_char` gets. `CPrintf`
defines what C prescribes from the value alone, with the argument converted to the type that
`h` and `hh` name and a double rounded as IEC 60559 has it (halfway to the even digit), and
`UsualInteger` and `UsualFloat` name where the code differs (section 5 lists them).
A double, finite, is its sign, its whole part and its fraction times a power of ten as the
code computes it: the digits kept, whether the rest lies above, at or below a half, and
whether the exact product is less, the same or more. `omitted` remembers that a precision
was a negative `*`, which C takes as none and the code as 0.

`Scanf` is a process: each read of a character is a step, and bytes arrive between any two,
because `scanf_read_char` does not wait. `starved` remembers that it returned EOF while
more was to come; `ReadsBack` says that otherwise everything asked for is read as it was sent.
What may be sent is `ScanfAssumption`: the text of an item shows its value in decimal, with
one character behind it that ends it. Nothing else is assumed, so any table of items will do.

### 2.9 Strings and containers

Pure operators, checked against each other on every short string and sequence. A view is an
offset and a length into a string; each operation on a view of a view must give what the
same operation of `Str` gives on a copy of its characters, and lie inside the
view (`ViewsDenote`). `Str`'s edits must read back (`replace_all`, `to_int` of what was
printed, `split` of what was joined). The console's tokens must cover the line but for blanks
and quotes, and read back what was quoted (`TokensReadBack`). The containers' own
operations are related to each other: a `Set` with a `Vec`, the counts in a `Map` with
`count_if`, a sub-`Array` with its source (`ContainersAgree`).

## 3. Runs

| run | instance | shows |
|---|---|---|
| `tasks` | 2 tasks, 6 ids, fairness | one call per pass, task life; quiet tasks end, live callbacks are served |
| `any_use` | 2 tasks, 5 ids, both modes TRUE | the inductive invariant in every mode; `PollLoop` implements `TaskLife` |
| `root_polls` | 3 ids | *finding*: null dereference after `main()` registers a poll |
| `ring` | 4 slots, 2 values, asks up to 4 | the ring is a queue; `copy_to` hands out its front |
| `timers` | 3 timers, delays 0 and 2, W = 4, times 2 to 5, fairness | never early, never again, none left behind, but for the named wraps; due timers run |
| `promises` | 3 promises, 3 waiters, fairness | no resolve is lost, each callback once, `promise_all` complete |
| `streams` | ring of 2, 3 receivers, 4 values, fairness | order and conservation; `finish()` strands nothing; the ring is released |
| `uart` | rings of 2, 4 bytes out, 3 in, fairness | output complete and in order, lines at once, input accounted for |
| `console` | lines of 2, history of 2, fairness | editor state, arguments, terminal contents; ^C gives the prompt back |
| `escape` | buffer of 4, sequences of 6 | *finding*: an escape sequence is written behind its buffer |
| `async` | 4 coroutines, flat or not, fairness | no frame used after it is freed; waiters keep the task running and are resumed; quiet tasks free their frames |
| `library` | chars of 4 bits, shorts of 6, ints of 8, longs of 12, texts of 5 | printf as in C but for named cases, scanf reads back, strings, tokens and containers agree |

Bounds. Five or six identifiers suffice for two tasks with a main node
each, polls and one-shot callbacks of both, a removal in front of, at and
behind the iterator, an end and a restart. The smallest ring with a wrapped and
an unwrapped content of more than one element has four slots (2, 3 and 5 were tried
too); asks of up to four exceed what it can hold. Three timers are enough for one
that stops another before and behind it; the tick, of four values, wraps in the middle of the
run, with timers registered and due on either side (each exception for the wrap, left out,
makes TLC find a timer that needs it). Three promises and waiters make a `promise_all` of two with
somebody waiting for it, or a nested one (four were tried for `PromiseProofs`' invariant).
Three receivers are one in front of and one behind the one that empties the ring. Rings of two
bytes overflow within three, and the four bytes written hold a converted newline with bytes on
both sides of a full ring. Four coroutines make a chain of three awaits with one that stands
beside it. A line of two characters has a place in front of, inside and behind it for
every key; two lines of history can be navigated, repeated and pushed out; one spare column
(`Extra`, five in the code) against lines of two lets a redraw fall short, as a line of six does
in the code. `EscapeBuf` is four, not eight: the sequences that the code knows have at most four
bytes, and the bytes behind them are alike. Eight bits and a
conversion buffer of eight let every base overflow it with 12-bit values in binary, and widths
and precisions (1, 4 and 9) lie on both sides of it. Arguments that `h` or `hh` cuts and those they leave
alone, and wholes below, at and above the largest (`MaxWhole`, 30) with and without a fraction, are
among the values. Strings of five hold a word, a quote and blanks on either side.

Registration is bounded in every run, so every pass ends; a one-shot callback that keeps
registering another would make a pass endless and starve the others, and no run claims
otherwise.

`CHECK_DEADLOCK FALSE` appears where the system can stop: after a null dereference
(`any_use`, `root_polls`), when the task is over and everything is called (`async`), after
`~Console` (`console`, `escape`), and when the call has returned (`library`).

Fairness is `WF_vars(LoopNext)`: `poll()` is an endless loop on its own thread, and
callbacks return, because a cooperative scheduler cannot preempt them. `UartBuf` asks for
strong fairness of its poll, since a read may be under way whenever one looks; that poll() comes
back to it again and again is `LivePollServed`. `Async` and `Console` leave the list
out and ask for weak fairness of the nodes that poll() visits in every pass: the main
node's scan and the erasing of flagged nodes there, the console's poll and
the two visits that begin and end a command here. Nothing is assumed of user code, of
commands, of events, of interrupts or of the clock.

## 4. Proofs

All proofs are checked by TLAPS with no assumption but the named ones on the
constants: `TaskAssumption`, `MaxIdAssumption`, `ModeAssumption` (`PollLoop`); `SizeAssumption`,
`AskAssumption`, `DataAssumption` (`RingBuf`); the four of `Timeout`; `CorosAssumption` (`Async`);
`CapAssumption`, `BoundAssumption` and what is beside them in `Promise`, `Stream` and `UartBuf`;
`ConsoleAssumption`; `WidthAssumption` (`Number`), `PrintfAssumption` and `ScanfAssumption`.
They say that bounds are numbers, that a ring has room, and that values that stand for
nothing differ from those that stand for something. The bounds have no upper limit, so the
theorems hold for any number of tasks, timers, promises, receivers, bytes and coroutines. Two say
what C++ types do: `LengthAssumption` (`CPrintf`), that a char is no wider than a short and that no wider
than an int, and `DelayAssumption` (`Timeout`), that a delay is a `uint32_t` like the tick.

* `PollLoopProofs`. The four invariants of the run `tasks`, for any set of
  tasks and any number of identifiers. The inductive invariant `IInv` adds to them
  that the list is sorted by id (`IdOrder`), that ids in the list and in tasks have
  been issued (`IdsIssued`), that only a task's main node carries its `task_id`
  (`TaskIds`), and that a task's other live nodes exist only while `_run` is set
  (`InitFirst`). Without `IdOrder` a new node could collide with an old one;
  without `TaskIds` and `InitFirst` the scan that ends a task could miss its work.
  `PassServesAll` is proved on top of it. `NullFree` needs `~RootPolls`: it says that
  programs which register polls only from tasks never reach the null dereference.
  `Refinement`, at its end, is `Spec => Implements`: the abstract life
  cycle (work never outlives its task, none begins before `init()`) holds of the list in
  every mode of use.
* `TimeoutProofs`. For every width of the tick, however often it wraps, any number of timers and any
  delays: a stored deadline is the tick of the true one (`Deadlines`), no timer is early and no pass leaves a due one
  behind but for the wraps named in 2.3, and none runs again. A time is its epoch and its tick (`TimeIs`), and
  what the code's comparison of ticks says of the times follows from their epochs (`Compared`).
* `StreamProofs`. `Shared`, that what was taken followed by what is in the ring is what was
  sent, is inductive together with the types and `CalledWithData`: a receiver is called
  with data in the ring, whatever callbacks did between the test and the call.
* `AsyncProofs`. The invariant joins four parts: what is on the stack runs and stands there
  once (`StackInv`); what has a poll is suspended or not begun (`WaitInv`); nothing runs or
  waits but while the main node scans, and frames are destroyed only behind it (`TaskInv`); a
  flat program has one coroutine at most besides the first, held or awaited (`FlatInv`).
  `NoUseAfterFree` and `RunningWhileWaiting` follow from the first three, for any
  coroutines; `AwaitedResumes` needs the last.
* `PromiseProofs`. The waiters of a `promise_all` are numbered in a row, one for each
  member, each older than it (`PlaceInv`); `resolved_count` is the *number* of those that
  were called, and their values are in place (`CollectOf`); it is resolved when the
  two numbers meet (`DoneOf`). `AllComplete` follows by counting: a part of a finite set that has
  as many elements is the whole. `AwaitedResolves` follows from what `resolve` has left where
  somebody can look (`AskedInv`), `CalledOnce` from `CalledInv`.
* `UartBufProofs`. The positions of bytes taken and in the ring increase, all taken are before all in the
  ring, and every position that has arrived is taken, in the ring or counted as lost, and only one
  of these (`Arrivals`). `RxAccounted` restates that for the two as one sequence.
  On the way out, a call puts its text by a fold over bytes, each of which may find the ring full and
  flush it. `Sent` is what wire and ring hold together; after every prefix of the text it is what
  it was before the call, followed by that prefix converted (`TxInv` is inductive with it):
  `TxConserved` follows, and
  `LineOut` because the last newline of the text flushes all before it. The fold is reasoned about
  without an induction theorem over operators: the lengths at which it fails are a *set* of
  numbers, and its least element (`NatLeast`, from `WFMin` and `NatLessThanWellFounded`) gives the contradiction;
  `FoldExists` and `FoldedPrefixes` turn the fold of the community modules into its prefixes.
* `ConsoleProofs`. `EditorInv` and `ArgsStay` are inductive together (`IInv`): the line is only
  edited while no command lives, and `enter` leaves the line as the history's last.
  `ScreenFollows` is an action property: `Shows(r, k, l)` says that the row shows prompt and line from column
  k on and blanks behind; `Rewrites` that a key writes just what the new line shows from the first column it
  changed; `Draws` that a key which does so, and goes back by as many columns as needed, keeps row and
  cursor in step. One lemma per key (`CharDrawn`, `BackwardDrawn`, ...) shows that it does, for any line.
  `ScrInv` adds what a command's output needs: behind it the cursor stands at the end of the row,
  where the prompt comes back. `BlankEntered` and `Residue` are the hypotheses the code needs.

* `ConsoleProofs`, what is read. `ReadsBack` for an int of any width and any items: `ScanIInv` says that
  whenever the scanner has not been starved, it stands between two items or inside of one (`Somewhere`).
  `Progress` ties together the four that move: the format that is left, the input that is left, what is
  stored, and the number of characters read. `Reading` says for each loop of `vscanf` what it has
  of its item: the sign, the value of the digits so far, the places behind the point, the string's front. It has
  to know that the greatest magnitude wraps to the least int and back (`Wraps`): -128 is read as 128, which is -128 by then, as is its negation.
  One lemma per action keeps it.
  `TokensReadBack` for lines of any length over any letters: `Cover` by the invariant `Laid` over
  the characters (the tokens so far stand in order and leave out only blanks and quotes);
  for a line without quotes the tokenizer and `split` are run in lockstep (`Same`), and `QuotedToken` says that between two like
  quotes nothing but the closing one ends the token. Both are folds, whose
  prefixes are found as in `UartBufProofs`.
* `LibraryProofs`, the ring. `RingInv` for every ring size and set of elements: room stays for
  a push under way, every slot of the queue has been written, and whatever the
  consumer has read of `_head` still lies within the queue when it is used.
  `InBounds`, `InOrderDelivery` and `Refinement` (`Spec => IsFifo`) follow. The geometry
  lemmas (`Geometry`, `HeadMoves`, `TailMoves`) carry the modular arithmetic.
* `LibraryProofs`, the containers. `ContainersAgree` for sequences of any length: a sequence is its first elements, one and those behind
  (`Apart`), and what each operation does is stated in those terms (`InsertIs`, `RemoveIs`); the selections join
  sequences of one element or none (`Picked`), so that `FilterConcat` and `CountFilter` follow by
  induction over a set of sequences (`SeqInduct`). `set_of` and `counts` are folds like those above
  (`SetSteps`, `CountSteps`); `SubsetIs` needs that both sets are finite, since the code compares their sizes first;
  `SomeAscends` says that there is an ascending sequence to iterate over.
* `LibraryProofs`, the strings. `ViewsDenote` for strings of any length over any letters. A part of what a view
  shows is a part of the string (`PartSeen`), so that what a view finds is what its copy finds, moved by the view's
  offset (`SearchSeen`, `TrimsSeen`). `StrView::split` walks over positions and `Str::split` over
  characters: after each character both have kept the same pieces (`SplitNext`), and going through words that
  were joined keeps all but the last (`JoinedLoops`). `replace_all` searches again behind each place, `replaced` walks once:
  what it has written, followed by what the search makes of the rest, is the whole all along (`HalfwayNext`).
  A number's digits add up to it (`DigitsRead`), and what is left is what widths do to signs.
  2^n is nothing the provers know; `Powers` has it from the number of subsets.
* `LibraryProofs`, printf. `ConformsToC` for every buffer, width, precision, set of numbers and of strings, and every
  width of char, short, int and long. The invariant is `PrintfInv`: what has been parsed are options and numbers, a precision stands only behind its
  point, and the last conversion conformed. All the work is in one conversion. `lead` and `zeros` pad the digits with a row of
  zeros (`Padded`); sign or base mark then take the place of one of these or stand in front (`SignIs`, `MarkIs`), and spaces fill the
  rest. For a double, `AllInDigits` says that the digits of n + 10^p are a one and n in p places, which is what
  `decimals` writes from behind; `Rounded` that `rollover` and `round_frac` together pick the nearest; `DigitsLonger` that a
  larger number has no fewer digits, so that what fits the buffer does so with its rounding, too. The table `pow10`
  ends at nine decimals, the most that `PrintfAssumption` (`MaxFrac`) lets the code keep. The printf process is
  given the fractions of `Doubles`; `FloatConforms`, the lemma behind it, holds for every fraction.

Only model-checked. Liveness (`QuietTaskEnds`, `LivePollServed`, `DueRuns`, `ResolvedServed`,
`Delivered`, `Released`, `Flushed`, `QuietFreed`, `InterruptPrompts`) is out of the provers'
reach. Every safety invariant and every action property of the passing runs is a theorem.
`Scanf`, the tokenizer, `Str::split` and `Containers` are written with folds of named steps, `to_digits` and `replace_all` as
functions over the numbers up to the one at hand, and `FlattenSeq` in place of `SelectSeq`, so that they can be proved about.

`RingBuf` and `Console` both have an `Init`, so that neither of their proof modules can extend the other: the
lemmas about parts of sequences and about folds that both need stand in both.

## 5. What the code does that a reader may not expect

Two findings are runs: `root_polls` (a README example dereferences null) and `escape` (a sequence
is written behind `_escape_buf`). The models show the following, too. Where a text of the
repository says otherwise, it is named here.

* A removed poll is active until it is erased: `is_active` looks for the id and not at the flag. The
  test at poll.cpp:344 asserts the contrary.
* `cmd_kill` stops nothing: it converts its own name, not its argument, to the id. The repository's
  README.md:114 has the console kill the watchdog's task to restart the microcontroller.
* `start_task` on a task that runs makes a second main node; the two keep each other alive
  and the task never ends (`RestartRunning`).
* `copy_to(n)` may copy more than n if an interrupt pushes between its reads (buf.h:114-117),
  although the comment there says `<=n`; callers that pop what it returns, as `flush` does, are right.
* Timers compare deadline and tick directly: one whose deadline lies behind the wrap of the tick may fire at
  once, where the repository's README.md:129-132 promises "after 1 second", and one that was not served before the
  wrap waits for the tick to come round.
* `co_await` of a promise that is resolved already gives `T()`, not its result: `await_ready` is true and only the
  callback that is not registered would set `_result` (promise.h:50-62).
* In `Stream`, a receiver that sends and finishes in its own callback strands what it sent; one that had
  emptied the ring before `finish()` never learns of it. `promise_all` of none never resolves.
* Three levels of `co_await` lose the first coroutine: what resumes the second terminates the task's polls.
  A coroutine called by `main()` has no task (null `_current_task`), and one
  that awaits an `Async` whose task is over looks at a freed frame; the model has one task.
* In `Console`: see `BlankEntered` and `Residue`; keys typed while a command runs are lost;
  up and down drop the line being edited; `~Console` between commands dereferences null
  (`destroy`); `find_cmd` reads its list without a null test, so a console needs one.
* `printf`, integers (`UsualInteger`): `h` and `hh` cut nothing off (`%hhd` of 300 is 300); the least int is its
  own negation (the least long is right); a sign without room in a field that digits fill replaces a digit
  (`%3d` of -123), and so does the mark of a base; zeros of a precision are left out with `-`;
  `#` with octal adds its zero where a precision or the field has put one already; what does not fit
  the buffer of 32 is cut, among it binary numbers of more digits.
* `printf`, doubles (`UsualFloat`): nothing is written above 2147483647; -0.0 has no sign; `#` gives no point
  without decimals; behind the ninth decimal there are zeros; 0.95 with one decimal does not carry; a product
  that the multiplication has rounded to a half is taken for one; the sign in a filled field and the buffer are as for integers.
* `printf`, both: a negative `*` as precision is 0, not none. A trailing `%` reads behind the format.
* `scanf` eats the character behind a number, takes the absence of input for its end, and `%s`
  stores EOF until something arrives. `gets` returns in the middle of a line that is still arriving.
* `Array::at` asserts its bound the wrong way round (array.h:89).
* The stdio functions other than `_write` use the retargeted pointer without a null test.

## 6. Not modelled

* `magic_enum.hpp` (vendored), `enum.h`, `tuple.h`, `types.h`, iterators, and the members
  of containers and strings that only forward to the standard library: nothing of their own
  to state.
* `log.cpp`, which adds a prefix to `printf`; the count that `printf` returns.
* The output of commands (`help`, `version`, `ps`), `calc_mem_free`, and
  `_status_code`, which is written and never read. Lookups that change nothing (`get_task`).
* The examples and tests: `async.cpp`, `promise.cpp`, parts of `stream.cpp`, `*_test.cpp`.
* The C library, the STM32 HAL and the host's thread behind `_write_cb` and `uart_intput`, beyond the
  calls they make.
