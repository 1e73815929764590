------------------------------ MODULE UartBuf ------------------------------
(***************************************************************************)
(* UartBuf (src/src/uart_buf.cpp): two rings between a program and a UART.    *)
(* What is written goes to _tx, and from there to _write_cb when the ring is *)
(* full, after a newline of printf, putc or puts, and in every pass of       *)
(* poll() while the task of the UartBuf lives.  An interrupt fills _rx at any *)
(* time; the program empties it byte by byte.                               *)
(*                                                                          *)
(* A ring is the bounded queue that RingBuf implements.  Only the main loop  *)
(* touches _tx, so an operation on it is one step; those on _rx are one step *)
(* per byte.                                                                *)
(***************************************************************************)
EXTENDS Naturals, SequencesExt

CONSTANTS
    Cap,           \* what a ring holds: buf_size - 1
    Plain, LF, CR, \* ordinary characters, '\n' and '\r'
    MaxWritten,    \* bound on the bytes a program writes
    MaxArrived,    \* bound on the bytes that arrive
    MaxAsk         \* bound on the length of one write or read

ASSUME CapAssumption == Cap \in Nat \ {0}
ASSUME CharAssumption == LF \notin Plain /\ CR \notin Plain /\ CR # LF
ASSUME BoundAssumption == MaxWritten \in Nat /\ MaxArrived \in Nat /\ MaxAsk \in Nat

VARIABLES
    out,       \* [tx |-> contents of _tx, wire |-> ghost: given to _write_cb so far]
    lf2crlf,   \* _lf2crlf
    alive,     \* the task's poll is listed, or is going to be, and is not flagged
    rx,        \* contents of _rx, as positions in arrived
    arrived,   \* ghost: what has been given to uart_intput
    pc,        \* "idle", or inside "read" or "gets"
    room,      \* how many bytes the call still has room for
    taken,     \* ghost: what all calls have taken, in order
    lost,      \* ghost: arrivals at a full ring, or cleared
    written,   \* ghost: the bytes the program asked to transmit
    due        \* ghost: how many of them a newline or a flush pushed out

vars == <<out, lf2crlf, alive, rx, arrived, pc, room, taken, lost, written, due>>
txVars == <<out, written, due>>
callVars == <<pc, room>>
rxVars == <<rx, arrived, callVars, taken, lost>>

Chars == Plain \cup {LF}
Strings == UNION {[1..n -> Chars] : n \in 1..MaxAsk}

Rx == INSTANCE BoundedFifo WITH q <- rx, Data <- Nat, Capacity <- Cap

Init ==
    /\ out = [tx |-> <<>>, wire |-> <<>>]
    /\ lf2crlf = FALSE /\ alive = TRUE
    /\ rx = <<>> /\ arrived = <<>>
    /\ pc = "idle" /\ room = 0
    /\ taken = <<>> /\ lost = {}
    /\ written = <<>> /\ due = 0

-----------------------------------------------------------------------------
(***************************************************************************)
(* Transmission.  The operators take and return the record out.             *)
(***************************************************************************)
is_full(b) == Len(b.tx) = Cap
push(b, c) == IF is_full(b) THEN b ELSE [b EXCEPT !.tx = Append(@, c)]

\* Mutant: the last byte stays.
all_but_last(b) == IF b.tx = <<>> THEN b
                   ELSE [tx |-> <<Last(b.tx)>>, wire |-> b.wire \o Front(b.tx)]

\* copy_to, pop and _write_cb; nothing else touches _tx in between.
flush(b) == [tx |-> <<>>, wire |-> b.wire \o b.tx]

\* Mutant: the ring is not looked at before a push.
as_is(b) == b
make_room(b) == IF is_full(b) THEN flush(b) ELSE b

\* Mutant: no flush at a newline.
newline_kept(b) == LET r == IF lf2crlf THEN push(make_room(b), CR) ELSE b
                   IN  push(make_room(r), LF)

newline(b) == LET r == IF lf2crlf THEN push(make_room(b), CR) ELSE b
              IN  flush(push(make_room(r), LF))

printf_write_char(b, c) == IF c = LF THEN newline(b) ELSE push(make_room(b), c)

\* What a string becomes on the wire.
OnWire(s) == FlattenSeq([i \in 1..Len(s) |-> IF s[i] = LF /\ lf2crlf THEN <<CR, LF>> ELSE <<s[i]>>])

\* puts and putc; printf() calls printf_write_char for each character, too.
puts(s) ==
    /\ pc = "idle" /\ Len(written) + Len(OnWire(s)) <= MaxWritten
    /\ out' = FoldLeft(printf_write_char, out, s)
    /\ written' = written \o OnWire(s)
    /\ due' = IF LF \in ToSet(s)
              THEN Len(written) + Len(OnWire(SubSeq(s, 1, SelectLastInSeq(s, LAMBDA c : c = LF))))
              ELSE due
    /\ UNCHANGED <<lf2crlf, alive, rxVars>>

\* stdio's _write(): putc of every character, then flush.  With no character it
\* is a program's own call of flush().
retarget_write(s) ==
    /\ pc = "idle" /\ Len(written) + Len(OnWire(s)) <= MaxWritten
    /\ out' = flush(FoldLeft(printf_write_char, out, s))
    /\ written' = written \o OnWire(s)
    /\ due' = Len(written')
    /\ UNCHANGED <<lf2crlf, alive, rxVars>>

\* write() neither converts nor flushes at a newline.
write(s) ==
    /\ pc = "idle" /\ Len(written) + Len(s) <= MaxWritten
    /\ out' = FoldLeft(LAMBDA b, c : push(make_room(b), c), out, s)
    /\ written' = written \o s
    /\ UNCHANGED <<lf2crlf, alive, due, rxVars>>

set_lf2crlf_enable(b) ==
    /\ pc = "idle"
    /\ lf2crlf' = b
    /\ UNCHANGED <<txVars, alive, rxVars>>

\* The poll that init() registers.
poll_flush ==
    /\ pc = "idle" /\ alive
    /\ out' = flush(out)
    /\ UNCHANGED <<lf2crlf, alive, written, due, rxVars>>

\* The task is terminated; the UartBuf itself can still be used.
terminal ==
    /\ pc = "idle" /\ alive
    /\ alive' = FALSE
    /\ UNCHANGED <<txVars, lf2crlf, rxVars>>

-----------------------------------------------------------------------------
(***************************************************************************)
(* Reception.                                                               *)
(***************************************************************************)
\* Called by the receive interrupt; the result of push is ignored.
uart_intput(c) ==
    /\ Len(arrived) < MaxArrived
    /\ arrived' = Append(arrived, c)
    /\ \/ Rx!Put(Len(arrived')) /\ UNCHANGED lost
       \/ Len(rx) = Cap /\ UNCHANGED rx /\ lost' = lost \cup {Len(arrived')}
    /\ UNCHANGED <<txVars, lf2crlf, alive, callVars, taken>>

\* read(buf, n), and gets(s, n + 1), whose last place is for the '\0';
\* getc is read of one byte, stdio's _read() is read.
start_read(how, n) ==
    /\ pc = "idle"
    /\ pc' = how /\ room' = n
    /\ UNCHANGED <<txVars, lf2crlf, alive, rx, arrived, taken, lost>>

\* Mutant: the newest byte is read.
newest == Last(rx)
front == Head(rx)

\* front and pop; gets() ends after a newline, and both where there is no room.
scanf_read_char ==
    /\ pc # "idle" /\ room > 0 /\ rx # <<>>
    /\ Rx!Take(1)
    /\ taken' = Append(taken, front)
    /\ IF pc = "gets" /\ arrived[front] = LF
       THEN pc' = "idle" /\ room' = 0
       ELSE pc' = pc /\ room' = room - 1
    /\ UNCHANGED <<txVars, lf2crlf, alive, arrived, lost>>

\* The ring is empty: read() and gets() return what they have.
end_read ==
    /\ pc # "idle" /\ (room = 0 \/ rx = <<>>)
    /\ pc' = "idle" /\ room' = 0
    /\ UNCHANGED <<txVars, lf2crlf, alive, rx, arrived, taken, lost>>

clear_rx ==
    /\ pc = "idle" /\ rx # <<>>
    /\ Rx!Take(Len(rx))
    /\ lost' = lost \cup ToSet(rx)
    /\ UNCHANGED <<txVars, lf2crlf, alive, arrived, callVars, taken>>

Next ==
    \/ \E s \in Strings : puts(s) \/ write(s)
    \/ \E s \in Strings \cup {<<>>} : retarget_write(s)
    \/ \E b \in BOOLEAN : set_lf2crlf_enable(b)
    \/ poll_flush
    \/ terminal
    \/ \E c \in Chars : uart_intput(c)
    \/ \E how \in {"read", "gets"}, n \in 1..MaxAsk : start_read(how, n)
    \/ scanf_read_char
    \/ end_read
    \/ clear_rx

Spec == Init /\ [][Next]_vars

\* Calls return, and poll() comes back to a live poll again and again however
\* often other callbacks read (PollLoop, LivePollServed).
FairSpec == Spec /\ WF_vars(scanf_read_char \/ end_read) /\ SF_vars(poll_flush)

-----------------------------------------------------------------------------
(***************************************************************************)
(* Properties.                                                              *)
(***************************************************************************)
Bytes == Chars \cup {CR}

TypeOK ==
    /\ out.tx \in BoundedSeq(Bytes, Cap) /\ out.wire \in BoundedSeq(Bytes, MaxWritten)
    /\ lf2crlf \in BOOLEAN /\ alive \in BOOLEAN
    /\ rx \in BoundedSeq(1..Len(arrived), Cap)
    /\ arrived \in BoundedSeq(Chars, MaxArrived)
    /\ pc \in {"idle", "read", "gets"} /\ room \in 0..MaxAsk
    /\ lost \subseteq 1..Len(arrived)

\* Nothing is lost, repeated or reordered between the program and the wire, of whatever
\* mix of puts, write and passes of poll(), and each '\r' precedes its '\n'.
TxConserved == out.wire \o out.tx = written

\* A newline of printf() or puts(), and stdio, need no task: what was written up to there,
\* by write(), too, is on the wire when they return.
LineOut == Len(out.wire) >= due

\* What the program reads is what arrived, in that order, with no byte twice, and
\* with none missing but those that found the ring full or were cleared.
RxAccounted ==
    LET seen == taken \o rx
    IN  /\ \A i, j \in 1..Len(seen) : i < j => seen[i] < seen[j]
        /\ ToSet(seen) = (1..Len(arrived)) \ lost

\* As long as its task lives, whatever is written reaches the wire without a newline,
\* too: again and again _tx is empty, and then everything is there (TxConserved).
Flushed == []<>(out.tx = <<>> \/ ~alive)
=============================================================================
