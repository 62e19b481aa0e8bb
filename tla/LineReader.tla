------------------------------ MODULE LineReader ------------------------------
(***************************************************************************)
(* How the bytes that a client sends become lines (src/server.rs).  A TCP  *)
(* connection is read by read_line_capped(), which takes what the buffer   *)
(* holds piece by piece and checks each piece; standard input is read by   *)
(* read_line() of tokio, which checks a whole line and bounds nothing.     *)
(* RpcServer begins where this module ends: with lines, or with an error   *)
(* of the reader.                                                          *)
(*                                                                         *)
(* A byte is a newline, the first or the second half of a character, or a  *)
(* character of its own.                                                   *)
(***************************************************************************)
EXTENDS Naturals, Sequences, FiniteSetsExt, SequencesExt

CONSTANTS
    Streams,        \* what a client may send before it closes
    Capacity,       \* BUFFER_CAPACITY: the most that one read returns
    MaxBytes        \* MAX_REQUEST_BYTES

Bytes == {"newline", "lead", "tail", "char"}

ASSUME StreamsAssumption == Streams \subseteq Seq(Bytes)
ASSUME LimitsAssumption == Capacity \in Nat \ {0} /\ MaxBytes \in Nat \ {0}

VARIABLES
    stream,         \* what the client sends
    capped,         \* read_line_capped() of TCP, or read_line() of stdin
    filled,         \* how much of the stream has been read into the buffer
    chunk,          \* what the buffer holds
    line,           \* the line under construction
    lines,          \* the lines handed to process_one_line()
    outcome,        \* "open", "closed" at the end of the stream, or "error"
    cuts            \* history: where the reads ended

vars == <<stream, capped, filled, chunk, line, lines, outcome, cuts>>

Init ==
    /\ stream \in Streams
    /\ capped \in BOOLEAN
    /\ filled = 0
    /\ chunk = <<>>
    /\ line = <<>>
    /\ lines = <<>>
    /\ outcome = "open"
    /\ cuts = {}

\* std::str::from_utf8: every first half has its second half, and conversely.
Utf8(s) ==
    /\ \A k \in DOMAIN s : s[k] = "lead" => k < Len(s) /\ s[k + 1] = "tail"
    /\ \A k \in DOMAIN s : s[k] = "tail" => k > 1 /\ s[k - 1] = "lead"

\* fill_buf() with an empty buffer: as much as there is, as much as fits.
Fill ==
    /\ outcome = "open" /\ chunk = <<>>
    /\ \E n \in 1 .. Min({Capacity, Len(stream) - filled}) :
        /\ filled' = filled + n
        /\ chunk' = SubSeq(stream, filled + 1, filled + n)
        /\ cuts' = cuts \cup {filled + n}
    /\ UNCHANGED <<stream, capped, line, lines, outcome>>

\* How much of the chunk belongs to the line: up to and with a newline.
FaultyTake == Len(chunk)
Take ==
    IF Contains(chunk, "newline")
    THEN Min({k \in DOMAIN chunk : chunk[k] = "newline"})
    ELSE Len(chunk)

Done == chunk[Take] = "newline"

Consume == chunk' = SubSeq(chunk, Take + 1, Len(chunk))

\* The line goes to process_one_line(), and the next one is begun.
Deliver(l) == lines' = Append(lines, l) /\ line' = <<>>

Fail == outcome' = "error" /\ line' = line /\ lines' = lines

\* The limit counts the newline, and is looked at before the bytes are taken.
FaultyExceeds == Len(line) + Take >= MaxBytes
Exceeds == Len(line) + Take > MaxBytes

TooLong ==
    /\ outcome = "open" /\ chunk # <<>>
    /\ capped /\ Exceeds
    /\ Consume
    /\ Fail
    /\ UNCHANGED <<stream, capped, filled, cuts>>

\* The text that is looked at: this piece of the line, or on stdin, when it is
\* complete, the line.
Checked == IF capped THEN SubSeq(chunk, 1, Take) ELSE line \o SubSeq(chunk, 1, Take)

Malformed ==
    /\ outcome = "open" /\ chunk # <<>>
    /\ capped => ~Exceeds
    /\ capped \/ Done
    /\ ~Utf8(Checked)
    /\ IF capped THEN chunk' = chunk ELSE Consume
    /\ Fail
    /\ UNCHANGED <<stream, capped, filled, cuts>>

TakePiece ==
    /\ outcome = "open" /\ chunk # <<>>
    /\ capped => ~Exceeds
    /\ Utf8(Checked) \/ ~(capped \/ Done)
    /\ Consume
    /\ LET l == line \o SubSeq(chunk, 1, Take)
       IN  IF Done THEN Deliver(l) ELSE line' = l /\ lines' = lines
    /\ UNCHANGED <<stream, capped, filled, outcome, cuts>>

\* An empty fill_buf(): what there is of a last line is a line; without any the
\* loop of the connection ends.
EndOfStream ==
    /\ outcome = "open" /\ chunk = <<>>
    /\ filled = Len(stream)
    /\ IF line = <<>> THEN outcome' = "closed" /\ UNCHANGED <<line, lines>>
       ELSE IF capped \/ Utf8(line) THEN Deliver(line) /\ outcome' = outcome
       ELSE Fail
    /\ UNCHANGED <<stream, capped, filled, chunk, cuts>>

Next == Fill \/ TooLong \/ Malformed \/ TakePiece \/ EndOfStream

Spec == Init /\ [][Next]_vars

-----------------------------------------------------------------------------
(***************************************************************************)
(* Properties                                                              *)
(***************************************************************************)
Read == FlattenSeq(lines)

\* No byte is lost, repeated or moved: the lines, the unfinished one and the
\* buffer are the part of the stream that has been read, until the reader
\* fails.  Each line but the last ends with a newline and has no other, and a
\* connection that ends well has been read to its end.
LinesAreTheStream ==
    /\ outcome # "error" => Read \o line \o chunk = SubSeq(stream, 1, filled)
    /\ \A k \in DOMAIN lines :
        /\ lines[k] # <<>>
        /\ \A b \in 1 .. Len(lines[k]) - 1 : lines[k][b] # "newline"
        /\ \/ Last(lines[k]) = "newline"
           \/ k = Len(lines) /\ filled = Len(stream)
    /\ outcome = "closed" => Read = stream

\* The line of the stream that begins after n bytes.
LineFrom(n) ==
    LET ends == {k \in n + 1 .. Len(stream) : stream[k] = "newline"}
    IN  SubSeq(stream, n + 1, IF ends = {} THEN Len(stream) ELSE Min(ends))

Straddles(n, l) ==
    \E k \in 1 .. Len(l) - 1 : l[k] = "lead" /\ l[k + 1] = "tail" /\ n + k \in cuts

\* A reader fails for a reason that the line gives it: on TCP that it is too
\* long, newline included, or no UTF-8; on stdin only the latter; and, on TCP
\* alone, that a read happened to end within one of its characters.  What it
\* does hand on is free of all three, and never longer than the limit.
Acceptable(n, l) ==
    /\ Utf8(l)
    /\ capped => Len(l) <= MaxBytes /\ ~Straddles(n, l)
RefusedForCause ==
    /\ outcome = "error" => ~Acceptable(Len(Read), LineFrom(Len(Read)))
    /\ \A k \in DOMAIN lines :
        Acceptable(Len(FlattenSeq(SubSeq(lines, 1, k - 1))), lines[k])
    /\ capped => Len(line) <= MaxBytes
=============================================================================
