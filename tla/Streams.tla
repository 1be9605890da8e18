------------------------------ MODULE Streams -------------------------------
(***************************************************************************)
(* The streams (system/stream.c).  io is the state of the input and output *)
(* system: the streams made, by number; the list of the open ones, newest  *)
(* first; the contents of the files; what came to the terminal.            *)
(*                                                                         *)
(* A stream has a kind, which gives the operations it has (the vtables).   *)
(* off is how far it has been read or written.  An input file holds in     *)
(* data what stdio has read of the file; an output file in buf what it has *)
(* not written yet.  An input string shares the string on the heap at the  *)
(* address data; an output string has its characters in buf.               *)
(*                                                                         *)
(* An operation leaves what it returns in rc, and what it reads in cs.     *)
(***************************************************************************)
EXTENDS Strings

CONSTANTS Files,            \* the names of files, as strings of characters
          Readable          \* the content of those that exist

ILLEGAL == 0
Stdin == 1
Stdout == 2
Stderr == 3

Stream(kind, name, data, len) ==
    [kind |-> kind, name |-> name, data |-> data, len |-> len, off |-> 0, buf |-> <<>>]

\* input is what will be typed.
InitIo(input) ==
    [s |-> <<Stream("stdin", <<>>, input, 0), Stream("stdout", <<>>, <<>>, 0),
             Stream("stdout", <<>>, <<>>, 0)>>,
     list |-> <<Stdin, Stdout, Stderr>>, files |-> Readable, rc |-> 0, cs |-> <<>>]

CanRead(io, s) == io.s[s].kind \in {"infile", "instring", "stdin"}
CanPrint(io, s) == io.s[s].kind \in {"outfile", "outstring", "stdout"}
CanClose(io, s) == io.s[s].kind \notin {"stdin", "stdout"}
IsFile(io, s) == io.s[s].kind \in {"infile", "stdin"}

Return(io, rc) == [io EXCEPT !.rc = rc]
Result(io, rc, cs) == [io EXCEPT !.rc = rc, !.cs = cs]

-----------------------------------------------------------------------------
(* The list of streams.                                                    *)

ListInsert(io, s) == [io EXCEPT !.list = <<s>> \o @]

ListRemove(io, s) == [io EXCEPT !.list = SelectSeq(@, LAMBDA t : t # s)]

NewStream(io, stream) ==
    LET s == Len(io.s) + 1
    IN Return(ListInsert([io EXCEPT !.s = Append(@, stream)], s), s)

-----------------------------------------------------------------------------
(* What stdio does: a file is read at once, and what is written reaches    *)
(* the file when the stream is flushed or closed.                          *)

\* More is read at the end of what has been read.
Filled(io, s) ==
    IF io.s[s].kind = "stdin" \/ io.s[s].off < Len(io.s[s].data) THEN io
    ELSE [io EXCEPT !.s[s].data = io.files[io.s[s].name]]

\* Written over what is there from off on.
WrittenAt(cs, off, buf) ==
    SubSeq(cs, 1, off) \o buf \o SubSeq(cs, off + Len(buf) + 1, Len(cs))

Flushed(io, s) ==
    LET f == io.s[s]
        at == IF f.len = 1 THEN Len(io.files[f.name]) ELSE f.off
    IN IF f.kind # "outfile" THEN io
       ELSE [io EXCEPT !.files[f.name] = WrittenAt(@, at, f.buf),
                       !.s[s].off = at + Len(f.buf), !.s[s].buf = <<>>]

-----------------------------------------------------------------------------
(* Opening and closing.  mode is "r", "w" or "a"; len of an output file is *)
(* 1 if it appends.                                                        *)

Open(io, name, mode) ==
    CASE name \notin Files \/ (mode = "r" /\ name \notin DOMAIN io.files) ->
           Return(io, ILLEGAL)
      [] name \in Files /\ mode = "r" /\ name \in DOMAIN io.files ->
           NewStream(io, Stream("infile", name, <<>>, 0))
      [] name \in Files /\ mode = "w" ->
           NewStream([io EXCEPT !.files = (name :> <<>>) @@ @], Stream("outfile", name, <<>>, 0))
      [] name \in Files /\ mode = "a" ->
           NewStream([io EXCEPT !.files = @ @@ (name :> <<>>)], Stream("outfile", name, <<>>, 1))

\* The string is not copied.
FromString(m, io, s) == NewStream(io, Stream("instring", <<>>, s, Len(StrChars(m, s))))

NewOutString(io) == NewStream(io, Stream("outstring", <<>>, <<>>, 0))

Close(io, s) == IF CanClose(io, s) THEN ListRemove(Flushed(io, s), s) ELSE io

-----------------------------------------------------------------------------
(* Reading: at most max - 1 characters, and no further than a newline if   *)
(* line is asked for.                                                      *)

\* The characters ahead of a stream.
Ahead(m, io, s) ==
    LET f == io.s[s]
        cs == IF f.kind = "instring" THEN StrChars(m, f.data) ELSE f.data
    IN SubSeq(cs, f.off + 1, Len(cs))

UpTo(cs, max) == SubSeq(cs, 1, IF max < Len(cs) THEN max ELSE Len(cs))

UpToLine(cs) ==
    LET at == {i \in DOMAIN cs : cs[i] = Newline}
    IN IF at = {} THEN cs ELSE SubSeq(cs, 1, CHOOSE i \in at : \A j \in at : i <= j)

Taken(io, s, cs) == Result([io EXCEPT !.s[s].off = @ + Len(cs)], 0, cs)

\* A file has nothing to give at its end, or when no character is asked for;
\* a string only at its end.
FileReadCharacters(io, s, cs) == IF cs = <<>> THEN Result(io, -1, <<>>) ELSE Taken(io, s, cs)
StringReadCharacters(io, s, cs) ==
    IF io.s[s].off >= io.s[s].len THEN Result(io, -1, <<>>) ELSE Taken(io, s, cs)

Chosen(m, io, s, max, line) ==
    IF line THEN UpToLine(UpTo(Ahead(m, io, s), max - 1)) ELSE UpTo(Ahead(m, io, s), max - 1)

ReadFrom(m, io, s, max, line) ==
    IF IsFile(io, s) THEN FileReadCharacters(io, s, Chosen(m, io, s, max, line))
    ELSE StringReadCharacters(io, s, Chosen(m, io, s, max, line))

FilledIfFile(io, s) == IF IsFile(io, s) THEN Filled(io, s) ELSE io

ReadCharacters(m, io, s, max, line) ==
    IF CanRead(io, s) THEN ReadFrom(m, FilledIfFile(io, s), s, max, line)
    ELSE Result(io, -1, <<>>)

Peeked(m, io, s) ==
    IF Ahead(m, io, s) = <<>> THEN Result(io, -1, <<>>)
    ELSE Result(io, 0, UpTo(Ahead(m, io, s), 1))

Lookahead(m, io, s) ==
    IF CanRead(io, s) THEN Peeked(m, FilledIfFile(io, s), s) ELSE Result(io, -1, <<>>)

AtEof(m, io, s) == Return(io, IF Ahead(m, io, s) = <<>> THEN 1 ELSE 0)
Eof(m, io, s) == IF CanRead(io, s) THEN AtEof(m, FilledIfFile(io, s), s) ELSE Return(io, 0)

-----------------------------------------------------------------------------
(* Writing.                                                                *)

Printf(io, s, cs) ==
    IF CanPrint(io, s) THEN Return([io EXCEPT !.s[s].buf = @ \o cs], 0) ELSE Return(io, -1)

Flush(io, s) == Return(Flushed(io, s), 0)

GetString(io, s) == io.s[s].buf
=============================================================================
