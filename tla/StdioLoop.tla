----------------------------- MODULE StdioLoop -----------------------------
(***************************************************************************)
(* The loop of a server (serve_stdio_bounded, stable_server.py) and what   *)
(* it answers (handle of stable_server.py, limits.py and server.py). It    *)
(* reads its input in pieces of at most MaxBytes + 1 bytes; a line that    *)
(* fills a piece is too long, and what is left of it is drained.           *)
(*                                                                         *)
(* A line is its length, the newline included, what it says, and whether   *)
(* it ends: only the last one, when the client goes away, may not. "call"  *)
(* is tools/call with an id, "ask" another request with an id, "note" a    *)
(* message without an id (or with the id null), "junk" what is not a JSON  *)
(* object, "blank" white space. Whether a call is let in says Limiter.     *)
(*                                                                         *)
(* "fatal" ends the server: a text nested too deeply for json.loads, which *)
(* raises RecursionError, or a request whose answer has a lone surrogate,  *)
(* for which sink.write raises UnicodeEncodeError once the request has     *)
(* been handled. The loop catches neither.                                 *)
(***************************************************************************)
EXTENDS Naturals, Sequences, FiniteSets

CONSTANTS
    MaxBytes,       \* max_request_bytes
    MaxLength,      \* bound: the longest line a client sends
    MaxLines        \* bound: how many lines it sends

ASSUME StdioAssumption == MaxBytes \in Nat \ {0} /\ MaxLength \in Nat /\ MaxLines \in Nat

Says == {"call", "ask", "note", "junk", "blank", "fatal"}
Lines == [says : Says, bytes : 1 .. MaxLength, ends : BOOLEAN]
Kinds == {"result", "limited", "parse error", "too long"}

VARIABLES
    sent,           \* history: the lines the client has sent
    input,          \* what the server has not read, line by line; it may have read
    unread,         \* all but so many bytes of the first
    eof,            \* the client has closed its end
    loop,           \* "read", "drain" (the rest of a line), or "over"
    output          \* the answers: the line, as its id tells, and what it is

stdioVars == <<sent, input, unread, eof, loop, output>>

StdioTypeOK ==
    /\ sent \in Seq(Lines) /\ input \in Seq(Lines)
    /\ unread \in 0 .. MaxLength
    /\ eof \in BOOLEAN /\ loop \in {"read", "drain", "over"}
    /\ output \in Seq([line : 1 .. MaxLines, kind : Kinds])

StdioInit ==
    /\ sent = <<>> /\ input = <<>> /\ unread = 0 /\ eof = FALSE
    /\ loop = "read" /\ output = <<>>

\* The client sends a line, or its last words.
Send(line) ==
    /\ ~ eof /\ Len(sent) < MaxLines
    /\ sent' = Append(sent, line)
    /\ input' = Append(input, line)
    /\ unread' = IF input = <<>> THEN line.bytes ELSE unread
    /\ eof' = ~ line.ends
    /\ UNCHANGED <<loop, output>>

Close ==
    /\ ~ eof
    /\ eof' = TRUE
    /\ UNCHANGED <<sent, input, unread, loop, output>>

-----------------------------------------------------------------------------
\* What readline returns: a piece of the first line.
Piece == IF unread <= MaxBytes + 1 THEN unread ELSE MaxBytes + 1
EndsLine == Piece = unread /\ Head(input).ends

NextLine ==
    /\ input' = Tail(input)
    /\ unread' = IF Tail(input) = <<>> THEN 0 ELSE Head(Tail(input)).bytes

Reading == Len(sent) - Len(input) + 1      \* the number of the first line

Answer(kind) == output' = Append(output, [line |-> Reading, kind |-> kind])

\* handle: one answer for a request, none without an id; LimitError is an answer.
Handled(says) ==
    CASE says = "call" -> Answer("result") \/ Answer("limited")
      [] says = "ask" -> Answer("result")
      [] says = "junk" -> Answer("parse error")
      [] OTHER -> UNCHANGED output

ReadLine ==
    /\ loop = "read" /\ input # <<>>
    /\ Piece <= MaxBytes /\ Head(input).says # "fatal"
    /\ Handled(Head(input).says)
    /\ NextLine
    /\ UNCHANGED <<sent, eof, loop>>

\* An exception that nobody catches: the server is gone, without an answer.
ReadFatal ==
    /\ loop = "read" /\ input # <<>>
    /\ Piece <= MaxBytes /\ Head(input).says = "fatal"
    /\ loop' = "over"
    /\ NextLine
    /\ UNCHANGED <<sent, eof, output>>

\* The piece is full, and it is all of the line.
ReadTooLong ==
    /\ loop = "read" /\ input # <<>>
    /\ Piece > MaxBytes /\ EndsLine
    /\ Answer("too long")
    /\ NextLine
    /\ UNCHANGED <<sent, eof, loop>>

\* Mutant: the rest of the line is taken for another.
BeginDrainNot ==
    /\ loop = "read" /\ input # <<>>
    /\ Piece > MaxBytes /\ ~ EndsLine
    /\ Answer("too long")
    /\ unread' = unread - Piece
    /\ UNCHANGED <<sent, input, eof, loop>>

BeginDrain ==
    /\ loop = "read" /\ input # <<>>
    /\ Piece > MaxBytes /\ ~ EndsLine
    /\ loop' = "drain"
    /\ unread' = unread - Piece
    /\ UNCHANGED <<sent, input, eof, output>>

\* Mutant: an empty piece is not looked at.
DrainForever ==
    /\ loop = "drain"
    /\ IF EndsLine
       THEN Answer("too long") /\ NextLine /\ loop' = "read"
       ELSE unread' = unread - Piece /\ UNCHANGED <<input, loop, output>>
    /\ UNCHANGED <<sent, eof>>

\* A piece of the rest. An empty one means that the client has gone.
Drain ==
    /\ loop = "drain"
    /\ IF EndsLine \/ unread = 0
       THEN Answer("too long") /\ NextLine /\ loop' = "read"
       ELSE unread' = unread - Piece /\ UNCHANGED <<input, loop, output>>
    /\ UNCHANGED <<sent, eof>>

\* An empty piece: the end.
EndLoop ==
    /\ loop = "read" /\ input = <<>> /\ eof
    /\ loop' = "over"
    /\ UNCHANGED <<sent, input, unread, eof, output>>

\* Another client starts another server.
Restart ==
    /\ loop = "over"
    /\ sent' = <<>> /\ input' = <<>> /\ unread' = 0 /\ eof' = FALSE
    /\ loop' = "read" /\ output' = <<>>

LoopStep == ReadLine \/ ReadFatal \/ ReadTooLong \/ BeginDrain \/ Drain \/ EndLoop

StdioNext == (\E line \in Lines : Send(line)) \/ Close \/ LoopStep \/ Restart

StdioSpec == StdioInit /\ [][StdioNext]_stdioVars /\ WF_stdioVars(LoopStep)

-----------------------------------------------------------------------------
\* What a line deserves. One that is fatal is never answered.
Deserves(line) ==
    IF line.bytes > MaxBytes THEN {"too long"}
    ELSE CASE line.says = "call" -> {"result", "limited"}
           [] line.says = "ask" -> {"result"}
           [] line.says = "junk" -> {"parse error"}
           [] OTHER -> {}

IsFatal(line) == line.says = "fatal" /\ line.bytes <= MaxBytes

\* The answers follow the lines: every line that was read and deserves an answer
\* has the one it deserves, in the order of the lines, and no other is there; so
\* no part of a line that is too long is ever taken for a request. The server
\* goes on until the client has gone and everything is read, or a line is fatal.
AnswersFollowLines ==
    LET read == Len(sent) - Len(input)
        owed == {i \in 1 .. read : Deserves(sent[i]) # {}}
    IN  /\ {output[j].line : j \in DOMAIN output} = owed
        /\ Len(output) = Cardinality(owed)
        /\ \A j \in DOMAIN output :
              /\ output[j].kind \in Deserves(sent[output[j].line])
              /\ j > 1 => output[j - 1].line < output[j].line
        /\ loop = "over" => \/ eof /\ input = <<>>
                            \/ read > 0 /\ IsFatal(sent[read])

\* When the client has gone the loop ends, whatever it was in the middle of.
LoopEnds == eof ~> loop = "over"
=============================================================================
