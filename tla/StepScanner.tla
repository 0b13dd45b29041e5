---------------------------- MODULE StepScanner ----------------------------
(***************************************************************************)
(* The two streaming lexers of packages/ifc: scanStatements of presplit.ts,  *)
(* which finds the statements of the DATA section and what they refer to,    *)
(* and stripStepCommentsChunk of convert.ts.  Both read a file in chunks, so *)
(* a two-byte token may be cut anywhere.  A byte is a one-letter string.     *)
(***************************************************************************)
EXTENDS Integers, Sequences, FiniteSets

CONSTANTS
    Texts,          \* what is read, as sequences of bytes
    Digits,         \* the bytes that are digits
    Blanks

\* The bytes of the grammar are neither digits nor blanks.
ScannerAssumption ==
    /\ \A t \in Texts : t \in Seq(STRING)
    /\ (Digits \cup Blanks) \cap {"'", "/", "*", "#", ";", "="} = {}

Lexers == {"scan", "strip"}

VARIABLES
    text, lexer,
    at,             \* bytes consumed
    end,            \* bytes read
    lex,            \* where the lexer is, see Fresh
    found,          \* statements, or bytes emitted
    over

vars == <<text, lexer, at, end, lex, found, over>>

\* mode of the byte to come; pend, a token the chunk's end may have cut in two;
\* hash, the digits after a "#"; refs, those of the open statement.
Fresh == [open |-> FALSE, start |-> 0, mode |-> "plain", pend |-> "none",
          hashing |-> FALSE, hash |-> <<>>, owner |-> TRUE, refs |-> <<>>]

TypeOK ==
    /\ text \in Texts /\ lexer \in Lexers
    /\ 0 <= at /\ at <= end /\ end <= Len(text)
    /\ lex.mode \in {"plain", "string", "comment"}
    /\ lex.pend \in {"none", "quote", "slash", "star"}

Init ==
    /\ text \in Texts /\ lexer \in Lexers
    /\ at = 0 /\ end = 0
    /\ lex = Fresh /\ found = <<>> /\ over = FALSE

Byte   == text[at + 1]
Lone   == at + 1 = end                  \* no lookahead in this chunk
Follow == text[at + 2]

Eat(k, l) ==
    /\ at' = at + k
    /\ lex' = l
    /\ UNCHANGED <<text, lexer, end, over>>

Silent(k, l) == Eat(k, l) /\ UNCHANGED found

\* The loop reads on when the bytes it has are used up; strip keeps one back.
ReadChunk(n) ==
    /\ end + n <= Len(text)
    /\ IF lexer = "scan" THEN at = end ELSE at >= end - 1
    /\ end' = end + n
    /\ UNCHANGED <<text, lexer, at, lex, found, over>>

-----------------------------------------------------------------------------
Scanning == lexer = "scan" /\ ~over /\ at < end

\* A token cut by the end of the last chunk.
Resolve ==
    /\ Scanning /\ lex.pend # "none"
    /\ LET l == [lex EXCEPT !.pend = "none"]
       IN  CASE lex.pend = "quote" -> IF Byte = "'" THEN Silent(1, l)
                                                   ELSE Silent(0, [l EXCEPT !.mode = "plain"])
             [] lex.pend = "slash" -> IF Byte = "*" THEN Silent(1, [l EXCEPT !.mode = "comment"])
                                                   ELSE Silent(0, l)
             [] lex.pend = "star"  -> Silent(IF Byte = "/" THEN 1 ELSE 0, l)

Ready == Scanning /\ lex.pend = "none"
Inside(mode) == Ready /\ lex.open /\ ~lex.hashing /\ lex.mode = mode

OpenStatement ==
    /\ Ready /\ ~lex.open
    /\ IF Byte \in Blanks THEN Silent(1, lex)
       ELSE Silent(0, [Fresh EXCEPT !.open = TRUE, !.start = at])

Close(l) ==
    /\ Eat(1, [l EXCEPT !.open = FALSE])
    /\ found' = Append(found, [start |-> l.start, end |-> at + 1, refs |-> l.refs])

\* Mutant: #12 is read as #1 when the read ends after it.
HashDigitCut ==
    /\ Ready /\ lex.hashing
    /\ Byte \in Digits
    /\ Silent(1, [lex EXCEPT !.hash = IF Lone /\ @ # <<>> THEN @ ELSE Append(@, Byte)])

HashDigit ==
    /\ Ready /\ lex.hashing
    /\ Byte \in Digits
    /\ Silent(1, [lex EXCEPT !.hash = Append(@, Byte)])

\* The byte after the digits is consumed with them; only ";" is looked at.
HashEnd ==
    /\ Ready /\ lex.hashing
    /\ Byte \notin Digits
    /\ LET isRef == ~(lex.owner /\ Byte = "=") /\ lex.hash # <<>>
           l == [lex EXCEPT !.hashing = FALSE, !.hash = <<>>, !.owner = FALSE,
                            !.refs = IF isRef THEN Append(@, lex.hash) ELSE @]
       IN  IF Byte = ";" THEN Close(l) ELSE Silent(1, l)

\* A comment's end is stepped over; the mode stays.
InComment ==
    /\ Inside("comment")
    /\ IF Byte = "*" /\ Lone THEN Silent(1, [lex EXCEPT !.pend = "star"])
       ELSE Silent(IF Byte = "*" /\ Follow = "/" THEN 2 ELSE 1, lex)

InString ==
    /\ Inside("string")
    /\ IF Byte # "'" THEN Silent(1, lex)
       ELSE IF Lone THEN Silent(1, [lex EXCEPT !.pend = "quote"])
       ELSE IF Follow = "'" THEN Silent(2, lex)
       ELSE Silent(1, [lex EXCEPT !.mode = "plain"])

InPlain ==
    /\ Inside("plain")
    /\ CASE Byte = "#" -> Silent(1, [lex EXCEPT !.hashing = TRUE])
         [] Byte = "'" -> Silent(1, [lex EXCEPT !.mode = "string"])
         [] Byte = ";" -> Close(lex)
         [] Byte = "/" /\ Lone -> Silent(1, [lex EXCEPT !.pend = "slash"])
         [] Byte = "/" /\ ~Lone /\ Follow = "*" -> Silent(2, [lex EXCEPT !.mode = "comment"])
         [] OTHER -> Silent(1, lex)

\* The tolerant end: a statement without a terminator is reported as it is.
EndOfData ==
    /\ lexer = "scan" /\ ~over /\ at = Len(text)
    /\ over' = TRUE
    /\ found' = IF lex.open THEN Append(found, [start |-> lex.start, end |-> at, refs |-> lex.refs])
                            ELSE found
    /\ UNCHANGED <<text, lexer, at, end, lex>>

-----------------------------------------------------------------------------
\* strip takes a byte once it knows the one after it, or that there is none.
Stripping == lexer = "strip" /\ ~over /\ at < end /\ (~Lone \/ end = Len(text))
Second    == IF Lone THEN "end" ELSE Follow

Emit(k, l) ==
    /\ Eat(k, l)
    /\ found' = found \o SubSeq(text, at + 1, at + k)

StripComment ==
    /\ Stripping /\ lex.mode = "comment"
    /\ IF Byte = "*" /\ Second = "/" THEN Silent(2, [lex EXCEPT !.mode = "plain"])
                                     ELSE Silent(1, lex)

StripString ==
    /\ Stripping /\ lex.mode = "string"
    /\ IF Byte # "'" THEN Emit(1, lex)
       ELSE IF Second = "'" THEN Emit(2, lex)
       ELSE Emit(1, [lex EXCEPT !.mode = "plain"])

StripPlain ==
    /\ Stripping /\ lex.mode = "plain"
    /\ CASE Byte = "'" -> Emit(1, [lex EXCEPT !.mode = "string"])
         [] Byte = "/" /\ Second = "*" -> Silent(2, [lex EXCEPT !.mode = "comment"])
         [] OTHER -> Emit(1, lex)

Stripped ==
    /\ lexer = "strip" /\ ~over /\ at = Len(text)
    /\ over' = TRUE
    /\ UNCHANGED <<text, lexer, at, end, lex, found>>

Next ==
    \/ \E n \in 1..Len(text) : ReadChunk(n)
    \/ Resolve \/ OpenStatement \/ HashDigit \/ HashEnd
    \/ InComment \/ InString \/ InPlain \/ EndOfData
    \/ StripComment \/ StripString \/ StripPlain \/ Stripped

Spec == Init /\ [][Next]_vars

-----------------------------------------------------------------------------
\* What the file says, read byte by byte: where the lexers should be after each.
Turn(m, b) ==
    CASE m \in {"plain", "slash"} ->
             IF b = "'" THEN "string"
             ELSE IF b = "/" THEN "slash"
             ELSE IF m = "slash" /\ b = "*" THEN "comment" ELSE "plain"
      [] m = "string" -> IF b = "'" THEN "plain" ELSE "string"
      [] m \in {"comment", "star"} ->
             IF b = "*" THEN "star"
             ELSE IF m = "star" /\ b = "/" THEN "plain" ELSE "comment"
Mode ==
    LET mode[p \in Nat] == IF p = 0 THEN "plain" ELSE Turn(mode[p - 1], text[p])
    IN  mode

Bytes      == 1..Len(text)
Comment(p) == Mode[p] \in {"comment", "star"}

\* The bytes of no comment: not the slash that opens one, nor the one that ends it.
Kept == {p \in Bytes : ~Comment(p) /\ ~Comment(p - 1)
                      /\ ~(Mode[p] = "slash" /\ p + 1 \in Bytes /\ Comment(p + 1))}

\* What stripping leaves: each byte at the place that the kept ones before it give it.
IsStripped ==
    /\ Len(found) = Cardinality(Kept)
    /\ \A p \in Kept : found[Cardinality({q \in Kept : q <= p})] = text[p]

Terminators == {p \in Bytes : text[p] = ";" /\ Mode[p] = "plain"}

\* The ends of its statements, one of them unterminated perhaps.
StatementEnds ==
    Terminators \cup
    {p \in {Len(text)} : \E q \in Bytes : text[q] \notin Blanks /\ \A t \in Terminators : t < q}

\* The names (#12) of a statement; q ends the name at p; the first is the owner's
\* if "=" follows it; a reference is a name of a digit at least.
Names      == {p \in Bytes : text[p] = "#" /\ Mode[p] = "plain"}
Ends(q, p) == p < q /\ text[q] \notin Digits /\ \A r \in (p + 1)..(q - 1) : text[r] \in Digits
References(start, to) ==
    {p \in Names : start < p /\ \E q \in (p + 2)..to :
        Ends(q, p) /\ ~(text[q] = "=" /\ \A r \in Names : start < r => p <= r)}

\* refs are the names at R, in their order, each with all of its digits.
Lists(refs, R) ==
    /\ Len(refs) = Cardinality(R)
    /\ \A p \in R, q \in Bytes :
          Ends(q, p) => refs[Cardinality({r \in R : r <= p})] = SubSeq(text, p + 1, q - 1)

Scanned ==
    /\ {found[i].end : i \in DOMAIN found} = StatementEnds
    /\ \A i \in DOMAIN found : Lists(found[i].refs, References(found[i].start, found[i].end))

\* A file without comments in which no string and no name touches a name before it.
Regular ==
    /\ \A p \in Bytes : ~Comment(p)
    /\ \A p \in Names, q \in Bytes : Ends(q, p) => text[q] \notin {"'", "#"}

(* Wherever the chunks of the file are cut, the scan reports the statements of  *)
(* a regular file and whom each of them refers to, digit for digit and in the   *)
(* order of the text, and stripping keeps exactly the bytes in no comment.      *)
LexersIgnoreCuts ==
    over => IF lexer = "scan" THEN Regular => Scanned ELSE IsStripped

(* presplit.ts:139-141: a statement runs to the first top-level semicolon,      *)
(* outside strings and comments.                                                *)
StatementsEndAtTop == over /\ lexer = "scan" => Scanned
=============================================================================
