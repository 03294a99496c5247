-------------------------------- MODULE Framing --------------------------------
(****************************************************************************)
(* Which requests a stream of bytes holds: the syntax that waitress accepts *)
(* (parser.py, receiver.py, rfc7230.py) and, on top of it, a reference      *)
(* definition that looks at the whole stream at once.                       *)
(*                                                                          *)
(* The stream is made of tokens.  "get" is a well-formed start line, "cl"   *)
(* and "big" are the header field Content-Length, with the value BodyLength *)
(* or with a value beyond the limit, "te" is Transfer-Encoding: chunked and *)
(* "exp" is Expect: 100-continue; "0" and "2" are digits, "x" is a capital  *)
(* letter that is no hexadecimal digit.                                     *)
(****************************************************************************)
EXTENDS Integers, Sequences, FiniteSets, SequencesExt

CONSTANTS
    MaxHeader,            \* adj.max_request_header_size
    MaxBody,              \* adj.max_request_body_size
    BodyLength,           \* the number in a Content-Length field
    BigLength             \* one that is beyond the limit

ASSUME LimitsUsable ==
    /\ {MaxHeader, MaxBody, BodyLength, BigLength} \subseteq Nat \ {0}
    /\ BodyLength < MaxBody /\ MaxBody =< BigLength

Fields == {"cl", "big", "te", "exp"}
Lengths == {"cl", "big"}
Digits == {"0", "2"}
Token == Fields \union Digits \union {"get", "x", ";", "CR", "LF"}

CRLF == <<"CR", "LF">>
Blank == {"CR", "LF"}

\* s.find(pat): where pat first occurs in s, or 0.
Find(s, pat) ==
    LET hits == {i \in 1..Len(s) - Len(pat) + 1 :
                    SubSeq(s, i, i + Len(pat) - 1) = pat}
    IN IF hits = {} THEN 0 ELSE Min(hits)

Upto(s, i) == SubSeq(s, 1, i)
From(s, i) == SubSeq(s, i, Len(s))

\* find_double_newline(s): the end of the first double newline, or 0.
DoubleNewline(s) ==
    LET i == Find(s, CRLF \o CRLF) IN IF i = 0 THEN 0 ELSE i + 3

\* s.lstrip() and s.rstrip()
LStrip(s) == From(s, SelectInSeq(Append(s, "x"), LAMBDA c : c \notin Blank))
RStrip(s) == Upto(s, SelectLastInSeq(s, LAMBDA c : c \notin Blank))

Times(s, fields) == Cardinality({i \in DOMAIN s : s[i] \in fields})

\* first_line_re: what precedes "get" becomes a part of the method.
IsStartLine(s) ==
    /\ s # <<>> /\ Last(s) = "get"
    /\ \A i \in DOMAIN Front(s) : s[i] \in Digits \union {"x"}

\* The header lines are fields, one per line, with no bare CR or LF.
WellFormedLines(s) ==
    /\ \A i \in DOMAIN s : s[i] \in Fields \union Blank
    /\ \A i \in DOMAIN s :
          /\ s[i] = "CR" => i < Len(s) /\ s[i + 1] = "LF"
          /\ s[i] = "LF" => i > 1 /\ s[i - 1] = "CR"
          /\ s[i] \in Fields /\ i < Len(s) => s[i + 1] \notin Fields

\* parse_header(text): is it accepted, the fields it leaves in `headers` (which
\* hold `old` already), how the body comes, and whether a continue is expected.
\* connection_close, which it also sets, is left out: nothing reads it.
ParsedHeader(text, old) ==
    LET eol == Find(text, CRLF)
        lines == From(text, eol + 2)
        all == old \o SelectSeq(lines, LAMBDA c : c \in Fields)
        chunked == Times(all, {"te"}) = 1
        ok == /\ IsStartLine(RStrip(Upto(text, eol - 1)))
              /\ WellFormedLines(lines)
              /\ Times(all, Lengths) =< 1
              /\ Times(all, {"te"}) =< 1
    IN [ok |-> ok,
        kept |-> SelectSeq(all, LAMBDA c :
                     c # "te" /\ ~(chunked /\ c \in Lengths)),
        kind |-> CASE chunked -> "chunked"
                   [] ~chunked /\ Times(all, {"cl"}) = 1 -> "fixed"
                   [] ~chunked /\ Times(all, {"big"}) = 1 -> "big"
                   [] OTHER -> "none",
        expect |-> ok /\ Times(all, {"exp"}) = 1]

\* ONLY_HEXDIG_RE and CHUNK_EXT_RE: their $ also matches before a final LF.
BeforeFinalLF(s) == IF s # <<>> /\ Last(s) = "LF" THEN Front(s) ELSE s

IsSize(s) ==
    LET d == BeforeFinalLF(s) IN d # <<>> /\ \A i \in DOMAIN d : d[i] \in Digits

IsExtension(s) ==
    LET e == BeforeFinalLF(s) IN
    \A i \in DOMAIN e :
        /\ e[i] \in Digits \union {"x", ";"}
        /\ e[i] = ";" => i < Len(e) /\ e[i + 1] # ";"

\* int(line, 16)
Size(s) ==
    LET d == BeforeFinalLF(s)
        upto[i \in 0..Len(d)] ==
            IF i = 0 THEN 0 ELSE 16 * upto[i - 1] + (IF d[i] = "2" THEN 2 ELSE 0)
    IN upto[Len(d)]

SizePart(line) ==
    LET semi == Find(line, <<";">>) IN IF semi = 0 THEN line ELSE Upto(line, semi - 1)

IsControlLine(line) ==
    LET semi == Find(line, <<";">>) IN
    /\ semi # 0 => IsExtension(From(line, semi))
    /\ IsSize(SizePart(line))

----------------------------------------------------------------------------
(* The reference.  A chunked body at the start of s: its status, its length *)
(* in s, and the data in it.                                                *)

More == [status |-> "more", len |-> 0, data |-> <<>>]
Bad == [status |-> "error", len |-> 0, data |-> <<>>]

Shift(rest, n, data) ==
    [rest EXCEPT !.len = @ + n, !.data = data \o @]

Trailer(s) ==
    IF IsPrefix(CRLF, s) THEN [status |-> "ok", len |-> 2, data |-> <<>>]
    ELSE IF DoubleNewline(s) = 0 THEN More
    ELSE [status |-> "ok", len |-> DoubleNewline(s), data |-> <<>>]

Chunked[s \in Seq(Token)] ==
    LET eol == Find(s, CRLF)
        line == Upto(s, eol - 1)
        after == From(s, eol + 2)
        n == Size(SizePart(line))
    IN CASE eol = 0 -> More
         [] eol = 1 -> Shift(Chunked[after], 2, <<>>)
         [] eol > 1 /\ ~IsControlLine(line) -> Bad
         [] OTHER ->
              CASE n = 0 -> Shift(Trailer(after), eol + 1, <<>>)
                [] n > 0 /\ Len(after) < n + 2 -> More
                [] OTHER ->
                     IF SubSeq(after, n + 1, n + 2) = CRLF
                     THEN Shift(Chunked[From(after, n + 3)], eol + n + 3,
                                Upto(after, n))
                     ELSE Bad

Rejected == [ok |-> FALSE, body |-> <<>>]
Accepted(body) == [ok |-> TRUE, body |-> body]

\* A chunked body is too long for the limit, though it may not be complete.
TooLong(c, body) ==
    (IF c.status = "ok" THEN c.len ELSE Len(body)) >= MaxBody

\* The requests that s holds, up to the first one that is rejected.
Frames[s \in Seq(Token)] ==
    LET end == DoubleNewline(s)
        text == LStrip(Upto(s, end))
        h == ParsedHeader(text, <<>>)
        body == From(s, end + 1)
        c == Chunked[body]
        rest(n, data) == <<Accepted(data)>> \o Frames[From(body, n + 1)]
    IN CASE end >= MaxHeader \/ (end = 0 /\ Len(s) >= MaxHeader) -> <<Rejected>>
         [] end = 0 /\ Len(s) < MaxHeader -> <<>>
         [] OTHER ->
              CASE text = <<>> -> Frames[body]
                [] text # <<>> /\ (~h.ok \/ h.kind = "big") -> <<Rejected>>
                [] OTHER ->
                     CASE h.kind = "none" -> rest(0, <<>>)
                       [] h.kind = "fixed" ->
                            IF Len(body) < BodyLength THEN <<>>
                            ELSE rest(BodyLength, Upto(body, BodyLength))
                       [] h.kind = "chunked" ->
                            CASE c.status = "error" \/ TooLong(c, body) -> <<Rejected>>
                              [] c.status = "ok" /\ ~TooLong(c, body) ->
                                   rest(c.len, c.data)
                              [] OTHER -> <<>>

=============================================================================
