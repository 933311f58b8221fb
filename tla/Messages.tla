------------------------------ MODULE Messages ------------------------------
(***************************************************************************)
(* The texts of HTTP messages, how class Request and class Response take   *)
(* them apart, and how both are made into texts again.                     *)
(*                                                                         *)
(* A text is a sequence of tokens: the characters that the code looks for, *)
(* and words that contain none of these.                                   *)
(***************************************************************************)
EXTENDS Integers, Sequences, SequencesExt, FiniteSetsExt, TLC

CONSTANTS
  Tokens,  \* the characters and words
  Numbers  \* the numbers that may be written in a text (a bound)

CR == "\r"
CRLF == <<CR, "\n">>
BlankLine == CRLF \o CRLF
Space == <<" ">>
ColonSpace == <<":", " ">>

\* std::to_string, and the number that a word is, where it is one.
Numeral == [n \in Numbers |-> ToString(n)]
NumberOf == [w \in {Numeral[n] : n \in Numbers} |-> CHOOSE n \in Numbers : Numeral[n] = w]
IsNumber(word) == word \in DOMAIN NumberOf

\* Different numbers are written differently, and as one word each.
ASSUME TokensAssumption ==
  /\ {CR, "\n", " ", ":", "HTTP/1.1", "reason"} \subseteq Tokens
  /\ Numbers \subseteq Int
  /\ \A n \in Numbers : ToString(n) \in Tokens \ {CR, "\n", " ", ":"}
  /\ \A m, n \in Numbers : ToString(m) = ToString(n) => m = n

-----------------------------------------------------------------------------
\* Parts of texts.  Positions count from 1; 0 is npos.

Text == Seq(Tokens)

Occurrences(s, sub) ==
  {k \in 1..(Len(s) - Len(sub) + 1) : SubSeq(s, k, k + Len(sub) - 1) = sub}

FindIn(s, sub) ==
  IF Occurrences(s, sub) = {} THEN 0 ELSE Min(Occurrences(s, sub))

\* What lies between the occurrences of a separator.
Split(s, sep) ==
  LET pieces[t \in Text] ==
        LET k == FindIn(t, sep)
        IN  IF k = 0
            THEN <<t>>
            ELSE <<SubSeq(t, 1, k - 1)>> \o pieces[SubSeq(t, k + Len(sep), Len(t))]
  IN  pieces[s]

\* One word of a line.
Plain(s) == \A sep \in {Space, CRLF} : FindIn(s, sep) = 0

-----------------------------------------------------------------------------
\* Headers, which both classes keep in the order they came in

Header(key, value) == [key |-> key, value |-> value]

get_header(headers, key) ==
  LET k == SelectInSeq(headers, LAMBDA h : h.key = key)
  IN  IF k = 0 THEN <<>> ELSE headers[k].value

\* The first header of that name is replaced, or one is added at the end.
set_header(headers, h) ==
  LET k == SelectInSeq(headers, LAMBDA g : g.key = h.key)
  IN  IF k = 0 THEN Append(headers, h) ELSE ReplaceAt(headers, k, h)

remove_header(headers, key) == RemoveFirstMatch(headers, LAMBDA h : h.key = key)

HeaderText(headers) ==
  FlattenSeq([k \in DOMAIN headers |-> headers[k].key \o ColonSpace \o headers[k].value \o CRLF])

\* The part of a message before the blank line, less the line breaks.  The
\* first '\r' of the blank line is taken along and stays on the last line.
Lines(text) == Split(SubSeq(text, 1, FindIn(text, BlankLine)), CRLF)

FirstLine(text) == Split(Lines(text)[1], Space)

BodyOf(text) == SubSeq(text, FindIn(text, BlankLine) + 4, Len(text))

HeaderOf(line) ==
  LET k == FindIn(line, ColonSpace)
  IN  Header(SubSeq(line, 1, k - 1), SubSeq(line, k + 2, Len(line)))

HeadersOf(text) == [k \in 1..(Len(Lines(text)) - 1) |-> HeaderOf(Lines(text)[k + 1])]

HeadersAreValid(text) == \A line \in ToSet(Tail(Lines(text))) : FindIn(line, ColonSpace) # 0

-----------------------------------------------------------------------------
\* Request

IsRequest(text) ==
  /\ FindIn(text, BlankLine) # 0
  /\ Len(FirstLine(text)) = 3
  /\ FirstLine(text)[1] \in {<<"GET">>, <<"POST">>}
  /\ HeadersAreValid(text)

ParseRequest(text) ==
  [method |-> FirstLine(text)[1], uri |-> FirstLine(text)[2], version |-> FirstLine(text)[3],
   headers |-> HeadersOf(text), body |-> BodyOf(text), raw |-> text]

append_body(request, data) ==
  [request EXCEPT !.body = @ \o data, !.raw = @ \o data]

\* Variant: the blank line is left to the body.
RequestText_NoBlankLine(request) ==
  request.method \o Space \o request.uri \o Space \o request.version \o CRLF
  \o HeaderText(request.headers) \o request.body \o CRLF

\* ToString: a line break follows the body too.
RequestText(request) ==
  request.method \o Space \o request.uri \o Space \o request.version \o CRLF
  \o HeaderText(request.headers) \o CRLF \o request.body \o CRLF

-----------------------------------------------------------------------------
\* Response

Codes == {200, 301, 302, 400, 401, 404, 500, 600}  \* 600 is "other"

StatusLine(code) ==
  <<"HTTP/1.1", " ", ToString(IF code = 600 THEN 500 ELSE code), " ", "reason">> \o CRLF

\* An answer made here, with SetStatus, AddHeader and SetBody.
MakeResponse(code, headers, body) ==
  [status |-> code, first_line |-> StatusLine(code), headers |-> headers, body |-> body]

NoResponse == [status |-> 0, first_line |-> <<>>, headers |-> <<>>, body |-> <<>>]

IntToResponseCode(n) == IF n \in Codes THEN n ELSE 600

\* Three tokens or more, the second a number.
IsResponse(text) ==
  /\ FindIn(text, BlankLine) # 0
  /\ Len(FirstLine(text)) > 2
  /\ Len(FirstLine(text)[2]) = 1 /\ IsNumber(FirstLine(text)[2][1])
  /\ HeadersAreValid(text)

\* The first line is kept for ToString with a space at its end.
ParseResponse(text) ==
  LET tokens == FirstLine(text)
      spaced == FlattenSeq([k \in DOMAIN tokens |-> tokens[k] \o Space])
  IN  [status |-> IntToResponseCode(NumberOf[tokens[2][1]]),
       first_line |-> spaced \o CRLF,
       headers |-> HeadersOf(text), body |-> BodyOf(text)]

\* Variant: the blank line is left to the body.
ResponseText_NoBlankLine(response) ==
  response.first_line \o HeaderText(response.headers) \o response.body

\* ToString.
ResponseText(response) ==
  response.first_line \o HeaderText(response.headers) \o CRLF \o response.body
=============================================================================
