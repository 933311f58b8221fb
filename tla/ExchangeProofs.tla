--------------------------- MODULE ExchangeProofs ---------------------------
(***************************************************************************)
(* Proofs about a connection and the proxy behind it (modules Exchange and *)
(* ReverseProxy), for texts of any length.                                 *)
(***************************************************************************)
EXTENDS Exchange, MessagesProofs, FiniteSetTheorems

-----------------------------------------------------------------------------
\* Searching for characters

LEMMA FirstFromIs ==
  ASSUME NEW s \in Text, NEW start \in Nat \ {0}, NEW chars
  PROVE  LET k == FirstFrom(s, start, chars)
         IN  /\ k \in 0..Len(s) /\ Len(s) \in Nat
             /\ k = 0 => \A j \in start..Len(s) : s[j] \notin chars
             /\ k # 0 => /\ start <= k /\ s[k] \in chars
                         /\ \A j \in start..(k - 1) : s[j] \notin chars
<1> DEFINE At == {j \in start..Len(s) : s[j] \in chars}
<1>1. Len(s) \in Nat
  BY DEF Text
<1>2. FirstFrom(s, start, chars) = IF At # {} THEN Min(At) ELSE 0
  BY DEF FirstFrom, SelectInSubSeq
<1>3. CASE At = {}
  <2>1. \A j \in start..Len(s) : s[j] \notin chars
    BY <1>3
  <2> QED BY <1>1, <1>2, <1>3, <2>1
<1>4. CASE At # {}
  <2>1. At \in SUBSET Nat
    BY <1>1
  <2>2. Min(At) \in At /\ \A j \in At : Min(At) <= j
    BY <1>4, <2>1, MinIsLeast
  <2>3. PICK k \in Nat : k = FirstFrom(s, start, chars) /\ k \in At /\ \A j \in At : k <= j
    BY <1>2, <1>4, <2>1, <2>2
  <2>4. start <= k /\ k <= Len(s) /\ s[k] \in chars
    BY <2>3
  <2>5. ASSUME NEW j \in start..(k - 1)
        PROVE  s[j] \notin chars
    <3>1. j \in start..Len(s) /\ ~ (k <= j)
      BY <1>1, <2>4
    <3> QED BY <2>3, <3>1
  <2> HIDE DEF At
  <2> QED BY <1>1, <2>3, <2>4, <2>5
<1> QED
  BY <1>3, <1>4

\* The part of a text from a position on is what comes before the first of
\* some characters, and the rest, which begins with it.
LEMMA UpToFirst ==
  ASSUME NEW s \in Text, NEW start \in 1..(Len(s) + 1), NEW chars,
         NEW first, first = FirstFrom(s, start, chars), NEW part, part = UpTo(s, start, first)
  PROVE  /\ part \in Text
         /\ \A c \in chars : c \notin ToSet(part)
         /\ first = 0 => SubSeq(s, start, Len(s)) = part
         /\ first # 0 => /\ first \in start..Len(s) /\ s[first] \in chars
                         /\ SubSeq(s, first, Len(s)) \in Text
                         /\ SubSeq(s, start, Len(s)) = Cat(part, SubSeq(s, first, Len(s)))
<1>1. Len(s) \in Nat /\ s \in Seq(Tokens) /\ start \in Nat \ {0}
  BY DEF Text
<1>2. PICK k \in 0..Len(s) :
        /\ k = first
        /\ k = 0 => \A j \in start..Len(s) : s[j] \notin chars
        /\ k # 0 => /\ start <= k /\ s[k] \in chars
                    /\ \A j \in start..(k - 1) : s[j] \notin chars
  BY <1>1, FirstFromIs
<1>3. PICK end \in (start - 1)..Len(s) : end = IF k = 0 THEN Len(s) ELSE k - 1
  BY <1>1, <1>2
<1>4. /\ part \in Text
      /\ part = UpTo(s, start, k) /\ part = SubSeq(s, start, end)
      /\ Len(part) = end - start + 1
      /\ \A j \in 1..(end - start + 1) : part[j] = s[start + j - 1]
  <2>1. /\ SubSeq(s, start, end) \in Seq(Tokens)
        /\ Len(SubSeq(s, start, end)) = end - start + 1
        /\ \A j \in 1..(end - start + 1) : SubSeq(s, start, end)[j] = s[start + j - 1]
    BY <1>1, PartElements
  <2>2. part = UpTo(s, start, k) /\ part = SubSeq(s, start, end)
    BY <1>2, <1>3 DEF UpTo
  <2> QED BY <2>1, <2>2 DEF Text
<1>5. \A j \in start..end : s[j] \notin chars
  BY <1>2, <1>3
<1>6. ASSUME NEW c \in chars, c \in ToSet(part)
      PROVE  FALSE
  <2>1. PICK j \in 1..Len(part) : part[j] = c
    BY <1>6 DEF ToSet, Text
  <2>2. start + j - 1 \in start..end
    BY <1>1, <1>4, <2>1
  <2> QED BY <1>4, <1>5, <1>6, <2>1, <2>2
<1>7. k # 0 => SubSeq(s, start, end) \o SubSeq(s, end + 1, Len(s)) = SubSeq(s, start, Len(s))
  <2>1. Len(s) \in end..Len(s)
    BY <1>1
  <2> QED BY <1>1, <2>1, ConcatAdjacentSubSeq
<1>8. k # 0 => SubSeq(s, k, Len(s)) \in Text
  BY <1>1, PartIsText
<1>9. k = 0 => SubSeq(s, start, Len(s)) = part
  BY <1>3, <1>4 DEF UpTo
<1>10. k # 0 => /\ k \in start..Len(s)
                /\ SubSeq(s, start, Len(s)) = Cat(part, SubSeq(s, k, Len(s)))
  <2>1. k # 0 => end + 1 = k /\ part = SubSeq(s, start, end)
    BY <1>1, <1>3, <1>4
  <2>2. k # 0 => k \in start..Len(s)
    BY <1>1, <1>2
  <2> QED BY <1>7, <2>1, <2>2, Zenon DEF Cat
<1> QED
  BY <1>2, <1>4, <1>6, <1>8, <1>9, <1>10
-----------------------------------------------------------------------------
\* ReverseProxyHandler::Init

LEMMA ProxyWords ==
  /\ <<"/">> \in Text /\ <<":">> \in Text /\ <<"80">> \in Text /\ <<>> \in Text
  /\ <<"/", "/">> \in Text /\ Len(<<"/", "/">>) = 2 /\ <<"/", "/">> # <<>>
  /\ <<"Host">> \in Text /\ <<"Connection">> \in Text /\ <<"close">> \in Text
<1>1. /\ "/" \in Tokens /\ "80" \in Tokens
      /\ "Host" \in Tokens /\ "Connection" \in Tokens /\ "close" \in Tokens
  BY RemoteAssumption
<1>2. ":" \in Tokens
  BY TokensAssumption, Zenon
<1> QED
  BY <1>1, <1>2 DEF Text

\* A protocol ends where "//" begins for the first time.
LEMMA ProtocolIs ==
  ASSUME NEW url \in Text
  PROVE  LET p == Protocol(url)
         IN  /\ p \in Nat /\ Len(url) \in Nat
             /\ p # 0 => /\ p \in 1..(Len(url) - 1)
                         /\ url[p + 1] = "/"
                         /\ SubSeq(url, p, p + 1) = <<"/", "/">>
                         /\ \A k \in 1..(p - 1) : SubSeq(url, k, k + 1) # <<"/", "/">>
                         /\ url = SubSeq(url, 1, p - 1) \o <<"/", "/">> \o SubSeq(url, p + 2, Len(url))
<1>1. PICK slashes \in Text : slashes = <<"/", "/">> /\ Len(slashes) = 2 /\ slashes[2] = "/"
  BY ProxyWords
<1>2. PICK p \in Nat :
        /\ p = Protocol(url)
        /\ p # 0 => /\ p \in Occurrences(url, slashes)
                    /\ p + 2 <= Len(url) + 1
                    /\ \A k \in Occurrences(url, slashes) : p <= k
  BY <1>1, FindFirst DEF Protocol
<1>3. Len(url) \in Nat
  BY DEF Text
<1>4. CASE p = 0
  BY <1>2, <1>3, <1>4
<1>5. CASE p # 0
  <2>1. p \in 1..(Len(url) - 1)
    BY <1>2, <1>3, <1>5
  <2>2. SubSeq(url, p, p + 1) = slashes
    <3>1. p + Len(slashes) - 1 = p + 1
      BY <1>1
    <3> QED BY <1>2, <1>5, <3>1 DEF Occurrences
  <2>3. ASSUME NEW k \in 1..(p - 1), SubSeq(url, k, k + 1) = slashes
        PROVE  FALSE
    <3>1. k + Len(slashes) - 1 = k + 1 /\ k \in 1..(Len(url) - Len(slashes) + 1) /\ ~ (p <= k)
      BY <1>1, <1>3, <2>1
    <3>2. k \in Occurrences(url, slashes)
      BY <2>3, <3>1 DEF Occurrences
    <3> QED BY <1>2, <1>5, <3>1, <3>2
  <2>4. url = SubSeq(url, 1, p - 1) \o slashes \o SubSeq(url, p + 2, Len(url))
    <3>1. url = SubSeq(url, 1, p - 1) \o slashes \o SubSeq(url, p + Len(slashes), Len(url))
      BY <1>2, <1>5, OccurrenceParts
    <3> QED BY <1>1, <3>1, Zenon
  <2>5. url[p + 1] = "/"
    <3>1. \A j \in 1..Len(slashes) : url[p + j - 1] = slashes[j]
      BY <1>2, <1>5, OccurrenceTokens
    <3>2. 2 \in 1..Len(slashes) /\ p + 2 - 1 = p + 1
      BY <1>1
    <3> QED BY <1>1, <3>1, <3>2
  <2> QED BY <1>1, <1>2, <1>3, <1>5, <2>1, <2>2, <2>3, <2>4, <2>5
<1> QED
  BY <1>4, <1>5

\* What Init makes of a proxy_pass with a protocol.
LEMMA InitTakesApart ==
  ASSUME NEW url \in Text, Protocol(url) # 0
  PROVE  Splits(url, UpTo(url, HostStart(url), HostEnd(url)), PortOf(url), PathOf(url))
<1>1. PICK p \in Nat :
        /\ p = Protocol(url)
        /\ p \in 1..(Len(url) - 1)
        /\ SubSeq(url, p, p + 1) = <<"/", "/">>
        /\ \A k \in 1..(p - 1) : SubSeq(url, k, k + 1) # <<"/", "/">>
  BY ProtocolIs
<1>2. Len(url) \in Nat /\ url \in Seq(Tokens)
  BY DEF Text
<1>3. PICK h \in 1..(Len(url) + 1) : h = HostStart(url) /\ h = p + 2
  BY <1>1, <1>2 DEF HostStart
<1>4. PICK rest \in Text : rest = SubSeq(url, p + 2, Len(url))
  <2>1. PICK m \in Nat \ {0} : m = p + 2
    BY <1>1
  <2>2. SubSeq(url, m, Len(url)) \in Text
    BY <1>2, PartIsText
  <2> QED BY <2>1, <2>2
<1>5. PICK e : e = HostEnd(url) /\ e = FirstFrom(url, h, {":", "/"})
  BY <1>3 DEF HostEnd
<1>6. PICK host \in Text :
        /\ host = UpTo(url, HostStart(url), HostEnd(url))
        /\ "/" \notin ToSet(host) /\ ":" \notin ToSet(host)
        /\ e = 0 => rest = host
        /\ e # 0 => /\ e \in h..Len(url) /\ url[e] \in {":", "/"}
                    /\ SubSeq(url, e, Len(url)) \in Text
                    /\ rest = host \o SubSeq(url, e, Len(url))
  <2> DEFINE ends == {":", "/"}
             host == UpTo(url, h, e)
  <2>1. e = FirstFrom(url, h, ends) /\ host = UpTo(url, h, e)
    BY <1>5
  <2>2. ":" \in ends /\ "/" \in ends /\ ends = {":", "/"}
    OBVIOUS
  <2>3. host = UpTo(url, HostStart(url), HostEnd(url)) /\ rest = SubSeq(url, h, Len(url))
    BY <1>3, <1>4, <1>5
  <2> HIDE DEF ends, host
  <2>4. /\ host \in Text
        /\ \A c \in ends : c \notin ToSet(host)
        /\ e = 0 => SubSeq(url, h, Len(url)) = host
        /\ e # 0 => /\ e \in h..Len(url) /\ url[e] \in ends
                    /\ SubSeq(url, e, Len(url)) \in Text
                    /\ SubSeq(url, h, Len(url)) = Cat(host, SubSeq(url, e, Len(url)))
    BY <2>1, UpToFirst
  <2> QED BY <2>2, <2>3, <2>4, Zenon DEF Cat
<1> DEFINE IsUrl(withPort, port, withPath, path) ==
             rest = host \o (IF withPort THEN <<":">> \o port ELSE <<>>)
                         \o (IF withPath THEN path ELSE <<>>)
<1>7. ASSUME NEW withPort \in BOOLEAN, NEW withPath \in BOOLEAN, NEW port, NEW path,
             port = PortOf(url), path = PathOf(url), "/" \notin ToSet(port),
             withPort \/ port = <<"80">>, withPath \/ path = <<"/">>,
             IsUrl(withPort, port, withPath, path)
      PROVE  Splits(url, UpTo(url, HostStart(url), HostEnd(url)), PortOf(url), PathOf(url))
  BY <1>1, <1>4, <1>6, <1>7, Zenon DEF Splits
<1>8. host \o <<>> = host
  BY <1>6 DEF Text
<1>9. "/" \notin ToSet(<<"80">>)
  BY DEF ToSet
<1>10. CASE e = 0
  <2>1. PortOf(url) = <<"80">> /\ PathOf(url) = <<"/">>
    BY <1>5, <1>10 DEF PortOf, PathOf, HasPort, PathStart
  <2>2. IsUrl(FALSE, <<"80">>, FALSE, <<"/">>)
    BY <1>6, <1>8, <1>10, Zenon
  <2> HIDE DEF IsUrl
  <2> QED BY <1>7, <1>9, <2>1, <2>2
<1>11. CASE e # 0 /\ url[e] # ":"
  <2>1. PICK path \in Text : path = PathOf(url) /\ path = SubSeq(url, e, Len(url))
    BY <1>5, <1>6, <1>11 DEF PathOf, HasPort, PathStart
  <2>2. PortOf(url) = <<"80">>
    BY <1>5, <1>11 DEF PortOf, HasPort
  <2>3. IsUrl(FALSE, <<"80">>, TRUE, path)
    BY <1>6, <1>8, <1>11, <2>1, Zenon
  <2> HIDE DEF IsUrl
  <2> QED BY <1>7, <1>9, <2>1, <2>2, <2>3
<1>12. CASE e # 0 /\ url[e] = ":"
  <2>1. PICK q : q = PathStart(url) /\ q = FirstFrom(url, e + 1, {"/"})
    BY <1>5, <1>12 DEF PathStart, HasPort
  <2>2. PICK after \in 1..(Len(url) + 1) : after = e + 1
    BY <1>2, <1>6, <1>12
  <2>3. PICK port \in Text :
          /\ port = UpTo(url, e + 1, q)
          /\ "/" \notin ToSet(port)
          /\ q = 0 => SubSeq(url, e + 1, Len(url)) = port
          /\ q # 0 => /\ SubSeq(url, q, Len(url)) \in Text
                      /\ SubSeq(url, e + 1, Len(url)) = port \o SubSeq(url, q, Len(url))
    <3> DEFINE slash == {"/"}
               port == UpTo(url, after, q)
    <3>1. q = FirstFrom(url, after, slash) /\ port = UpTo(url, after, q)
      BY <2>1, <2>2
    <3>2. "/" \in slash
      OBVIOUS
    <3> HIDE DEF slash, port
    <3>3. /\ port \in Text
          /\ \A c \in slash : c \notin ToSet(port)
          /\ q = 0 => SubSeq(url, after, Len(url)) = port
          /\ q # 0 => /\ q \in after..Len(url) /\ url[q] \in slash
                      /\ SubSeq(url, q, Len(url)) \in Text
                      /\ SubSeq(url, after, Len(url)) = Cat(port, SubSeq(url, q, Len(url)))
      BY <3>1, UpToFirst
    <3>4. port = UpTo(url, e + 1, q) /\ SubSeq(url, e + 1, Len(url)) = SubSeq(url, after, Len(url))
      BY <2>2 DEF port
    <3> QED BY <3>2, <3>3, <3>4, Zenon DEF Cat
  <2>4. PortOf(url) = port
    BY <1>5, <1>12, <2>1, <2>3 DEF PortOf, HasPort
  <2>5. rest = host \o (<<":">> \o SubSeq(url, e + 1, Len(url)))
    <3>1. SubSeq(url, e, Len(url)) = <<url[e]>> \o SubSeq(url, e + 1, Len(url))
      <4>1. e \in 1..Len(url) /\ Len(url) \in e..Len(url)
        BY <1>2, <1>6, <1>12
      <4> QED BY <1>2, <4>1, SubSeqRecursiveFirst
    <3> QED BY <1>6, <1>12, <3>1, Zenon
  <2>6. CASE q = 0
    <3>1. PathOf(url) = <<"/">>
      BY <2>1, <2>6 DEF PathOf
    <3>2. (host \o (<<":">> \o port)) \o <<>> = host \o (<<":">> \o port)
      <4>1. <<":">> \o port \in Text
        BY ProxyWords, ConcatElements DEF Text
      <4>2. host \o (<<":">> \o port) \in Text
        BY <4>1, ConcatElements DEF Text
      <4> QED BY <4>2, ConcatEmptySeq DEF Text
    <3>3. IsUrl(TRUE, port, FALSE, <<"/">>)
      BY <2>3, <2>5, <2>6, <3>2, Zenon
    <3> HIDE DEF IsUrl
    <3> QED BY <1>7, <2>3, <2>4, <3>1, <3>3
  <2>7. CASE q # 0
    <3>1. PICK path \in Text : path = PathOf(url) /\ path = SubSeq(url, q, Len(url))
      BY <2>1, <2>3, <2>7 DEF PathOf
    <3>2. Cat(host, Cat(<<":">>, Cat(port, path))) = Cat(Cat(host, Cat(<<":">>, port)), path)
      <4>1. PICK colon \in Text : colon = <<":">>
        BY ProxyWords
      <4>2. Cat(Cat(colon, port), path) = Cat(colon, Cat(port, path)) /\ Cat(colon, port) \in Text
        BY CatsAssociate
      <4>3. Cat(Cat(host, Cat(colon, port)), path) = Cat(host, Cat(Cat(colon, port), path))
        BY <4>2, CatsAssociate
      <4> QED BY <4>1, <4>2, <4>3
    <3>3. IsUrl(TRUE, port, TRUE, path)
      BY <2>3, <2>5, <2>7, <3>1, <3>2, Zenon DEF Cat
    <3> HIDE DEF IsUrl
    <3> QED BY <1>7, <2>3, <2>4, <3>1, <3>3
  <2> QED BY <2>6, <2>7
<1> QED
  BY <1>10, <1>11, <1>12
-----------------------------------------------------------------------------
\* What is parsed, and what is made of it, is typed

LEMMA NoRequestType == NoRequest \in Requests /\ \A r \in Requests : DOMAIN r = DOMAIN NoRequest
<1>1. <<>> \in Text /\ <<>> \in Seq(Fields)
  BY DEF Text
<1> QED
  BY <1>1 DEF NoRequest, Requests

LEMMA ParseRequestType ==
  ASSUME NEW s \in Text, IsRequest(s)
  PROVE  ParseRequest(s) \in Requests
<1>1. PICK lines \in Seq(Text) : lines = Lines(s) /\ Len(lines) \in Nat \ {0}
  BY LinesType
<1>2. PICK first \in Text : first = lines[1]
  BY <1>1
<1>3. PICK words \in Seq(Text) : words = FirstLine(s) /\ Len(words) = 3
  <2>1. Split(first, Space) \in Seq(Text)
    BY SplitType, WordsAreTexts
  <2> QED BY <1>1, <1>2, <2>1 DEF FirstLine, IsRequest
<1>4. words[1] \in Text /\ words[2] \in Text /\ words[3] \in Text
  <2>1. 1 \in 1..Len(words) /\ 2 \in 1..Len(words) /\ 3 \in 1..Len(words)
    BY <1>3
  <2>2. \A k \in 1..Len(words) : words[k] \in Text
    BY ElementOfSeq
  <2> QED BY <2>1, <2>2
<1>5. HeadersOf(s) \in Seq(Fields)
  BY HeadersType
<1>6. BodyOf(s) \in Text
  BY BodyType
<1> QED
  BY <1>3, <1>4, <1>5, <1>6 DEF ParseRequest, Requests

LEMMA AppendBodyType ==
  ASSUME NEW r \in Requests, NEW data \in Text
  PROVE  append_body(r, data) \in Requests
<1>1. PICK body \in Text, raw \in Text : body = r.body \o data /\ raw = r.raw \o data
  <2>1. r.body \in Text /\ r.raw \in Text
    BY DEF Requests
  <2> QED BY <2>1, ConcatElements DEF Text
<1>2. append_body(r, data) = [r EXCEPT !.body = body, !.raw = raw]
  BY <1>1, Zenon DEF append_body
<1> QED
  BY <1>2 DEF Requests

\* The uri that goes out.
LEMMA JoinType ==
  ASSUME NEW path \in Text, NEW suffix \in Text
  PROVE  Join(path, suffix) \in Text
<1>1. CASE Len(suffix) > 1 /\ Last(path) = Head(suffix)
  <2>1. Tail(suffix) \in Text
    <3>1. suffix # <<>>
      BY <1>1, EmptySeq
    <3> QED BY <3>1, HeadTailProperties DEF Text
  <2>2. path \o Tail(suffix) \in Text
    BY <2>1, ConcatElements DEF Text
  <2> QED BY <1>1, <2>2 DEF Join
<1>2. CASE ~ (Len(suffix) > 1 /\ Last(path) = Head(suffix))
  <2>1. path \o suffix \in Text
    BY ConcatElements DEF Text
  <2> QED BY <1>2, <2>1, Zenon DEF Join
<1> QED
  BY <1>1, <1>2

LEMMA PathBegins ==
  ASSUME NEW url \in Text
  PROVE  PathOf(url) \in Text /\ PathOf(url) # <<>> /\ PathOf(url)[1] = "/"
<1>1. Len(url) \in Nat /\ HostStart(url) \in Nat \ {0}
  <2>1. Protocol(url) \in Nat /\ Len(url) \in Nat
    BY ProtocolIs
  <2> QED BY <2>1 DEF HostStart
<1>2. PICK e \in 0..Len(url) :
        /\ e = HostEnd(url)
        /\ e # 0 => url[e] \in {":", "/"}
  BY <1>1, FirstFromIs DEF HostEnd
<1>3. PICK q \in 0..Len(url) : q = PathStart(url) /\ (q # 0 => url[q] = "/")
  <2>1. CASE HasPort(url)
    <3>1. e + 1 \in Nat \ {0}
      OBVIOUS
    <3>2. /\ FirstFrom(url, e + 1, {"/"}) \in 0..Len(url)
          /\ FirstFrom(url, e + 1, {"/"}) # 0 => url[FirstFrom(url, e + 1, {"/"})] \in {"/"}
      BY <3>1, FirstFromIs
    <3> QED BY <1>2, <2>1, <3>2 DEF PathStart
  <2>2. CASE ~ HasPort(url)
    BY <1>2, <2>2 DEF PathStart, HasPort
  <2> QED BY <2>1, <2>2
<1>4. CASE q = 0
  BY <1>3, <1>4, ProxyWords DEF PathOf
<1>5. CASE q # 0
  <2>1. PICK m \in 1..(Len(url) + 1) : m = q /\ Len(url) \in (m - 1)..Len(url)
    BY <1>1, <1>5
  <2>2. /\ SubSeq(url, m, Len(url)) \in Text
        /\ Len(SubSeq(url, m, Len(url))) = Len(url) - m + 1
        /\ \A k \in 1..(Len(url) - m + 1) : SubSeq(url, m, Len(url))[k] = url[m + k - 1]
    BY <2>1, PartElements DEF Text
  <2>3. 1 \in 1..(Len(url) - m + 1) /\ m + 1 - 1 = m
    BY <1>1, <1>5, <2>1
  <2>4. PathOf(url) = SubSeq(url, m, Len(url))
    BY <1>3, <1>5, <2>1 DEF PathOf
  <2>5. SubSeq(url, m, Len(url))[1] = "/" /\ Len(SubSeq(url, m, Len(url))) # 0
    BY <1>3, <1>5, <2>1, <2>2, <2>3
  <2>6. PICK part \in Text : part = SubSeq(url, m, Len(url))
    BY <2>2
  <2>7. part # <<>>
    BY <2>5, <2>6, EmptySeq
  <2> QED BY <2>4, <2>5, <2>6, <2>7
<1> QED
  BY <1>4, <1>5

LEMMA UpToType ==
  ASSUME NEW s \in Text, NEW start \in Nat \ {0}, NEW end \in 0..Len(s)
  PROVE  UpTo(s, start, end) \in Text
<1>1. Len(s) \in Nat
  BY DEF Text
<1>2. PICK n \in Int : n = (IF end = 0 THEN Len(s) ELSE end - 1) /\ n <= Len(s)
  BY <1>1
<1> QED
  BY <1>2, PartIsText DEF UpTo

LEMMA InitTypes ==
  ASSUME NEW url \in Text
  PROVE  UpTo(url, HostStart(url), HostEnd(url)) \in Text /\ PortOf(url) \in Text
<1>1. Len(url) \in Nat /\ HostStart(url) \in Nat \ {0}
  <2>1. Protocol(url) \in Nat /\ Len(url) \in Nat
    BY ProtocolIs
  <2> QED BY <2>1 DEF HostStart
<1>2. PICK e \in 0..Len(url) : e = HostEnd(url)
  BY <1>1, FirstFromIs DEF HostEnd
<1>3. UpTo(url, HostStart(url), HostEnd(url)) \in Text
  BY <1>1, <1>2, UpToType
<1>4. HasPort(url) => UpTo(url, HostEnd(url) + 1, PathStart(url)) \in Text
  <2>1. e + 1 \in Nat \ {0}
    OBVIOUS
  <2>2. HasPort(url) => PathStart(url) \in 0..Len(url)
    BY <1>2, <2>1, FirstFromIs DEF PathStart
  <2> QED BY <1>2, <2>1, <2>2, UpToType
<1>5. PortOf(url) \in Text
  BY <1>4, ProxyWords DEF PortOf
<1> QED
  BY <1>3, <1>5

LEMMA RedirectTypes ==
  ASSUME NEW url \in Text
  PROVE  RedirectHost(url) \in Text /\ RedirectUri(url) \in Text
<1>1. Len(url) \in Nat /\ HostStart(url) \in Nat \ {0}
  <2>1. Protocol(url) \in Nat /\ Len(url) \in Nat
    BY ProtocolIs
  <2> QED BY <2>1 DEF HostStart
<1>2. RedirectEnd(url) \in 0..Len(url)
  BY <1>1, FirstFromIs DEF RedirectEnd
<1>3. RedirectHost(url) \in Text
  BY <1>1, <1>2, UpToType DEF RedirectHost
<1>4. RedirectUri(url) \in Text
  BY <1>1, <1>2, ProxyWords, PartIsText DEF RedirectUri
<1> QED
  BY <1>3, <1>4
-----------------------------------------------------------------------------
\* set_header and remove_header, where no key is there twice

\* The header is there, with those of other keys and no others.
LEMMA SetHeaderKeeps ==
  ASSUME NEW headers \in Seq(Fields), NoKeyTwice(headers), NEW h \in Fields,
         NEW after, after = set_header(headers, h)
  PROVE  /\ after \in Seq(Fields) /\ NoKeyTwice(after)
         /\ h \in ToSet(after)
         /\ \A g \in ToSet(headers) : g.key # h.key => g \in ToSet(after)
         /\ \A g \in ToSet(after) : g = h \/ g \in ToSet(headers)
<1>1. PICK k \in 0..Len(headers) :
        /\ k = KeyAt(headers, h.key)
        /\ k = 0 => \A j \in 1..Len(headers) : headers[j].key # h.key
        /\ k # 0 => headers[k].key = h.key
  BY KeyFound
<1>2. PICK n \in Nat : n = Len(headers)
  OBVIOUS
<1>3. /\ after \in Seq(Fields)
      /\ k # 0 => /\ Len(after) = n /\ after[k] = h
                  /\ \A j \in 1..n : j # k => after[j] = headers[j]
      /\ k = 0 => /\ Len(after) = n + 1 /\ after[n + 1] = h
                  /\ \A j \in 1..n : after[j] = headers[j]
  BY <1>1, <1>2, SetHeader
<1>4. DOMAIN headers = 1..n /\ DOMAIN after = 1..Len(after)
  <2>1. \A s \in Seq(Fields) : DOMAIN s = 1..Len(s)
    OBVIOUS
  <2> QED BY <1>2, <1>3, <2>1
<1>5. \A j, m \in 1..n : headers[j].key = headers[m].key => j = m
  BY <1>4 DEF NoKeyTwice
<1>6. CASE k = 0
  <2>1. NoKeyTwice(after)
    BY <1>1, <1>2, <1>3, <1>4, <1>5, <1>6 DEF NoKeyTwice
  <2> QED BY <1>1, <1>2, <1>3, <1>4, <1>6, <2>1 DEF ToSet
<1>7. CASE k # 0
  <2>1. /\ k \in 1..n /\ Len(after) = n /\ after[k] = h
        /\ \A j \in 1..n : j # k => after[j] = headers[j]
    BY <1>1, <1>2, <1>3, <1>7
  <2>2. \A j \in 1..n : after[j].key = headers[j].key
    BY <1>1, <1>7, <2>1
  <2>3. NoKeyTwice(after)
    BY <1>4, <1>5, <2>1, <2>2 DEF NoKeyTwice
  <2>4. ASSUME NEW g \in ToSet(headers), g.key # h.key
        PROVE  g \in ToSet(after)
    <3>1. PICK j \in 1..n : g = headers[j]
      BY <1>4 DEF ToSet
    <3>2. after[j] = g
      BY <1>1, <1>7, <2>1, <2>4, <3>1
    <3> QED BY <1>4, <2>1, <3>2 DEF ToSet
  <2>5. ASSUME NEW g \in ToSet(after)
        PROVE  g = h \/ g \in ToSet(headers)
    <3>1. PICK j \in 1..n : g = after[j]
      BY <1>4, <2>1 DEF ToSet
    <3>2. CASE j # k
      BY <1>4, <2>1, <3>1, <3>2 DEF ToSet
    <3> QED BY <2>1, <3>1, <3>2
  <2>6. h \in ToSet(after)
    BY <1>4, <2>1 DEF ToSet
  <2> QED BY <1>3, <2>3, <2>4, <2>5, <2>6
<1> QED
  BY <1>6, <1>7

\* The headers with that key are gone, the others are there.
LEMMA RemoveHeaderKeeps ==
  ASSUME NEW headers \in Seq(Fields), NoKeyTwice(headers), NEW key,
         NEW after, after = remove_header(headers, key)
  PROVE  /\ after \in Seq(Fields) /\ NoKeyTwice(after)
         /\ \A g \in ToSet(headers) : g.key # key => g \in ToSet(after)
         /\ \A g \in ToSet(after) : g.key # key /\ g \in ToSet(headers)
<1>1. PICK k : k = KeyAt(headers, key)
  OBVIOUS
<1>2. /\ k \in 0..Len(headers)
      /\ k = 0 => \A j \in 1..Len(headers) : headers[j].key # key
      /\ k # 0 => headers[k].key = key
  BY <1>1, KeyFound
<1>3. PICK n \in Nat : n = Len(headers)
  OBVIOUS
<1>4. /\ after \in Seq(Fields)
      /\ k = 0 => after = headers
      /\ k # 0 => /\ Len(after) = n - 1
                  /\ \A j \in 1..(n - 1) : after[j] = headers[IF j < k THEN j ELSE j + 1]
  BY <1>1, <1>3, RemoveHeader
<1>5. /\ k \in 0..n /\ n \in Nat /\ n = Len(headers)
      /\ k = 0 => \A j \in 1..Len(headers) : headers[j].key # key
      /\ k # 0 => headers[k].key = key
      /\ after \in Seq(Fields)
      /\ k = 0 => after = headers
      /\ k # 0 => /\ Len(after) = n - 1
                  /\ \A j \in 1..(n - 1) : after[j] = headers[IF j < k THEN j ELSE j + 1]
  BY <1>2, <1>3, <1>4, Zenon
<1>6. DOMAIN headers = 1..n /\ DOMAIN after = 1..Len(after)
  BY <1>5
<1>7. \A j, m \in 1..n : headers[j].key = headers[m].key => j = m
  BY <1>6 DEF NoKeyTwice
<1>8. CASE k = 0
  BY <1>5, <1>6, <1>8 DEF ToSet
<1>9. CASE k # 0
  <2>1. \A j \in 1..(n - 1) : /\ (IF j < k THEN j ELSE j + 1) \in (1..n) \ {k}
    BY <1>5, <1>9
  <2>2. NoKeyTwice(after)
    BY <1>5, <1>6, <1>7, <1>9, <2>1 DEF NoKeyTwice
  <2>3. \A j \in 1..(n - 1) : after[j].key # key
    BY <1>5, <1>7, <1>9, <2>1
  <2>4. \A j \in 1..n : j # k => \E m \in 1..(n - 1) : after[m] = headers[j]
    <3> SUFFICES ASSUME NEW j \in 1..n, j # k
                 PROVE  \E m \in 1..(n - 1) : after[m] = headers[j]
      OBVIOUS
    <3>1. CASE j < k
      <4>1. j \in 1..(n - 1) /\ after[j] = headers[j]
        BY <1>5, <1>9, <3>1
      <4> QED BY <4>1
    <3>2. CASE ~ (j < k)
      <4>1. j - 1 \in 1..(n - 1) /\ ~ (j - 1 < k) /\ (j - 1) + 1 = j
        BY <1>5, <1>9, <3>2
      <4>2. after[j - 1] = headers[j]
        BY <1>5, <1>9, <4>1
      <4> QED BY <4>1, <4>2
    <3> QED BY <3>1, <3>2
  <2>5. ASSUME NEW g \in ToSet(headers), g.key # key
        PROVE  g \in ToSet(after)
    <3>1. PICK j \in 1..n : g = headers[j]
      BY <1>6 DEF ToSet
    <3>2. PICK m \in 1..(n - 1) : after[m] = g
      BY <1>5, <1>9, <2>4, <2>5, <3>1
    <3> QED BY <1>5, <1>6, <1>9, <3>2 DEF ToSet
  <2>6. ASSUME NEW g \in ToSet(after)
        PROVE  g.key # key /\ g \in ToSet(headers)
    <3>1. PICK j \in 1..(n - 1) : g = after[j]
      BY <1>5, <1>6, <1>9 DEF ToSet
    <3>2. g.key # key
      BY <2>3, <3>1
    <3>3. PICK m \in 1..n : g = headers[m]
      BY <1>5, <1>9, <2>1, <3>1
    <3> QED BY <1>6, <3>2, <3>3 DEF ToSet
  <2> QED BY <1>5, <2>2, <2>5, <2>6
<1> QED
  BY <1>8, <1>9

-----------------------------------------------------------------------------
\* The headers that the proxy does not rewrite

Rewritten == {<<"Host">>, <<"Cookie">>, <<"Connection">>}

LEMMA SameOthersItself ==
  ASSUME NEW headers, NoKeyTwice(headers)
  PROVE  SameOthers(headers, headers)
BY DEF SameOthers, NoKeyTwice, OthersAt

\* Setting one that it does leaves them where they are.
LEMMA SetKeepsOthers ==
  ASSUME NEW headers \in Seq(Fields), NEW h \in Fields, h.key \in Rewritten,
         NEW after, after = set_header(headers, h),
         NEW from, SameOthers(from, headers)
  PROVE  SameOthers(from, after)
<1>1. PICK k \in 0..Len(headers) :
        /\ k = KeyAt(headers, h.key)
        /\ k # 0 => headers[k].key = h.key
  BY KeyFound
<1>2. PICK n \in Nat : n = Len(headers)
  OBVIOUS
<1>3. /\ after \in Seq(Fields)
      /\ k # 0 => /\ Len(after) = n /\ after[k] = h
                  /\ \A j \in 1..n : j # k => after[j] = headers[j]
      /\ k = 0 => /\ Len(after) = n + 1 /\ after[n + 1] = h
                  /\ \A j \in 1..n : after[j] = headers[j]
  BY <1>1, <1>2, SetHeader
<1>4. DOMAIN headers = 1..n /\ DOMAIN after = 1..Len(after)
  BY <1>2, <1>3
<1>5. \A list : OthersAt(list) = {j \in DOMAIN list : list[j].key \notin Rewritten}
  BY DEF OthersAt, Rewritten
<1> HIDE DEF Rewritten
<1>6. OthersAt(after) = OthersAt(headers) /\ \A j \in OthersAt(headers) : after[j] = headers[j]
  <2>1. CASE k = 0
    <3>1. /\ DOMAIN headers = 1..n /\ DOMAIN after = 1..(n + 1)
          /\ after[n + 1].key \in Rewritten
          /\ \A j \in 1..n : after[j] = headers[j]
      BY <1>2, <1>3, <1>4, <2>1
    <3>2. \A j \in DOMAIN headers : j \in DOMAIN after
      BY <3>1
    <3>3. \A j \in DOMAIN after : j \in DOMAIN headers \/ j = n + 1
      BY <3>1
    <3> QED BY <1>5, <3>1, <3>2, <3>3
  <2>2. CASE k # 0
    BY <1>1, <1>2, <1>3, <1>4, <1>5, <2>2
  <2> QED BY <2>1, <2>2
<1>7. {headers[j] : j \in OthersAt(headers)} = {after[j] : j \in OthersAt(after)}
  BY <1>6
<1> QED
  BY <1>6, <1>7 DEF SameOthers

\* Removing one moves those behind it.
LEMMA RemoveKeepsOthers ==
  ASSUME NEW headers \in Seq(Fields), NEW key \in Rewritten,
         NEW after, after = remove_header(headers, key),
         NEW from, SameOthers(from, headers)
  PROVE  SameOthers(from, after)
<1>1. PICK k : k = KeyAt(headers, key)
  OBVIOUS
<1>2. k \in 0..Len(headers) /\ (k # 0 => headers[k].key = key)
  BY <1>1, KeyFound
<1>3. PICK n \in Nat : n = Len(headers)
  OBVIOUS
<1>4. /\ after \in Seq(Fields)
      /\ k = 0 => after = headers
      /\ k # 0 => /\ Len(after) = n - 1
                  /\ \A j \in 1..(n - 1) : after[j] = headers[IF j < k THEN j ELSE j + 1]
  BY <1>1, <1>3, RemoveHeader
<1>5. /\ k \in 0..n /\ n \in Nat /\ n = Len(headers)
      /\ k # 0 => headers[k].key = key
      /\ after \in Seq(Fields)
      /\ k = 0 => after = headers
      /\ k # 0 => /\ Len(after) = n - 1
                  /\ \A j \in 1..(n - 1) : after[j] = headers[IF j < k THEN j ELSE j + 1]
  BY <1>2, <1>3, <1>4, Zenon
<1>6. DOMAIN headers = 1..n /\ DOMAIN after = 1..Len(after)
  BY <1>5
<1>7. \A list : OthersAt(list) = {j \in DOMAIN list : list[j].key \notin Rewritten}
  BY DEF OthersAt, Rewritten
<1> HIDE DEF Rewritten
<1>8. CASE k = 0
  BY <1>5, <1>8
<1>9. CASE k # 0
  <2> DEFINE at(j) == IF j < k THEN j ELSE j + 1
  <2>1. \A j \in OthersAt(after) : at(j) \in OthersAt(headers) /\ after[j] = headers[at(j)] /\ j \in Nat
    <3> SUFFICES ASSUME NEW j \in OthersAt(after)
                 PROVE  at(j) \in OthersAt(headers) /\ after[j] = headers[at(j)] /\ j \in Nat
      OBVIOUS
    <3>1. j \in 1..(n - 1) /\ after[j].key \notin Rewritten
      BY <1>5, <1>6, <1>7, <1>9
    <3>2. j \in Nat /\ at(j) \in 1..n
      BY <1>5, <1>9, <3>1
    <3>3. after[j] = headers[at(j)]
      BY <1>5, <1>9, <3>1
    <3>4. at(j) \in OthersAt(headers)
      BY <1>6, <1>7, <3>1, <3>2, <3>3
    <3> QED BY <3>2, <3>3, <3>4
  <2>2. ASSUME NEW m \in OthersAt(headers)
        PROVE  \E j \in OthersAt(after) : at(j) = m
    <3>1. m \in 1..n /\ m # k
      BY <1>5, <1>6, <1>7, <1>9
    <3>2. PICK j \in 1..(n - 1) : at(j) = m
      <4>1. CASE m < k
        <5>1. m \in 1..(n - 1) /\ at(m) = m
          BY <1>5, <1>9, <3>1, <4>1
        <5> QED BY <5>1
      <4>2. CASE ~ (m < k)
        <5>1. m - 1 \in 1..(n - 1) /\ at(m - 1) = m
          BY <1>5, <1>9, <3>1, <4>2
        <5> QED BY <5>1
      <4> QED BY <4>1, <4>2
    <3>3. after[j] = headers[m] /\ headers[m].key \notin Rewritten /\ j \in DOMAIN after
      BY <1>5, <1>6, <1>7, <1>9, <3>1, <3>2
    <3>4. j \in OthersAt(after)
      BY <1>7, <3>3
    <3> QED BY <3>2, <3>4
  <2>3. \A j, m \in OthersAt(after) : at(j) < at(m) => j < m
    BY <2>1
  <2> HIDE DEF at
  <2>4. {headers[j] : j \in OthersAt(headers)} = {after[j] : j \in OthersAt(after)}
    BY <2>1, <2>2
  <2>5. \A j, m \in OthersAt(from), p, q \in OthersAt(after) :
          from[j] = after[p] /\ from[m] = after[q] /\ j < m => p < q
    <3> SUFFICES ASSUME NEW j \in OthersAt(from), NEW m \in OthersAt(from),
                        NEW p \in OthersAt(after), NEW q \in OthersAt(after),
                        from[j] = after[p], from[m] = after[q], j < m
                 PROVE  p < q
      OBVIOUS
    <3>1. from[j] = headers[at(p)] /\ from[m] = headers[at(q)]
          /\ at(p) \in OthersAt(headers) /\ at(q) \in OthersAt(headers)
      BY <2>1
    <3>2. at(p) < at(q)
      BY <3>1 DEF SameOthers
    <3> QED BY <2>3, <3>2
  <2> QED BY <2>4, <2>5 DEF SameOthers
<1> QED
  BY <1>8, <1>9

-----------------------------------------------------------------------------
\* What is sent on

\* The headers of a request that goes to a host.
Rewrites(from, to, host) ==
  /\ NoKeyTwice(to)
  /\ {Header(<<"Host">>, host), Header(<<"Connection">>, <<"close">>)} \subseteq ToSet(to)
  /\ \A h \in ToSet(to) : h.key # <<"Cookie">>
  /\ SameOthers(from, to)

LEMMA HeaderTypes ==
  /\ \A host \in Text : Header(<<"Host">>, host) \in Fields /\ Header(<<"Host">>, host).key = <<"Host">>
  /\ /\ Header(<<"Connection">>, <<"close">>) \in Fields
     /\ Header(<<"Connection">>, <<"close">>).key = <<"Connection">>
  /\ <<"Host">> # <<"Cookie">> /\ <<"Connection">> # <<"Cookie">> /\ <<"Host">> # <<"Connection">>
BY ProxyWords DEF Header, Fields

LEMMA TransformHeadersRewrites ==
  ASSUME NEW headers \in Seq(Fields), host_ \in Text
  PROVE  /\ TransformHeaders(headers) \in Seq(Fields)
         /\ NoKeyTwice(headers) => Rewrites(headers, TransformHeaders(headers), host_)
<1>1. PICK host \in Fields : host = Header(<<"Host">>, host_) /\ host.key = <<"Host">>
  BY HeaderTypes
<1>2. PICK close \in Fields :
        close = Header(<<"Connection">>, <<"close">>) /\ close.key = <<"Connection">>
  BY HeaderTypes
<1>3. PICK cookie : cookie = <<"Cookie">> /\ host.key # cookie /\ close.key # cookie /\ host.key # close.key
  BY <1>1, <1>2, HeaderTypes
<1>4. PICK first \in Seq(Fields) : first = set_header(headers, host)
  BY SetHeader
<1>5. PICK second \in Seq(Fields) : second = remove_header(first, cookie)
  BY RemoveHeader
<1>6. PICK third \in Seq(Fields) : third = set_header(second, close)
  BY SetHeader
<1>7. third = TransformHeaders(headers)
  BY <1>1, <1>2, <1>3, <1>4, <1>5, <1>6 DEF TransformHeaders
<1>8. ASSUME NoKeyTwice(headers)
      PROVE  Rewrites(headers, third, host_)
  <2>1. NoKeyTwice(first) /\ host \in ToSet(first)
    BY <1>4, <1>8, SetHeaderKeeps
  <2>2. /\ NoKeyTwice(second) /\ host \in ToSet(second)
        /\ \A g \in ToSet(second) : g.key # cookie
    BY <1>3, <1>5, <2>1, RemoveHeaderKeeps
  <2>3. /\ NoKeyTwice(third) /\ host \in ToSet(third) /\ close \in ToSet(third)
        /\ \A g \in ToSet(third) : g.key # cookie
    <3>1. /\ NoKeyTwice(third) /\ close \in ToSet(third)
          /\ \A g \in ToSet(second) : g.key # close.key => g \in ToSet(third)
          /\ \A g \in ToSet(third) : g = close \/ g \in ToSet(second)
      BY <1>6, <2>2, SetHeaderKeeps
    <3> QED BY <1>3, <2>2, <3>1
  <2>4. host.key \in Rewritten /\ cookie \in Rewritten /\ close.key \in Rewritten
    BY <1>1, <1>2, <1>3 DEF Rewritten
  <2>5. SameOthers(headers, first)
    BY <1>4, <1>8, <2>4, SameOthersItself, SetKeepsOthers
  <2>6. SameOthers(headers, second)
    BY <1>5, <2>4, <2>5, RemoveKeepsOthers
  <2>7. SameOthers(headers, third)
    BY <1>6, <2>4, <2>6, SetKeepsOthers
  <2> QED BY <1>1, <1>2, <1>3, <2>3, <2>7 DEF Rewrites
<1> QED
  BY <1>7, <1>8

LEMMA TransformType ==
  ASSUME NEW req \in Requests, host_ \in Text, prefix_ \in Text, path_ \in Text
  PROVE  /\ TransformIncomingRequest(req) \in Requests
         /\ TransformIncomingRequest(req).uri = Join(path_, Suffix(req.uri))
         /\ TransformIncomingRequest(req).headers = TransformHeaders(req.headers)
<1>1. req.uri \in Text /\ req.headers \in Seq(Fields)
  BY DEF Requests
<1>2. Suffix(req.uri) \in Text
  <2>1. PICK m \in Nat \ {0} : m = Len(prefix_) + 1
    BY DEF Text
  <2>2. Len(req.uri) \in Int /\ Len(req.uri) <= Len(req.uri)
    BY <1>1 DEF Text
  <2> QED BY <1>1, <2>1, <2>2, PartIsText DEF Suffix
<1>3. PICK uri \in Text : uri = Join(path_, Suffix(req.uri))
  BY <1>2, JoinType
<1>4. PICK headers \in Seq(Fields) : headers = TransformHeaders(req.headers)
  BY <1>1, TransformHeadersRewrites
<1>5. TransformIncomingRequest(req) = [req EXCEPT !.uri = uri, !.headers = headers]
  BY <1>3, <1>4, Zenon DEF TransformIncomingRequest
<1>6. /\ [req EXCEPT !.uri = uri, !.headers = headers] \in Requests
      /\ [req EXCEPT !.uri = uri, !.headers = headers].uri = uri
      /\ [req EXCEPT !.uri = uri, !.headers = headers].headers = headers
  BY DEF Requests
<1> QED
  BY <1>3, <1>4, <1>5, <1>6

\* A redirection changes the host and the uri, and nothing else.
LEMMA RedirectRewrites ==
  ASSUME NEW headers \in Seq(Fields), NEW host \in Text
  PROVE  LET after == set_header(headers, Header(<<"Host">>, host))
         IN  /\ after \in Seq(Fields)
             /\ \A from, old : Rewrites(from, headers, old) => Rewrites(from, after, host)
<1>1. PICK h \in Fields : h = Header(<<"Host">>, host) /\ h.key = <<"Host">>
  BY HeaderTypes
<1>2. PICK close \in Fields :
        close = Header(<<"Connection">>, <<"close">>) /\ close.key = <<"Connection">>
  BY HeaderTypes
<1>3. PICK after \in Seq(Fields) : after = set_header(headers, h)
  BY SetHeader
<1>4. ASSUME NEW from, NEW old, Rewrites(from, headers, old)
      PROVE  Rewrites(from, after, host)
  <2>1. /\ NoKeyTwice(headers) /\ close \in ToSet(headers)
        /\ \A g \in ToSet(headers) : g.key # <<"Cookie">>
        /\ SameOthers(from, headers)
    BY <1>2, <1>4 DEF Rewrites
  <2>2. /\ NoKeyTwice(after) /\ h \in ToSet(after)
        /\ \A g \in ToSet(headers) : g.key # h.key => g \in ToSet(after)
        /\ \A g \in ToSet(after) : g = h \/ g \in ToSet(headers)
    BY <1>3, <2>1, SetHeaderKeeps
  <2>3. close \in ToSet(after) /\ \A g \in ToSet(after) : g.key # <<"Cookie">>
    BY <1>1, <1>2, <2>1, <2>2, HeaderTypes
  <2>4. h.key \in Rewritten
    BY <1>1 DEF Rewritten
  <2>5. SameOthers(from, after)
    BY <1>3, <2>1, <2>4, SetKeepsOthers
  <2> QED BY <1>1, <1>2, <2>2, <2>3, <2>5 DEF Rewrites
<1> QED
  BY <1>1, <1>3, <1>4

\* The request after a redirection to a host and a uri.
Redirected(req, uri, host) ==
  [req EXCEPT !.uri = uri, !.headers = set_header(@, Header(<<"Host">>, host))]

LEMMA RedirectedType ==
  ASSUME NEW req \in Requests, NEW uri \in Text, NEW host \in Text
  PROVE  /\ Redirected(req, uri, host) \in Requests
         /\ Redirected(req, uri, host).uri = uri
         /\ Redirected(req, uri, host).headers = set_header(req.headers, Header(<<"Host">>, host))
<1>1. req.headers \in Seq(Fields)
  BY DEF Requests
<1>2. PICK headers \in Seq(Fields) : headers = set_header(req.headers, Header(<<"Host">>, host))
  BY <1>1, RedirectRewrites
<1>3. Redirected(req, uri, host) = [req EXCEPT !.uri = uri, !.headers = headers]
  BY <1>2, Zenon DEF Redirected
<1>4. /\ [req EXCEPT !.uri = uri, !.headers = headers] \in Requests
      /\ [req EXCEPT !.uri = uri, !.headers = headers].uri = uri
      /\ [req EXCEPT !.uri = uri, !.headers = headers].headers = headers
  BY DEF Requests
<1> QED
  BY <1>2, <1>3, <1>4

-----------------------------------------------------------------------------
\* The Location header

\* A text with a blank line, cut after the first '\r' of the blank line.
LEMMA HeadAndRest ==
  ASSUME NEW s \in Text, FindIn(s, BlankLine) # 0
  PROVE  \E head \in Text, others \in Text :
           /\ head = SubSeq(s, 1, FindIn(s, BlankLine))
           /\ head # <<>> /\ Last(head) = CR
           /\ s = Cat(head, Cat(<<"\n">>, others))
<1>1. PICK blank \in Text : blank = BlankLine /\ Len(blank) = 4 /\ blank[1] = CR /\ blank[2] = "\n"
  <2>1. BlankLine = <<CR, "\n", CR, "\n">> /\ BlankLine \in Text /\ Len(BlankLine) = 4
    BY WordsAreTexts
  <2>2. <<CR, "\n", CR, "\n">>[1] = CR /\ <<CR, "\n", CR, "\n">>[2] = "\n"
    BY DEF CR
  <2> QED BY <2>1, <2>2, Zenon
<1>2. PICK n \in Nat : n = Len(s)
  BY DEF Text
<1>3. PICK f \in 1..n :
        /\ f = FindIn(s, blank) /\ f + 4 <= n + 1
        /\ \A j \in 1..4 : s[f + j - 1] = blank[j]
  <2>1. PICK f \in Nat : f = FindIn(s, blank) /\ f \in Occurrences(s, blank) /\ f + 4 <= n + 1
    BY <1>1, <1>2, FindFirst
  <2>2. 1 <= f /\ \A j \in 1..Len(blank) : s[f + j - 1] = blank[j]
    BY <2>1, OccurrenceTokens
  <2>3. f \in 1..n
    BY <2>1, <2>2
  <2> QED BY <1>1, <2>1, <2>2, <2>3
<1>4. s[f] = CR /\ s[f + 1] = "\n"
  <2>1. f + 1 - 1 = f /\ f + 2 - 1 = f + 1
    OBVIOUS
  <2>2. s[f + 1 - 1] = blank[1] /\ s[f + 2 - 1] = blank[2]
    BY <1>3
  <2> QED BY <1>1, <2>1, <2>2
<1>5. PICK head \in Text : head = SubSeq(s, 1, f) /\ head # <<>> /\ Last(head) = CR
  <2>1. PICK m \in 1..(Len(s) + 1) : m = 1
    BY <1>2
  <2>2. PICK k \in (m - 1)..Len(s) : m = 1 /\ k = f
    BY <1>2, <2>1
  <2>3. /\ SubSeq(s, m, k) \in Seq(Tokens)
        /\ Len(SubSeq(s, m, k)) = k - m + 1
        /\ \A j \in 1..(k - m + 1) : SubSeq(s, m, k)[j] = s[m + j - 1]
    BY <2>2, PartElements DEF Text
  <2>4. PICK head \in Text : head = SubSeq(s, m, k)
    BY <2>3 DEF Text
  <2>5. f \in 1..(k - m + 1) /\ m + f - 1 = f /\ k - m + 1 = f
    BY <1>2, <2>2
  <2>6. Len(head) = f /\ head[f] = s[f]
    BY <2>3, <2>4, <2>5
  <2>7. head # <<>>
    BY <2>6, EmptySeq
  <2>8. Last(head) = CR
    BY <1>4, <2>6 DEF Last
  <2> QED BY <2>2, <2>4, <2>7, <2>8
<1>6. PICK others \in Text : others = SubSeq(s, f + 2, n)
  <2>1. PICK m \in Nat \ {0} : m = f + 2
    OBVIOUS
  <2>2. n \in Int /\ n <= Len(s)
    BY <1>2
  <2> QED BY <2>1, <2>2, PartIsText
<1>7. SubSeq(s, f + 1, n) = Cat(<<"\n">>, others)
  <2>1. PICK m \in 1..Len(s) : m = f + 1
    BY <1>2, <1>3
  <2>2. PICK k \in m..Len(s) : m = f + 1 /\ k = n
    BY <1>2, <1>3, <2>1
  <2>3. SubSeq(s, m, k) = <<s[m]>> \o SubSeq(s, m + 1, k)
    BY <2>2, SubSeqRecursiveFirst DEF Text
  <2>4. m + 1 = f + 2
    BY <2>2
  <2> QED BY <1>4, <1>6, <2>2, <2>3, <2>4, Zenon DEF Cat
<1>8. s = Cat(head, SubSeq(s, f + 1, n))
  <2>1. PICK m \in 1..(Len(s) + 1) : m = 1
    BY <1>2
  <2>2. PICK k \in (m - 1)..Len(s) : m = 1 /\ k = f
    BY <1>2, <2>1
  <2>3. PICK e \in k..Len(s) : m = 1 /\ k = f /\ e = n
    BY <1>2, <2>2
  <2>4. SubSeq(s, m, k) \o SubSeq(s, k + 1, e) = SubSeq(s, m, e)
    BY <2>3, ConcatAdjacentSubSeq DEF Text
  <2>5. SubSeq(s, 1, Len(s)) = s
    BY SubSeqFull DEF Text
  <2> QED BY <1>2, <1>5, <2>3, <2>4, <2>5, Zenon DEF Cat
<1> QED
  BY <1>1, <1>3, <1>5, <1>7, <1>8

\* A '\r' at the end of a text comes from the last part that is not empty.
LEMMA LastOfBoth ==
  ASSUME NEW s \in Text, NEW t \in Text, t # <<>>
  PROVE  /\ Last(Cat(s, t)) = Last(t)
         /\ Front(t) \in Text /\ t = Cat(Front(t), <<Last(t)>>)
<1>1. PICK n \in Nat \ {0} : n = Len(t)
  BY EmptySeq DEF Text
<1>2. /\ Len(Cat(s, t)) = Len(s) + n /\ Len(s) \in Nat
      /\ Cat(s, t)[Len(s) + n] = t[n]
  <2>1. /\ Len(Cat(s, t)) = Len(s) + Len(t) /\ Len(s) \in Nat
        /\ \A k \in 1..Len(t) : Cat(s, t)[Len(s) + k] = t[k]
    BY ConcatElements DEF Cat, Text
  <2>2. n \in 1..Len(t)
    BY <1>1
  <2> QED BY <1>1, <2>1, <2>2
<1>3. Front(t) \in Text
  <2>1. PICK k \in Int : k = Len(t) - 1 /\ k <= Len(t)
    BY <1>1
  <2>2. PICK m \in Nat \ {0} : m = 1
    OBVIOUS
  <2> QED BY <2>1, <2>2, PartIsText DEF Front
<1>4. t = Cat(Front(t), <<Last(t)>>)
  <2>1. PICK m \in 1..Len(t) : m = 1
    BY <1>1
  <2>2. PICK k \in m..Len(t) : m = 1 /\ k = n
    BY <1>1, <2>1
  <2>3. SubSeq(t, m, k) = SubSeq(t, m, k - 1) \o <<t[k]>>
    BY <2>2, SubSeqRecursiveSecond DEF Text
  <2>4. SubSeq(t, 1, Len(t)) = t
    BY SubSeqFull DEF Text
  <2> QED BY <1>1, <2>2, <2>3, <2>4, Zenon DEF Cat, Front, Last
<1> QED
  BY <1>1, <1>2, <1>3, <1>4 DEF Last

\* The same text, made of a line and what is around it, or of a key and what
\* is around that.
Regroups(a, b, c, d, e, f, g) ==
  Cat(Cat(Cat(Cat(a, b), Cat(Cat(c, d), e)), f), g)
    = Cat(a, Cat(Cat(Cat(b, c), d), Cat(e, Cat(f, g))))

LEMMA SevenInARow ==
  ASSUME NEW a \in Text, NEW b \in Text, NEW c \in Text, NEW d \in Text, NEW e \in Text,
         NEW f \in Text, NEW g \in Text
  PROVE  Regroups(a, b, c, d, e, f, g)
<1> DEFINE fg == Cat(f, g)
           efg == Cat(e, fg)
           cd == Cat(c, d)
<1>1. fg \in Text /\ efg \in Text /\ cd \in Text /\ Cat(cd, e) \in Text
      /\ Cat(a, b) \in Text /\ Cat(Cat(a, b), Cat(cd, e)) \in Text
  BY CatsAssociate
<1>2. Cat(Cat(Cat(Cat(a, b), Cat(cd, e)), f), g) = Cat(Cat(Cat(a, b), Cat(cd, e)), fg)
  BY <1>1, CatsAssociate
<1> HIDE DEF fg
<1>3. Cat(Cat(Cat(a, b), Cat(cd, e)), fg) = Cat(Cat(a, b), Cat(Cat(cd, e), fg))
  BY <1>1, CatsAssociate
<1>4. Cat(Cat(cd, e), fg) = Cat(cd, efg)
  BY <1>1, CatsAssociate
<1> HIDE DEF efg
<1>5. Cat(Cat(a, b), Cat(cd, efg)) = Cat(a, Cat(b, Cat(cd, efg)))
  BY <1>1, CatsAssociate
<1>6. Cat(b, Cat(cd, efg)) = Cat(Cat(b, cd), efg) /\ Cat(b, cd) = Cat(Cat(b, c), d)
  BY <1>1, CatsAssociate
<1> QED
  BY <1>2, <1>3, <1>4, <1>5, <1>6 DEF efg, fg, Regroups

\* Where a text goes on with a value and a line break, the value is found.
LEMMA LocationHere ==
  ASSUME <<"Location">> \in Text, NEW s \in Text, NEW before \in Text, NEW value \in Text, Occurrences(value, CRLF) = {},
         NEW others \in Text,
         s = Cat(before, Cat(CRLF \o <<"Location">> \o ColonSpace, Cat(value, Cat(CRLF, others))))
  PROVE  value \in LocationsIn(s)
<1>1. PICK key \in Text : key = CRLF \o <<"Location">> \o ColonSpace
  <2>1. CRLF \o <<"Location">> \in Text
    BY WordsAreTexts, ConcatElements DEF Text
  <2>2. (CRLF \o <<"Location">>) \o ColonSpace \in Text
    BY <2>1, WordsAreTexts, ConcatElements DEF Text
  <2> QED BY <2>2
<1>2. PICK after \in Text : after = Cat(value, Cat(CRLF, others))
  BY CatsAssociate, WordsAreTexts
<1>3. /\ Len(before) \in Nat /\ Len(key) \in Nat /\ Len(s) \in Nat
      /\ Len(before) + 1 \in Occurrences(s, key)
      /\ SubSeq(s, Len(before) + Len(key) + 1, Len(s)) = after
  <2>1. s = Cat(before, Cat(key, after))
    BY <1>1, <1>2
  <2>2. IsInside(before, key, after)
    BY OccurrenceInside
  <2> QED BY <2>1, <2>2, Zenon DEF IsInside
<1>4. FindIn(after, CRLF) = Len(value) + 1 /\ Len(value) \in Nat
  <2>1. Len(value) \in Nat
    BY DEF Text
  <2> QED BY <1>2, <2>1, FirstBreak
<1>5. SubSeq(s, Len(before) + Len(key) + 1, Len(before) + Len(key) + Len(value)) = value
  <2>1. PICK front \in Text : front = Cat(before, key) /\ Len(front) = Len(before) + Len(key)
    <3>1. Cat(before, key) \in Text
      BY CatsAssociate
    <3>2. Len(Cat(before, key)) = Len(before) + Len(key)
      BY ConcatElements DEF Cat, Text
    <3> QED BY <3>1, <3>2
  <2>2. PICK rest \in Text : rest = Cat(CRLF, others)
    BY CatsAssociate, WordsAreTexts
  <2>3. s = Cat(front, Cat(value, rest))
    <3>1. s = Cat(before, Cat(key, after)) /\ after = Cat(value, rest)
      BY <1>1, <1>2, <2>2
    <3> QED BY <2>1, <3>1, CatsAssociate
  <2>4. IsInside(front, value, rest)
    BY OccurrenceInside
  <2>5. SubSeq(s, Len(front) + 1, Len(front) + Len(value)) = value
    BY <2>3, <2>4, Zenon DEF IsInside
  <2> QED BY <2>1, <2>5
<1>6. PICK k \in Occurrences(s, key) :
        /\ k + Len(key) = Len(before) + Len(key) + 1
        /\ SubSeq(s, k + Len(key), Len(s)) = after
        /\ SubSeq(s, k + Len(key), (k + Len(key)) + (FindIn(after, CRLF) - 1) - 1) = value
  <2>1. (Len(before) + 1) + Len(key) = Len(before) + Len(key) + 1
    BY <1>3
  <2>2. (Len(before) + Len(key) + 1) + (FindIn(after, CRLF) - 1) - 1 = Len(before) + Len(key) + Len(value)
    BY <1>3, <1>4
  <2> QED BY <1>3, <1>5, <2>1, <2>2
<1> DEFINE Value(j) == SubSeq(s, j + Len(key), (j + Len(key)) + (FindIn(SubSeq(s, j + Len(key), Len(s)), CRLF) - 1) - 1)
<1>7. Value(k) = value
  BY <1>6
<1>8. LocationsIn(s) = {Value(j) : j \in Occurrences(s, key)}
  BY <1>1, Zenon DEF LocationsIn
<1> HIDE DEF Value
<1> QED
  BY <1>7, <1>8

\* The header that get_header returns is in the text; if it is the last one a
\* '\r' is added.
LEMMA LocationFound ==
  ASSUME NEW s \in Text, IsResponse(s),
         NEW url, url = get_header(HeadersOf(s), <<"Location">>), url # <<>>
  PROVE  /\ url \in Text
         /\ \E location \in LocationsIn(s), more \in {<<>>, <<CR>>} :
              location \in Text /\ more \in Text /\ location \o more = url
<1>1. PICK lines \in Seq(Text) : lines = Lines(s) /\ Len(lines) \in Nat \ {0}
  BY LinesType
<1>2. FindIn(s, BlankLine) # 0 /\ \A line \in ToSet(Tail(lines)) : FindIn(line, ColonSpace) # 0
  BY <1>1 DEF IsResponse, HeadersAreValid
<1>3. PICK head \in Text, others \in Text :
        /\ head = SubSeq(s, 1, FindIn(s, BlankLine))
        /\ head # <<>> /\ Last(head) = CR
        /\ s = Cat(head, Cat(<<"\n">>, others))
  BY <1>2, HeadAndRest
<1>4. lines = Split(head, CRLF)
  BY <1>1, <1>3 DEF Lines
<1>5. url \in Text
  BY HeadersType, GetHeader
<1>6. PICK k \in 2..Len(lines) : /\ HeaderOf(lines[k]).key = <<"Location">> /\ <<"Location">> \in Text
                                 /\ HeaderOf(lines[k]).value = url
  <2>1. PICK headers \in Seq(Fields) :
          /\ headers = HeadersOf(s) /\ Len(headers) = Len(lines) - 1
          /\ \A j \in 1..Len(headers) : headers[j] = HeaderOf(lines[j + 1])
    BY <1>1, HeadersType
  <2>2. PICK j \in 1..Len(headers) : headers[j].key = <<"Location">> /\ headers[j].value = url
    BY <2>1, GetHeader
  <2>3. j + 1 \in 2..Len(lines)
    BY <1>1, <2>1
  <2>4. headers[j].key \in Text
    <3>1. headers[j] \in Fields
      BY <2>2, ElementOfSeq
    <3> QED BY <3>1 DEF Fields
  <2> QED BY <2>1, <2>2, <2>3, <2>4
<1>7. PICK line \in Text : line = lines[k]
  <2>1. k \in 1..Len(lines)
    OBVIOUS
  <2> QED BY <2>1, ElementOfSeq
<1>8. FindIn(line, ColonSpace) # 0
  <2>1. Tail(lines) \in Seq(Text) /\ Len(Tail(lines)) = Len(lines) - 1
        /\ \A j \in 1..Len(Tail(lines)) : Tail(lines)[j] = lines[j + 1]
    <3>1. lines # <<>>
      BY <1>1, EmptySeq
    <3> QED BY <3>1, HeadTailProperties
  <2>2. k - 1 \in 1..Len(Tail(lines)) /\ (k - 1) + 1 = k
    BY <1>1, <2>1
  <2>3. line = Tail(lines)[k - 1] /\ k - 1 \in DOMAIN Tail(lines)
    BY <1>7, <2>1, <2>2
  <2>4. line \in ToSet(Tail(lines))
    BY <2>3, Zenon DEF ToSet
  <2> QED BY <1>2, <2>4
<1>9. line = Cat(Cat(<<"Location">>, ColonSpace), url)
  BY <1>6, <1>7, <1>8, HeaderOfLine, Zenon DEF Cat
<1>10. Occurrences(url, CRLF) = {}
  <2>1. Occurrences(line, CRLF) = {}
    <3>1. k \in 1..Len(Split(head, CRLF))
      BY <1>4
    <3> QED BY <1>4, <1>7, <3>1, SplitFree, WordsAreTexts
  <2>2. Cat(<<"Location">>, ColonSpace) \in Text
    BY <1>6, WordsAreTexts, CatsAssociate
  <2> QED BY <1>5, <1>9, <2>1, <2>2, NoneInside, WordsAreTexts
<1>11. PICK before \in Text, after \in Text :
         /\ head = Cat(Cat(Cat(before, CRLF), line), after)
         /\ k = Len(lines) => after = <<>>
         /\ k # Len(lines) => \E more \in Text : after = Cat(CRLF, more)
  <2>1. CRLF \in Text /\ CRLF # <<>>
    BY WordsAreTexts
  <2>2. \A j \in 2..Len(Split(head, CRLF)) :
          \E before \in Text, after \in Text :
            /\ head = before \o CRLF \o Split(head, CRLF)[j] \o after
            /\ j = Len(Split(head, CRLF)) => after = <<>>
            /\ j # Len(Split(head, CRLF)) => \E more \in Text : after = CRLF \o more
    BY <2>1, SplitWhere, Zenon
  <2>3. \E before \in Text, after \in Text :
          /\ head = before \o CRLF \o lines[k] \o after
          /\ k = Len(lines) => after = <<>>
          /\ k # Len(lines) => \E more \in Text : after = CRLF \o more
    BY <1>4, <2>2, Zenon
  <2> QED BY <1>7, <2>3, Zenon DEF Cat
<1> DEFINE key == CRLF \o <<"Location">> \o ColonSpace
           rest == Cat(<<"\n">>, others)
<1>12. key \in Text /\ rest \in Text /\ <<"\n">> \in Text /\ <<CR>> \in Text
  <2>1. <<"\n">> \in Text /\ <<CR>> \in Text
    <3>1. "\n" \in Tokens /\ CR \in Tokens
      BY TokensAssumption, Zenon
    <3> QED BY <3>1 DEF Text
  <2>2. PICK crlf \in Text, location \in Text, cs \in Text :
          crlf = CRLF /\ location = <<"Location">> /\ cs = ColonSpace
    BY <1>6, WordsAreTexts
  <2>3. Cat(Cat(crlf, location), cs) \in Text
    BY CatsAssociate
  <2>4. key = Cat(Cat(crlf, location), cs)
    BY <2>2, Zenon DEF Cat
  <2> QED BY <2>1, <2>3, <2>4, CatsAssociate
<1>13. s = Cat(before, Cat(key, Cat(url, Cat(after, rest))))
  <2>1. PICK crlf \in Text, location \in Text, cs \in Text :
          crlf = CRLF /\ location = <<"Location">> /\ cs = ColonSpace
    BY <1>6, WordsAreTexts
  <2>2. PICK u \in Text, x \in Text, r \in Text : u = url /\ x = after /\ r = rest
    BY <1>5, <1>12
  <2>3. key = Cat(Cat(crlf, location), cs)
    BY <2>1, Zenon DEF Cat
  <2>4. s = Cat(Cat(Cat(Cat(before, crlf), Cat(Cat(location, cs), u)), x), r)
    BY <1>3, <1>9, <1>11, <2>1, <2>2
  <2>5. Regroups(before, crlf, location, cs, u, x, r)
    BY SevenInARow
  <2> QED BY <2>2, <2>3, <2>4, <2>5, Zenon DEF Regroups
<1> HIDE DEF key, rest
<1>14. \E value \in Text, more \in {<<>>, <<CR>>}, x \in Text :
         /\ more \in Text /\ Cat(value, more) = url
         /\ Cat(url, Cat(after, rest)) = Cat(value, Cat(CRLF, x))
  <2>1. CASE k # Len(lines)
    <3>1. PICK more \in Text : after = Cat(CRLF, more)
      BY <1>11, <2>1
    <3>2. PICK x \in Text : x = Cat(more, rest)
      BY <1>12, CatsAssociate
    <3>3. Cat(after, rest) = Cat(CRLF, x)
      BY <1>12, <3>1, <3>2, CatsAssociate, WordsAreTexts
    <3>4. PICK none \in Text : none = <<>> /\ Cat(url, none) = url
      BY <1>5, EmptySeq, ConcatEmptySeq DEF Cat, Text
    <3> QED BY <1>5, <3>2, <3>3, <3>4
  <2>2. CASE k = Len(lines)
    <3>1. Cat(after, rest) = rest
      BY <1>11, <1>12, <2>2, ConcatEmptySeq DEF Cat, Text
    <3>2. PICK front \in Text : head = Cat(front, url)
      <4>1. PICK crlf \in Text, lc \in Text, u \in Text :
              crlf = CRLF /\ lc = Cat(<<"Location">>, ColonSpace) /\ u = url
        BY <1>5, <1>6, WordsAreTexts, CatsAssociate
      <4>2. PICK first \in Text : first = Cat(before, crlf)
        BY CatsAssociate
      <4>3. head = Cat(first, Cat(lc, u))
        <5>1. Cat(Cat(first, line), <<>>) = Cat(first, line)
          <6>1. Cat(first, line) \in Text
            BY CatsAssociate
          <6> QED BY <6>1, ConcatEmptySeq DEF Cat, Text
        <5> QED BY <1>9, <1>11, <2>2, <4>1, <4>2, <5>1
      <4>4. Cat(first, Cat(lc, u)) = Cat(Cat(first, lc), u) /\ Cat(first, lc) \in Text
        BY CatsAssociate
      <4> QED BY <4>1, <4>3, <4>4
    <3>3. /\ Last(Cat(front, url)) = Last(url)
          /\ Front(url) \in Text /\ url = Cat(Front(url), <<Last(url)>>)
      BY <1>5, LastOfBoth
    <3>4. Last(url) = CR
      BY <1>3, <3>2, <3>3
    <3>5. Cat(url, rest) = Cat(Front(url), Cat(CRLF, others))
      <4>1. PICK value \in Text, cr \in Text, lf \in Text : value = Front(url) /\ cr = <<CR>> /\ lf = <<"\n">>
        BY <1>12, <3>3
      <4>2. Cat(cr, lf) = CRLF
        BY <4>1, LineBreakParts
      <4>3. Cat(Cat(value, cr), Cat(lf, others)) = Cat(value, Cat(cr, Cat(lf, others)))
            /\ Cat(cr, Cat(lf, others)) = Cat(Cat(cr, lf), others)
        BY CatsAssociate
      <4> QED BY <3>3, <3>4, <4>1, <4>2, <4>3 DEF rest
    <3>6. Cat(Front(url), <<CR>>) = url
      BY <3>3, <3>4
    <3> QED BY <1>12, <3>1, <3>3, <3>5, <3>6
  <2> QED BY <2>1, <2>2
<1>15. PICK value \in Text, more \in {<<>>, <<CR>>}, x \in Text :
         /\ more \in Text /\ Cat(value, more) = url
         /\ Cat(url, Cat(after, rest)) = Cat(value, Cat(CRLF, x))
  BY <1>14
<1>16. Occurrences(value, CRLF) = {}
  BY <1>10, <1>15, NoneInside, WordsAreTexts
<1>17. value \in LocationsIn(s)
  BY <1>6, <1>13, <1>15, <1>16, LocationHere DEF key
<1> QED
  BY <1>5, <1>15, <1>17, Zenon DEF Cat

\* How a redirection takes the url apart.
LEMMA RedirectTakesApart ==
  ASSUME NEW url \in Text, Protocol(url) # 0,
         NEW location \in Text, NEW more \in {<<>>, <<CR>>}, location \o more = url
  PROVE  \E withUri \in BOOLEAN, protocol \in Prefixes(location) :
           /\ location \o more = protocol \o <<"/", "/">> \o RedirectHost(url)
                                   \o (IF withUri THEN RedirectUri(url) ELSE <<>>)
           /\ "/" \notin ToSet(RedirectHost(url))
           /\ withUri \/ RedirectUri(url) = <<"/">>
<1>1. PICK p \in Nat :
        /\ p = Protocol(url)
        /\ p \in 1..(Len(url) - 1)
        /\ url = SubSeq(url, 1, p - 1) \o <<"/", "/">> \o SubSeq(url, p + 2, Len(url))
  BY ProtocolIs
<1>2. Len(url) \in Nat /\ url \in Seq(Tokens)
  BY DEF Text
<1>3. p \in 1..(Len(url) - 1)
  BY <1>1, Zenon
<1>4. PICK start \in 1..(Len(url) + 1) : start = HostStart(url) /\ start = p + 2
  BY <1>1, <1>2 DEF HostStart
<1>5. PICK first : first = RedirectEnd(url)
  OBVIOUS
<1>6. PICK host \in Text :
        /\ host = RedirectHost(url) /\ "/" \notin ToSet(host)
        /\ first = 0 => SubSeq(url, p + 2, Len(url)) = host
        /\ first # 0 => /\ SubSeq(url, first, Len(url)) \in Text
                        /\ SubSeq(url, p + 2, Len(url)) = Cat(host, SubSeq(url, first, Len(url)))
  <2> DEFINE slash == {"/"}
             host == UpTo(url, start, first)
  <2>1. first = FirstFrom(url, start, slash)
    BY <1>4, <1>5 DEF RedirectEnd
  <2>2. host = RedirectHost(url) /\ "/" \in slash
    BY <1>4, <1>5 DEF RedirectHost
  <2>3. host = UpTo(url, start, first)
    OBVIOUS
  <2> HIDE DEF slash, host
  <2>4. /\ host \in Text
        /\ \A c \in slash : c \notin ToSet(host)
        /\ first = 0 => SubSeq(url, start, Len(url)) = host
        /\ first # 0 => /\ first \in start..Len(url) /\ url[first] \in slash
                        /\ SubSeq(url, first, Len(url)) \in Text
                        /\ SubSeq(url, start, Len(url)) = Cat(host, SubSeq(url, first, Len(url)))
    BY <2>1, <2>3, UpToFirst
  <2> QED BY <1>4, <2>2, <2>4
<1>7. PICK protocol \in Text : protocol = SubSeq(url, 1, p - 1)
  <2>1. PICK m \in Nat \ {0}, k \in Int : m = 1 /\ k = p - 1 /\ k <= Len(url)
    BY <1>2, <1>3
  <2> QED BY <2>1, PartIsText
<1>8. protocol \in Prefixes(location)
  <2>1. Len(url) = Len(location) + Len(more) /\ Len(location) \in Nat /\ Len(more) \in 0..1
        /\ \A j \in 1..Len(location) : url[j] = location[j]
    <3>1. Len(more) \in 0..1 /\ more \in Text
      <4>1. CR \in Tokens
        BY TokensAssumption, Zenon
      <4>2. <<CR>> \in Text /\ Len(<<CR>>) = 1
        BY <4>1, OneToken
      <4>3. <<>> \in Text /\ Len(<<>>) = 0
        BY EmptySeq DEF Text
      <4> QED BY <4>2, <4>3
    <3>2. /\ Len(location \o more) = Len(location) + Len(more) /\ Len(location) \in Nat
          /\ \A j \in 1..Len(location) : (location \o more)[j] = location[j]
      BY <3>1, ConcatElements DEF Text
    <3> QED BY <3>1, <3>2
  <2>2. PICK n \in 0..Len(location) : n = p - 1 /\ n <= Len(url)
    BY <1>2, <1>3, <2>1
  <2>3. PICK m \in 1..(Len(location) + 1) : m = 1 /\ m \in 1..(Len(url) + 1)
    BY <1>2, <2>1
  <2>4. n \in (m - 1)..Len(location) /\ n \in (m - 1)..Len(url)
    BY <1>2, <2>1, <2>2, <2>3
  <2>5. /\ SubSeq(location, m, n) \in Seq(Tokens)
        /\ Len(SubSeq(location, m, n)) = n - m + 1
        /\ \A k \in 1..(n - m + 1) : SubSeq(location, m, n)[k] = location[m + k - 1]
    BY <2>4, PartElements DEF Text
  <2>6. /\ Len(SubSeq(url, m, n)) = n - m + 1
        /\ \A k \in 1..(n - m + 1) : SubSeq(url, m, n)[k] = url[m + k - 1]
    BY <1>2, <2>3, <2>4, PartElements
  <2>7. PICK part \in Text : part = SubSeq(location, m, n) /\ Len(part) = Len(protocol)
    BY <1>7, <2>2, <2>3, <2>5, <2>6 DEF Text
  <2>8. ASSUME NEW k \in 1..Len(part)
        PROVE  part[k] = protocol[k]
    <3>1. k \in 1..(n - m + 1) /\ m + k - 1 = k /\ k \in 1..Len(location)
      BY <2>2, <2>3, <2>5, <2>7
    <3>2. part[k] = location[k]
      BY <2>5, <2>7, <3>1
    <3>3. protocol[k] = url[k]
      BY <1>7, <2>2, <2>3, <2>6, <3>1
    <3> QED BY <2>1, <3>1, <3>2, <3>3
  <2>9. part = protocol
    BY <2>7, <2>8, SeqEqual DEF Text
  <2> QED BY <2>2, <2>3, <2>7, <2>9 DEF Prefixes
<1>9. PICK slashes \in Text : slashes = <<"/", "/">>
  BY ProxyWords
<1>10. url = Cat(Cat(protocol, slashes), SubSeq(url, p + 2, Len(url)))
  BY <1>1, <1>7, <1>9, Zenon DEF Cat
<1> DEFINE Taken(withUri) ==
             url = protocol \o <<"/", "/">> \o host \o (IF withUri THEN RedirectUri(url) ELSE <<>>)
<1>11. ASSUME NEW withUri \in BOOLEAN, Taken(withUri), withUri \/ RedirectUri(url) = <<"/">>
       PROVE  \E w \in BOOLEAN, start_ \in Prefixes(location) :
                /\ location \o more = start_ \o <<"/", "/">> \o RedirectHost(url)
                                        \o (IF w THEN RedirectUri(url) ELSE <<>>)
                /\ "/" \notin ToSet(RedirectHost(url))
                /\ w \/ RedirectUri(url) = <<"/">>
  BY <1>6, <1>8, <1>11, Zenon
<1>12. PICK both \in Text : both = Cat(protocol, slashes)
  BY CatsAssociate
<1>13. CASE first = 0
  <2>1. RedirectUri(url) = <<"/">>
    BY <1>5, <1>13 DEF RedirectUri
  <2>2. Cat(Cat(both, host), <<>>) = Cat(both, host)
    <3>1. Cat(both, host) \in Text
      BY CatsAssociate
    <3> QED BY <3>1, ConcatEmptySeq DEF Cat, Text
  <2>3. url = Cat(Cat(Cat(protocol, slashes), host), <<>>)
    BY <1>6, <1>10, <1>12, <1>13, <2>2
  <2>4. Taken(FALSE)
    BY <1>9, <2>3, Zenon DEF Cat
  <2> HIDE DEF Taken
  <2> QED BY <1>11, <2>1, <2>4
<1>14. CASE first # 0
  <2>1. PICK uri \in Text : uri = RedirectUri(url) /\ uri = SubSeq(url, first, Len(url))
    BY <1>5, <1>6, <1>14 DEF RedirectUri
  <2>2. Cat(Cat(both, host), uri) = Cat(both, Cat(host, uri))
    BY CatsAssociate
  <2>3. url = Cat(Cat(Cat(protocol, slashes), host), uri)
    BY <1>6, <1>10, <1>12, <1>14, <2>1, <2>2
  <2>4. Taken(TRUE)
    BY <1>9, <2>1, <2>3, Zenon DEF Cat
  <2> HIDE DEF Taken
  <2> QED BY <1>11, <2>4
<1> HIDE DEF Taken
<1> QED
  BY <1>13, <1>14

-----------------------------------------------------------------------------
\* A directory mapped to another

\* The uri is its prefix and what follows it, and nothing else follows.
LEMMA SuffixIsRest ==
  ASSUME prefix_ \in Text, NEW uri \in Text, IsPrefix(prefix_, uri)
  PROVE  /\ Suffix(uri) \in Text
         /\ Suffix(uri) = CHOOSE s \in Suffixes(uri) \cup {<<>>} : uri = prefix_ \o s
<1>1. PICK n \in Nat, m \in Nat : n = Len(prefix_) /\ m = Len(uri)
  BY DEF Text
<1>2. n <= m /\ SubSeq(prefix_, 1, n) = SubSeq(uri, 1, n)
  BY <1>1 DEF IsPrefix
<1>3. PICK rest \in Text : rest = Suffix(uri) /\ rest = SubSeq(uri, n + 1, m)
  <2>1. PICK k \in Nat \ {0} : k = n + 1
    OBVIOUS
  <2>2. m \in Int /\ m <= Len(uri)
    BY <1>1
  <2>3. SubSeq(uri, k, m) \in Text
    BY <2>1, <2>2, PartIsText
  <2> QED BY <1>1, <2>1, <2>3 DEF Suffix
<1>4. uri = prefix_ \o rest
  <2>1. SubSeq(prefix_, 1, Len(prefix_)) = prefix_ /\ SubSeq(uri, 1, Len(uri)) = uri
    BY SubSeqFull DEF Text
  <2>2. PICK k \in 1..(Len(uri) + 1) : k = 1
    BY <1>1
  <2>3. PICK a \in (k - 1)..Len(uri) : a = n
    BY <1>1, <1>2, <2>2
  <2>4. PICK b \in a..Len(uri) : b = m
    BY <1>1, <1>2, <2>3
  <2>5. SubSeq(uri, k, a) \o SubSeq(uri, a + 1, b) = SubSeq(uri, k, b)
    BY <2>2, <2>3, <2>4, ConcatAdjacentSubSeq DEF Text
  <2> QED BY <1>1, <1>2, <1>3, <2>1, <2>2, <2>3, <2>4, <2>5, Zenon
<1>5. \A s \in Suffixes(uri) \cup {<<>>} : s \in Text
  <2> SUFFICES ASSUME NEW s \in Suffixes(uri) \cup {<<>>}
               PROVE  s \in Text
    OBVIOUS
  <2>1. CASE s = <<>>
    BY <2>1, EmptySeq DEF Text
  <2>2. CASE s # <<>>
    <3>1. PICK k \in 1..Len(uri) : s = SubSeq(uri, k, Len(uri))
      BY <2>2 DEF Suffixes
    <3>2. k \in Nat \ {0} /\ m \in Int /\ m <= Len(uri)
      BY <1>1
    <3>3. SubSeq(uri, k, m) \in Text
      BY <3>2, PartIsText
    <3> QED BY <1>1, <3>1, <3>3
  <2> QED BY <2>1, <2>2
<1>6. rest \in Suffixes(uri) \cup {<<>>}
  <2>1. CASE n = m
    <3>1. m < n + 1 /\ n + 1 \in Int /\ m \in Int
      BY <2>1
    <3>2. rest = <<>>
      BY <1>3, <3>1, SubSeqEmpty
    <3> QED BY <3>2
  <2>2. CASE n < m
    <3>1. PICK k \in 1..Len(uri) : k = n + 1
      BY <1>1, <2>2
    <3> QED BY <1>1, <1>3, <3>1 DEF Suffixes
  <2> QED BY <1>2, <2>1, <2>2
<1>7. ASSUME NEW s \in Suffixes(uri) \cup {<<>>}, uri = prefix_ \o s
      PROVE  s = rest
  <2>1. prefix_ \in Seq(Tokens) /\ rest \in Seq(Tokens) /\ s \in Seq(Tokens)
    BY <1>5 DEF Text
  <2>2. prefix_ \o s = prefix_ \o rest
    BY <1>4, <1>7, Zenon
  <2>3. \A t \in Text : SubSeq(prefix_ \o t, n + 1, n + Len(t)) = t /\ Len(prefix_ \o t) = n + Len(t)
    BY <1>1, ConcatParts, ConcatElements DEF Text
  <2>4. Len(s) \in Nat /\ Len(rest) \in Nat /\ s \in Text
    BY <2>1 DEF Text
  <2>5. n + Len(s) = n + Len(rest)
    BY <2>2, <2>3, <2>4, Zenon
  <2> QED BY <2>2, <2>3, <2>4, <2>5, Zenon
<1> DEFINE chosen == CHOOSE s \in Suffixes(uri) \cup {<<>>} : uri = prefix_ \o s
<1>8. chosen \in Suffixes(uri) \cup {<<>>} /\ uri = prefix_ \o chosen
  BY <1>4, <1>6, Zenon
<1>9. chosen = rest
  BY <1>7, <1>8, Zenon
<1> QED
  BY <1>3, <1>9, Zenon

\* What Join does at the seam.
LEMMA JoinSeam ==
  ASSUME NEW path \in Text, path # <<>>, NEW rest \in Text
  PROVE  /\ rest = <<>> => Join(path, rest) = path
         /\ rest # <<>> /\ rest[1] = "/" /\ ~ (rest = <<"/">> /\ Last(path) = "/")
              => Join(path, rest) = (IF Last(path) = "/" THEN Front(path) ELSE path) \o rest
<1>1. rest = <<>> => Join(path, rest) = path
  BY EmptySeq, ConcatEmptySeq DEF Join, Text
<1>2. ASSUME rest # <<>>, rest[1] = "/", Last(path) = "/", rest # <<"/">>
      PROVE  Join(path, rest) = Front(path) \o rest
  <2>1. Len(rest) \in Nat \ {0} /\ Len(rest) # 1
    <3>1. Len(rest) \in Nat \ {0}
      BY <1>2, EmptySeq DEF Text
    <3>2. ASSUME Len(rest) = 1
          PROVE  FALSE
      <4>1. PICK slash \in Text : slash = <<"/">> /\ Len(slash) = 1 /\ slash[1] = "/"
        BY RemoteAssumption, OneToken
      <4>2. \A k \in 1..Len(rest) : rest[k] = slash[k]
        BY <1>2, <3>2, <4>1
      <4>3. rest = slash
        BY <3>2, <4>1, <4>2, SeqEqual DEF Text
      <4> QED BY <1>2, <4>1, <4>3
    <3> QED BY <3>1, <3>2
  <2>2. Head(rest) = "/" /\ Tail(rest) \in Text /\ rest = <<"/">> \o Tail(rest)
    <3>1. PICK n \in Nat \ {0} : n = Len(rest)
      BY <2>1
    <3>2. Tail(rest) = SubSeq(rest, 2, n) /\ Tail(rest) \in Text
      BY <1>2, <3>1, TailIsSubSeq, HeadTailProperties DEF Text
    <3>3. PICK k \in 1..Len(rest) : k = 1
      BY <3>1
    <3>4. n \in k..Len(rest)
      BY <3>1, <3>3
    <3>5. SubSeq(rest, k, n) = <<rest[k]>> \o SubSeq(rest, k + 1, n)
      BY <3>4, SubSeqRecursiveFirst DEF Text
    <3>6. SubSeq(rest, 1, Len(rest)) = rest
      BY SubSeqFull DEF Text
    <3>7. k + 1 = 2 /\ rest[k] = "/"
      BY <1>2, <3>3
    <3>8. Head(rest) = "/"
      BY <1>2
    <3> QED BY <3>1, <3>2, <3>3, <3>5, <3>6, <3>7, <3>8, Zenon
  <2>3. Join(path, rest) = Cat(path, Tail(rest))
    <3>1. PICK n \in Nat : n = Len(rest) /\ n # 0 /\ n # 1
      BY <2>1
    <3>2. n > 1
      BY <3>1
    <3> QED BY <1>2, <2>2, <3>1, <3>2, Zenon DEF Join, Cat
  <2>4. PICK front \in Text, slash \in Text, tail \in Text :
          /\ front = Front(path) /\ slash = <<"/">> /\ tail = Tail(rest)
          /\ path = Cat(front, slash)
    <3>1. Front(path) \in Text /\ path = Cat(Front(path), <<Last(path)>>)
      BY LastOfBoth
    <3> QED BY <1>2, <2>2, <3>1, ProxyWords
  <2>5. Cat(Cat(front, slash), tail) = Cat(front, Cat(slash, tail))
    BY CatsAssociate
  <2>6. Cat(slash, tail) = rest
    BY <2>2, <2>4, Zenon DEF Cat
  <2> QED BY <2>3, <2>4, <2>5, <2>6, Zenon DEF Cat
<1>3. ASSUME rest # <<>>, rest[1] = "/", Last(path) # "/"
      PROVE  Join(path, rest) = path \o rest
  <2>1. Head(rest) # Last(path)
    BY <1>3
  <2> QED BY <2>1, Zenon DEF Join
<1> QED
  BY <1>1, <1>2, <1>3, Zenon

-----------------------------------------------------------------------------
\* Statuses

LEMMA ParsedStatus ==
  ASSUME NEW s
  PROVE  ParseResponse(s).status \in Codes
BY DEF ParseResponse, IntToResponseCode, Codes

\* The codes that handlers answer with, other than those of servers outside.
HandlerCodes == {200, 404, 500}

LEMMA AnswerStatus ==
  ASSUME NEW kind \in (Handlers \cup {"none"}) \ {"proxy"}, NEW req
  PROVE  AnswerOf(kind, req).status \in HandlerCodes
<1>1. \A code, h, body : MakeResponse(code, h, body).status = code
  BY DEF MakeResponse
<1>2. \A code, type, body : Answer(code, type, body).status = code
  BY <1>1, Zenon DEF Answer
<1>3. 200 \in HandlerCodes /\ 404 \in HandlerCodes /\ 500 \in HandlerCodes
  BY DEF HandlerCodes
<1>4. kind \in {"echo", "sleep", "status", "default status", "static", "markdown", "none"}
  BY HandlersAssumption
<1>5. NotFound.status = 404
  <2>1. \E t, b : NotFound = Answer(404, t, b)
    BY Zenon DEF NotFound
  <2> QED BY <1>2, <2>1
<1>6. FileAnswer(kind, req.uri).status \in HandlerCodes \/ kind \notin {"static", "markdown"}
  <2> DEFINE path == Root \o Suffix(req.uri)
  <2>1. CASE path \notin DOMAIN Files
    <3>1. FileAnswer(kind, req.uri) = NotFound
      BY <2>1, Zenon DEF FileAnswer
    <3> QED BY <1>3, <1>5, <3>1
  <2>2. CASE path \in DOMAIN Files /\ kind = "static"
    <3>1. \E h, body : FileAnswer(kind, req.uri) = MakeResponse(200, h, body)
      BY <2>2 DEF FileAnswer
    <3> QED BY <1>1, <1>3, <3>1
  <2>3. CASE path \in DOMAIN Files /\ kind = "markdown"
    <3>1. \E body : FileAnswer(kind, req.uri) = Answer(200, "text/html", body)
      BY <2>3 DEF FileAnswer
    <3> QED BY <1>2, <1>3, <3>1
  <2> QED BY <2>1, <2>2, <2>3
<1>7. /\ EchoAnswer(req).status \in HandlerCodes /\ SleepAnswer.status \in HandlerCodes
      /\ NotFound.status \in HandlerCodes
      /\ \A b \in BOOLEAN : StatusAnswer(b).status \in HandlerCodes
  <2>1. EchoAnswer(req).status = 200
    BY <1>2 DEF EchoAnswer
  <2>2. SleepAnswer.status = 200
    <3>1. \E t, b : SleepAnswer = Answer(200, t, b)
      BY Zenon DEF SleepAnswer
    <3> QED BY <1>2, <3>1
  <2>3. Failed.status = 500
    <3>1. \E h, b : Failed = MakeResponse(500, h, b)
      BY Zenon DEF Failed
    <3> QED BY <1>1, <3>1
  <2>4. ASSUME NEW b \in BOOLEAN
        PROVE  StatusAnswer(b).status = 200 \/ StatusAnswer(b) = Failed
    <3>1. CASE b
      <4>1. \E t, body : StatusAnswer(b) = Answer(200, t, body)
        BY <3>1, Zenon DEF StatusAnswer
      <4> QED BY <1>2, <4>1
    <3>2. CASE ~ b
      BY <3>2, Zenon DEF StatusAnswer
    <3> QED BY <3>1, <3>2
  <2> QED BY <1>3, <1>5, <2>1, <2>2, <2>3, <2>4
<1>8. CASE kind = "echo"
  BY <1>7, <1>8, Zenon DEF AnswerOf
<1>9. CASE kind = "sleep"
  <2>1. AnswerOf(kind, req) = SleepAnswer
    BY <1>9 DEF AnswerOf
  <2> QED BY <1>7, <2>1
<1>10. CASE kind \in {"status", "default status"}
  <2>1. \E b \in BOOLEAN : AnswerOf(kind, req) = StatusAnswer(b)
    BY <1>10 DEF AnswerOf
  <2> QED BY <1>7, <2>1
<1>11. CASE kind = "none"
  <2>1. AnswerOf(kind, req) = NotFound
    BY <1>11 DEF AnswerOf
  <2> QED BY <1>7, <2>1
<1>12. CASE kind \in {"static", "markdown"}
  <2>1. AnswerOf(kind, req) = FileAnswer(kind, req.uri)
    BY <1>12 DEF AnswerOf
  <2> QED BY <1>6, <1>12, <2>1
<1> QED
  BY <1>4, <1>8, <1>9, <1>10, <1>11, <1>12

-----------------------------------------------------------------------------
\* The invariant: what the members, the request and the visit hold is typed;
\* nothing has been read before there is a client; a visit is one of the proxy,
\* for a uri that has its prefix, and not one too many; its first uri is the
\* one that the prefix has been taken from; and the three properties of the
\* proxy that a step of it has to preserve.

Texts ==
  /\ prefix_ \in Text /\ url_ \in Text /\ host_ \in Text /\ port_ \in Text /\ path_ \in Text
  /\ new_host \in Text /\ resp \in Text
  /\ request \in Requests /\ outgoing \in Requests

VisitOK ==
  Visiting =>
    /\ handler = "proxy"
    /\ IsPrefix(prefix_, request.uri)
    /\ i < MaxRedirectDepth
    /\ i = 0 => outgoing.uri = Join(path_, Suffix(request.uri))

EInv ==
  /\ ExchangeTypeOK
  /\ Texts
  /\ stage = "new" => got = 0
  /\ VisitOK
  /\ InitSplits /\ HeadersRewritten /\ RedirectFollowed

LEMMA SentIsText == \A t \in WellFormed \cup Malformed \cup {<<>>} : t \in Text /\ Len(t) \in Nat
<1>1. \A t \in WellFormed \cup Malformed \cup {<<>>} : t \in Text
  BY ClientsAssumption, EmptySeq DEF Text
<1>2. \A t \in Text : Len(t) \in Nat
  BY DEF Text
<1> QED
  BY <1>1, <1>2

LEMMA Initially == ExchangeInit => EInv
<1> SUFFICES ASSUME ExchangeInit
             PROVE  EInv
  OBVIOUS
<1>1. <<>> \in Text /\ Len(<<>>) = 0
  BY EmptySeq DEF Text
<1>2. Texts
  BY <1>1, NoRequestType, Zenon DEF ExchangeInit, Texts
<1>3. ExchangeTypeOK
  <2>1. 0 \in 0..MaxRedirectDepth
    BY DepthAssumption
  <2>2. response.status = 0
    BY DEF ExchangeInit, NoResponse
  <2> QED BY <1>1, <2>1, <2>2 DEF ExchangeInit, ExchangeTypeOK
<1>4. ~ Visiting
  BY DEF ExchangeInit, Visiting
<1>5. InitSplits
  <2>1. Protocol(url_) = 0
    BY <1>1, ProtocolIs DEF ExchangeInit
  <2> QED BY <2>1 DEF InitSplits
<1> QED
  BY <1>2, <1>3, <1>4, <1>5 DEF ExchangeInit, EInv, VisitOK, HeadersRewritten, RedirectFollowed

\* Steps that are not those of a proxy leave what the proxy's properties are
\* about alone.
LEMMA NotVisiting ==
  ASSUME EInv, ~ Visiting', InitSplits', ExchangeTypeOK', Texts', (stage = "new" => got = 0)'
  PROVE  EInv'
BY DEF EInv, VisitOK, HeadersRewritten, RedirectFollowed

\* A step that changes only where the server is, outside of visits.
LEMMA StageStep ==
  ASSUME EInv, stage' \in {"refused", "closed", "abandoned", "route", "ended", "respond", "written"},
         UNCHANGED <<members, request, visit, handler, text, got>>,
         response'.status \in Codes \cup {0}
  PROVE  EInv'
<1>1. ~ Visiting' /\ (stage = "new" => got = 0)'
  BY DEF Visiting
<1>2. InitSplits' /\ Texts'
  BY DEF EInv, InitSplits, Texts, members, visit
<1>3. ExchangeTypeOK'
  BY DEF EInv, ExchangeTypeOK, members, visit
<1> QED
  BY <1>1, <1>2, <1>3, NotVisiting

LEMMA MountStep ==
  ASSUME EInv, NEW kind \in Handlers, NEW prefix \in UriPrefixes, NEW url \in ProxyPasses,
         NEW sent \in Tried(kind, url), Mount(kind, prefix, url, sent)
  PROVE  EInv'
<1>1. prefix \in Text /\ url \in Text /\ sent \in WellFormed \cup Malformed
  BY ClientsAssumption
<1>2. /\ stage = "new" /\ got = 0 /\ got' = 0 /\ stage' = "reading" /\ text' = sent /\ handler' = kind
      /\ UNCHANGED <<request, visit, response>>
  BY DEF Mount, EInv
<1>3. prefix_' = prefix
  BY DEF Mount, Init
<1>4. ~ Visiting' /\ (stage = "new" => got = 0)'
  BY <1>2 DEF Visiting
<1>5. CASE kind = "proxy"
  <2>1. /\ url_' = url /\ host_' = UpTo(url, HostStart(url), HostEnd(url))
        /\ port_' = PortOf(url) /\ path_' = PathOf(url)
    BY <1>5 DEF Mount, Init
  <2>2. Texts'
    BY <1>1, <1>2, <1>3, <2>1, InitTypes, PathBegins DEF EInv, Texts, visit
  <2>3. InitSplits'
    BY <1>1, <2>1, InitTakesApart DEF InitSplits
  <2>4. path_' # <<>> /\ path_'[1] = "/"
    BY <1>1, <2>1, PathBegins
  <2>5. ExchangeTypeOK'
    BY <1>1, <1>2, <2>4, SentIsText DEF EInv, ExchangeTypeOK, visit
  <2> QED BY <1>4, <2>2, <2>3, <2>5, NotVisiting
<1>6. CASE kind # "proxy"
  <2>1. UNCHANGED <<url_, host_, port_, path_>>
    BY <1>6 DEF Mount
  <2>2. Texts' /\ InitSplits'
    BY <1>1, <1>2, <1>3, <2>1 DEF EInv, Texts, visit, InitSplits
  <2>3. ExchangeTypeOK'
    BY <1>1, <1>2, <1>6, SentIsText DEF EInv, ExchangeTypeOK, visit
  <2> QED BY <1>4, <2>2, <2>3, NotVisiting
<1> QED
  BY <1>5, <1>6

LEMMA MountRefusedStep ==
  ASSUME EInv, NEW prefix \in UriPrefixes, MountRefused(prefix)
  PROVE  EInv'
<1>1. prefix \in Text
  BY ClientsAssumption
<1>2. /\ stage' = "refused" /\ prefix_' = prefix
      /\ UNCHANGED <<url_, host_, port_, path_, request, visit, response, handler, text, got>>
  BY DEF MountRefused, InitRefused, connection
<1>3. ~ Visiting' /\ (stage = "new" => got = 0)'
  BY <1>2 DEF Visiting
<1>4. Texts' /\ InitSplits'
  BY <1>1, <1>2 DEF EInv, Texts, visit, InitSplits
<1>5. ExchangeTypeOK'
  BY <1>2 DEF EInv, ExchangeTypeOK, visit
<1> QED
  BY <1>3, <1>4, <1>5, NotVisiting

LEMMA BufferedIsText ==
  ASSUME EInv
  PROVE  Buffered \in Text /\ text \in Text /\ Len(text) \in Nat /\ got \in Nat /\ got <= Len(text)
<1>1. text \in Text /\ Len(text) \in Nat
  BY SentIsText DEF EInv, ExchangeTypeOK
<1>2. got \in 0..Len(text)
  BY DEF EInv, ExchangeTypeOK
<1>3. PICK n \in Int : n = got /\ n <= Len(text)
  BY <1>1, <1>2
<1>4. SubSeq(text, 1, n) \in Text
  <2>1. PICK m \in Nat \ {0} : m = 1
    OBVIOUS
  <2> QED BY <1>1, <1>3, <2>1, PartIsText
<1> QED
  BY <1>1, <1>2, <1>3, <1>4 DEF Buffered

\* No more is read than there is.
LEMMA NoMoreThan ==
  ASSUME NEW n \in Nat, NEW m \in Nat, NEW k \in Nat, NEW next \in (k + 1)..Min({n, m})
  PROVE  next \in 0..n /\ next \in Nat /\ k < next
<1>1. {n, m} \in SUBSET Nat /\ {n, m} # {}
  OBVIOUS
<1>2. Min({n, m}) \in {n, m} /\ Min({n, m}) <= n
  BY <1>1, MinIsLeast
<1> QED
  BY <1>2

LEMMA ReadUntilStep ==
  ASSUME EInv, ReadUntil
  PROVE  EInv'
<1>1. /\ stage = "reading" /\ stage' = "reading"
      /\ UNCHANGED <<members, request, visit, response, handler, text>>
  BY DEF ReadUntil
<1>2. got' \in 0..Len(text)
  <2>1. got' \in (got + 1)..Min({Len(text), MaxBuffer}) /\ MaxBuffer \in Nat
    BY BufferAssumption DEF ReadUntil
  <2> QED BY <2>1, BufferedIsText, NoMoreThan
<1>3. ~ Visiting' /\ (stage = "new" => got = 0)'
  BY <1>1 DEF Visiting
<1>4. Texts' /\ InitSplits'
  BY <1>1 DEF EInv, Texts, members, visit, InitSplits
<1>5. ExchangeTypeOK'
  BY <1>1, <1>2 DEF EInv, ExchangeTypeOK, members, visit
<1> QED
  BY <1>3, <1>4, <1>5, NotVisiting

LEMMA HandleRequestStep ==
  ASSUME EInv, HandleRequest
  PROVE  EInv'
<1>1. UNCHANGED <<members, visit, handler, text, got>>
  BY DEF HandleRequest, connection
<1>2. stage' \in {"respond", "body", "ended", "route"}
      /\ response'.status \in Codes \cup {0}
  <2>1. \A code, h, body : MakeResponse(code, h, body).status = code
    BY DEF MakeResponse
  <2>2. 400 \in Codes /\ response.status \in Codes \cup {0}
    BY DEF Codes, EInv, ExchangeTypeOK
  <2>3. CASE stage' = "respond" /\ \E h, body : response' = MakeResponse(400, h, body)
    <3>1. PICK h, body : response' = MakeResponse(400, h, body)
      BY <2>3
    <3>2. response'.status = 400
      BY <2>1, <3>1
    <3> QED BY <2>2, <2>3, <3>2
  <2>4. CASE stage' \in {"body", "ended", "route"} /\ response' = response
    BY <2>2, <2>4
  <2>5. \/ stage' = "respond" /\ \E h, body : response' = MakeResponse(400, h, body)
        \/ stage' \in {"body", "ended", "route"} /\ response' = response
    BY Zenon DEF HandleRequest, Respond
  <2> QED BY <2>3, <2>4, <2>5
<1>3. request' \in Requests
  <2>1. request' = IF IsRequest(Buffered) THEN ParseRequest(Buffered) ELSE NoRequest
    BY Zenon DEF HandleRequest
  <2> QED BY <2>1, BufferedIsText, ParseRequestType, NoRequestType
<1>4. ~ Visiting' /\ (stage = "new" => got = 0)'
  BY <1>2 DEF Visiting
<1>5. Texts' /\ InitSplits'
  BY <1>1, <1>3 DEF EInv, Texts, members, visit, InitSplits
<1>6. ExchangeTypeOK'
  <2>1. DOMAIN request' = DOMAIN NoRequest
    BY <1>3, NoRequestType
  <2> QED BY <1>1, <1>2, <2>1 DEF EInv, ExchangeTypeOK, members, visit
<1> QED
  BY <1>4, <1>5, <1>6, NotVisiting

LEMMA ReadBodyStep ==
  ASSUME EInv, ReadBody
  PROVE  EInv'
<1>1. /\ stage = "body" /\ stage' = "body"
      /\ UNCHANGED <<members, visit, response, handler, text>>
  BY DEF ReadBody
<1>2. got' \in 0..Len(text) /\ got' \in Nat
  <2>1. PICK most \in Nat : most = got + MaxRead
    BY BufferedIsText, BufferAssumption
  <2>2. got' \in (got + 1)..Min({Len(text), most})
    BY <2>1 DEF ReadBody
  <2> QED BY <2>2, BufferedIsText, NoMoreThan
<1>3. request' \in Requests
  <2>1. PICK m \in Nat \ {0}, n \in Int : m = got + 1 /\ n = got' /\ n <= Len(text)
    BY <1>2, BufferedIsText
  <2>2. SubSeq(text, m, n) \in Text
    BY <2>1, BufferedIsText, PartIsText
  <2>3. request' = append_body(request, SubSeq(text, m, n))
    BY <2>1 DEF ReadBody
  <2> QED BY <2>2, <2>3, AppendBodyType DEF EInv, Texts
<1>4. ~ Visiting' /\ (stage = "new" => got = 0)'
  BY <1>1 DEF Visiting
<1>5. Texts' /\ InitSplits'
  BY <1>1, <1>3 DEF EInv, Texts, members, visit, InitSplits
<1>6. ExchangeTypeOK'
  <2>1. DOMAIN request' = DOMAIN NoRequest
    BY <1>3, NoRequestType
  <2> QED BY <1>1, <1>2, <2>1 DEF EInv, ExchangeTypeOK, members, visit
<1> QED
  BY <1>4, <1>5, <1>6, NotVisiting

LEMMA RunHandlerStep ==
  ASSUME EInv, RunHandler
  PROVE  EInv'
<1>1. PICK kind \in Found(request.uri) :
        IF kind = "proxy"
        THEN BeginRequest
        ELSE /\ Respond(AnswerOf(kind, request))
             /\ UNCHANGED <<members, request, visit>>
  BY DEF RunHandler
<1>2. UNCHANGED <<handler, text, got>>
  BY DEF RunHandler, connection
<1>3. kind = "none" \/ (kind = handler /\ IsPrefix(prefix_, request.uri))
  BY DEF Found
<1>4. CASE kind # "proxy"
  <2>1. /\ response' = AnswerOf(kind, request) /\ stage' = "respond"
        /\ UNCHANGED <<members, request, visit>>
    BY <1>1, <1>4 DEF Respond
  <2>2. kind \in (Handlers \cup {"none"}) \ {"proxy"}
    BY <1>3, <1>4 DEF EInv, ExchangeTypeOK
  <2>3. response'.status \in Codes
    BY <2>1, <2>2, AnswerStatus DEF Codes, HandlerCodes
  <2> QED BY <1>2, <2>1, <2>3, StageStep
<1>5. CASE kind = "proxy"
  <2>1. /\ outgoing' = TransformIncomingRequest(request) /\ new_host' = host_ /\ i' = 0
        /\ stage' = "visiting" /\ UNCHANGED <<members, request, resp, response>>
    BY <1>1, <1>5 DEF BeginRequest
  <2>2. handler = "proxy" /\ IsPrefix(prefix_, request.uri)
    BY <1>3, <1>5
  <2>3. /\ outgoing' \in Requests
        /\ outgoing'.uri = Join(path_, Suffix(request.uri))
        /\ outgoing'.headers = TransformHeaders(request.headers)
    BY <2>1, TransformType DEF EInv, Texts
  <2>4. Texts' /\ InitSplits' /\ (stage = "new" => got = 0)'
    BY <2>1, <2>3 DEF EInv, Texts, members, InitSplits
  <2>5. ExchangeTypeOK'
    <3>1. DOMAIN outgoing' = DOMAIN NoRequest /\ 0 \in 0..MaxRedirectDepth
      BY <2>3, NoRequestType, DepthAssumption
    <3> QED BY <1>2, <2>1, <3>1 DEF EInv, ExchangeTypeOK, members
  <2>6. VisitOK'
    <3>1. 0 < MaxRedirectDepth
      BY DepthAssumption
    <3>2. prefix_' = prefix_ /\ path_' = path_ /\ request' = request
      BY <2>1 DEF members
    <3>3. Suffix(request.uri)' = Suffix(request.uri)
      BY <3>2 DEF Suffix
    <3> QED BY <1>2, <2>1, <2>2, <2>3, <3>1, <3>2, <3>3 DEF VisitOK
  <2>7. HeadersRewritten'
    <3>1. request.headers \in Seq(Fields)
      BY DEF EInv, Texts, Requests
    <3>2. NoKeyTwice(request.headers) => Rewrites(request.headers, outgoing'.headers, new_host')
      BY <2>1, <2>3, <3>1, TransformHeadersRewrites DEF EInv, Texts
    <3> QED BY <2>1, <3>2 DEF HeadersRewritten, Rewrites
  <2>8. RedirectFollowed'
    BY <2>1 DEF RedirectFollowed
  <2> QED BY <2>4, <2>5, <2>6, <2>7, <2>8 DEF EInv
<1> QED
  BY <1>4, <1>5

LEMMA EstablishStep ==
  ASSUME EInv, EstablishConnection, UNCHANGED <<handler, connection>>
  PROVE  EInv'
<1>1. /\ Visiting /\ Visiting' /\ stage' = "waiting"
      /\ UNCHANGED <<members, request, visit, response, handler, text, got>>
  BY DEF EstablishConnection, Visiting, connection
<1>2. Texts' /\ InitSplits' /\ (stage = "new" => got = 0)'
  BY <1>1 DEF EInv, Texts, members, visit, InitSplits
<1>3. ExchangeTypeOK'
  BY <1>1 DEF EInv, ExchangeTypeOK, members, visit
<1>4. VisitOK'
  <2>1. prefix_' = prefix_ /\ path_' = path_ /\ request' = request /\ outgoing' = outgoing /\ i' = i
    BY <1>1 DEF members, visit
  <2>2. Suffix(request.uri)' = Suffix(request.uri)
    BY <2>1 DEF Suffix
  <2> QED BY <1>1, <2>1, <2>2 DEF EInv, VisitOK
<1>5. HeadersRewritten'
  BY <1>1 DEF EInv, HeadersRewritten, visit
<1>6. RedirectFollowed'
  BY <1>1 DEF EInv, RedirectFollowed, visit
<1> QED
  BY <1>2, <1>3, <1>4, <1>5, <1>6 DEF EInv

LEMMA VisitEndsStep ==
  ASSUME EInv, VisitFails \/ VisitThrows, UNCHANGED <<handler, connection>>
  PROVE  EInv'
<1>1. /\ stage' \in {"respond", "ended"}
      /\ UNCHANGED <<members, request, visit, handler, text, got>>
  BY DEF VisitFails, VisitThrows, ReturnError, connection
<1>2. response'.status \in Codes \cup {0}
  <2>1. \A code, h, body : MakeResponse(code, h, body).status = code
    BY DEF MakeResponse
  <2>2. \E h, b : Failed = MakeResponse(500, h, b)
    BY Zenon DEF Failed
  <2>3. response' = Failed \/ response' = response
    BY Zenon DEF VisitFails, VisitThrows, ReturnError
  <2>4. response.status \in Codes \cup {0} /\ 500 \in Codes
    BY DEF EInv, ExchangeTypeOK, Codes
  <2> QED BY <2>1, <2>2, <2>3, <2>4
<1> QED
  BY <1>1, <1>2, StageStep

\* What a redirection leaves of a visit.
LEMMA FollowRedirectStep ==
  ASSUME EInv, NEW t \in RemoteTexts, IsResponse(t), resp' = t, stage = "waiting",
         NEW url, url = get_header(HeadersOf(t), <<"Location">>), Protocol(url) # 0,
         FollowRedirect(t, url), UNCHANGED <<members, request, handler, text, got>>
  PROVE  EInv'
<1>1. t \in Text
  BY RemoteAssumption
<1>2. url \in Text /\ url # <<>>
  <2>1. url \in Text
    BY <1>1, HeadersType, GetHeader
  <2>2. ASSUME url = <<>>
        PROVE  FALSE
    <3>1. Protocol(url) \in 1..(Len(url) - 1) /\ Len(url) = 0
      BY <2>1, <2>2, ProtocolIs, EmptySeq
    <3> QED BY <3>1
  <2> QED BY <2>1, <2>2
<1>3. PICK host \in Text, uri \in Text : host = RedirectHost(url) /\ uri = RedirectUri(url)
  BY <1>2, RedirectTypes
<1>4. /\ new_host' = host
      /\ outgoing' \in Requests
      /\ outgoing'.uri = uri
      /\ outgoing'.headers = set_header(outgoing.headers, Header(<<"Host">>, host))
  <2>1. new_host' = host /\ outgoing' = Redirected(outgoing, uri, host)
    BY <1>3, Zenon DEF FollowRedirect, Redirect, Redirected
  <2>2. outgoing \in Requests
    BY DEF EInv, Texts
  <2> QED BY <1>3, <2>1, <2>2, RedirectedType
<1>5. Visiting /\ i \in 0..MaxRedirectDepth /\ i < MaxRedirectDepth /\ i' = i + 1
  BY DEF EInv, ExchangeTypeOK, VisitOK, FollowRedirect, Visiting
<1>6. i' \in 0..MaxRedirectDepth /\ i' > 0
  BY <1>5, DepthAssumption
<1>7. Texts' /\ InitSplits'
  BY <1>1, <1>3, <1>4 DEF EInv, Texts, members, InitSplits
<1>8. stage' \in {"respond", "visiting"} /\ response'.status \in Codes \cup {0}
  BY ParsedStatus DEF FollowRedirect, EInv, ExchangeTypeOK
<1>9. (stage = "new" => got = 0)'
  BY <1>8
<1>10. ExchangeTypeOK'
  <2>1. DOMAIN outgoing' = DOMAIN NoRequest
    BY <1>4, NoRequestType
  <2> QED BY <1>6, <1>8, <2>1 DEF EInv, ExchangeTypeOK, members
<1>11. CASE stage' = "respond"
  <2>1. ~ Visiting'
    BY <1>11 DEF Visiting
  <2> QED BY <1>7, <1>9, <1>10, <2>1, NotVisiting
<1>12. CASE stage' = "visiting"
  <2>1. VisitOK'
    <3>1. i' # MaxRedirectDepth
      BY <1>12 DEF FollowRedirect
    <3>2. i' < MaxRedirectDepth /\ i' # 0
      BY <1>6, <3>1, DepthAssumption
    <3>3. handler = "proxy" /\ IsPrefix(prefix_, request.uri)
      BY <1>5 DEF EInv, VisitOK
    <3> QED BY <3>2, <3>3 DEF VisitOK, members
  <2>2. HeadersRewritten'
    <3>1. outgoing.headers \in Seq(Fields)
      BY DEF EInv, Texts, Requests
    <3>2. ASSUME NoKeyTwice(request.headers)
          PROVE  Rewrites(request.headers, outgoing'.headers, new_host')
      <4>1. Rewrites(request.headers, outgoing.headers, new_host)
        BY <1>5, <3>2 DEF EInv, HeadersRewritten, Rewrites
      <4> QED BY <1>4, <3>1, <4>1, RedirectRewrites
    <3> QED BY <3>2 DEF HeadersRewritten, Rewrites
  <2>3. RedirectFollowed'
    <3>1. PICK location \in LocationsIn(t), more \in {<<>>, <<CR>>} :
            location \in Text /\ more \in Text /\ location \o more = url
      BY <1>1, <1>2, LocationFound
    <3>2. PICK withUri \in BOOLEAN, protocol \in Prefixes(location) :
            /\ location \o more = protocol \o <<"/", "/">> \o RedirectHost(url)
                                    \o (IF withUri THEN RedirectUri(url) ELSE <<>>)
            /\ "/" \notin ToSet(RedirectHost(url))
            /\ withUri \/ RedirectUri(url) = <<"/">>
      BY <1>2, <3>1, RedirectTakesApart
    <3>3. new_host' = RedirectHost(url) /\ outgoing'.uri = RedirectUri(url)
      BY <1>3, <1>4
    <3> QED BY <3>1, <3>2, <3>3, Zenon DEF RedirectFollowed
  <2> QED BY <1>7, <1>9, <1>10, <2>1, <2>2, <2>3 DEF EInv
<1> QED
  BY <1>8, <1>11, <1>12

LEMMA ReceiveStep ==
  ASSUME EInv, NEW t \in RemoteTexts, Receive(t), UNCHANGED <<handler, connection>>
  PROVE  EInv'
<1>1. /\ stage = "waiting" /\ resp' = t /\ t \in Text
      /\ UNCHANGED <<members, request, handler, text, got>>
  BY RemoteAssumption DEF Receive, connection
<1>2. i \in 0..MaxRedirectDepth /\ i < MaxRedirectDepth
  BY <1>1 DEF EInv, ExchangeTypeOK, VisitOK, Visiting
<1> DEFINE url == get_header(HeadersOf(t), <<"Location">>)
<1>3. ASSUME stage' = "respond", UNCHANGED <<outgoing, new_host>>, i' \in 0..MaxRedirectDepth,
             response'.status \in Codes \cup {0}
      PROVE  EInv'
  <2>1. ~ Visiting' /\ (stage = "new" => got = 0)'
    BY <1>3 DEF Visiting
  <2>2. Texts' /\ InitSplits'
    BY <1>1, <1>3 DEF EInv, Texts, members, InitSplits
  <2>3. ExchangeTypeOK'
    BY <1>1, <1>3 DEF EInv, ExchangeTypeOK, members
  <2> QED BY <2>1, <2>2, <2>3, NotVisiting
<1>4. CASE /\ ReturnError
           /\ UNCHANGED <<outgoing, new_host, i>>
  <2>1. \A code, h, body : MakeResponse(code, h, body).status = code
    BY DEF MakeResponse
  <2>2. \E h, b : Failed = MakeResponse(500, h, b)
    BY Zenon DEF Failed
  <2>3. 500 \in Codes
    BY DEF Codes
  <2>4. response' = Failed /\ stage' = "respond"
    BY <1>4 DEF ReturnError
  <2> QED BY <1>2, <1>3, <1>4, <2>1, <2>2, <2>3, <2>4
<1>5. CASE /\ response' = ParseResponse(t)
           /\ stage' = "respond"
           /\ i' = i + 1
           /\ UNCHANGED <<outgoing, new_host>>
  <2>1. i' \in 0..MaxRedirectDepth
    BY <1>2, <1>5, DepthAssumption
  <2> QED BY <1>3, <1>5, <2>1, ParsedStatus
<1>6. CASE IsResponse(t) /\ Protocol(url) # 0 /\ FollowRedirect(t, url)
  BY <1>1, <1>6, FollowRedirectStep
<1> HIDE DEF url
<1>7. \/ /\ ReturnError
         /\ UNCHANGED <<outgoing, new_host, i>>
      \/ /\ response' = ParseResponse(t)
         /\ stage' = "respond"
         /\ i' = i + 1
         /\ UNCHANGED <<outgoing, new_host>>
      \/ IsResponse(t) /\ Protocol(url) # 0 /\ FollowRedirect(t, url)
  BY DEF Receive, url
<1> QED
  BY <1>4, <1>5, <1>6, <1>7

LEMMA InvariantStep == EInv /\ [ExchangeNext]_exchangeVars => EInv'
<1> SUFFICES ASSUME EInv, [ExchangeNext]_exchangeVars
             PROVE  EInv'
  OBVIOUS
<1>1. CASE UNCHANGED exchangeVars \/ Over
  <2>1. /\ UNCHANGED stage
        /\ UNCHANGED <<members, request, visit, response, handler, text, got>>
    BY <1>1 DEF exchangeVars, connection, Over
  <2>2. UNCHANGED <<prefix_, url_, host_, port_, path_, outgoing, new_host, i, resp>>
    BY <2>1 DEF members, visit
  <2>3. Visiting' = Visiting /\ (Suffix(request.uri))' = Suffix(request.uri)
    BY <2>1, <2>2 DEF Visiting, Suffix
  <2>4. ExchangeTypeOK' /\ Texts' /\ (stage = "new" => got = 0)'
    BY <2>1, <2>2 DEF EInv, ExchangeTypeOK, Texts
  <2>5. VisitOK'
    BY <2>1, <2>2, <2>3 DEF EInv, VisitOK
  <2>6. InitSplits' /\ HeadersRewritten' /\ RedirectFollowed'
    BY <2>1, <2>2, <2>3 DEF EInv, InitSplits, HeadersRewritten, RedirectFollowed
  <2> QED BY <2>4, <2>5, <2>6 DEF EInv
<1>2. CASE \E kind \in Handlers, prefix \in UriPrefixes, url \in ProxyPasses :
             \E sent \in Tried(kind, url) : Mount(kind, prefix, url, sent)
  BY <1>2, MountStep
<1>3. CASE \E prefix \in UriPrefixes : MountRefused(prefix)
  BY <1>3, MountRefusedStep
<1>4. CASE ReadUntil
  BY <1>4, ReadUntilStep
<1>5. CASE HandleRequest
  BY <1>5, HandleRequestStep
<1>6. CASE ReadBody
  BY <1>6, ReadBodyStep
<1>7. CASE TooLong \/ ClientLeaves \/ EndBody \/ AbandonBody \/ WriteResponse
  <2>1. /\ stage' \in {"closed", "route", "abandoned", "written"}
        /\ UNCHANGED <<members, request, visit, handler, text, got>> /\ response' = response
    BY <1>7 DEF TooLong, ClientLeaves, EndBody, AbandonBody, WriteResponse, connection
  <2>2. response'.status \in Codes \cup {0}
    BY <2>1 DEF EInv, ExchangeTypeOK
  <2> QED BY <2>1, <2>2, StageStep
<1>8. CASE RunHandler
  BY <1>8, RunHandlerStep
<1>9. CASE Visit
  <2>1. \/ EstablishConnection /\ UNCHANGED <<handler, connection>>
        \/ \E t \in RemoteTexts : Receive(t) /\ UNCHANGED <<handler, connection>>
        \/ (VisitFails \/ VisitThrows) /\ UNCHANGED <<handler, connection>>
    BY <1>9, Zenon DEF Visit, ProxyStep
  <2> QED BY <2>1, EstablishStep, ReceiveStep, VisitEndsStep
<1> QED
  BY <1>1, <1>2, <1>3, <1>4, <1>5, <1>6, <1>7, <1>8, <1>9 DEF ExchangeNext, Proceed

-----------------------------------------------------------------------------
\* The theorems

\* In every state of every behaviour the invariant holds.
THEOREM Invariance == ExchangeSpec => []EInv
<1>1. EInv /\ [ExchangeNext]_exchangeVars => EInv'
  BY InvariantStep
<1> QED
  BY Initially, <1>1, PTL DEF ExchangeSpec

\* The types of what the connection holds.
THEOREM ExchangeTypes == ExchangeSpec => []ExchangeTypeOK
<1>1. EInv => ExchangeTypeOK
  BY DEF EInv
<1> QED
  BY Invariance, <1>1, PTL

\* Whatever proxy_pass is, ReverseProxyHandler::Init takes it apart into the
\* host, port and path that it is made of.
THEOREM ProxyPassSplits == ExchangeSpec => []InitSplits
<1>1. EInv => InitSplits
  BY DEF EInv
<1> QED
  BY Invariance, <1>1, PTL

\* Whatever the client sent, and however often the request was redirected, it
\* names the host it is sent to, asks for the connection to be closed, carries
\* no cookie and has the other headers of the client in their order.
THEOREM ForwardedHeaders == ExchangeSpec => []HeadersRewritten
<1>1. EInv => HeadersRewritten
  BY DEF EInv
<1> QED
  BY Invariance, <1>1, PTL

\* Whatever a server outside answered, a redirection goes to the host and asks
\* for the uri of a Location header in it.
THEOREM RedirectionFollowed == ExchangeSpec => []RedirectFollowed
<1>1. EInv => RedirectFollowed
  BY DEF EInv
<1> QED
  BY Invariance, <1>1, PTL

\* A uri inside the mounted directory goes to the same place inside path_.
THEOREM MappedDirectory == ExchangeSpec => []DirectoryMapped
<1>1. ASSUME EInv
      PROVE  DirectoryMapped
  <2> SUFFICES ASSUME Visiting, i = 0
               PROVE  LET base == IF Last(path_) = "/" THEN Front(path_) ELSE path_
                          rest == CHOOSE s \in Suffixes(request.uri) \cup {<<>>} :
                                    request.uri = prefix_ \o s
                      IN  /\ rest = <<>> => outgoing.uri = path_
                          /\ rest # <<>> /\ rest[1] = "/" /\ ~ (rest = <<"/">> /\ Last(path_) = "/")
                               => outgoing.uri = base \o rest
    BY Zenon DEF DirectoryMapped
  <2>1. /\ handler = "proxy" /\ IsPrefix(prefix_, request.uri)
        /\ outgoing.uri = Join(path_, Suffix(request.uri))
    BY <1>1 DEF EInv, VisitOK
  <2>2. path_ # <<>>
    BY <1>1, <2>1 DEF EInv, ExchangeTypeOK
  <2>3. prefix_ \in Text /\ path_ \in Text /\ request.uri \in Text
    BY <1>1 DEF EInv, Texts, Requests
  <2>4. PICK rest \in Text :
          /\ rest = Suffix(request.uri)
          /\ rest = CHOOSE s \in Suffixes(request.uri) \cup {<<>>} : request.uri = prefix_ \o s
    BY <2>1, <2>3, SuffixIsRest
  <2>5. /\ rest = <<>> => outgoing.uri = path_
        /\ rest # <<>> /\ rest[1] = "/" /\ ~ (rest = <<"/">> /\ Last(path_) = "/")
             => outgoing.uri = (IF Last(path_) = "/" THEN Front(path_) ELSE path_) \o rest
    BY <2>1, <2>2, <2>3, <2>4, JoinSeam, Zenon
  <2> QED BY <2>4, <2>5, Zenon
<1> QED
  BY Invariance, <1>1, PTL

-----------------------------------------------------------------------------
\* What goes out can be read

CleanField(h) == Occurrences(h.key, ColonSpace) = {} /\ Occurrences(LineOf(h), CRLF) = {}

LEMMA SeparatorsUnbroken ==
  /\ Occurrences(ColonSpace, CRLF) = {} /\ ColonSpace[1] # "\n" /\ ColonSpace[2] # CR
<1>1. PICK sep \in Text : sep = ColonSpace /\ Len(sep) = 2 /\ sep[1] # "\n" /\ sep[1] # CR /\ sep[2] # CR
  BY WordsAreTexts DEF ColonSpace, CR
<1>2. PICK crlf \in Text : crlf = CRLF /\ Len(crlf) = 2 /\ sep[1] # crlf[1]
  BY <1>1, WordsAreTexts, LineBreakDiffers
<1>3. ASSUME NEW k \in Occurrences(sep, crlf)
      PROVE  FALSE
  <2>1. /\ k \in Nat /\ 1 <= k /\ k + Len(crlf) <= Len(sep) + 1
        /\ \A j \in 1..Len(crlf) : sep[k + j - 1] = crlf[j]
    BY OccurrenceTokens
  <2>2. PICK m, n : m = Len(crlf) /\ n = Len(sep)
    OBVIOUS
  <2>3. m = 2 /\ n = 2
    BY <1>1, <1>2, <2>2
  <2>4. k \in Nat /\ 1 <= k /\ k + m <= n + 1 /\ \A j \in 1..m : sep[k + j - 1] = crlf[j]
    BY <2>1, <2>2
  <2>5. k = 1 /\ 1 \in 1..m /\ 1 + 1 - 1 = 1
    BY <2>3, <2>4
  <2>6. sep[1 + 1 - 1] = crlf[1]
    BY <2>4, <2>5
  <2> QED BY <1>2, <2>5, <2>6
<1> QED
  BY <1>1, <1>2, <1>3

LEMMA NoRoom ==
  ASSUME NEW s \in Text, NEW sep \in Text, Len(s) = 1, Len(sep) = 2
  PROVE  Occurrences(s, sep) = {}
<1>1. ASSUME NEW k \in Occurrences(s, sep)
      PROVE  FALSE
  <2>1. k \in Nat /\ 1 <= k /\ k + Len(sep) <= Len(s) + 1
    BY OccurrenceTokens
  <2> QED BY <2>1
<1> QED
  BY <1>1

\* A header whose key is one word.
LEMMA FieldIsClean ==
  ASSUME NEW key \in Text, Len(key) = 1, NEW value \in Text, Occurrences(value, CRLF) = {}
  PROVE  Header(key, value) \in Fields /\ CleanField(Header(key, value))
<1>1. PICK sep \in Text : sep = ColonSpace /\ Len(sep) = 2 /\ Occurrences(sep, CRLF) = {} /\ sep[1] # "\n" /\ sep[2] # CR
  BY WordsAreTexts, SeparatorsUnbroken
<1>2. Occurrences(key, sep) = {} /\ Occurrences(key, CRLF) = {}
  BY <1>1, NoRoom, WordsAreTexts
<1>3. PICK front \in Text : front = Cat(key, sep) /\ Len(front) = 3 /\ front[3] = sep[2]
  <2>1. PICK front : front = Cat(key, sep)
    OBVIOUS
  <2>2. /\ front \in Text /\ Len(front) = Len(key) + Len(sep)
        /\ \A k \in 1..Len(sep) : front[Len(key) + k] = sep[k]
    BY <2>1, CatElements
  <2>3. PICK m, n : m = Len(key) /\ n = Len(sep)
    OBVIOUS
  <2>4. m = 1 /\ n = 2
    BY <1>1, <2>3
  <2>5. Len(front) = m + n /\ \A k \in 1..n : front[m + k] = sep[k]
    BY <2>2, <2>3
  <2>6. 2 \in 1..n /\ m + 2 = 3 /\ m + n = 3
    BY <2>4
  <2> QED BY <2>1, <2>2, <2>5, <2>6
<1>4. Occurrences(Cat(key, sep), CRLF) = {}
  BY <1>1, <1>2, CatUnbroken
<1>5. Occurrences(Cat(front, value), CRLF) = {}
  BY <1>1, <1>3, <1>4, CatUnbroken
<1>6. /\ Header(key, value) \in Fields
      /\ Header(key, value).key = key /\ Header(key, value).value = value
  BY DEF Header, Fields
<1> QED
  BY <1>1, <1>2, <1>3, <1>5, <1>6 DEF CleanField, LineOf

LEMMA CleanFields ==
  ASSUME NEW headers
  PROVE  Clean(headers) <=> \A k \in 1..Len(headers) : CleanField(headers[k])
BY DEF Clean, CleanField

LEMMA SetKeepsClean ==
  ASSUME NEW headers \in Seq(Fields), Clean(headers), NEW h \in Fields, CleanField(h)
  PROVE  Clean(set_header(headers, h)) /\ set_header(headers, h) # <<>>
<1>1. PICK after : after = set_header(headers, h)
  OBVIOUS
<1>2. PICK k : k = KeyAt(headers, h.key)
  OBVIOUS
<1>3. PICK n \in Nat : n = Len(headers) /\ k \in 0..n
  BY <1>2, KeyFound
<1>4. /\ after \in Seq(Fields)
      /\ k # 0 => /\ Len(after) = n /\ after[k] = h
                  /\ \A j \in 1..n : j # k => after[j] = headers[j]
      /\ k = 0 => /\ Len(after) = n + 1 /\ after[n + 1] = h
                  /\ \A j \in 1..n : after[j] = headers[j]
  BY <1>1, <1>2, <1>3, SetHeader
<1>5. \A j \in 1..n : CleanField(headers[j])
  BY <1>3, CleanFields
<1>6. \A j \in 1..Len(after) : CleanField(after[j])
  <2>1. CASE k = 0
    BY <1>4, <1>5, <2>1
  <2>2. CASE k # 0
    BY <1>4, <1>5, <2>2
  <2> QED BY <2>1, <2>2
<1>7. after # <<>>
  <2>1. Len(after) # 0
    BY <1>3, <1>4
  <2> QED BY <2>1, EmptySeq
<1> QED
  BY <1>1, <1>6, <1>7, CleanFields

LEMMA RemoveKeepsClean ==
  ASSUME NEW headers \in Seq(Fields), Clean(headers), NEW key
  PROVE  Clean(remove_header(headers, key))
<1>1. PICK after : after = remove_header(headers, key)
  OBVIOUS
<1>2. PICK k : k = KeyAt(headers, key)
  OBVIOUS
<1>3. PICK n \in Nat : n = Len(headers) /\ k \in 0..n
  BY <1>2, KeyFound
<1>4. /\ k = 0 => after = headers
      /\ k # 0 => /\ Len(after) = n - 1
                  /\ \A j \in 1..(n - 1) : after[j] = headers[IF j < k THEN j ELSE j + 1]
  BY <1>1, <1>2, <1>3, RemoveHeader
<1>5. \A j \in 1..n : CleanField(headers[j])
  BY <1>3, CleanFields
<1>6. \A j \in 1..Len(after) : CleanField(after[j])
  <2>1. CASE k = 0
    BY <1>3, <1>4, <1>5, <2>1
  <2>2. CASE k # 0
    <3>1. \A j \in 1..(n - 1) : (IF j < k THEN j ELSE j + 1) \in 1..n
      BY <1>3
    <3> QED BY <1>4, <1>5, <2>2, <3>1
  <2> QED BY <2>1, <2>2
<1> QED
  BY <1>1, <1>6, CleanFields

LEMMA TransformKeepsClean ==
  ASSUME NEW headers \in Seq(Fields), host_ \in Text, Clean(headers), Occurrences(host_, CRLF) = {}
  PROVE  Clean(TransformHeaders(headers)) /\ TransformHeaders(headers) # <<>>
<1>1. PICK host \in Fields : host = Header(<<"Host">>, host_) /\ CleanField(host)
  <2>1. <<"Host">> \in Text /\ Len(<<"Host">>) = 1
    BY OneToken, ProxyWords
  <2> QED BY <2>1, FieldIsClean
<1>2. PICK close \in Fields : close = Header(<<"Connection">>, <<"close">>) /\ CleanField(close)
  <2>1. <<"Connection">> \in Text /\ Len(<<"Connection">>) = 1 /\ <<"close">> \in Text /\ Len(<<"close">>) = 1
    BY OneToken, ProxyWords
  <2>2. Occurrences(<<"close">>, CRLF) = {}
    BY <2>1, NoRoom, WordsAreTexts
  <2> QED BY <2>1, <2>2, FieldIsClean
<1>3. PICK first \in Seq(Fields) : first = set_header(headers, host) /\ Clean(first)
  BY <1>1, SetHeader, SetKeepsClean
<1>4. PICK cookie : cookie = <<"Cookie">>
  OBVIOUS
<1>5. PICK second \in Seq(Fields) : second = remove_header(first, cookie) /\ Clean(second)
  BY <1>3, RemoveHeader, RemoveKeepsClean
<1>6. Clean(set_header(second, close)) /\ set_header(second, close) # <<>>
  BY <1>2, <1>5, SetKeepsClean
<1> QED
  BY <1>1, <1>2, <1>3, <1>4, <1>5, <1>6 DEF TransformHeaders

\* A host that a redirection names is on one line.
LEMMA LocationUnbroken ==
  ASSUME NEW t \in Text, IsResponse(t), NEW url, url = get_header(HeadersOf(t), <<"Location">>),
         Protocol(url) # 0
  PROVE  Occurrences(RedirectHost(url), CRLF) = {}
<1>1. PICK headers \in Seq(Fields) : headers = HeadersOf(t) /\ Clean(headers)
  BY HeadersType, HeadersAreClean DEF IsResponse
<1>2. PICK location : location = <<"Location">>
  OBVIOUS
<1>3. url \in Text /\ (url # <<>> => \E k \in 1..Len(headers) :
                                       headers[k].key = location /\ headers[k].value = url)
  BY <1>1, <1>2, GetHeader
<1>4. PICK crlf \in Text : crlf = CRLF
  BY WordsAreTexts
<1>5. PICK p \in Nat :
        /\ p = Protocol(url) /\ p \in 1..(Len(url) - 1)
        /\ url = SubSeq(url, 1, p - 1) \o <<"/", "/">> \o SubSeq(url, p + 2, Len(url))
  BY <1>3, ProtocolIs
<1>6. Len(url) \in Nat /\ url # <<>>
  <2>1. Len(url) \in Nat /\ Len(url) # 0
    BY <1>3, <1>5 DEF Text
  <2> QED BY <2>1, EmptySeq
<1>7. Occurrences(url, crlf) = {}
  <2>1. PICK k \in 1..Len(headers) : headers[k].value = url
    BY <1>3, <1>6
  <2>2. PICK h \in Fields : h = headers[k] /\ Occurrences(LineOf(h), crlf) = {}
    BY <1>1, <1>4, <2>1, ElementOfSeq DEF Clean
  <2>3. PICK front \in Text : front = Cat(h.key, ColonSpace)
    BY <2>2, LineType, CatElements, WordsAreTexts
  <2>4. Occurrences(Cat(front, url), crlf) = {}
    BY <2>1, <2>2, <2>3 DEF LineOf
  <2> QED BY <1>3, <2>4, NoneInside
<1>8. PICK start \in Nat : start = HostStart(url) /\ start \in 1..(Len(url) + 1) /\ start = p + 2
  <2>1. p + 2 \in Nat /\ p + 2 \in 1..(Len(url) + 1)
    BY <1>5, <1>6
  <2> QED BY <1>5, <2>1 DEF HostStart
<1>9. PICK others \in Text : others = SubSeq(url, start, Len(url)) /\ Occurrences(others, crlf) = {}
  <2>1. SubSeq(url, 1, p - 1) \in Text
    <3>1. p - 1 \in Int /\ p - 1 <= Len(url)
      BY <1>5, <1>6
    <3> QED BY <1>3, <3>1, PartIsText
  <2>2. SubSeq(url, start, Len(url)) \in Text
    <3>1. start \in Nat \ {0} /\ Len(url) \in Int /\ Len(url) <= Len(url)
      BY <1>6, <1>8
    <3> QED BY <1>3, <3>1, PartIsText
  <2>3. PICK before \in Text : url = before \o SubSeq(url, start, Len(url))
    <3>1. PICK first \in Text, slashes \in Text : first = SubSeq(url, 1, p - 1) /\ slashes = <<"/", "/">>
      BY <2>1, ProxyWords
    <3>2. PICK before \in Text : before = Cat(first, slashes)
      BY CatElements
    <3>3. url = first \o slashes \o SubSeq(url, start, Len(url))
      BY <1>5, <1>8, <3>1
    <3>4. url = before \o SubSeq(url, start, Len(url))
      BY <3>2, <3>3, Zenon DEF Cat
    <3> QED BY <3>4
  <2>4. PICK others \in Text : others = SubSeq(url, start, Len(url))
    BY <2>2
  <2>5. Occurrences(Cat(before, others), crlf) = {}
    BY <1>7, <2>3, <2>4 DEF Cat
  <2>6. Occurrences(others, crlf) = {}
    BY <2>5, NoneInside
  <2> QED BY <2>4, <2>6
<1>10. PICK part, first : /\ part = UpTo(url, start, first) /\ first = FirstFrom(url, start, {"/"})
                          /\ part = RedirectHost(url)
  BY <1>8, Zenon DEF RedirectHost, RedirectEnd
<1>11. /\ part \in Text
       /\ first = 0 => others = part
       /\ first # 0 => /\ SubSeq(url, first, Len(url)) \in Text
                       /\ others = Cat(part, SubSeq(url, first, Len(url)))
  BY <1>3, <1>8, <1>9, <1>10, UpToFirst
<1>12. Occurrences(part, crlf) = {}
  <2>1. CASE first = 0
    BY <1>9, <1>11, <2>1
  <2>2. CASE first # 0
    <3>1. PICK uri \in Text : uri = SubSeq(url, first, Len(url)) /\ others = Cat(part, uri)
      BY <1>11, <2>2
    <3>2. Occurrences(Cat(part, uri), crlf) = {}
      BY <1>9, <3>1
    <3> QED BY <1>11, <3>2, NoneInside
  <2> QED BY <2>1, <2>2
<1> QED
  BY <1>4, <1>10, <1>12

\* The second invariant: from the time that the request is parsed it can be
\* written again and read as it is; and so can the request that goes out.
SentOn == stage \in {"body", "route", "visiting", "waiting"} => Readable(request)

SentOut ==
  Visiting =>
    /\ outgoing.method = request.method /\ outgoing.version = request.version
    /\ outgoing.headers # <<>>
    /\ FindIn(host_, CRLF) = 0 => Clean(outgoing.headers)

SInv == SentOn /\ SentOut

LEMMA SentInitially == ExchangeInit => SInv
BY DEF ExchangeInit, SInv, SentOn, SentOut, Visiting

LEMMA SentKept ==
  ASSUME SInv, UNCHANGED <<request, outgoing, host_>>,
         stage' \in {"body", "route", "visiting", "waiting"} =>
           stage \in {"body", "route", "visiting", "waiting"},
         Visiting' => Visiting
  PROVE  SInv'
<1>1. SentOn'
  BY DEF SInv, SentOn
<1>2. SentOut'
  BY DEF SInv, SentOut
<1> QED
  BY <1>1, <1>2 DEF SInv

LEMMA SentAway ==
  ASSUME stage' \notin {"body", "route", "visiting", "waiting"}
  PROVE  SInv'
BY DEF SInv, SentOn, SentOut, Visiting

LEMMA HandleRequestSent ==
  ASSUME EInv, HandleRequest
  PROVE  SInv'
<1>1. request' = IF IsRequest(Buffered) THEN ParseRequest(Buffered) ELSE NoRequest
  BY Zenon DEF HandleRequest
<1>2. \/ stage' = "respond"
      \/ stage' \in {"body", "ended", "route"} /\ request'.method \in {<<"GET">>, <<"POST">>}
  BY Zenon DEF HandleRequest, Respond
<1>3. CASE stage' \in {"body", "ended", "route"} /\ request'.method \in {<<"GET">>, <<"POST">>}
  <2>1. IsRequest(Buffered)
    <3>1. ASSUME request' = NoRequest
          PROVE  FALSE
      <4>1. request'.method = <<>>
        BY <3>1 DEF NoRequest
      <4>2. <<>> # <<"GET">> /\ <<>> # <<"POST">>
        OBVIOUS
      <4> QED BY <1>3, <4>1, <4>2
    <3> QED BY <1>1, <3>1
  <2>2. Readable(request')
    BY <1>1, <2>1, BufferedIsText, ParseIsReadable
  <2>3. ~ Visiting'
    BY <1>3 DEF Visiting
  <2> QED BY <2>2, <2>3 DEF SInv, SentOn, SentOut
<1>4. CASE stage' = "respond"
  BY <1>4, SentAway
<1> QED
  BY <1>2, <1>3, <1>4

LEMMA ReadableFields ==
  ASSUME NEW r, NEW s, r.method = s.method, r.uri = s.uri, r.version = s.version, r.headers = s.headers
  PROVE  Readable(r) <=> Readable(s)
BY Zenon DEF Readable

LEMMA BodyAppended ==
  ASSUME NEW r \in Requests, NEW data \in Text
  PROVE  /\ append_body(r, data).method = r.method /\ append_body(r, data).uri = r.uri
         /\ append_body(r, data).version = r.version /\ append_body(r, data).headers = r.headers
         /\ append_body(r, data).body = Cat(r.body, data) /\ append_body(r, data).raw = Cat(r.raw, data)
<1>1. PICK body, raw : body = r.body \o data /\ raw = r.raw \o data
  OBVIOUS
<1>2. append_body(r, data) = [r EXCEPT !.body = body, !.raw = raw]
  BY <1>1, Zenon DEF append_body
<1>3. PICK s : s = [r EXCEPT !.body = body, !.raw = raw]
  OBVIOUS
<1>4. /\ s.method = r.method /\ s.uri = r.uri /\ s.version = r.version /\ s.headers = r.headers
      /\ s.body = body /\ s.raw = raw
  BY <1>3 DEF Requests
<1> QED
  BY <1>1, <1>2, <1>3, <1>4 DEF Cat

\* A piece of what the client sends.
LEMMA PieceRead ==
  ASSUME EInv, got' \in (got + 1)..Min({Len(text), got + MaxRead})
  PROVE  SubSeq(text, got + 1, got') \in Text
<1>1. PICK most \in Nat : most = got + MaxRead
  BY BufferedIsText, BufferAssumption
<1>2. got' \in (got + 1)..Min({Len(text), most})
  BY <1>1
<1>3. got' \in 0..Len(text) /\ got' \in Nat
  BY <1>2, BufferedIsText, NoMoreThan
<1>4. PICK m \in Nat \ {0}, n \in Int : m = got + 1 /\ n = got' /\ n <= Len(text)
  BY <1>3, BufferedIsText
<1>5. SubSeq(text, m, n) \in Text
  BY <1>4, BufferedIsText, PartIsText
<1> QED
  BY <1>4, <1>5

LEMMA ReadBodySent ==
  ASSUME EInv, SInv, ReadBody
  PROVE  SInv'
<1>1. /\ stage = "body" /\ stage' = "body" /\ request' = append_body(request, SubSeq(text, got + 1, got'))
      /\ got' \in (got + 1)..Min({Len(text), got + MaxRead})
  BY DEF ReadBody
<1>2. PICK data \in Text : data = SubSeq(text, got + 1, got')
  BY <1>1, PieceRead
<1>3. request \in Requests /\ Readable(request)
  BY <1>1 DEF EInv, Texts, SInv, SentOn
<1>4. Readable(request')
  <2>1. PICK r : r = append_body(request, data)
    OBVIOUS
  <2>2. r.method = request.method /\ r.uri = request.uri /\ r.version = request.version /\ r.headers = request.headers
    BY <1>3, <2>1, BodyAppended
  <2>3. Readable(r)
    BY <1>3, <2>2, ReadableFields
  <2> QED BY <1>1, <1>2, <2>1, <2>3
<1>5. ~ Visiting'
  BY <1>1 DEF Visiting
<1> QED
  BY <1>4, <1>5 DEF SInv, SentOn, SentOut

LEMMA SetNotEmpty ==
  ASSUME NEW headers \in Seq(Fields), NEW h \in Fields
  PROVE  set_header(headers, h) # <<>>
<1>1. PICK after : after = set_header(headers, h)
  OBVIOUS
<1>2. PICK k : k = KeyAt(headers, h.key)
  OBVIOUS
<1>3. PICK n \in Nat : n = Len(headers) /\ k \in 0..n
  BY <1>2, KeyFound
<1>4. /\ after \in Seq(Fields)
      /\ k # 0 => Len(after) = n
      /\ k = 0 => Len(after) = n + 1
  BY <1>1, <1>2, <1>3, SetHeader
<1>5. Len(after) # 0
  BY <1>3, <1>4
<1> QED
  BY <1>1, <1>4, <1>5, EmptySeq

LEMMA TransformNotEmpty ==
  ASSUME NEW headers \in Seq(Fields), host_ \in Text
  PROVE  TransformHeaders(headers) # <<>>
<1>1. PICK host \in Fields : host = Header(<<"Host">>, host_)
  BY HeaderTypes
<1>2. PICK close \in Fields : close = Header(<<"Connection">>, <<"close">>)
  BY HeaderTypes
<1>3. PICK first \in Seq(Fields) : first = set_header(headers, host)
  BY SetHeader
<1>4. PICK cookie : cookie = <<"Cookie">>
  OBVIOUS
<1>5. PICK second \in Seq(Fields) : second = remove_header(first, cookie)
  BY RemoveHeader
<1>6. set_header(second, close) # <<>>
  BY SetNotEmpty
<1> QED
  BY <1>1, <1>2, <1>3, <1>4, <1>5, <1>6 DEF TransformHeaders

LEMMA HostUnbroken ==
  ASSUME NEW host \in Text
  PROVE  FindIn(host, CRLF) = 0 <=> Occurrences(host, CRLF) = {}
BY FindFirst, WordsAreTexts

LEMMA RunHandlerSent ==
  ASSUME EInv, SInv, RunHandler
  PROVE  SInv'
<1>1. PICK kind : IF kind = "proxy"
                  THEN BeginRequest
                  ELSE Respond(AnswerOf(kind, request)) /\ UNCHANGED <<members, request, visit>>
  BY DEF RunHandler
<1>2. CASE kind # "proxy"
  <2>1. stage' = "respond"
    BY <1>1, <1>2 DEF Respond
  <2> QED BY <2>1, SentAway
<1>3. CASE kind = "proxy"
  <2>1. /\ outgoing' = TransformIncomingRequest(request)
        /\ UNCHANGED <<members, request>> /\ host_' = host_
    BY <1>1, <1>3 DEF BeginRequest, members
  <2>2. Readable(request) /\ request \in Requests /\ host_ \in Text /\ prefix_ \in Text /\ path_ \in Text
    BY DEF EInv, Texts, SInv, SentOn, RunHandler
  <2>3. PICK out \in Requests, headers \in Seq(Fields) :
          /\ out = TransformIncomingRequest(request) /\ headers = request.headers
          /\ out.headers = TransformHeaders(headers)
    <3>1. request.headers \in Seq(Fields)
      BY <2>2 DEF Requests
    <3> QED BY <2>2, <3>1, TransformType
  <2>4. out.method = request.method /\ out.version = request.version
    BY <2>2, <2>3 DEF TransformIncomingRequest, Requests
  <2>5. Clean(headers)
    BY <2>2, <2>3 DEF Readable
  <2>6. out.headers # <<>>
    BY <2>2, <2>3, TransformNotEmpty
  <2>7. FindIn(host_, CRLF) = 0 => Clean(out.headers)
    BY <2>2, <2>3, <2>5, HostUnbroken, TransformKeepsClean
  <2>8. SentOut'
    BY <2>1, <2>3, <2>4, <2>6, <2>7 DEF SentOut
  <2>9. SentOn'
    BY <2>1, <2>2 DEF SentOn
  <2> QED BY <2>8, <2>9 DEF SInv
<1> QED
  BY <1>2, <1>3

LEMMA FollowRedirectSent ==
  ASSUME EInv, SInv, NEW t \in RemoteTexts, IsResponse(t), stage = "waiting",
         NEW url, url = get_header(HeadersOf(t), <<"Location">>), Protocol(url) # 0,
         FollowRedirect(t, url), UNCHANGED <<members, request>>
  PROVE  SInv'
<1>1. t \in Text
  BY RemoteAssumption
<1>2. url \in Text
  BY <1>1, HeadersType, GetHeader
<1>3. PICK host \in Text, uri \in Text :
        host = RedirectHost(url) /\ uri = RedirectUri(url) /\ Occurrences(host, CRLF) = {}
  BY <1>1, <1>2, RedirectTypes, LocationUnbroken
<1>4. outgoing' = Redirected(outgoing, uri, host)
  BY <1>3, Zenon DEF FollowRedirect, Redirect, Redirected
<1>5. PICK out \in Requests, headers \in Seq(Fields) :
        /\ out = Redirected(outgoing, uri, host) /\ headers = outgoing.headers
        /\ out.headers = set_header(headers, Header(<<"Host">>, host))
        /\ out.method = outgoing.method /\ out.version = outgoing.version
  <2>1. outgoing \in Requests /\ outgoing.headers \in Seq(Fields)
    BY DEF EInv, Texts, Requests
  <2>2. /\ Redirected(outgoing, uri, host) \in Requests
        /\ Redirected(outgoing, uri, host).headers = set_header(outgoing.headers, Header(<<"Host">>, host))
    BY <2>1, RedirectedType
  <2>3. /\ Redirected(outgoing, uri, host).method = outgoing.method
        /\ Redirected(outgoing, uri, host).version = outgoing.version
    BY <2>1 DEF Redirected, Requests
  <2> QED BY <2>1, <2>2, <2>3
<1>6. /\ outgoing.method = request.method /\ outgoing.version = request.version
      /\ FindIn(host_, CRLF) = 0 => Clean(headers)
      /\ Readable(request)
  BY <1>5 DEF SInv, SentOn, SentOut, Visiting
<1>7. PICK h \in Fields : h = Header(<<"Host">>, host) /\ CleanField(h)
  <2>1. <<"Host">> \in Text /\ Len(<<"Host">>) = 1
    BY OneToken, ProxyWords
  <2> QED BY <1>3, <2>1, FieldIsClean
<1>8. out.headers # <<>>
  BY <1>5, <1>7, SetNotEmpty
<1>9. FindIn(host_, CRLF) = 0 => Clean(out.headers)
  BY <1>5, <1>6, <1>7, SetKeepsClean
<1>10. host_' = host_ /\ request' = request
  BY DEF members
<1>11. SentOut'
  BY <1>4, <1>5, <1>6, <1>8, <1>9, <1>10 DEF SentOut
<1>12. SentOn'
  BY <1>6, <1>10 DEF SentOn
<1> QED
  BY <1>11, <1>12 DEF SInv

LEMMA SentStep == EInv /\ SInv /\ [ExchangeNext]_exchangeVars => SInv'
<1> SUFFICES ASSUME EInv, SInv, [ExchangeNext]_exchangeVars
             PROVE  SInv'
  OBVIOUS
<1>1. CASE UNCHANGED exchangeVars \/ Over
  <2>1. UNCHANGED <<stage, request, outgoing, host_>>
    BY <1>1 DEF exchangeVars, Over, members, visit
  <2>2. Visiting' = Visiting
    BY <2>1 DEF Visiting
  <2> QED BY <2>1, <2>2, SentKept
<1>2. CASE \E kind \in Handlers, prefix \in UriPrefixes, url \in ProxyPasses :
             \E sent \in Tried(kind, url) : Mount(kind, prefix, url, sent)
  <2>1. stage' = "reading"
    BY <1>2 DEF Mount
  <2> QED BY <2>1, SentAway
<1>3. CASE \/ \E prefix \in UriPrefixes : MountRefused(prefix)
           \/ ReadUntil \/ TooLong \/ ClientLeaves \/ AbandonBody \/ WriteResponse
  <2>1. stage' \in {"refused", "reading", "closed", "abandoned", "written"}
    BY <1>3 DEF MountRefused, ReadUntil, TooLong, ClientLeaves, AbandonBody, WriteResponse
  <2> QED BY <2>1, SentAway
<1>4. CASE HandleRequest
  BY <1>4, HandleRequestSent
<1>5. CASE ReadBody
  BY <1>5, ReadBodySent
<1>6. CASE EndBody
  <2>1. /\ stage = "body" /\ stage' = "route" /\ UNCHANGED <<request, outgoing, host_>>
    BY <1>6 DEF EndBody, members, visit
  <2>2. ~ Visiting'
    BY <2>1 DEF Visiting
  <2> QED BY <2>1, <2>2, SentKept
<1>7. CASE RunHandler
  BY <1>7, RunHandlerSent
<1>8. CASE Visit
  <2>1. CASE EstablishConnection
    <3>1. stage = "visiting" /\ stage' = "waiting" /\ UNCHANGED <<request, outgoing, host_>>
      BY <2>1 DEF EstablishConnection, members, visit
    <3>2. Visiting
      BY <3>1 DEF Visiting
    <3> QED BY <3>1, <3>2, SentKept
  <2>2. CASE VisitFails \/ VisitThrows
    <3>1. stage' \in {"respond", "ended"}
      BY <2>2 DEF VisitFails, VisitThrows, ReturnError
    <3> QED BY <3>1, SentAway
  <2>3. ASSUME NEW t \in RemoteTexts, Receive(t)
        PROVE  SInv'
    <3> DEFINE url == get_header(HeadersOf(t), <<"Location">>)
    <3>1. CASE stage' = "respond"
      BY <3>1, SentAway
    <3>2. CASE IsResponse(t) /\ Protocol(url) # 0 /\ FollowRedirect(t, url)
      <4>1. stage = "waiting" /\ UNCHANGED <<members, request>>
        BY <2>3 DEF Receive
      <4> QED BY <3>2, <4>1, FollowRedirectSent
    <3> HIDE DEF url
    <3>3. stage' = "respond" \/ (IsResponse(t) /\ Protocol(url) # 0 /\ FollowRedirect(t, url))
      BY <2>3 DEF Receive, ReturnError, url
    <3> QED BY <3>1, <3>2, <3>3
  <2>4. \/ EstablishConnection \/ VisitFails \/ VisitThrows
        \/ \E t \in RemoteTexts : Receive(t)
    BY <1>8, Zenon DEF Visit, ProxyStep
  <2> QED BY <2>1, <2>2, <2>3, <2>4
<1> QED
  BY <1>1, <1>2, <1>3, <1>4, <1>5, <1>6, <1>7, <1>8 DEF ExchangeNext, Proceed

\* What goes out is read as it is: the values of the fields that the property
\* is about.
LEMMA OutgoingRead ==
  ASSUME EInv, SInv, stage = "waiting", FindIn(host_, CRLF) = 0, Plain(outgoing.uri)
  PROVE  Readable(outgoing) /\ outgoing.headers # <<>>
<1>1. Readable(request)
  BY DEF SInv, SentOn
<1>2. /\ outgoing.method = request.method /\ outgoing.version = request.version
      /\ outgoing.headers # <<>> /\ Clean(outgoing.headers)
  BY DEF SInv, SentOut, Visiting
<1> QED
  BY <1>1, <1>2 DEF Readable

\* The last header with a '\r' after its value.
LEMMA LastMarked ==
  ASSUME NEW headers \in Seq(Fields), headers # <<>>, NEW read \in Seq(Fields),
         Len(read) = Len(headers),
         \A k \in 1..Len(headers) :
           read[k] = IF k = Len(headers)
                     THEN Header(headers[k].key, Cat(headers[k].value, <<CR>>))
                     ELSE headers[k]
  PROVE  read = [headers EXCEPT ![Len(headers)].value = Append(@, CR)]
<1>1. PICK n \in Nat \ {0} : n = Len(headers)
  <2>1. Len(headers) \in Nat /\ Len(headers) # 0
    BY EmptySeq
  <2> QED BY <2>1
<1>2. PICK h \in Fields : h = headers[n]
  <2>1. n \in 1..Len(headers)
    BY <1>1
  <2> QED BY <2>1, ElementOfSeq
<1>3. Append(h.value, CR) = Cat(h.value, <<CR>>)
  <2>1. PICK c \in Tokens : c = CR
    BY TokensAssumption, Zenon
  <2>2. PICK value \in Text : value = h.value
    BY DEF Fields
  <2>3. Append(value, c) = value \o <<c>>
    BY AppendIsConcat DEF Text
  <2> QED BY <2>1, <2>2, <2>3 DEF Cat
<1>4. PICK longer : longer = Append(h.value, CR)
  OBVIOUS
<1>5. [h EXCEPT !.value = longer] = Header(h.key, longer)
  BY DEF Header, Fields
<1>6. [headers EXCEPT ![n] = Header(h.key, longer)]
      = [headers EXCEPT ![Len(headers)].value = Append(@, CR)]
  BY <1>1, <1>2, <1>4, <1>5, Zenon
<1>7. PICK marked : marked = Header(h.key, longer)
  OBVIOUS
<1>8. read = [headers EXCEPT ![n] = marked]
  <2>1. \A k \in 1..n : read[k] = IF k = n THEN marked ELSE headers[k]
    BY <1>1, <1>2, <1>3, <1>4, <1>7
  <2>2. DOMAIN read = 1..n /\ DOMAIN headers = 1..n
    BY <1>1
  <2> QED BY <2>1, <2>2
<1> QED
  BY <1>6, <1>7, <1>8

-----------------------------------------------------------------------------
\* Whatever the client sent, wherever the request was redirected to, and
\* whatever the numbers are, what HTTPClient writes is read as the request that
\* it stands for, as long as no line of it is broken by the config or by a
\* Location header.
THEOREM ForwardedIsRead == ExchangeSpec => []ForwardedParses
<1>1. SInv /\ EInv /\ [ExchangeNext]_exchangeVars => SInv'
  BY SentStep
<1>2. ASSUME EInv, SInv
      PROVE  ForwardedParses
  <2> SUFFICES ASSUME stage = "waiting", FindIn(host_, CRLF) = 0, Plain(outgoing.uri)
               PROVE  LET t == RequestText(outgoing)
                          read == ParseRequest(t)
                          last == Len(outgoing.headers)
                      IN  /\ IsRequest(t)
                          /\ \A field \in {"method", "uri", "version"} : read[field] = outgoing[field]
                          /\ read.headers = [outgoing.headers EXCEPT ![last].value = Append(@, CR)]
                          /\ read.body = outgoing.body \o CRLF
    BY Zenon DEF ForwardedParses
  <2>1. Readable(outgoing) /\ outgoing.headers # <<>> /\ outgoing \in Requests
    BY <1>2, OutgoingRead DEF EInv, Texts
  <2>2. PICK t : t = RequestText(outgoing)
    OBVIOUS
  <2>3. /\ t \in Text /\ IsRequest(t)
        /\ FirstLine(t)[1] = outgoing.method /\ FirstLine(t)[2] = outgoing.uri
        /\ FirstLine(t)[3] = outgoing.version
        /\ HeadersOf(t) \in Seq(Fields) /\ Len(HeadersOf(t)) = Len(outgoing.headers)
        /\ \A k \in 1..Len(outgoing.headers) :
             HeadersOf(t)[k] = IF k = Len(outgoing.headers)
                               THEN Header(outgoing.headers[k].key, Cat(outgoing.headers[k].value, <<CR>>))
                               ELSE outgoing.headers[k]
        /\ BodyOf(t) = Cat(outgoing.body, CRLF)
    BY <2>1, <2>2, RequestRead
  <2>4. PICK read : read = ParseRequest(t)
    OBVIOUS
  <2>5. /\ read.method = outgoing.method /\ read.uri = outgoing.uri /\ read.version = outgoing.version
        /\ read.headers = HeadersOf(t) /\ read.body = Cat(outgoing.body, CRLF)
    BY <2>3, <2>4, FieldsOfParse
  <2>6. HeadersOf(t) = [outgoing.headers EXCEPT ![Len(outgoing.headers)].value = Append(@, CR)]
    <3>1. outgoing.headers \in Seq(Fields)
      BY <2>1 DEF Requests
    <3> QED BY <2>1, <2>3, <3>1, LastMarked
  <2>7. \A field \in {"method", "uri", "version"} : read[field] = outgoing[field]
    BY <2>5, Zenon
  <2> QED BY <2>2, <2>3, <2>4, <2>5, <2>6, <2>7, Zenon DEF Cat
<1> QED
  BY Invariance, Initially, SentInitially, <1>1, <1>2, InvariantStep, PTL DEF ExchangeSpec

\* The length of what is before the blank line, with its first character.
LEMMA HeadLength ==
  ASSUME NEW t \in Text, FindIn(t, BlankLine) # 0, NEW front \in Seq(Text), NEW last \in Text,
         Lines(t) = Append(front, Cat(last, <<CR>>))
  PROVE  /\ FindIn(t, BlankLine) \in Nat
         /\ Len(Cat(Printed(front), last)) \in Nat
         /\ FindIn(t, BlankLine) = Len(Cat(Printed(front), last)) + 1
<1>1. PICK cr \in Text, printed \in Text, end \in Text, head \in Text :
        /\ cr = <<CR>> /\ Len(cr) = 1 /\ printed = Printed(front) /\ end = Cat(last, cr)
        /\ head = Cat(printed, last)
  <2>1. PICK cr \in Text, printed \in Text : cr = <<CR>> /\ Len(cr) = 1 /\ printed = Printed(front)
    BY CRAlone, PrintedAppend
  <2> QED BY <2>1, CatsAssociate
<1>2. PICK k \in Nat \ {0} : k = FindIn(t, BlankLine) /\ k <= Len(t)
  <2>1. /\ FindIn(t, BlankLine) \in Nat
        /\ FindIn(t, BlankLine) + Len(BlankLine) <= Len(t) + 1
    BY FindFirst, WordsAreTexts
  <2>2. Len(t) \in Nat /\ Len(BlankLine) = 4
    BY WordsAreTexts DEF Text
  <2> QED BY <2>1, <2>2
<1>3. PICK taken \in Text : taken = SubSeq(t, 1, k) /\ Len(taken) = k
  <2>1. 1 \in 1..(Len(t) + 1) /\ k \in (1 - 1)..Len(t) /\ k - 1 + 1 = k
    <3>1. Len(t) \in Nat
      BY DEF Text
    <3> QED BY <1>2, <3>1
  <2>2. SubSeq(t, 1, k) \in Text /\ Len(SubSeq(t, 1, k)) = k - 1 + 1
    BY <2>1, PartElements DEF Text
  <2> QED BY <2>1, <2>2
<1>4. taken = Cat(printed, end)
  <2>1. Split(taken, CRLF) = Append(front, end)
    BY <1>1, <1>2, <1>3 DEF Lines
  <2> QED BY <1>1, <2>1, SplitPrinted
<1>5. taken = Cat(head, cr)
  <2>1. Cat(Cat(printed, last), cr) = Cat(printed, Cat(last, cr))
    BY CatsAssociate
  <2> QED BY <1>1, <1>4, <2>1, Zenon
<1>6. Len(Cat(head, cr)) = Len(head) + Len(cr) /\ Len(head) \in Nat
  BY CatElements
<1> QED
  BY <1>1, <1>2, <1>3, <1>5, <1>6

\* A response that is passed on is the one received, with a space and a '\r'
\* more.
LEMMA PassedIsSpaced ==
  ASSUME NEW t \in Text, IsResponse(t)
  PROVE  ResponseText(ParseResponse(t)) = Spaced(t)
<1>1. FindIn(t, BlankLine) # 0 /\ HeadersAreValid(t)
  BY DEF IsResponse
<1>2. PICK front \in Seq(Text), last \in Text :
        /\ Lines(t) = Append(front, Cat(last, <<CR>>))
        /\ Unbroken(Append(front, last))
        /\ t = Cat(Printed(Append(front, last)), Cat(CRLF, BodyOf(t)))
  BY <1>1, ReadPrinted
<1>3. PICK cr \in Text, lf \in Text, crlf \in Text, space \in Text, body \in Text :
        /\ cr = <<CR>> /\ lf = <<"\n">> /\ crlf = CRLF /\ space = Space /\ body = BodyOf(t)
        /\ crlf = Cat(cr, lf) /\ Len(cr) = 1
  BY CRAlone, WordsAreTexts, BodyType
<1>4. PICK printed \in Text, rest \in Text, tail \in Text :
        /\ printed = Printed(front) /\ rest = Cat(crlf, body) /\ tail = Cat(crlf, rest)
  <2>1. Printed(front) \in Text
    BY PrintedAppend
  <2>2. PICK rest \in Text : rest = Cat(crlf, body)
    BY CatsAssociate
  <2> QED BY <2>1, <2>2, CatsAssociate
<1>5. t = Cat(Cat(printed, last), tail)
  <2>1. Printed(Append(front, last)) = Cat(printed, Cat(last, crlf))
    BY <1>3, <1>4, PrintedAppend
  <2>2. PICK left \in Text : left = Cat(printed, last)
    BY CatsAssociate
  <2>3. Cat(Cat(printed, last), crlf) = Cat(printed, Cat(last, crlf))
    BY CatsAssociate
  <2>4. Cat(Cat(left, crlf), rest) = Cat(left, Cat(crlf, rest))
    BY CatsAssociate
  <2> QED BY <1>2, <1>3, <1>4, <2>1, <2>2, <2>3, <2>4, Zenon
<1>6. PICK end \in Nat : end = FindIn(t, BlankLine) /\ end = Len(Cat(printed, last)) + 1
  BY <1>1, <1>2, <1>4, HeadLength
<1>7. ResponseText(ParseResponse(t)) = Message(Passed(t), HeadersOf(t), BodyOf(t))
  BY PassedIs
<1>8. CASE front = <<>>
  <2>1. printed = <<>> /\ Cat(printed, last) = last
    BY <1>4, <1>8, PrintedEmpty, EmptyText
  <2>2. FindIn(t, CRLF) = end
    <3>1. Occurrences(last, CRLF) = {}
      <4>1. Append(front, last)[1] = last /\ 1 \in 1..Len(Append(front, last))
        BY <1>8
      <4> QED BY <1>2, <4>1 DEF Unbroken
    <3>2. FindIn(Cat(last, Cat(CRLF, rest)), CRLF) = Len(last) + 1
      BY <3>1, FirstBreak
    <3> QED BY <1>3, <1>4, <1>5, <1>6, <2>1, <3>2
  <2>3. PICK none \in Text, line \in Text :
          none = <<>> /\ Len(none) = 0 /\ line = Cat(last, cr) /\ Cat(none, line) = line
    BY EmptyText, CatsAssociate
  <2>4. t = Cat(none, Cat(last, tail))
    <3>1. PICK whole \in Text : whole = Cat(last, tail)
      BY <1>4, CatsAssociate
    <3>2. Cat(<<>>, whole) = whole
      BY EmptyText
    <3> QED BY <1>5, <2>1, <2>3, <3>1, <3>2, Zenon
  <2>5. end = Len(none) + Len(last) + 1
    <3>1. Len(last) \in Nat
      BY DEF Text
    <3> QED BY <1>6, <2>1, <2>3, <3>1
  <2>6. /\ SubSeq(t, 1, end) = Cat(none, Cat(last, cr))
        /\ SubSeq(t, end + 1, end) = <<>>
        /\ SubSeq(t, end, Len(t)) = tail
    <3>1. Lie(Cat(none, Cat(last, Cat(crlf, Cat(crlf, body)))), none, last, Cat(crlf, Cat(crlf, body)),
              cr, Len(none) + Len(last) + 1)
      BY <1>3, PartsLie
    <3>2. Lie(t, none, last, tail, cr, end)
      BY <1>4, <2>4, <2>5, <3>1, Zenon
    <3> QED BY <3>2, Zenon DEF Lie
  <2>7. Lines(t)[1] = line
    <3>1. Append(front, line)[1] = line
      BY <1>8
    <3> QED BY <1>2, <1>3, <2>3, <3>1
  <2>8. HeaderText(HeadersOf(t)) = <<>>
    <3>1. Len(HeadersOf(t)) = 0
      <4>1. Len(HeadersOf(t)) = Len(Lines(t)) - 1
        BY HeadersType
      <4>2. Len(Append(front, line)) = 1
        BY <1>8
      <4> QED BY <1>2, <1>3, <2>3, <4>1, <4>2
    <3>2. HeadersOf(t) = <<>>
      BY <3>1, HeadersType, EmptySeq
    <3> QED BY <3>2, NoHeaders
  <2>9. PICK first \in Text : first = Cat(line, space)
    BY CatsAssociate
  <2>10. Message(Passed(t), HeadersOf(t), BodyOf(t)) = Cat(Cat(first, <<>>), tail)
    <3>1. Message(Passed(t), HeadersOf(t), BodyOf(t)) = Cat(Cat(first, crlf), Cat(<<>>, rest))
      BY <1>3, <1>4, <2>7, <2>8, <2>9, Zenon DEF Message, Passed
    <3>2. Cat(<<>>, rest) = rest /\ Cat(first, <<>>) = first
      BY EmptyText
    <3>3. Cat(Cat(first, crlf), rest) = Cat(first, Cat(crlf, rest))
      BY CatsAssociate
    <3> QED BY <1>4, <3>1, <3>2, <3>3, Zenon
  <2>11. Spaced(t) = Cat(Cat(first, <<>>), tail)
    <3>1. Spaced(t) = SubSeq(t, 1, end) \o Space \o SubSeq(t, end + 1, end) \o SubSeq(t, end, Len(t))
      BY <1>6, <2>2, Zenon DEF Spaced
    <3>2. SubSeq(t, 1, end) = line
      BY <2>3, <2>6
    <3> QED BY <1>3, <1>4, <2>6, <2>9, <3>1, <3>2, Zenon DEF Cat
  <2> QED BY <1>7, <2>10, <2>11
<1>9. CASE front # <<>>
  <2>1. PICK line \in Text, more \in Seq(Text) : front = <<line>> \o more
    <3>1. Head(front) \in Text /\ Tail(front) \in Seq(Text) /\ front = <<Head(front)>> \o Tail(front)
      BY <1>9
    <3> QED BY <3>1
  <2>2. PICK others \in Text, middle \in Text, start \in Text :
          /\ others = Printed(more) /\ middle = Cat(crlf, Cat(others, last)) /\ start = Cat(line, crlf)
          /\ printed = Cat(start, others)
    <3>1. Printed(more) \in Text
      BY PrintedAppend
    <3>2. Printed(<<line>> \o more) = Cat(Cat(line, CRLF), Printed(more))
      BY PrintedCons
    <3>3. Cat(crlf, Cat(Printed(more), last)) \in Text
      <4>1. Cat(Printed(more), last) \in Text
        BY <3>1, CatsAssociate
      <4> QED BY <4>1, CatsAssociate
    <3> QED BY <1>3, <1>4, <2>1, <3>1, <3>2, <3>3, CatsAssociate
  <2>3. Cat(printed, last) = Cat(line, middle)
    <3>1. PICK both \in Text : both = Cat(others, last)
      BY CatsAssociate
    <3>2. Cat(Cat(start, others), last) = Cat(start, Cat(others, last))
      BY CatsAssociate
    <3>3. Cat(Cat(line, crlf), both) = Cat(line, Cat(crlf, both))
      BY CatsAssociate
    <3> QED BY <2>2, <3>1, <3>2, <3>3, Zenon
  <2>4. t = Cat(line, Cat(middle, tail))
    <3>1. Cat(Cat(line, middle), tail) = Cat(line, Cat(middle, tail))
      BY CatsAssociate
    <3> QED BY <1>5, <2>3, <3>1, Zenon
  <2>5. PICK n \in Nat, m \in Nat : n = Len(line) /\ m = Len(middle) /\ m >= 2 /\ end = (n + m) + 1
    <3>1. PICK both \in Text : both = Cat(others, last)
      BY CatsAssociate
    <3>2. /\ Len(Cat(line, middle)) = Len(line) + Len(middle) /\ Len(line) \in Nat /\ Len(middle) \in Nat
          /\ Len(Cat(crlf, both)) = Len(crlf) + Len(both) /\ Len(both) \in Nat
      BY CatElements
    <3>3. Len(crlf) = 2
      BY <1>3, WordsAreTexts
    <3>4. PICK n \in Nat, m \in Nat, k \in Nat : n = Len(line) /\ m = Len(middle) /\ k = Len(both)
      BY <3>2
    <3>5. m = 2 + k
      BY <2>2, <3>1, <3>2, <3>3, <3>4
    <3>6. end = (n + m) + 1
      BY <1>6, <2>3, <3>2, <3>4
    <3>7. m >= 2
      BY <3>5
    <3> QED BY <3>4, <3>6, <3>7
  <2>6. FindIn(t, CRLF) = n + 1
    <3>1. Occurrences(line, CRLF) = {}
      <4>1. front[1] = line /\ Len(front) \in Nat /\ 1 <= Len(front)
        <5>1. /\ Len(<<line>> \o more) = Len(more) + 1 /\ Len(more) \in Nat
              /\ (<<line>> \o more)[1] = line
          BY ConsElements
        <5> QED BY <2>1, <5>1
      <4>2. /\ Len(Append(front, last)) = Len(front) + 1
            /\ \A k \in 1..Len(front) : Append(front, last)[k] = front[k]
        BY AppendProperties
      <4>3. 1 \in 1..Len(front) /\ 1 \in 1..Len(Append(front, last))
        BY <4>1, <4>2
      <4>4. Append(front, last)[1] = line
        BY <4>1, <4>2, <4>3
      <4> QED BY <1>2, <4>3, <4>4, Zenon DEF Unbroken
    <3>2. PICK beyond \in Text : Cat(middle, tail) = Cat(crlf, beyond)
      <4>1. PICK both \in Text : both = Cat(others, last)
        BY CatsAssociate
      <4>2. Cat(Cat(crlf, both), tail) = Cat(crlf, Cat(both, tail)) /\ Cat(both, tail) \in Text
        BY CatsAssociate
      <4> QED BY <2>2, <4>1, <4>2, Zenon
    <3>3. FindIn(Cat(line, Cat(CRLF, beyond)), CRLF) = Len(line) + 1
      BY <3>1, FirstBreak
    <3> QED BY <1>3, <2>4, <2>5, <3>2, <3>3
  <2>7. /\ SubSeq(t, 1, n) = line
        /\ SubSeq(t, n + 1, end) = Cat(middle, cr)
        /\ SubSeq(t, end, Len(t)) = tail
    <3>1. end = Len(line) + Len(middle) + 1
      BY <2>5
    <3>2. Lie(Cat(line, Cat(middle, Cat(crlf, Cat(crlf, body)))), line, middle, Cat(crlf, Cat(crlf, body)),
              cr, Len(line) + Len(middle) + 1)
      BY <1>3, PartsLie
    <3>3. Lie(t, line, middle, tail, cr, end)
      BY <1>4, <2>4, <3>1, <3>2, Zenon
    <3> QED BY <2>5, <3>3, Zenon DEF Lie
  <2>8. PICK first \in Text : first = Cat(line, space) /\ first = Passed(t)
    <3>1. Cat(line, space) \in Text
      BY CatsAssociate
    <3>2. Lines(t)[1] = line
      <4>1. PICK marked \in Text : marked = Cat(last, <<CR>>)
        BY CRAlone, CatsAssociate
      <4>2. front[1] = line /\ 1 \in 1..Len(front)
        <5>1. /\ Len(<<line>> \o more) = Len(more) + 1 /\ Len(more) \in Nat
              /\ (<<line>> \o more)[1] = line
          BY ConsElements
        <5> QED BY <2>1, <5>1
      <4>3. Append(front, marked)[1] = front[1]
        BY <4>2, AppendProperties
      <4> QED BY <1>2, <4>1, <4>2, <4>3
    <3> QED BY <1>3, <3>1, <3>2, CatsAssociate DEF Passed
  <2>9. HeaderText(HeadersOf(t)) = Cat(others, Cat(Cat(last, cr), crlf))
    <3>1. PICK marked \in Text : marked = Cat(last, cr)
      BY CatsAssociate
    <3>2. Lines(t) = Append(<<line>> \o more, marked)
      BY <1>2, <1>3, <2>1, <3>1, Zenon
    <3>3. HeaderText(HeadersOf(t)) = Cat(Printed(more), Cat(marked, CRLF))
      BY <1>1, <3>2, LinesOfHeaders
    <3> QED BY <1>3, <2>2, <3>1, <3>3, Zenon
  <2>10. Message(Passed(t), HeadersOf(t), BodyOf(t)) = Cat(Cat(first, Cat(middle, cr)), tail)
    <3>1. PICK marked \in Text, both \in Text, all \in Text, x \in Text :
            /\ marked = Cat(last, cr) /\ both = Cat(others, last) /\ all = Cat(others, marked)
            /\ x = Cat(first, crlf)
      <4>1. PICK marked \in Text : marked = Cat(last, cr)
        BY CatsAssociate
      <4> QED BY <4>1, CatsAssociate
    <3>2. Message(Passed(t), HeadersOf(t), BodyOf(t)) = Cat(x, Cat(Cat(others, Cat(marked, crlf)), rest))
      BY <1>3, <1>4, <2>8, <2>9, <3>1, Zenon DEF Message
    <3>3. Cat(Cat(others, Cat(marked, crlf)), rest) = Cat(all, tail)
      <4>1. Cat(Cat(others, marked), crlf) = Cat(others, Cat(marked, crlf))
        BY CatsAssociate
      <4>2. Cat(Cat(all, crlf), rest) = Cat(all, Cat(crlf, rest))
        BY CatsAssociate
      <4> QED BY <1>4, <3>1, <4>1, <4>2, Zenon
    <3>4. Cat(x, Cat(all, tail)) = Cat(Cat(x, all), tail)
      BY CatsAssociate
    <3>5. Cat(x, all) = Cat(first, Cat(middle, cr))
      <4>1. Cat(Cat(first, crlf), all) = Cat(first, Cat(crlf, all))
        BY CatsAssociate
      <4>2. Cat(Cat(others, last), cr) = Cat(others, Cat(last, cr))
        BY CatsAssociate
      <4>3. Cat(Cat(crlf, both), cr) = Cat(crlf, Cat(both, cr))
        BY CatsAssociate
      <4> QED BY <2>2, <3>1, <4>1, <4>2, <4>3, Zenon
    <3> QED BY <3>2, <3>3, <3>4, <3>5, Zenon
  <2>11. Spaced(t) = Cat(Cat(first, Cat(middle, cr)), tail)
    <3>1. Spaced(t) = SubSeq(t, 1, n) \o Space \o SubSeq(t, n + 1, end) \o SubSeq(t, end, Len(t))
      <4>1. FindIn(t, CRLF) # end /\ FindIn(t, CRLF) - 1 = n
        BY <2>5, <2>6
      <4> QED BY <1>6, <4>1, Zenon DEF Spaced
    <3> QED BY <1>3, <2>7, <2>8, <3>1, Zenon DEF Cat
  <2> QED BY <1>7, <2>10, <2>11
<1> QED
  BY <1>8, <1>9

-----------------------------------------------------------------------------
\* Answers made here

OwnCodes == Codes \ {600}

LengthField(body) == Header(<<"Content-Length">>, <<ToString(Len(body))>>)

TypeField(type) == Header(<<"Content-Type">>, <<type>>)

AnswerHeaders(body) ==
  {<<>>, <<LengthField(body)>>} \cup {<<TypeField(type), LengthField(body)>> : type \in Tokens}

\* A response of a known status, the only header of which that may say
\* something of the body says how long it is.
MadeHere(r) ==
  /\ r.status \in OwnCodes
  /\ r.body \in Text
  /\ r.headers \in AnswerHeaders(r.body)
  /\ r = MakeResponse(r.status, r.headers, r.body)

LEMMA FieldsMade ==
  ASSUME NEW code, NEW headers, NEW body
  PROVE  LET r == MakeResponse(code, headers, body)
         IN  /\ r.status = code /\ r.headers = headers /\ r.body = body
             /\ r.first_line = StatusLine(code)
BY DEF MakeResponse

LEMMA MadeIs ==
  ASSUME NEW code \in OwnCodes, NEW body \in Text, NEW headers \in AnswerHeaders(body)
  PROVE  MadeHere(MakeResponse(code, headers, body))
<1>1. PICK r : r = MakeResponse(code, headers, body)
  OBVIOUS
<1>2. r.status = code /\ r.headers = headers /\ r.body = body
  BY <1>1, FieldsMade
<1> QED
  BY <1>1, <1>2, Zenon DEF MadeHere

LEMMA AnswerMade ==
  ASSUME NEW code \in OwnCodes, NEW body \in Text, NEW type \in Tokens
  PROVE  MadeHere(Answer(code, type, body))
<1>1. Answer(code, type, body) = MakeResponse(code, <<TypeField(type), LengthField(body)>>, body)
  BY Zenon DEF Answer, TypeField, LengthField
<1>2. <<TypeField(type), LengthField(body)>> \in AnswerHeaders(body)
  BY Zenon DEF AnswerHeaders
<1> QED
  BY <1>1, <1>2, MadeIs, Zenon

LEMMA BareMade ==
  ASSUME NEW code \in OwnCodes, NEW body \in Text
  PROVE  MadeHere(MakeResponse(code, <<>>, body))
<1>1. <<>> \in AnswerHeaders(body)
  BY Zenon DEF AnswerHeaders
<1> QED
  BY <1>1, MadeIs, Zenon

LEMMA CodesMade ==
  200 \in OwnCodes /\ 400 \in OwnCodes /\ 404 \in OwnCodes /\ 500 \in OwnCodes
BY DEF Codes, OwnCodes

\* The bodies that the code writes.
LEMMA BodiesMade ==
  /\ <<"404 NOT FOUND">> \o CRLF \in Text /\ <<"400 Bad Request">> \o CRLF \in Text
  /\ <<"400 Bad Request">> \in Text /\ <<"500 Internal Server Error">> \in Text
  /\ <<"good morning!", "\n">> \in Text /\ <<"Webserver Status Page">> \in Text
<1>1. {"400 Bad Request", "500 Internal Server Error", "404 NOT FOUND", "good morning!",
       "Webserver Status Page", "\n"} \subseteq Tokens
  BY WordsAssumption, TokensAssumption, Zenon
<1>2. /\ <<"404 NOT FOUND">> \in Text /\ <<"400 Bad Request">> \in Text
      /\ <<"500 Internal Server Error">> \in Text /\ <<"Webserver Status Page">> \in Text
  BY <1>1, OneToken, Zenon
<1>3. <<"good morning!", "\n">> \in Text
  <2>1. PICK x \in Tokens, y \in Tokens : x = "good morning!" /\ y = "\n"
    BY <1>1
  <2>2. <<x, y>> \in Text
    BY DEF Text
  <2> QED BY <2>1, <2>2, Zenon
<1>4. \A s \in Text : s \o CRLF \in Text
  BY CatsAssociate, WordsAreTexts, Zenon DEF Cat
<1> QED
  BY <1>2, <1>3, <1>4, Zenon

LEMMA FailedMade == MadeHere(Failed)
<1>1. PICK code \in OwnCodes, body \in Text : code = 500 /\ body = <<"500 Internal Server Error">>
  BY CodesMade, BodiesMade
<1>2. MadeHere(MakeResponse(code, <<>>, body))
  BY BareMade
<1> QED
  BY <1>1, <1>2, Zenon DEF Failed

LEMMA NotFoundMade == MadeHere(NotFound)
<1>1. PICK code \in OwnCodes, type \in Tokens, body \in Text :
        code = 404 /\ type = "text/html" /\ body = <<"404 NOT FOUND">> \o CRLF
  BY CodesMade, BodiesMade, WordsAssumption, Zenon
<1>2. MadeHere(Answer(code, type, body))
  BY AnswerMade
<1> QED
  BY <1>1, <1>2, Zenon DEF NotFound

LEMMA AppendOne ==
  ASSUME NEW g, NEW h
  PROVE  Append(<<g>>, h) = <<g, h>>
<1>1. <<g>> \in Seq({g, h}) /\ h \in {g, h}
  OBVIOUS
<1>2. PICK s \in Seq({g, h}) : s = <<g>> /\ Len(s) = 1 /\ s[1] = g
  BY <1>1
<1>3. PICK both \in Seq({g, h}) : both = Append(s, h)
  BY <1>1, AppendProperties
<1>4. Len(both) = 2 /\ both[1] = g /\ both[2] = h
  BY <1>2, <1>3
<1>5. both = <<g, h>>
  BY <1>4
<1> QED
  BY <1>2, <1>3, <1>5

\* At most one extension is the one of a path.
LEMMA ContentTypeIs ==
  ASSUME NEW path
  PROVE  \/ ContentType(path) = <<>> /\ \A e \in DOMAIN ContentMappings : Extension(path) # <<e>>
         \/ \E e \in DOMAIN ContentMappings :
              /\ Extension(path) = <<e>> /\ ContentMappings[e] \in Tokens
              /\ ContentType(path) = <<TypeField(ContentMappings[e])>>
<1> DEFINE known == {e \in DOMAIN ContentMappings : Extension(path) = <<e>>}
           fields == {Header(<<"Content-Type">>, <<ContentMappings[e]>>) : e \in known}
<1>1. ContentType(path) = SetToSeq(fields)
  BY Zenon DEF ContentType
<1>2. CASE known = {}
  <2>1. fields = {}
    BY <1>2
  <2>2. SetToSeq({}) = <<>>
    <3>1. Cardinality({}) = 0 /\ 1..0 = {}
      BY FS_EmptySet
    <3>2. \A f \in [{} -> {}] : f = <<>>
      OBVIOUS
    <3>3. \E f \in [1..Cardinality({}) -> {}] : IsInjective(f)
      <4>1. <<>> \in [{} -> {}] /\ IsInjective(<<>>)
        BY DEF IsInjective
      <4> QED BY <3>1, <4>1
    <3> QED BY <3>1, <3>2, <3>3 DEF SetToSeq
  <2>3. \A e \in DOMAIN ContentMappings : Extension(path) # <<e>>
    BY <1>2
  <2>4. ContentType(path) = <<>>
    BY <1>1, <2>1, <2>2
  <2> QED BY <2>3, <2>4
<1>3. CASE known # {}
  <2>1. PICK e \in DOMAIN ContentMappings : Extension(path) = <<e>>
    BY <1>3
  <2>2. PICK h : h = TypeField(ContentMappings[e])
    OBVIOUS
  <2>3. fields = {h}
    <3>1. \A d \in known : d = e
      BY <2>1
    <3>2. known = {e}
      BY <2>1, <3>1
    <3> QED BY <2>2, <3>2, Zenon DEF TypeField
  <2>4. SetToSeq({h}) = <<h>>
    <3>1. Cardinality({h}) = 1 /\ 1..1 = {1}
      BY FS_Singleton
    <3>2. \A f \in [{1} -> {h}] : f = <<h>>
      OBVIOUS
    <3>3. \E f \in [1..Cardinality({h}) -> {h}] : IsInjective(f)
      <4>1. <<h>> \in [{1} -> {h}] /\ IsInjective(<<h>>)
        BY DEF IsInjective
      <4> QED BY <3>1, <4>1
    <3> QED BY <3>1, <3>2, <3>3 DEF SetToSeq
  <2>5. ContentMappings[e] \in Tokens
    BY WordsAssumption
  <2>6. ContentType(path) = <<TypeField(ContentMappings[e])>>
    BY <1>1, <2>2, <2>3, <2>4
  <2> QED BY <2>1, <2>5, <2>6, Zenon
<1> QED
  BY <1>2, <1>3

LEMMA FileAnswerMade ==
  ASSUME NEW kind \in {"static", "markdown"}, NEW uri
  PROVE  MadeHere(FileAnswer(kind, uri))
<1>1. PICK path : path = Root \o Suffix(uri)
  OBVIOUS
<1>2. "text/html" \in Tokens
  BY WordsAssumption
<1>3. CASE path \notin DOMAIN Files
  <2>1. FileAnswer(kind, uri) = NotFound
    BY <1>1, <1>3, Zenon DEF FileAnswer
  <2> QED BY <2>1, NotFoundMade, Zenon
<1>4. CASE path \in DOMAIN Files /\ kind = "static"
  <2>1. PICK body \in Text : body = Files[path]
    BY <1>4, FilesAssumption
  <2>2. FileAnswer(kind, uri) = MakeResponse(200, Append(ContentType(path), LengthField(body)), body)
    BY <1>1, <1>4, <2>1 DEF FileAnswer, LengthField
  <2>3. Append(ContentType(path), LengthField(body)) \in AnswerHeaders(body)
    <3>1. PICK h : h = LengthField(body)
      OBVIOUS
    <3>2. CASE ContentType(path) = <<>>
      BY <3>1, <3>2 DEF AnswerHeaders
    <3>3. CASE \E type \in Tokens : ContentType(path) = <<TypeField(type)>>
      <4>1. PICK type \in Tokens : ContentType(path) = <<TypeField(type)>>
        BY <3>3
      <4>2. PICK g : g = TypeField(type)
        OBVIOUS
      <4>3. Append(<<g>>, h) = <<g, h>>
        BY AppendOne
      <4> QED BY <3>1, <4>1, <4>2, <4>3, Zenon DEF AnswerHeaders
    <3>4. \/ ContentType(path) = <<>>
          \/ \E type \in Tokens : ContentType(path) = <<TypeField(type)>>
      BY ContentTypeIs, Zenon
    <3> QED BY <3>2, <3>3, <3>4
  <2>4. PICK headers \in AnswerHeaders(body) : headers = Append(ContentType(path), LengthField(body))
    BY <2>3
  <2>5. PICK code \in OwnCodes : code = 200
    BY CodesMade
  <2>6. MadeHere(MakeResponse(code, headers, body))
    BY MadeIs
  <2> QED BY <2>2, <2>4, <2>5, <2>6, Zenon
<1>5. CASE path \in DOMAIN Files /\ kind = "markdown"
  <2>1. PICK body \in Text : body = ToHtml(Files[path])
    BY <1>5, FilesAssumption
  <2>2. FileAnswer(kind, uri) = Answer(200, "text/html", body)
    BY <1>1, <1>5, <2>1 DEF FileAnswer
  <2>3. PICK code \in OwnCodes, type \in Tokens : code = 200 /\ type = "text/html"
    BY <1>2, CodesMade
  <2>4. MadeHere(Answer(code, type, body))
    BY AnswerMade
  <2> QED BY <2>2, <2>3, <2>4, Zenon
<1> QED
  BY <1>3, <1>4, <1>5

LEMMA AnswersMade ==
  ASSUME NEW kind \in (Handlers \cup {"none"}) \ {"proxy"}, NEW req \in Requests
  PROVE  MadeHere(AnswerOf(kind, req))
<1>1. kind \in {"echo", "sleep", "status", "default status", "static", "markdown", "none"}
  BY HandlersAssumption
<1>2. PICK code \in OwnCodes, html \in Tokens, plain \in Tokens :
        code = 200 /\ html = "text/html" /\ plain = "text/plain"
  BY CodesMade, WordsAssumption
<1>3. req.raw \in Text
  BY DEF Requests
<1>4. MadeHere(EchoAnswer(req))
  <2>1. MadeHere(Answer(code, plain, req.raw))
    BY <1>3, AnswerMade
  <2> QED BY <1>2, <2>1, Zenon DEF EchoAnswer
<1>5. MadeHere(SleepAnswer)
  <2>1. PICK body \in Text : body = <<"good morning!", "\n">>
    BY BodiesMade
  <2>2. MadeHere(Answer(code, plain, body))
    BY AnswerMade
  <2> QED BY <1>2, <2>1, <2>2, Zenon DEF SleepAnswer
<1>6. MadeHere(NotFound)
  BY NotFoundMade
<1>7. ASSUME NEW b \in BOOLEAN
      PROVE  MadeHere(StatusAnswer(b))
  <2>1. PICK body \in Text : body = <<"Webserver Status Page">>
    BY BodiesMade
  <2>2. MadeHere(Answer(code, html, body))
    BY AnswerMade
  <2> QED BY <1>2, <2>1, <2>2, FailedMade, Zenon DEF StatusAnswer
<1>8. CASE kind = "echo"
  BY <1>4, <1>8, Zenon DEF AnswerOf
<1>9. CASE kind = "sleep"
  <2>1. AnswerOf(kind, req) = SleepAnswer
    BY <1>9 DEF AnswerOf
  <2> QED BY <1>5, <2>1, Zenon
<1>10. CASE kind \in {"status", "default status"}
  <2>1. \E b \in BOOLEAN : AnswerOf(kind, req) = StatusAnswer(b)
    BY <1>10 DEF AnswerOf
  <2> QED BY <1>7, <2>1, Zenon
<1>11. CASE kind = "none"
  <2>1. AnswerOf(kind, req) = NotFound
    BY <1>11 DEF AnswerOf
  <2> QED BY <1>6, <2>1, Zenon
<1>12. CASE kind \in {"static", "markdown"}
  <2>1. AnswerOf(kind, req) = FileAnswer(kind, req.uri)
    BY <1>12 DEF AnswerOf
  <2> QED BY <1>12, <2>1, FileAnswerMade, Zenon
<1> QED
  BY <1>1, <1>8, <1>9, <1>10, <1>11, <1>12

\* The number that a numeral is.
LEMMA NumeralRead ==
  ASSUME NEW n \in Numbers
  PROVE  /\ ToString(n) \in Tokens /\ ToString(n) # " "
         /\ IsNumber(ToString(n)) /\ NumberOf[ToString(n)] = n
<1>1. PICK word : word = ToString(n) /\ word \in Tokens /\ word \notin {CR, "\n", " ", ":"}
  BY TokensAssumption
<1>2. Numeral[n] = word
  BY <1>1 DEF Numeral
<1>3. word \in {Numeral[m] : m \in Numbers}
  BY <1>2
<1>4. \A m \in Numbers : Numeral[m] = word => m = n
  BY <1>1, TokensAssumption DEF Numeral
<1>5. (CHOOSE m \in Numbers : Numeral[m] = word) = n
  BY <1>2, <1>4
<1> QED
  BY <1>1, <1>3, <1>5 DEF IsNumber, NumberOf

LEMMA InFront ==
  ASSUME NEW x \in Tokens, NEW s \in Seq(Tokens)
  PROVE  \E p \in Seq(Tokens) :
           /\ p = <<x>> \o s /\ Len(p) = Len(s) + 1 /\ p[1] = x
           /\ \A k \in 2..(Len(s) + 1) : p[k] = s[k - 1]
<1>1. PICK p : p = <<x>> \o s
  OBVIOUS
<1>2. /\ p \in Seq(Tokens) /\ Len(p) = Len(s) + 1 /\ p[1] = x /\ Len(s) \in Nat
      /\ \A j \in 1..Len(s) : p[j + 1] = s[j]
  BY <1>1, ConsElements
<1>3. ASSUME NEW k \in 2..(Len(s) + 1)
      PROVE  p[k] = s[k - 1]
  <2>1. PICK j \in 1..Len(s) : j = k - 1 /\ k = j + 1
    BY <1>2
  <2> QED BY <1>2, <2>1
<1> QED
  BY <1>1, <1>2, <1>3

LEMMA FiveTokens ==
  ASSUME NEW m \in Tokens, NEW u \in Tokens, NEW v \in Tokens, NEW sp \in Tokens, Space = <<sp>>
  PROVE  <<m, sp, u, sp, v>> = ThreeWords(<<m>>, <<u>>, <<v>>)
<1>1. PICK one \in Seq(Tokens) : one = <<v>> /\ Len(one) = 1 /\ one[1] = v
  BY OneToken DEF Text
<1>2. PICK two \in Seq(Tokens) : two = <<sp>> \o one /\ Len(two) = 2 /\ two[1] = sp /\ two[2] = v
  <2>1. PICK two \in Seq(Tokens) :
          /\ two = <<sp>> \o one /\ Len(two) = Len(one) + 1 /\ two[1] = sp
          /\ \A k \in 2..(Len(one) + 1) : two[k] = one[k - 1]
    BY InFront
  <2>2. Len(two) = 2 /\ two[2] = one[1]
    <3>1. 2 \in 2..(Len(one) + 1) /\ 2 - 1 = 1 /\ Len(one) + 1 = 2
      BY <1>1
    <3> QED BY <2>1, <3>1
  <2> QED BY <1>1, <2>1, <2>2, Zenon
<1>3. PICK three \in Seq(Tokens) :
        three = <<u>> \o two /\ Len(three) = 3 /\ three[1] = u /\ three[2] = sp /\ three[3] = v
  <2>1. PICK three \in Seq(Tokens) :
          /\ three = <<u>> \o two /\ Len(three) = Len(two) + 1 /\ three[1] = u
          /\ \A k \in 2..(Len(two) + 1) : three[k] = two[k - 1]
    BY InFront
  <2>2. Len(three) = 3 /\ three[2] = two[1] /\ three[3] = two[2]
    BY <1>2, <2>1
  <2> QED BY <1>2, <2>1, <2>2, Zenon
<1>4. PICK four \in Seq(Tokens) :
        /\ four = <<sp>> \o three /\ Len(four) = 4
        /\ four[1] = sp /\ four[2] = u /\ four[3] = sp /\ four[4] = v
  <2>1. PICK four \in Seq(Tokens) :
          /\ four = <<sp>> \o three /\ Len(four) = Len(three) + 1 /\ four[1] = sp
          /\ \A k \in 2..(Len(three) + 1) : four[k] = three[k - 1]
    BY InFront
  <2>2. Len(four) = 4 /\ four[2] = three[1] /\ four[3] = three[2] /\ four[4] = three[3]
    BY <1>3, <2>1
  <2> QED BY <1>3, <2>1, <2>2, Zenon
<1>5. PICK five \in Seq(Tokens) :
        /\ five = <<m>> \o four /\ Len(five) = 5
        /\ five[1] = m /\ five[2] = sp /\ five[3] = u /\ five[4] = sp /\ five[5] = v
  <2>1. PICK five \in Seq(Tokens) :
          /\ five = <<m>> \o four /\ Len(five) = Len(four) + 1 /\ five[1] = m
          /\ \A k \in 2..(Len(four) + 1) : five[k] = four[k - 1]
    BY InFront
  <2>2. Len(five) = 5 /\ five[2] = four[1] /\ five[3] = four[2] /\ five[4] = four[3] /\ five[5] = four[4]
    BY <1>4, <2>1
  <2> QED BY <1>4, <2>1, <2>2, Zenon
<1>6. five = <<m, sp, u, sp, v>>
  <2>1. PICK row : row = <<m, sp, u, sp, v>>
    OBVIOUS
  <2>2. row \in Seq(Tokens) /\ Len(row) = 5 /\ row[1] = m /\ row[2] = sp /\ row[3] = u /\ row[4] = sp /\ row[5] = v
    BY <2>1
  <2>3. \A k \in 1..Len(five) : five[k] = row[k]
    BY <1>5, <2>2
  <2>4. five = row
    BY <1>5, <2>2, <2>3, SeqEqual
  <2> QED BY <2>1, <2>4, Zenon
<1>7. five = Cat(<<m>>, Cat(<<sp>>, Cat(<<u>>, Cat(<<sp>>, <<v>>))))
  BY <1>1, <1>2, <1>3, <1>4, <1>5, Zenon DEF Cat
<1> QED
  BY <1>6, <1>7, Zenon DEF ThreeWords

LEMMA TokenPlain ==
  ASSUME NEW x \in Tokens, x # " "
  PROVE  <<x>> \in Text /\ Len(<<x>>) = 1 /\ <<x>>[1] = x
         /\ Occurrences(<<x>>, Space) = {} /\ Occurrences(<<x>>, CRLF) = {}
<1>1. PICK t \in Text : t = <<x>> /\ Len(t) = 1 /\ t[1] = x
  BY OneToken
<1>2. PICK blank : blank = " " /\ <<blank>> = Space /\ t[1] # blank
  BY <1>1 DEF Space
<1>3. Plain(t)
  BY <1>1, <1>2, TokenIsPlain
<1> QED
  BY <1>1, <1>3, PlainParts

\* The first line of an answer: its words, and where they are.
LEMMA StatusLineIs ==
  ASSUME NEW code \in OwnCodes, Nat \subseteq Numbers
  PROVE  \E head \in Text, last \in Text :
           /\ Occurrences(last, Space) = {}
           /\ Cat(head, Cat(Space, last)) \in Text
           /\ Occurrences(Cat(head, Cat(Space, last)), CRLF) = {}
           /\ StatusLine(code) = Cat(Cat(head, Cat(Space, last)), CRLF)
           /\ Len(Split(head, Space)) = 2
           /\ Len(Split(head, Space)[2]) = 1
           /\ Split(head, Space)[2][1] = ToString(code)
           /\ last = <<"reason">>
<1>1. code \in Numbers /\ code # 600
  BY DEF OwnCodes, Codes
<1>2. PICK m \in Tokens, u \in Tokens, v \in Tokens, sp \in Tokens :
        /\ m = "HTTP/1.1" /\ u = ToString(code) /\ v = "reason" /\ sp = " "
        /\ m # " " /\ u # " " /\ v # " "
  <2>1. ToString(code) \in Tokens /\ ToString(code) # " "
    BY <1>1, NumeralRead
  <2>2. "HTTP/1.1" \in Tokens /\ "reason" \in Tokens /\ " " \in Tokens
    BY TokensAssumption, Zenon
  <2>3. "HTTP/1.1" # " " /\ "reason" # " "
    OBVIOUS
  <2> QED BY <2>1, <2>2, <2>3, Zenon
<1>3. PICK a \in Text, b \in Text, c \in Text, space \in Text :
        /\ a = <<m>> /\ b = <<u>> /\ c = <<v>> /\ space = Space
        /\ Len(b) = 1 /\ b[1] = u
        /\ Occurrences(a, space) = {} /\ Occurrences(b, space) = {} /\ Occurrences(c, space) = {}
        /\ Occurrences(a, CRLF) = {} /\ Occurrences(b, CRLF) = {} /\ Occurrences(c, CRLF) = {}
  <2>1. <<m>> \in Text /\ Occurrences(<<m>>, Space) = {} /\ Occurrences(<<m>>, CRLF) = {}
    BY <1>2, TokenPlain
  <2>2. /\ <<u>> \in Text /\ Len(<<u>>) = 1 /\ <<u>>[1] = u
        /\ Occurrences(<<u>>, Space) = {} /\ Occurrences(<<u>>, CRLF) = {}
    BY <1>2, TokenPlain
  <2>3. <<v>> \in Text /\ Occurrences(<<v>>, Space) = {} /\ Occurrences(<<v>>, CRLF) = {}
    BY <1>2, TokenPlain
  <2>4. Space \in Text
    BY WordsAreTexts
  <2> QED BY <2>1, <2>2, <2>3, <2>4, Zenon
<1>4. PICK end \in Text, tail \in Text, middle \in Text :
        end = Cat(space, c) /\ tail = Cat(b, end) /\ middle = Cat(space, b)
  <2>1. PICK end \in Text : end = Cat(space, c)
    BY CatsAssociate
  <2> QED BY <2>1, CatsAssociate
<1>5. PICK head \in Text : head = Cat(a, middle)
  BY CatsAssociate
<1>6. ThreeWords(a, b, c) = Cat(head, Cat(space, c))
  <2>1. Cat(Cat(a, middle), end) = Cat(a, Cat(middle, end))
    BY CatsAssociate
  <2>2. Cat(Cat(space, b), end) = Cat(space, Cat(b, end))
    BY CatsAssociate
  <2> QED BY <1>3, <1>4, <1>5, <2>1, <2>2, Zenon DEF ThreeWords
<1>7. ThreeWords(a, b, c) \in Text /\ Occurrences(ThreeWords(a, b, c), CRLF) = {}
  BY <1>3, WordsSplit, WordsUnbroken
<1>8. StatusLine(code) = Cat(ThreeWords(a, b, c), CRLF)
  <2>1. StatusLine(code) = <<m, sp, u, sp, v>> \o CRLF
    BY <1>1, <1>2, Zenon DEF StatusLine
  <2>2. <<m, sp, u, sp, v>> = ThreeWords(a, b, c)
    <3>1. Space = <<sp>>
      BY <1>2 DEF Space
    <3>2. <<m, sp, u, sp, v>> = ThreeWords(<<m>>, <<u>>, <<v>>)
      BY <3>1, FiveTokens
    <3> QED BY <1>3, <3>2, Zenon
  <2> QED BY <2>1, <2>2, Zenon DEF Cat
<1>9. Len(Split(head, Space)) = 2 /\ Split(head, Space)[2] = b
  <2>1. Split(Cat(a, Cat(space, b)), space) = Split(a, space) \o Split(b, space)
    BY <1>3, SplitCat, SimpleSeparators, WordsAreTexts
  <2>2. Split(a, space) = <<a>> /\ Split(b, space) = <<b>>
    BY <1>3, NoSeparator, WordsAreTexts
  <2>3. PICK one \in Seq(Text) : one = <<b>> /\ Len(one) = 1 /\ one[1] = b
    <3>1. <<b>> \in Seq(Text) /\ Len(<<b>>) = 1 /\ <<b>>[1] = b
      OBVIOUS
    <3> QED BY <3>1
  <2>4. PICK two : two = <<a>> \o one
    OBVIOUS
  <2>5. Len(two) = 2 /\ two[2] = b
    <3>1. Len(two) = Len(one) + 1 /\ \A j \in 1..Len(one) : two[j + 1] = one[j]
      BY <2>4, ConsElements
    <3>2. 1 \in 1..Len(one) /\ 1 + 1 = 2
      BY <2>3
    <3> QED BY <2>3, <3>1, <3>2
  <2>6. Split(head, space) = two
    BY <1>4, <1>5, <2>1, <2>2, <2>3, <2>4, Zenon
  <2> QED BY <1>3, <2>5, <2>6
<1>10. c = <<"reason">>
  BY <1>2, <1>3
<1>11. Cat(head, Cat(space, c)) \in Text /\ Occurrences(Cat(head, Cat(space, c)), CRLF) = {}
       /\ StatusLine(code) = Cat(Cat(head, Cat(space, c)), CRLF)
  BY <1>6, <1>7, <1>8, Zenon
<1>12. Len(Split(head, space)) = 2 /\ Len(Split(head, space)[2]) = 1
       /\ Split(head, space)[2][1] = ToString(code)
  BY <1>2, <1>3, <1>9
<1> QED
  BY <1>3, <1>10, <1>11, <1>12

\* The headers of an answer made here.
LEMMA MadeHeaders ==
  ASSUME NEW body \in Text, NEW headers \in AnswerHeaders(body), Nat \subseteq Numbers
  PROVE  headers \in Seq(Fields) /\ Clean(headers)
<1>1. PICK w \in Tokens : w = ToString(Len(body)) /\ w # " "
  <2>1. Len(body) \in Numbers
    BY DEF Text
  <2> QED BY <2>1, NumeralRead
<1>2. "Content-Type" \in Tokens /\ "Content-Length" \in Tokens
  BY WordsAssumption, Zenon
<1>3. \A x \in Tokens : Occurrences(<<x>>, CRLF) = {}
  <2>1. \A x \in Tokens : <<x>> \in Text /\ Len(<<x>>) = 1
    BY OneToken
  <2> QED BY <2>1, NoRoom, WordsAreTexts
<1>4. PICK length \in Fields : length = LengthField(body) /\ CleanField(length)
  <2>1. <<"Content-Length">> \in Text /\ Len(<<"Content-Length">>) = 1 /\ <<w>> \in Text
    BY <1>2, OneToken
  <2>2. Header(<<"Content-Length">>, <<w>>) \in Fields /\ CleanField(Header(<<"Content-Length">>, <<w>>))
    BY <1>3, <2>1, FieldIsClean
  <2> QED BY <1>1, <2>2 DEF LengthField
<1>5. ASSUME NEW x \in Tokens
      PROVE  TypeField(x) \in Fields /\ CleanField(TypeField(x))
  <2>1. <<"Content-Type">> \in Text /\ Len(<<"Content-Type">>) = 1 /\ <<x>> \in Text
    BY <1>2, OneToken
  <2>2. Header(<<"Content-Type">>, <<x>>) \in Fields /\ CleanField(Header(<<"Content-Type">>, <<x>>))
    BY <1>3, <2>1, FieldIsClean
  <2> QED BY <2>2 DEF TypeField
<1>6. \/ headers = <<>> \/ headers = <<length>>
      \/ \E g \in Fields : headers = <<g, length>> /\ CleanField(g)
  BY <1>4, <1>5, Zenon DEF AnswerHeaders
<1>7. CASE headers = <<>>
  BY <1>7, CleanFields
<1>8. CASE headers = <<length>>
  <2>1. headers \in Seq(Fields) /\ Len(headers) = 1 /\ headers[1] = length
    BY <1>8
  <2> QED BY <1>4, <2>1, CleanFields
<1>9. CASE \E g \in Fields : headers = <<g, length>> /\ CleanField(g)
  <2>1. PICK g \in Fields : headers = <<g, length>> /\ CleanField(g)
    BY <1>9
  <2>2. headers \in Seq(Fields) /\ Len(headers) = 2 /\ headers[1] = g /\ headers[2] = length
    BY <2>1
  <2>3. \A k \in 1..Len(headers) : k = 1 \/ k = 2
    BY <2>2
  <2> QED BY <1>4, <2>1, <2>2, <2>3, CleanFields
<1> QED
  BY <1>6, <1>7, <1>8, <1>9

\* The last header of an answer, and no other, says how long the body is.
LEMMA LengthLast ==
  ASSUME NEW body \in Text, NEW headers \in AnswerHeaders(body), NEW k \in 1..Len(headers),
         headers[k].key = <<"Content-Length">>
  PROVE  k = Len(headers) /\ headers[k] = LengthField(body)
<1>1. PICK length : length = LengthField(body)
  OBVIOUS
<1>2. \/ headers = <<>> \/ headers = <<length>>
      \/ \E g : headers = <<g, length>> /\ g.key = <<"Content-Type">>
  <2>1. \A x : TypeField(x).key = <<"Content-Type">>
    BY DEF TypeField, Header
  <2> QED BY <1>1, <2>1, Zenon DEF AnswerHeaders
<1>3. CASE headers = <<>>
  BY <1>3
<1>4. CASE headers = <<length>>
  BY <1>1, <1>4
<1>5. CASE \E g : headers = <<g, length>> /\ g.key = <<"Content-Type">>
  <2>1. PICK g : headers = <<g, length>> /\ g.key = <<"Content-Type">>
    BY <1>5
  <2>2. Len(headers) = 2 /\ headers[1] = g /\ headers[2] = length
    BY <2>1
  <2>3. k = 1 \/ k = 2
    BY <2>2
  <2>4. <<"Content-Type">> # <<"Content-Length">>
    OBVIOUS
  <2> QED BY <1>1, <2>1, <2>2, <2>3, <2>4
<1> QED
  BY <1>2, <1>3, <1>4, <1>5

ReadAs(t, r) ==
  /\ IsResponse(t)
  /\ ParseResponse(t).status = r.status /\ ParseResponse(t).body = r.body

Announces(t) ==
  LET announced == get_header(ParseResponse(t).headers, <<"Content-Length">>)
  IN  announced # <<>> => NumberOf[announced[1]] = Len(ParseResponse(t).body)

\* An answer made here is read as it was meant.
LEMMA MadeRead ==
  ASSUME NEW r, MadeHere(r), Nat \subseteq Numbers
  PROVE  ReadAs(ResponseText(r), r) /\ Announces(ResponseText(r))
<1>1. PICK code \in OwnCodes, body \in Text : code = r.status /\ body = r.body
  BY DEF MadeHere
<1>2. PICK headers \in AnswerHeaders(body) : headers = r.headers
  BY <1>1 DEF MadeHere
<1>3. headers \in Seq(Fields) /\ Clean(headers)
  BY MadeHeaders
<1>4. r.first_line = StatusLine(code)
  <2>1. r = MakeResponse(code, headers, body)
    BY <1>1, <1>2 DEF MadeHere
  <2> QED BY <2>1, FieldsMade
<1>5. PICK head \in Text, last \in Text, line \in Text :
        /\ line = Cat(head, Cat(Space, last)) /\ Occurrences(last, Space) = {}
        /\ Occurrences(line, CRLF) = {}
        /\ StatusLine(code) = Cat(line, CRLF)
        /\ Len(Split(head, Space)) = 2 /\ Len(Split(head, Space)[2]) = 1
        /\ Split(head, Space)[2][1] = ToString(code)
  <2>1. \E head \in Text, last \in Text :
          /\ Occurrences(last, Space) = {}
          /\ Cat(head, Cat(Space, last)) \in Text
          /\ Occurrences(Cat(head, Cat(Space, last)), CRLF) = {}
          /\ StatusLine(code) = Cat(Cat(head, Cat(Space, last)), CRLF)
          /\ Len(Split(head, Space)) = 2
          /\ Len(Split(head, Space)[2]) = 1
          /\ Split(head, Space)[2][1] = ToString(code)
          /\ last = <<"reason">>
    BY StatusLineIs
  <2> QED BY <2>1, Zenon
<1>6. PICK t : t = Message(line, headers, body)
  OBVIOUS
<1>7. ResponseText(r) = t
  BY <1>1, <1>2, <1>3, <1>4, <1>5, <1>6, ResponsePrinted
<1>8. code \in Numbers /\ code \in Codes
  BY DEF OwnCodes, Codes
<1>9. /\ IsNumber(Split(head, Space)[2][1]) /\ NumberOf[Split(head, Space)[2][1]] = code
      /\ Len(Split(head, Space)) >= 2
  <2>1. IsNumber(ToString(code)) /\ NumberOf[ToString(code)] = code
    BY <1>8, NumeralRead
  <2>2. Len(Split(head, Space)) >= 2
    BY <1>5
  <2> QED BY <1>5, <2>1, <2>2, Zenon
<1>10. /\ IsResponse(t)
       /\ ParseResponse(t).status = IntToResponseCode(NumberOf[Split(head, Space)[2][1]])
       /\ ParseResponse(t).body = body
       /\ ParseResponse(t).headers = HeadersOf(t)
       /\ HeadersOf(t) \in Seq(Fields) /\ Len(HeadersOf(t)) = Len(headers)
       /\ \A k \in 1..Len(headers) :
            HeadersOf(t)[k] = IF k = Len(headers)
                              THEN Header(headers[k].key, Cat(headers[k].value, <<CR>>))
                              ELSE headers[k]
  BY <1>3, <1>5, <1>6, <1>9, ResponseRead
<1>11. ParseResponse(t).status = code
  <2>1. IntToResponseCode(code) = code
    BY <1>8 DEF IntToResponseCode
  <2> QED BY <1>9, <1>10, <2>1, Zenon
<1>12. Announces(t)
  <2>1. PICK read \in Seq(Fields) : read = HeadersOf(t)
    BY <1>10
  <2>2. PICK key : key = <<"Content-Length">>
    OBVIOUS
  <2>3. PICK announced : announced = get_header(read, key)
    OBVIOUS
  <2>4. ASSUME announced # <<>>
        PROVE  NumberOf[announced[1]] = Len(body)
    <3>1. PICK k \in 1..Len(read) : read[k].key = key /\ read[k].value = announced
      BY <2>3, <2>4, GetHeader
    <3>2. k \in 1..Len(headers)
      BY <1>10, <2>1, <3>1
    <3>3. headers[k].key = key
      <4>1. \A x, y : Header(x, y).key = x
        BY DEF Header
      <4> QED BY <1>10, <2>1, <3>1, <3>2, <4>1
    <3>4. k = Len(headers) /\ headers[k] = LengthField(body)
      BY <2>2, <3>2, <3>3, LengthLast
    <3>5. PICK w : w = ToString(Len(body))
      OBVIOUS
    <3>6. headers[k].value = <<w>>
      BY <3>4, <3>5 DEF LengthField, Header
    <3>7. read[k].value = Cat(headers[k].value, <<CR>>)
      <4>1. \A x, y : Header(x, y).value = y
        BY DEF Header
      <4> QED BY <1>10, <2>1, <3>2, <3>4, <4>1
    <3>8. w \in Tokens /\ NumberOf[w] = Len(body)
      <4>1. Len(body) \in Numbers
        BY DEF Text
      <4> QED BY <3>5, <4>1, NumeralRead
    <3>9. Cat(<<w>>, <<CR>>)[1] = w
      <4>1. PICK one \in Text, cr \in Text : one = <<w>> /\ cr = <<CR>> /\ Len(one) = 1 /\ one[1] = w
        BY <3>8, OneToken, CRAlone
      <4>2. \A j \in 1..Len(one) : Cat(one, cr)[j] = one[j]
        BY CatElements
      <4>3. 1 \in 1..Len(one)
        BY <4>1
      <4> QED BY <4>1, <4>2, <4>3
    <3>10. announced[1] = w
      BY <3>1, <3>6, <3>7, <3>9
    <3> QED BY <3>8, <3>10
  <2> QED BY <1>10, <2>1, <2>2, <2>3, <2>4, Zenon DEF Announces
<1> QED
  BY <1>1, <1>7, <1>10, <1>11, <1>12, Zenon DEF ReadAs

\* Texts that are equal and end in parts of one length have the same parts.
LEMMA SameEnds ==
  ASSUME NEW s \in Text, NEW t \in Text, NEW u \in Text, NEW v \in Text,
         Cat(s, u) = Cat(t, v), Len(u) = Len(v)
  PROVE  s = t /\ u = v
<1>1. /\ Len(Cat(s, u)) = Len(s) + Len(u) /\ Len(s) \in Nat /\ Len(u) \in Nat
      /\ Len(Cat(t, v)) = Len(t) + Len(v) /\ Len(t) \in Nat
  BY CatElements
<1>2. PICK m \in Nat, n \in Nat : m = Len(s) /\ m = Len(t) /\ n = Len(u) /\ n = Len(v)
  <2>1. Len(s) + Len(u) = Len(t) + Len(u)
    BY <1>1
  <2> QED BY <1>1, <2>1
<1>3. \A k \in 1..m : s[k] = t[k]
  <2>1. PICK whole : whole = Cat(s, u) /\ whole = Cat(t, v)
    OBVIOUS
  <2>2. (\A k \in 1..Len(s) : Cat(s, u)[k] = s[k]) /\ (\A k \in 1..Len(t) : Cat(t, v)[k] = t[k])
    BY CatElements
  <2>3. (\A k \in 1..m : whole[k] = s[k]) /\ (\A k \in 1..m : whole[k] = t[k])
    BY <1>2, <2>1, <2>2
  <2> QED BY <2>3
<1>4. \A k \in 1..n : u[k] = v[k]
  <2>1. PICK whole : whole = Cat(s, u) /\ whole = Cat(t, v)
    OBVIOUS
  <2>2. /\ \A k \in 1..Len(u) : Cat(s, u)[Len(s) + k] = u[k]
        /\ \A k \in 1..Len(v) : Cat(t, v)[Len(t) + k] = v[k]
    BY CatElements
  <2>3. (\A k \in 1..n : whole[m + k] = u[k]) /\ (\A k \in 1..n : whole[m + k] = v[k])
    BY <1>2, <2>1, <2>2
  <2> QED BY <2>3
<1>5. s \in Seq(Tokens) /\ t \in Seq(Tokens) /\ u \in Seq(Tokens) /\ v \in Seq(Tokens)
  BY DEF Text
<1>6. s = t
  BY <1>2, <1>3, <1>5, SeqEqual
<1>7. u = v
  BY <1>2, <1>4, <1>5, SeqEqual
<1> QED
  BY <1>6, <1>7

\* The first line of a response that is passed on ends in a space.
LEMMA PassedIsNotFailed ==
  ASSUME NEW t \in Text, Nat \subseteq Numbers
  PROVE  ParseResponse(t) # Failed
<1> SUFFICES ASSUME ParseResponse(t) = Failed
             PROVE  FALSE
  OBVIOUS
<1>1. PICK head \in Text, last \in Text, line \in Text :
        /\ line = Cat(head, Cat(Space, last)) /\ StatusLine(500) = Cat(line, CRLF) /\ last = <<"reason">>
  <2>1. \E head \in Text, last \in Text :
          /\ Occurrences(last, Space) = {}
          /\ Cat(head, Cat(Space, last)) \in Text
          /\ Occurrences(Cat(head, Cat(Space, last)), CRLF) = {}
          /\ StatusLine(500) = Cat(Cat(head, Cat(Space, last)), CRLF)
          /\ Len(Split(head, Space)) = 2
          /\ Len(Split(head, Space)[2]) = 1
          /\ Split(head, Space)[2][1] = ToString(500)
          /\ last = <<"reason">>
    BY StatusLineIs, CodesMade
  <2> QED BY <2>1, Zenon
<1>2. Failed.first_line = StatusLine(500)
  <2>1. PICK code, body : code = 500 /\ body = <<"500 Internal Server Error">>
    BY Zenon
  <2>2. MakeResponse(code, <<>>, body).first_line = StatusLine(code)
    BY FieldsMade
  <2> QED BY <2>1, <2>2, Zenon DEF Failed
<1>3. PICK space \in Text, crlf \in Text, front \in Text, first \in Text :
        /\ space = Space /\ crlf = CRLF /\ Len(space) = 1 /\ first = Cat(front, space)
        /\ first = Passed(t) /\ ParseResponse(t).first_line = Cat(first, crlf)
  <2>1. Lines(t)[1] \in Text /\ Passed(t) \in Text /\ ParseResponse(t).first_line = Cat(Passed(t), CRLF)
    BY FirstLineKept
  <2>2. Space \in Text /\ Len(Space) = 1 /\ CRLF \in Text
    BY WordsAreTexts
  <2>3. PICK front \in Text : front = Lines(t)[1]
    BY <2>1
  <2>4. Passed(t) = Cat(front, Space)
    BY <2>3, Zenon DEF Passed
  <2> QED BY <2>1, <2>2, <2>4, Zenon
<1>4. first = line
  <2>1. Cat(first, crlf) = Cat(line, crlf) /\ Len(crlf) = Len(crlf)
    BY <1>1, <1>2, <1>3
  <2> QED BY <2>1, SameEnds
<1>5. PICK before \in Text : before = Cat(head, space)
  BY CatsAssociate
<1>6. Cat(front, space) = Cat(before, last)
  <2>1. Cat(Cat(head, space), last) = Cat(head, Cat(space, last))
    BY CatsAssociate
  <2> QED BY <1>1, <1>3, <1>4, <1>5, <2>1, Zenon
<1>7. Len(last) = 1 /\ last[1] = "reason"
  BY <1>1
<1>8. space = last
  BY <1>3, <1>6, <1>7, SameEnds
<1>9. Space # <<"reason">>
  <2>1. PICK x, y : x = " " /\ y = "reason" /\ x # y
    <3>1. " " # "reason"
      OBVIOUS
    <3> QED BY <3>1, Zenon
  <2>2. <<x>> # <<y>>
    BY <2>1
  <2> QED BY <2>1, <2>2 DEF Space
<1> QED
  BY <1>1, <1>3, <1>8, <1>9

\* The third invariant: nothing has gone out before a handler is called; the
\* response is an answer made here, and then nothing has gone out or the visit
\* has failed, or it is the one received last; and what is written is made of it.
Unsent == stage \in {"new", "reading", "body", "route"} => outgoing = NoRequest

Meant ==
  stage \in {"respond", "written"} =>
    \/ MadeHere(response) /\ (response = Failed \/ outgoing = NoRequest)
    \/ IsResponse(resp) /\ response = ParseResponse(resp) /\ outgoing # NoRequest

Written == stage = "written" => response_data_ = ResponseText(response)

RInv == Unsent /\ Meant /\ Written

LEMMA MeantInitially == ExchangeInit => RInv
BY DEF ExchangeInit, RInv, Unsent, Meant, Written

LEMMA MeantKept ==
  ASSUME RInv, UNCHANGED outgoing, stage' \notin {"respond", "written"},
         stage' \in {"new", "reading", "body", "route"} => stage \in {"new", "reading", "body", "route"}
  PROVE  RInv'
<1>1. Unsent'
  BY DEF RInv, Unsent
<1>2. Meant'
  BY DEF Meant
<1>3. Written'
  BY DEF Written
<1> QED
  BY <1>1, <1>2, <1>3 DEF RInv

LEMMA MeantAnswer ==
  ASSUME stage' = "respond",
         \/ MadeHere(response') /\ (response' = Failed \/ outgoing' = NoRequest)
         \/ IsResponse(resp') /\ response' = ParseResponse(resp') /\ outgoing' # NoRequest
  PROVE  RInv'
<1>1. Unsent'
  BY DEF Unsent
<1>2. Meant'
  BY DEF Meant
<1>3. Written'
  BY DEF Written
<1> QED
  BY <1>1, <1>2, <1>3 DEF RInv

LEMMA MeantFailed ==
  ASSUME ReturnError
  PROVE  RInv'
<1>1. response' = Failed /\ stage' = "respond"
  BY DEF ReturnError
<1>2. MadeHere(response')
  BY <1>1, FailedMade, Zenon
<1> QED
  BY <1>1, <1>2, MeantAnswer

LEMMA HandleRequestMeant ==
  ASSUME RInv, HandleRequest
  PROVE  RInv'
<1>1. stage = "reading" /\ UNCHANGED outgoing
  BY DEF HandleRequest, visit
<1>2. outgoing' = NoRequest
  BY <1>1 DEF RInv, Unsent
<1>3. CASE stage' = "body" \/ stage' = "ended" \/ stage' = "route"
  BY <1>1, <1>3, MeantKept
<1>4. CASE stage' = "respond" /\ \E body \in Text : response' = MakeResponse(400, <<>>, body)
  <2>1. PICK body \in Text : response' = MakeResponse(400, <<>>, body)
    BY <1>4
  <2>2. PICK code \in OwnCodes : code = 400
    BY CodesMade
  <2>3. MadeHere(MakeResponse(code, <<>>, body))
    BY BareMade
  <2>4. MadeHere(response')
    BY <2>1, <2>2, <2>3, Zenon
  <2> QED BY <1>2, <1>4, <2>4, MeantAnswer
<1>5. \/ stage' = "body" \/ stage' = "ended" \/ stage' = "route"
      \/ stage' = "respond" /\ response' = MakeResponse(400, <<>>, <<"400 Bad Request">> \o CRLF)
      \/ stage' = "respond" /\ response' = MakeResponse(400, <<>>, <<"400 Bad Request">>)
  BY Zenon DEF HandleRequest, Respond
<1>6. CASE stage' = "respond" /\ response' = MakeResponse(400, <<>>, <<"400 Bad Request">> \o CRLF)
  <2>1. PICK body \in Text : body = <<"400 Bad Request">> \o CRLF
    BY BodiesMade, Zenon
  <2>2. response' = MakeResponse(400, <<>>, body)
    BY <1>6, <2>1, Zenon
  <2> QED BY <1>4, <1>6, <2>2, Zenon
<1>7. CASE stage' = "respond" /\ response' = MakeResponse(400, <<>>, <<"400 Bad Request">>)
  <2>1. PICK body \in Text : body = <<"400 Bad Request">>
    BY BodiesMade, Zenon
  <2>2. response' = MakeResponse(400, <<>>, body)
    BY <1>7, <2>1, Zenon
  <2> QED BY <1>4, <1>7, <2>2, Zenon
<1> QED
  BY <1>3, <1>5, <1>6, <1>7, Zenon

LEMMA RunHandlerMeant ==
  ASSUME EInv, RInv, RunHandler
  PROVE  RInv'
<1>1. PICK kind \in Found(request.uri) :
        IF kind = "proxy"
        THEN BeginRequest
        ELSE Respond(AnswerOf(kind, request)) /\ UNCHANGED <<members, request, visit>>
  BY DEF RunHandler
<1>2. CASE kind # "proxy"
  <2>1. /\ response' = AnswerOf(kind, request) /\ stage' = "respond" /\ UNCHANGED outgoing
        /\ stage = "route"
    BY <1>1, <1>2 DEF Respond, visit, RunHandler
  <2>2. kind \in (Handlers \cup {"none"}) \ {"proxy"} /\ request \in Requests
    BY <1>2 DEF Found, EInv, ExchangeTypeOK, Texts
  <2>3. MadeHere(AnswerOf(kind, request))
    BY <2>2, AnswersMade
  <2>4. outgoing' = NoRequest
    BY <2>1 DEF RInv, Unsent
  <2>5. MadeHere(response')
    BY <2>1, <2>3, Zenon
  <2> QED BY <2>1, <2>4, <2>5, MeantAnswer
<1>3. CASE kind = "proxy"
  <2>1. stage' = "visiting"
    BY <1>1, <1>3 DEF BeginRequest
  <2> QED BY <2>1 DEF RInv, Unsent, Meant, Written
<1> QED
  BY <1>2, <1>3

LEMMA Addressed ==
  ASSUME NEW r, r.headers # <<>>
  PROVE  r # NoRequest
BY DEF NoRequest

\* A redirection leaves a request to send.
LEMMA FollowRedirectSends ==
  ASSUME EInv, NEW t \in RemoteTexts,
         NEW url, url = get_header(HeadersOf(t), <<"Location">>), FollowRedirect(t, url)
  PROVE  outgoing' # NoRequest
<1>1. t \in Text
  BY RemoteAssumption
<1>2. url \in Text
  BY <1>1, HeadersType, GetHeader
<1>3. PICK host \in Text, uri \in Text : host = RedirectHost(url) /\ uri = RedirectUri(url)
  BY <1>1, <1>2, RedirectTypes
<1>4. outgoing' = Redirected(outgoing, uri, host)
  BY <1>3, Zenon DEF FollowRedirect, Redirect, Redirected
<1>5. PICK out : out = Redirected(outgoing, uri, host) /\ out.headers # <<>>
  <2>1. outgoing \in Requests /\ outgoing.headers \in Seq(Fields)
    BY DEF EInv, Texts, Requests
  <2>2. Redirected(outgoing, uri, host).headers = set_header(outgoing.headers, Header(<<"Host">>, host))
    BY <2>1, RedirectedType
  <2>3. set_header(outgoing.headers, Header(<<"Host">>, host)) # <<>>
    BY <2>1, HeaderTypes, SetNotEmpty
  <2> QED BY <2>2, <2>3
<1> QED
  BY <1>4, <1>5, Addressed

LEMMA FollowRedirectMeant ==
  ASSUME EInv, NEW t \in RemoteTexts, IsResponse(t), resp' = t,
         NEW url, url = get_header(HeadersOf(t), <<"Location">>), FollowRedirect(t, url)
  PROVE  RInv'
<1>1. CASE stage' = "visiting"
  BY <1>1 DEF RInv, Unsent, Meant, Written
<1>2. CASE response' = ParseResponse(t) /\ stage' = "respond"
  BY <1>2, FollowRedirectSends, MeantAnswer
<1> QED
  BY <1>1, <1>2 DEF FollowRedirect

LEMMA ReceiveMeant ==
  ASSUME EInv, SInv, NEW t \in RemoteTexts, Receive(t)
  PROVE  RInv'
<1> DEFINE url == get_header(HeadersOf(t), <<"Location">>)
<1>1. resp' = t /\ stage = "waiting"
  BY DEF Receive
<1>2. CASE ReturnError
  BY <1>2, MeantFailed
<1>3. CASE IsResponse(t) /\ response' = ParseResponse(t) /\ stage' = "respond" /\ UNCHANGED outgoing
  <2>1. outgoing.headers # <<>>
    BY <1>1 DEF SInv, SentOut, Visiting
  <2>2. outgoing' # NoRequest
    BY <1>3, <2>1, Addressed
  <2> QED BY <1>1, <1>3, <2>2, MeantAnswer
<1>4. CASE IsResponse(t) /\ Protocol(url) # 0 /\ FollowRedirect(t, url)
  BY <1>1, <1>4, FollowRedirectMeant
<1> HIDE DEF url
<1>5. \/ ReturnError
      \/ IsResponse(t) /\ response' = ParseResponse(t) /\ stage' = "respond" /\ UNCHANGED outgoing
      \/ IsResponse(t) /\ Protocol(url) # 0 /\ FollowRedirect(t, url)
  BY DEF Receive, url
<1> QED
  BY <1>2, <1>3, <1>4, <1>5

LEMMA MeantStep == EInv /\ SInv /\ RInv /\ [ExchangeNext]_exchangeVars => RInv'
<1> SUFFICES ASSUME EInv, SInv, RInv, [ExchangeNext]_exchangeVars
             PROVE  RInv'
  OBVIOUS
<1>1. CASE UNCHANGED exchangeVars \/ Over
  <2>1. UNCHANGED <<stage, outgoing, resp, response, response_data_>>
    BY <1>1 DEF exchangeVars, Over, visit, connection
  <2>2. Unsent' /\ Meant' /\ Written'
    BY <2>1 DEF RInv, Unsent, Meant, Written
  <2> QED BY <2>2 DEF RInv
<1>2. CASE \/ \E kind \in Handlers, prefix \in UriPrefixes, url \in ProxyPasses :
                \E sent \in Tried(kind, url) : Mount(kind, prefix, url, sent)
           \/ \E prefix \in UriPrefixes : MountRefused(prefix)
  <2>1. stage = "new" /\ stage' \in {"reading", "refused"} /\ UNCHANGED outgoing
    BY <1>2 DEF Mount, MountRefused, visit
  <2> QED BY <2>1, MeantKept
<1>3. CASE ReadUntil \/ TooLong \/ ClientLeaves
  <2>1. stage = "reading" /\ stage' \in {"reading", "closed"} /\ UNCHANGED outgoing
    BY <1>3 DEF ReadUntil, TooLong, ClientLeaves, visit
  <2> QED BY <2>1, MeantKept
<1>4. CASE HandleRequest
  BY <1>4, HandleRequestMeant
<1>5. CASE ReadBody \/ EndBody \/ AbandonBody
  <2>1. stage = "body" /\ stage' \in {"body", "route", "abandoned"} /\ UNCHANGED outgoing
    BY <1>5 DEF ReadBody, EndBody, AbandonBody, visit
  <2> QED BY <2>1, MeantKept
<1>6. CASE RunHandler
  BY <1>6, RunHandlerMeant
<1>7. CASE Visit
  <2>1. CASE EstablishConnection \/ VisitThrows
    <3>1. stage' \in {"waiting", "ended"} /\ UNCHANGED outgoing
      BY <2>1 DEF EstablishConnection, VisitThrows, visit
    <3> QED BY <3>1, MeantKept
  <2>2. CASE VisitFails
    <3>1. ReturnError
      BY <2>2 DEF VisitFails
    <3> QED BY <3>1, MeantFailed
  <2>3. CASE \E t \in RemoteTexts : Receive(t)
    BY <2>3, ReceiveMeant
  <2>4. \/ EstablishConnection \/ VisitFails \/ VisitThrows
        \/ \E t \in RemoteTexts : Receive(t)
    BY <1>7, Zenon DEF Visit, ProxyStep
  <2> QED BY <2>1, <2>2, <2>3, <2>4
<1>8. CASE WriteResponse
  <2>1. /\ stage = "respond" /\ stage' = "written" /\ UNCHANGED <<outgoing, resp, response>>
        /\ response_data_' = ResponseText(response)
    BY <1>8 DEF WriteResponse, visit
  <2>2. Unsent' /\ Meant'
    BY <2>1 DEF RInv, Unsent, Meant
  <2>3. ResponseText(response)' = ResponseText(response)
    BY <2>1 DEF ResponseText
  <2>4. Written'
    BY <2>1, <2>3 DEF Written
  <2> QED BY <2>2, <2>4 DEF RInv
<1> QED
  BY <1>1, <1>2, <1>3, <1>4, <1>5, <1>6, <1>7, <1>8 DEF ExchangeNext, Proceed

LEMMA WrittenArrives ==
  ASSUME EInv, RInv, stage = "written", Nat \subseteq Numbers
  PROVE  /\ ReadAs(response_data_, response)
         /\ Relayed => response_data_ = Spaced(resp)
         /\ ~ Relayed => Announces(response_data_)
<1>1. response_data_ = ResponseText(response)
  BY DEF RInv, Written
<1>2. CASE MadeHere(response) /\ (response = Failed \/ outgoing = NoRequest)
  <2>1. ReadAs(ResponseText(response), response) /\ Announces(ResponseText(response))
    BY <1>2, MadeRead
  <2>2. ~ Relayed
    BY <1>2, Zenon DEF Relayed
  <2> QED BY <1>1, <2>1, <2>2, Zenon
<1>3. CASE IsResponse(resp) /\ response = ParseResponse(resp) /\ outgoing # NoRequest
  <2>1. resp \in Text
    BY DEF EInv, Texts
  <2>2. Relayed
    BY <1>3, <2>1, PassedIsNotFailed, Zenon DEF Relayed
  <2>3. ResponseText(ParseResponse(resp)) = Spaced(resp)
    BY <1>3, <2>1, PassedIsSpaced
  <2>4. PICK t : t = ResponseText(ParseResponse(resp))
    OBVIOUS
  <2>5. /\ IsResponse(t) /\ ParseResponse(t).status = ParseResponse(resp).status
        /\ ParseResponse(t).body = BodyOf(resp)
    BY <1>3, <2>1, <2>4, PassedRead
  <2>6. ParseResponse(resp).body = BodyOf(resp)
    BY DEF ParseResponse
  <2>7. ReadAs(t, ParseResponse(resp))
    BY <2>5, <2>6, Zenon DEF ReadAs
  <2> QED BY <1>1, <1>3, <2>2, <2>3, <2>4, <2>7, Zenon
<1> QED
  BY <1>2, <1>3 DEF RInv, Meant

\* Whatever handler is called and whatever servers outside send, the client is
\* written a response that is read as the one meant: an answer made here with
\* its body and the length of it, another as it came but for spaces and a '\r'.
\* For this every natural number can be written, as std::to_string does.
THEOREM AnswersArrive ==
  ASSUME Nat \subseteq Numbers
  PROVE  ExchangeSpec => []AnswerArrives
<1>1. EInv /\ SInv /\ RInv /\ [ExchangeNext]_exchangeVars => RInv'
  BY MeantStep
<1>2. EInv /\ SInv /\ [ExchangeNext]_exchangeVars => SInv'
  BY SentStep
<1>3. ASSUME EInv, RInv
      PROVE  AnswerArrives
  <2> SUFFICES ASSUME stage = "written"
               PROVE  LET read == ParseResponse(response_data_)
                          announced == get_header(read.headers, <<"Content-Length">>)
                      IN  /\ IsResponse(response_data_)
                          /\ read.status = response.status /\ read.body = response.body
                          /\ Relayed => response_data_ = Spaced(resp)
                          /\ announced # <<>> /\ ~ Relayed => NumberOf[announced[1]] = Len(read.body)
    BY Zenon DEF AnswerArrives
  <2>1. /\ ReadAs(response_data_, response)
        /\ Relayed => response_data_ = Spaced(resp)
        /\ ~ Relayed => Announces(response_data_)
    BY <1>3, WrittenArrives
  <2> QED BY <2>1, Zenon DEF ReadAs, Announces
<1> QED
  BY Invariance, Initially, SentInitially, MeantInitially, <1>1, <1>2, <1>3, InvariantStep, PTL DEF ExchangeSpec

-----------------------------------------------------------------------------
\* The name of a file and its extension

Without(s, c) == \A k \in 1..Len(s) : s[k] # c

LEMMA WithoutIs ==
  ASSUME NEW s \in Text, NEW c \in Tokens, Without(s, c)
  PROVE  Occurrences(s, <<c>>) = {} /\ <<c>> \in Text /\ <<c>> # <<>>
<1>1. PICK sep \in Text : sep = <<c>> /\ Len(sep) = 1 /\ sep[1] = c
  BY OneToken
<1>2. Len(s) \in Nat /\ 1 \in 1..Len(sep)
  BY <1>1 DEF Text
<1>3. ASSUME NEW k \in Occurrences(s, sep)
      PROVE  FALSE
  <2>1. k \in Nat /\ 1 <= k /\ k + Len(sep) <= Len(s) + 1 /\ s[k + 1 - 1] = sep[1]
    BY <1>2, <1>3, OccurrenceTokens
  <2>2. k \in 1..Len(s) /\ k + 1 - 1 = k
    BY <1>1, <1>2, <2>1
  <2> QED BY <1>1, <2>1, <2>2 DEF Without
<1>4. sep # <<>>
  BY <1>1
<1> QED
  BY <1>1, <1>3, <1>4

\* A text is taken apart at the last place of a token in it.
LEMMA AroundLast ==
  ASSUME NEW s \in Text, NEW c \in Tokens, ~ Without(s, c)
  PROVE  \E a \in Text, b \in Text : s = Cat(a, Cat(<<c>>, b)) /\ Without(b, c)
<1> DEFINE At == {k \in 1..Len(s) : s[k] = c}
<1>1. PICK n \in Nat : n = Len(s)
  BY DEF Text
<1>2. PICK d \in 1..n : s[d] = c /\ \A k \in 1..n : s[k] = c => k <= d
  <2>1. At \in SUBSET (0..n) /\ At # {}
    BY <1>1 DEF Without
  <2>2. PICK d \in At : \A k \in At : k <= d
    BY <2>1, LargestExists
  <2> QED BY <1>1, <2>2
<1>3. PICK sep \in Text : sep = <<c>> /\ Len(sep) = 1 /\ sep[1] = c
  BY OneToken
<1>4. d \in Occurrences(s, sep)
  <2>1. \A j \in 1..Len(sep) : s[d + j - 1] = sep[j]
    BY <1>2, <1>3
  <2>2. d \in Nat /\ 1 <= d /\ d + Len(sep) <= Len(s) + 1
    BY <1>1, <1>2, <1>3
  <2> QED BY <2>1, <2>2, OccurrenceTokens
<1>5. PICK a \in Text : a = SubSeq(s, 1, d - 1)
  BY <1>4, AroundOccurrence
<1>6. PICK b \in Text :
        /\ b = SubSeq(s, d + Len(sep), Len(s)) /\ Len(b) = n - d
        /\ \A j \in 1..(n - d) : b[j] = s[d + j]
  <2>1. /\ SubSeq(s, d + Len(sep), Len(s)) \in Text
        /\ Len(SubSeq(s, d + Len(sep), Len(s))) = Len(s) + 1 - (d + Len(sep))
        /\ \A j \in 1..(Len(s) + 1 - (d + Len(sep))) :
             SubSeq(s, d + Len(sep), Len(s))[j] = s[d + Len(sep) + j - 1]
    BY <1>4, AroundOccurrence
  <2>2. PICK b : b = SubSeq(s, d + Len(sep), Len(s))
    OBVIOUS
  <2>3. /\ b \in Text /\ Len(b) = Len(s) + 1 - (d + Len(sep))
        /\ \A j \in 1..(Len(s) + 1 - (d + Len(sep))) : b[j] = s[d + Len(sep) + j - 1]
    BY <2>1, <2>2
  <2>4. Len(s) + 1 - (d + Len(sep)) = n - d
    BY <1>1, <1>2, <1>3
  <2>5. \A j \in 1..(n - d) : d + Len(sep) + j - 1 = d + j
    BY <1>2, <1>3
  <2>6. Len(b) = n - d /\ \A j \in 1..(n - d) : b[j] = s[d + j]
    BY <2>3, <2>4, <2>5
  <2> QED BY <2>2, <2>3, <2>6, Zenon
<1>7. s = Cat(a, Cat(sep, b))
  <2>1. s = a \o sep \o b
    BY <1>4, <1>5, <1>6, OccurrenceParts, Zenon
  <2> QED BY <2>1, TextsAssociate DEF Cat
<1>8. Without(b, c)
  <2>1. ASSUME NEW j \in 1..Len(b), b[j] = c
        PROVE  FALSE
    <3>1. d + j \in 1..n /\ ~ (d + j <= d)
      BY <1>2, <1>6
    <3> QED BY <1>2, <1>6, <2>1, <3>1
  <2> QED BY <2>1 DEF Without
<1> QED
  BY <1>3, <1>7, <1>8

\* The last two tokens of a text that was taken apart.
LEMMA JoinedEnd ==
  ASSUME NEW a \in Text, NEW c \in Tokens, NEW b \in Text
  PROVE  \E s \in Text :
           /\ s = Cat(a, Cat(<<c>>, b)) /\ Len(s) > Len(b)
           /\ Len(b) = 0 => s[Len(s)] = c
           /\ Len(b) > 0 => s[Len(s)] = b[Len(b)]
           /\ Len(b) = 1 => s[Len(s) - 1] = c
           /\ Len(b) > 1 => s[Len(s) - 1] = b[Len(b) - 1]
<1>1. PICK sep \in Text : sep = <<c>> /\ Len(sep) = 1 /\ sep[1] = c
  BY OneToken
<1>2. PICK m \in Nat, l \in Nat : m = Len(b) /\ l = Len(a)
  BY DEF Text
<1>3. PICK end \in Text :
        end = Cat(sep, b) /\ Len(end) = m + 1 /\ end[1] = c /\ \A k \in 1..m : end[k + 1] = b[k]
  <2>1. PICK end \in Text :
          /\ end = Cat(sep, b) /\ Len(end) = Len(sep) + Len(b)
          /\ \A k \in 1..Len(sep) : end[k] = sep[k]
          /\ \A k \in 1..Len(b) : end[Len(sep) + k] = b[k]
    BY CatElements
  <2>2. Len(end) = m + 1 /\ end[1] = c
    BY <1>1, <1>2, <2>1
  <2>3. \A k \in 1..m : end[k + 1] = b[k]
    BY <1>1, <1>2, <2>1
  <2> QED BY <2>1, <2>2, <2>3
<1>4. PICK s \in Text : s = Cat(a, end) /\ Len(s) = l + m + 1 /\ \A k \in 1..(m + 1) : s[l + k] = end[k]
  <2>1. PICK s \in Text :
          s = Cat(a, end) /\ Len(s) = Len(a) + Len(end) /\ \A k \in 1..Len(end) : s[Len(a) + k] = end[k]
    BY CatElements
  <2> QED BY <1>2, <1>3, <2>1
<1>5. s[l + 1] = c
  BY <1>3, <1>4
<1>6. \A k \in 1..m : s[l + 1 + k] = b[k]
  <2> TAKE k \in 1..m
  <2>1. s[l + (k + 1)] = end[k + 1] /\ end[k + 1] = b[k] /\ l + (k + 1) = l + 1 + k
    BY <1>3, <1>4
  <2> QED BY <2>1
<1>7. m = 0 => l + m + 1 = l + 1
  OBVIOUS
<1>8. m > 0 => s[l + m + 1] = b[m]
  <2>1. m > 0 => m \in 1..m /\ l + 1 + m = l + m + 1
    OBVIOUS
  <2> QED BY <1>6, <2>1
<1>9. m = 1 => l + m + 1 - 1 = l + 1
  OBVIOUS
<1>10. m > 1 => s[l + m + 1 - 1] = b[m - 1]
  <2>1. m > 1 => m - 1 \in 1..m /\ l + 1 + (m - 1) = l + m + 1 - 1
    OBVIOUS
  <2> QED BY <1>6, <2>1
<1>11. l + m + 1 > m
  OBVIOUS
<1>12. s = Cat(a, Cat(<<c>>, b))
  BY <1>1, <1>3, <1>4
<1>13. /\ Len(s) > Len(b)
       /\ Len(b) = 0 => s[Len(s)] = c
       /\ Len(b) > 0 => s[Len(s)] = b[Len(b)]
       /\ Len(b) = 1 => s[Len(s) - 1] = c
       /\ Len(b) > 1 => s[Len(s) - 1] = b[Len(b) - 1]
  BY <1>2, <1>4, <1>5, <1>7, <1>8, <1>9, <1>10, <1>11
<1> QED
  BY <1>12, <1>13, Zenon

\* The last piece of a text that is split at a token.
LEMMA LastPiece ==
  ASSUME NEW s \in Text, NEW c \in Tokens
  PROVE  \E b \in Text :
           /\ b = Last(Split(s, <<c>>)) /\ Without(b, c)
           /\ \/ Len(Split(s, <<c>>)) = 1 /\ b = s
              \/ Len(Split(s, <<c>>)) > 1 /\ \E a \in Text : s = Cat(a, Cat(<<c>>, b))
<1>1. PICK sep \in Text : sep = <<c>> /\ Len(sep) = 1 /\ sep # <<>>
  BY OneToken
<1>2. CASE Without(s, c)
  <2>1. Occurrences(s, sep) = {}
    BY <1>1, <1>2, WithoutIs
  <2>2. Split(s, sep) = <<s>>
    BY <1>1, <2>1, NoSeparator
  <2>3. PICK one \in Seq(Text) : one = <<s>> /\ Len(one) = 1 /\ one[1] = s
    <3>1. <<s>> \in Seq(Text) /\ Len(<<s>>) = 1 /\ <<s>>[1] = s
      OBVIOUS
    <3> QED BY <3>1, Zenon
  <2>4. Last(one) = s
    BY <2>3 DEF Last
  <2>5. Len(Split(s, <<c>>)) = 1 /\ Last(Split(s, <<c>>)) = s
    BY <1>1, <2>2, <2>3, <2>4, Zenon
  <2> QED BY <1>2, <2>5, Zenon
<1>3. CASE ~ Without(s, c)
  <2>1. PICK a \in Text, b \in Text : s = Cat(a, Cat(<<c>>, b)) /\ Without(b, c)
    BY <1>3, AroundLast
  <2>2. Simple(sep)
    BY <1>1 DEF Simple
  <2>3. Split(Cat(a, Cat(sep, b)), sep) = Split(a, sep) \o Split(b, sep)
    BY <1>1, <2>2, SplitCat
  <2>4. Split(b, sep) = <<b>>
    <3>1. Occurrences(b, sep) = {}
      BY <1>1, <2>1, WithoutIs
    <3> QED BY <1>1, <3>1, NoSeparator
  <2>5. PICK before \in Seq(Text) : before = Split(a, sep) /\ Len(before) \in Nat \ {0}
    BY <1>1, SplitType
  <2>6. PICK all \in Seq(Text) : all = Append(before, b) /\ Len(all) = Len(before) + 1 /\ all[Len(before) + 1] = b
    <3>1. /\ Append(before, b) \in Seq(Text) /\ Len(Append(before, b)) = Len(before) + 1
          /\ Append(before, b)[Len(before) + 1] = b
      BY AppendProperties
    <3> QED BY <3>1, Zenon
  <2>7. all = before \o <<b>>
    BY <2>6
  <2>8. Split(s, <<c>>) = all
    BY <1>1, <2>1, <2>3, <2>4, <2>5, <2>7, Zenon
  <2>9. Last(all) = b /\ Len(all) > 1
    BY <2>5, <2>6 DEF Last
  <2>10. Last(Split(s, <<c>>)) = b /\ Len(Split(s, <<c>>)) > 1
    BY <2>8, <2>9, Zenon
  <2> QED BY <2>1, <2>10, Zenon
<1> QED
  BY <1>2, <1>3

\* A text that ends in a dot and one token more.
EndsIn(s, e) == Len(s) > 1 /\ s[Len(s)] = e /\ s[Len(s) - 1] = "."

\* The extension of a path, if it is one token, is what follows a dot there.
LEMMA ExtensionIs ==
  ASSUME NEW path \in Text, NEW e, e # "."
  PROVE  Extension(path) = <<e>> <=> EndsIn(path, e)
<1> DEFINE At == {k \in 1..Len(path) : path[k] = "."}
<1>1. PICK n \in Nat : n = Len(path)
  BY DEF Text
<1>2. PICK dot : dot = (IF At # {} THEN Max(At) ELSE 0)
  OBVIOUS
<1>3. Extension(path) = IF dot = 0 THEN <<>> ELSE SubSeq(path, dot + 1, Len(path))
  BY <1>2 DEF Extension, SelectLastInSeq
<1>4. CASE At = {}
  <2>1. Extension(path) = <<>>
    BY <1>2, <1>3, <1>4
  <2>2. ~ EndsIn(path, e)
    <3>1. n > 1 => n - 1 \in 1..Len(path)
      BY <1>1
    <3> QED BY <1>1, <1>4, <3>1 DEF EndsIn
  <2> QED BY <2>1, <2>2
<1>5. CASE At # {}
  <2>1. PICK d \in 1..n : dot = d /\ path[d] = "." /\ \A k \in 1..n : path[k] = "." => k <= d
    <3>1. At \in SUBSET (0..n)
      BY <1>1
    <3>2. \E m \in At : \A k \in At : k <= m
      BY <1>5, <3>1, LargestExists
    <3>3. Max(At) \in At /\ \A k \in At : k <= Max(At)
      <4>1. \E m \in At : \A k \in At : m >= k
        BY <1>1, <3>2
      <4>2. Max(At) \in At /\ \A k \in At : Max(At) >= k
        BY <4>1 DEF Max
      <4> QED BY <1>1, <4>2
    <3> QED BY <1>1, <1>2, <1>5, <3>3
  <2>2. PICK rest : rest = SubSeq(path, d + 1, n)
    OBVIOUS
  <2>3. Len(rest) = n - d /\ \A k \in 1..(n - d) : rest[k] = path[d + k]
    <3>1. PICK m \in 1..(Len(path) + 1) : m = d + 1 /\ n \in (m - 1)..Len(path)
      BY <1>1
    <3>2. /\ Len(SubSeq(path, m, n)) = n - m + 1
          /\ \A k \in 1..(n - m + 1) : SubSeq(path, m, n)[k] = path[m + k - 1]
      BY <3>1, PartElements DEF Text
    <3>3. Len(rest) = n - m + 1 /\ \A k \in 1..(n - m + 1) : rest[k] = path[m + k - 1]
      BY <2>2, <3>1, <3>2
    <3>4. n - m + 1 = n - d /\ \A k \in 1..(n - d) : m + k - 1 = d + k
      BY <3>1
    <3> QED BY <3>3, <3>4
  <2>4. rest \in Seq(Tokens)
    <3>1. rest \in Text
      BY <1>1, <2>2, PartIsText
    <3> QED BY <3>1 DEF Text
  <2>5. Extension(path) = rest
    BY <1>1, <1>3, <2>1, <2>2
  <2>6. ASSUME rest = <<e>>
        PROVE  EndsIn(path, e)
    <3>1. Len(rest) = 1 /\ rest[1] = e
      BY <2>6
    <3>2. n - d = 1 /\ 1 \in 1..(n - d)
      <4>1. PICK m \in Int : m = n - d
        OBVIOUS
      <4>2. m = 1
        BY <2>3, <3>1, <4>1, Zenon
      <4> QED BY <4>1, <4>2
    <3>3. path[d + 1] = e
      BY <2>3, <3>1, <3>2
    <3>4. d = n - 1 /\ n > 1 /\ d + 1 = n
      BY <3>2
    <3> QED BY <1>1, <2>1, <3>3, <3>4 DEF EndsIn
  <2>7. ASSUME EndsIn(path, e)
        PROVE  rest = <<e>>
    <3>1. n > 1 /\ path[n] = e /\ path[n - 1] = "." /\ n - 1 \in 1..n
      BY <1>1, <2>7 DEF EndsIn
    <3>2. d = n - 1
      BY <2>1, <3>1
    <3>3. Len(rest) = 1 /\ rest[1] = e
      BY <2>3, <3>1, <3>2
    <3> QED BY <2>4, <3>3
  <2> QED BY <2>5, <2>6, <2>7
<1> QED
  BY <1>4, <1>5

\* A text ends in a dot and a token as the last piece of it does.
LEMMA NameEnds ==
  ASSUME NEW a \in Text, NEW c \in Tokens, c # ".", NEW b \in Text, NEW e, e # c
  PROVE  EndsIn(Cat(a, Cat(<<c>>, b)), e) <=> EndsIn(b, e)
<1>1. PICK s \in Text :
        /\ s = Cat(a, Cat(<<c>>, b)) /\ Len(s) > Len(b)
        /\ Len(b) = 0 => s[Len(s)] = c
        /\ Len(b) > 0 => s[Len(s)] = b[Len(b)]
        /\ Len(b) = 1 => s[Len(s) - 1] = c
        /\ Len(b) > 1 => s[Len(s) - 1] = b[Len(b) - 1]
  BY JoinedEnd
<1>2. PICK m \in Nat, n \in Nat : m = Len(b) /\ n = Len(s)
  BY DEF Text
<1>3. CASE m = 0
  BY <1>1, <1>2, <1>3 DEF EndsIn
<1>4. CASE m = 1
  BY <1>1, <1>2, <1>4 DEF EndsIn
<1>5. CASE m > 1
  BY <1>1, <1>2, <1>5 DEF EndsIn
<1>6. m = 0 \/ m = 1 \/ m > 1
  OBVIOUS
<1> QED
  BY <1>3, <1>4, <1>5, <1>6, Zenon

\* The last piece between dots is one token if the text ends in a dot and that.
LEMMA PieceEnds ==
  ASSUME NEW a \in Text, "." \in Tokens, NEW b \in Text, Without(b, "."), NEW e, e # "."
  PROVE  EndsIn(Cat(a, Cat(<<".">>, b)), e) <=> b = <<e>>
<1>1. PICK c \in Tokens : c = "."
  OBVIOUS
<1>2. PICK s \in Text :
        /\ s = Cat(a, Cat(<<c>>, b)) /\ Len(s) > Len(b)
        /\ Len(b) = 0 => s[Len(s)] = c
        /\ Len(b) > 0 => s[Len(s)] = b[Len(b)]
        /\ Len(b) = 1 => s[Len(s) - 1] = c
        /\ Len(b) > 1 => s[Len(s) - 1] = b[Len(b) - 1]
  BY JoinedEnd
<1>3. PICK m \in Nat, n \in Nat : m = Len(b) /\ n = Len(s)
  BY DEF Text
<1>4. CASE m = 0
  <2>1. ~ EndsIn(s, e)
    BY <1>1, <1>2, <1>3, <1>4 DEF EndsIn
  <2>2. b # <<e>>
    <3>1. Len(<<e>>) = 1 /\ Len(b) # 1
      BY <1>3, <1>4
    <3> QED BY <3>1, Zenon
  <2> QED BY <1>1, <1>2, <2>1, <2>2
<1>5. CASE m = 1
  <2>1. EndsIn(s, e) <=> b[1] = e
    BY <1>1, <1>2, <1>3, <1>5 DEF EndsIn
  <2>2. b[1] = e <=> b = <<e>>
    <3>1. b \in Seq(Tokens) /\ Len(b) = 1
      BY <1>3, <1>5 DEF Text
    <3>2. b = <<e>> => b[1] = e
      OBVIOUS
    <3>3. b[1] = e => b = <<e>>
      BY <3>1
    <3> QED BY <3>2, <3>3
  <2> QED BY <1>1, <1>2, <2>1, <2>2
<1>6. CASE m > 1
  <2>1. ~ EndsIn(s, e)
    <3>1. m - 1 \in 1..Len(b)
      BY <1>3, <1>6
    <3>2. b[m - 1] # c
      BY <1>1, <3>1 DEF Without
    <3>3. s[Len(s) - 1] = b[m - 1]
      BY <1>2, <1>3, <1>6
    <3> QED BY <1>1, <3>2, <3>3 DEF EndsIn
  <2>2. b # <<e>>
    BY <1>3, <1>6
  <2> QED BY <1>1, <1>2, <2>1, <2>2
<1> QED
  BY <1>3, <1>4, <1>5, <1>6

\* The extension of a path is that of the name of its file.
LEMMA TypeOfName ==
  ASSUME NEW path \in Text, NEW e \in DOMAIN ContentMappings
  PROVE  LET parts == Split(Last(Split(path, <<"/">>)), <<".">>)
         IN  Extension(path) = <<e>> <=> Len(parts) > 1 /\ Last(parts) = <<e>>
<1>1. PICK slash \in Tokens : slash = "/" /\ slash # "."
  BY RemoteAssumption
<1>2. PICK dot \in Tokens : dot = "."
  BY FilesAssumption
<1>3. e # slash /\ e # dot
  BY <1>1, <1>2 DEF ContentMappings
<1>4. PICK name \in Text :
        /\ name = Last(Split(path, <<slash>>)) /\ Without(name, slash)
        /\ path = name \/ \E a \in Text : path = Cat(a, Cat(<<slash>>, name))
  BY LastPiece
<1>5. EndsIn(path, e) <=> EndsIn(name, e)
  BY <1>1, <1>3, <1>4, NameEnds
<1>6. PICK last \in Text :
        /\ last = Last(Split(name, <<dot>>)) /\ Without(last, dot)
        /\ \/ Len(Split(name, <<dot>>)) = 1 /\ last = name
           \/ Len(Split(name, <<dot>>)) > 1 /\ \E a \in Text : name = Cat(a, Cat(<<dot>>, last))
  BY LastPiece
<1>7. EndsIn(name, e) <=> Len(Split(name, <<dot>>)) > 1 /\ last = <<e>>
  <2>1. CASE Len(Split(name, <<dot>>)) = 1 /\ last = name
    <3>1. ~ EndsIn(name, e)
      <4>1. Len(name) > 1 => Len(name) - 1 \in 1..Len(name)
        BY DEF Text
      <4> QED BY <1>2, <1>6, <2>1, <4>1 DEF EndsIn, Without
    <3>2. PICK n : n = Len(Split(name, <<dot>>))
      OBVIOUS
    <3>3. n = 1 /\ ~ (n > 1)
      BY <2>1, <3>2
    <3> QED BY <3>1, <3>2, <3>3, Zenon
  <2>2. CASE Len(Split(name, <<dot>>)) > 1 /\ \E a \in Text : name = Cat(a, Cat(<<dot>>, last))
    <3>1. EndsIn(name, e) <=> last = <<e>>
      BY <1>2, <1>3, <1>6, <2>2, PieceEnds
    <3> QED BY <2>2, <3>1
  <2> QED BY <1>6, <2>1, <2>2
<1>8. Extension(path) = <<e>> <=> EndsIn(path, e)
  BY <1>2, <1>3, ExtensionIs
<1>9. Extension(path) = <<e>> <=> Len(Split(name, <<dot>>)) > 1 /\ Last(Split(name, <<dot>>)) = <<e>>
  BY <1>5, <1>6, <1>7, <1>8
<1> QED
  BY <1>1, <1>2, <1>4, <1>9, Zenon

\* The value of a header that comes first, and of one that is not there.
LEMMA KeyFirst ==
  ASSUME NEW key, NEW g, NEW h, h.key # key
  PROVE  /\ get_header(<<h>>, key) = <<>>
         /\ g.key = key => get_header(<<g, h>>, key) = g.value
<1>1. get_header(<<h>>, key) = <<>>
  <2>1. PICK s : s = <<h>>
    OBVIOUS
  <2>2. {k \in 1..Len(s) : s[k].key = key} = {}
    BY <2>1
  <2>3. SelectInSeq(s, LAMBDA f : f.key = key) = 0
    BY <2>2 DEF SelectInSeq
  <2> QED BY <2>1, <2>3 DEF get_header
<1>2. ASSUME g.key = key
      PROVE  get_header(<<g, h>>, key) = g.value
  <2>1. PICK s : s = <<g, h>>
    OBVIOUS
  <2>2. PICK At \in SUBSET Nat : At = {k \in 1..Len(s) : s[k].key = key}
    <3>1. {k \in 1..Len(s) : s[k].key = key} \in SUBSET Nat
      BY <2>1
    <3> QED BY <3>1
  <2>3. Len(s) = 2 /\ s[1] = g /\ s[2] = h
    BY <2>1
  <2>4. 1 \in At /\ \A k \in At : k = 1
    BY <1>2, <2>2, <2>3
  <2>5. Min(At) = 1
    <3>1. Min(At) \in At
      BY <2>4, MinIsLeast
    <3> QED BY <2>4, <3>1
  <2>6. SelectInSeq(s, LAMBDA f : f.key = key) = 1
    BY <2>2, <2>4, <2>5 DEF SelectInSeq
  <2> QED BY <2>1, <2>3, <2>6 DEF get_header
<1> QED
  BY <1>1, <1>2

\* The Content-Type of a file is that of the extension of its path.
LEMMA TypeOfFile ==
  ASSUME NEW path, NEW body
  PROVE  LET type == get_header(Append(ContentType(path), LengthField(body)), <<"Content-Type">>)
         IN  /\ \A e \in DOMAIN ContentMappings : Extension(path) = <<e>> => type = <<ContentMappings[e]>>
             /\ type # <<>> => \E e \in DOMAIN ContentMappings : Extension(path) = <<e>>
<1>1. PICK h : h = LengthField(body)
  OBVIOUS
<1>2. PICK key, headers : key = <<"Content-Type">> /\ headers = Append(ContentType(path), LengthField(body))
  OBVIOUS
<1>3. h.key # key
  <2>1. h.key = <<"Content-Length">>
    BY <1>1 DEF LengthField, Header
  <2>2. <<"Content-Length">> # <<"Content-Type">>
    OBVIOUS
  <2> QED BY <1>2, <2>1, <2>2
<1>4. CASE ContentType(path) = <<>> /\ \A e \in DOMAIN ContentMappings : Extension(path) # <<e>>
  <2>1. headers = <<h>>
    BY <1>1, <1>2, <1>4
  <2>2. get_header(headers, key) = <<>>
    BY <1>3, <2>1, KeyFirst
  <2> QED BY <1>2, <1>4, <2>2
<1>5. CASE \E e \in DOMAIN ContentMappings :
             Extension(path) = <<e>> /\ ContentType(path) = <<TypeField(ContentMappings[e])>>
  <2>1. PICK e \in DOMAIN ContentMappings :
          Extension(path) = <<e>> /\ ContentType(path) = <<TypeField(ContentMappings[e])>>
    BY <1>5
  <2>2. PICK g : g = TypeField(ContentMappings[e])
    OBVIOUS
  <2>3. g.key = key /\ g.value = <<ContentMappings[e]>>
    BY <1>2, <2>2 DEF TypeField, Header
  <2>4. headers = <<g, h>>
    BY <1>1, <1>2, <2>1, <2>2, AppendOne
  <2>5. get_header(headers, key) = <<ContentMappings[e]>>
    BY <1>3, <2>3, <2>4, KeyFirst
  <2>6. \A d \in DOMAIN ContentMappings : Extension(path) = <<d>> => d = e
    BY <2>1
  <2> QED BY <1>2, <2>1, <2>5, <2>6, Zenon
<1> QED
  BY <1>4, <1>5, ContentTypeIs

\* What follows the prefix in a uri follows the root in the path.
LEMMA SamePlace ==
  ASSUME NEW root \in Text, NEW rest \in Text, rest = <<>> \/ rest[1] = "/"
  PROVE  Split(root \o rest, <<"/">>) =
           Split(root, <<"/">>) \o (IF rest = <<>> THEN <<>> ELSE Tail(Split(rest, <<"/">>)))
<1>1. PICK slash \in Tokens, sep \in Text :
        slash = "/" /\ sep = <<slash>> /\ Len(sep) = 1 /\ sep[1] = slash /\ sep # <<>>
  <2>1. PICK slash \in Tokens : slash = "/"
    BY RemoteAssumption
  <2>2. <<slash>> \in Text /\ Len(<<slash>>) = 1 /\ <<slash>>[1] = slash /\ <<slash>> # <<>>
    BY OneToken
  <2> QED BY <2>1, <2>2, Zenon
<1>2. PICK front \in Seq(Text) : front = Split(root, sep)
  BY <1>1, SplitType
<1>3. CASE rest = <<>>
  <2>1. root \o rest = root
    BY <1>3 DEF Text
  <2>2. front \o <<>> = front
    OBVIOUS
  <2> QED BY <1>1, <1>2, <1>3, <2>1, <2>2, Zenon
<1>4. CASE rest # <<>> /\ rest[1] = slash
  <2>1. PICK inner \in Text : rest = Cat(sep, inner)
    <3>1. PICK n \in Nat : rest \in Seq(Tokens) /\ n = Len(rest) /\ n >= 1
      BY <1>4 DEF Text
    <3>2. PICK m \in 1..Len(rest) : m = 1 /\ n \in m..Len(rest)
      BY <3>1
    <3>3. SubSeq(rest, m, n) = <<rest[m]>> \o SubSeq(rest, m + 1, n)
      BY <3>1, <3>2, SubSeqRecursiveFirst
    <3>4. SubSeq(rest, 1, Len(rest)) = rest
      BY <3>1, SubSeqFull
    <3>5. PICK inner \in Text : inner = SubSeq(rest, m + 1, n)
      <4>1. PICK p \in Nat \ {0}, l \in Int : p = m + 1 /\ l = n /\ l <= Len(rest)
        BY <3>1, <3>2
      <4> QED BY <4>1, PartIsText
    <3>6. rest = sep \o inner
      BY <1>1, <1>4, <3>1, <3>2, <3>3, <3>4, <3>5, Zenon
    <3> QED BY <3>6 DEF Cat
  <2>2. PICK back \in Seq(Text) : back = Split(inner, sep)
    BY <1>1, SplitType
  <2>3. Simple(sep)
    BY <1>1 DEF Simple
  <2>4. Split(Cat(root, Cat(sep, inner)), sep) = front \o back
    BY <1>1, <1>2, <2>2, <2>3, SplitCat
  <2>5. Split(Cat(sep, inner), sep) = <<<<>>>> \o back
    <3>1. PICK empty \in Text : empty = <<>>
      BY EmptyText
    <3>2. Split(Cat(empty, Cat(sep, inner)), sep) = Split(empty, sep) \o back
      BY <1>1, <2>2, <2>3, SplitCat
    <3>3. Cat(empty, Cat(sep, inner)) = Cat(sep, inner)
      <4>1. Cat(sep, inner) \in Text
        BY <1>1, CatElements
      <4> QED BY <3>1, <4>1, EmptyText
    <3>4. Split(empty, sep) = <<empty>>
      <4>1. Occurrences(empty, sep) = {}
        BY <1>1, <3>1, EmptyText
      <4> QED BY <1>1, <4>1, NoSeparator
    <3> QED BY <3>1, <3>2, <3>3, <3>4, Zenon
  <2>6. Tail(<<<<>>>> \o back) = back
    OBVIOUS
  <2>7. Split(root \o rest, sep) = front \o Tail(Split(rest, sep))
    BY <2>1, <2>4, <2>5, <2>6, Zenon DEF Cat
  <2> QED BY <1>1, <1>2, <1>4, <2>7, Zenon
<1> QED
  BY <1>1, <1>3, <1>4

\* The fourth invariant: what a static handler answers with status 200 is made
\* of the file that Root and the rest of the uri name.
FileAt(path) ==
  MakeResponse(200, Append(ContentType(path), LengthField(Files[path])), Files[path])

Served ==
  stage \in {"respond", "written"} /\ handler = "static" /\ response.status = 200 =>
    \E path \in DOMAIN Files :
      /\ path = Root \o SubSeq(request.uri, Len(prefix_) + 1, Len(request.uri))
      /\ response = FileAt(path)

LEMMA NotFoundStatus == NotFound.status = 404
<1>1. \E headers, body : NotFound = MakeResponse(404, headers, body)
  BY Zenon DEF NotFound, Answer
<1>2. PICK code, headers, body : code = 404 /\ NotFound = MakeResponse(code, headers, body)
  BY <1>1
<1>3. MakeResponse(code, headers, body).status = code
  BY FieldsMade
<1> QED
  BY <1>2, <1>3

LEMMA RunHandlerServed ==
  ASSUME EInv, RunHandler, handler = "static", response'.status = 200
  PROVE  Served'
<1>1. PICK kind \in Found(request.uri) :
        IF kind = "proxy"
        THEN BeginRequest
        ELSE Respond(AnswerOf(kind, request)) /\ UNCHANGED <<members, request, visit>>
  BY DEF RunHandler
<1>2. kind = "none" \/ kind = "static"
  BY <1>1 DEF Found
<1>3. response' = AnswerOf(kind, request) /\ UNCHANGED <<prefix_, request>>
  BY <1>1, <1>2 DEF Respond, members
<1>4. kind = "static"
  <2>1. AnswerOf("none", request) = NotFound
    BY DEF AnswerOf
  <2> QED BY <1>2, <1>3, <2>1, NotFoundStatus
<1>5. PICK path : path = Root \o Suffix(request.uri)
  OBVIOUS
<1>6. response' = FileAnswer("static", request.uri)
  BY <1>3, <1>4 DEF AnswerOf
<1>7. CASE path \notin DOMAIN Files
  <2>1. FileAnswer("static", request.uri) = NotFound
    BY <1>5, <1>7, Zenon DEF FileAnswer
  <2> QED BY <1>6, <2>1, NotFoundStatus
<1>8. CASE path \in DOMAIN Files
  <2>1. FileAnswer("static", request.uri) = FileAt(path)
    BY <1>5, <1>8 DEF FileAnswer, FileAt, LengthField
  <2>2. path = Root \o SubSeq(request'.uri, Len(prefix_') + 1, Len(request'.uri))
    BY <1>3, <1>5 DEF Suffix
  <2>3. response' = FileAt(path)
    BY <1>6, <2>1
  <2> QED BY <1>8, <2>2, <2>3, Zenon DEF Served
<1> QED
  BY <1>7, <1>8

LEMMA ServedStep == EInv /\ Served /\ [ExchangeNext]_exchangeVars => Served'
<1> SUFFICES ASSUME EInv, Served, [ExchangeNext]_exchangeVars,
                    stage' \in {"respond", "written"}, handler' = "static", response'.status = 200
             PROVE  Served'
  BY DEF Served
<1>1. CASE UNCHANGED exchangeVars \/ Over
  <2>1. UNCHANGED <<stage, handler, prefix_, request, response>>
    BY <1>1 DEF exchangeVars, Over, members
  <2> QED BY <2>1 DEF Served
<1>2. CASE \/ \E kind \in Handlers, prefix \in UriPrefixes, url \in ProxyPasses :
                \E sent \in Tried(kind, url) : Mount(kind, prefix, url, sent)
           \/ \E prefix \in UriPrefixes : MountRefused(prefix)
  BY <1>2 DEF Mount, MountRefused
<1>3. CASE ReadUntil \/ TooLong \/ ClientLeaves
  BY <1>3 DEF ReadUntil, TooLong, ClientLeaves
<1>4. CASE HandleRequest
  <2>1. \E body : response' = MakeResponse(400, <<>>, body)
    <3>1. \/ stage' = "body" \/ stage' = "ended" \/ stage' = "route"
          \/ stage' = "respond" /\ response' = MakeResponse(400, <<>>, <<"400 Bad Request">> \o CRLF)
          \/ stage' = "respond" /\ response' = MakeResponse(400, <<>>, <<"400 Bad Request">>)
      BY <1>4, Zenon DEF HandleRequest, Respond
    <3>2. stage' # "body" /\ stage' # "ended" /\ stage' # "route"
      OBVIOUS
    <3>3. PICK a, b : a = <<"400 Bad Request">> \o CRLF /\ b = <<"400 Bad Request">>
      OBVIOUS
    <3>4. response' = MakeResponse(400, <<>>, a) \/ response' = MakeResponse(400, <<>>, b)
      BY <3>1, <3>2, <3>3
    <3> QED BY <3>4
  <2>2. response'.status = 400
    <3>1. \A body : MakeResponse(400, <<>>, body).status = 400
      BY DEF MakeResponse
    <3> QED BY <2>1, <3>1
  <2> QED BY <2>2
<1>5. CASE ReadBody \/ EndBody \/ AbandonBody
  BY <1>5 DEF ReadBody, EndBody, AbandonBody
<1>6. CASE RunHandler
  <2>1. handler' = handler
    BY <1>6 DEF RunHandler
  <2> QED BY <1>6, <2>1, RunHandlerServed
<1>7. CASE Visit
  <2>1. handler' = handler
    BY <1>7 DEF Visit, ProxyStep
  <2>2. stage = "visiting" \/ stage = "waiting"
    <3>1. \/ EstablishConnection \/ VisitFails \/ VisitThrows
          \/ \E t \in RemoteTexts : Receive(t)
      BY <1>7, Zenon DEF Visit, ProxyStep
    <3> QED BY <3>1 DEF EstablishConnection, VisitFails, VisitThrows, Receive
  <2>3. handler = "proxy"
    BY <2>2 DEF EInv, VisitOK, Visiting
  <2> QED BY <2>1, <2>3
<1>8. CASE WriteResponse
  <2>1. stage = "respond" /\ UNCHANGED <<handler, prefix_, request, response>>
    BY <1>8 DEF WriteResponse, members
  <2> QED BY <2>1 DEF Served
<1> QED
  BY <1>1, <1>2, <1>3, <1>4, <1>5, <1>6, <1>7, <1>8 DEF ExchangeNext, Proceed

LEMMA ServedInitially == ExchangeInit => Served
BY DEF ExchangeInit, Served

\* A uri inside the mounted directory is answered with the file in the same
\* place below Root, and with the type of what follows the last dot of its name.
THEOREM FilesServed == ExchangeSpec => []FileServed
<1>1. ASSUME EInv, Served
      PROVE  FileServed
  <2> DEFINE rest == SubSeq(request.uri, Len(prefix_) + 1, Len(request.uri))
             path == Split(Root, <<"/">>) \o (IF rest = <<>> THEN <<>> ELSE Tail(Split(rest, <<"/">>)))
             parts == Split(Last(path), <<".">>)
             type == get_header(response.headers, <<"Content-Type">>)
  <2> SUFFICES ASSUME stage = "written", handler = "static", response.status = 200,
                      rest = <<>> \/ rest[1] = "/"
               PROVE  /\ \E file \in DOMAIN Files :
                           Split(file, <<"/">>) = path /\ response.body = Files[file]
                      /\ \A e \in DOMAIN ContentMappings :
                           Len(parts) > 1 /\ Last(parts) = <<e>> => type = <<ContentMappings[e]>>
                      /\ type # <<>> => Len(parts) > 1
    BY Zenon DEF FileServed
  <2>1. PICK file \in DOMAIN Files : file = Root \o rest /\ response = FileAt(file)
    BY <1>1 DEF Served
  <2>2. rest \in Text
    <3>1. prefix_ \in Text /\ request.uri \in Text
      BY <1>1 DEF EInv, Texts, Requests
    <3>2. PICK m \in Nat \ {0}, n \in Int : m = Len(prefix_) + 1 /\ n = Len(request.uri)
      BY <3>1 DEF Text
    <3> QED BY <3>1, <3>2, PartIsText
  <2>3. Root \in Text /\ file \in Text
    BY FilesAssumption
  <2>4. Split(file, <<"/">>) = path
    BY <2>1, <2>2, <2>3, SamePlace
  <2>5. response.body = Files[file] /\ response.headers = Append(ContentType(file), LengthField(Files[file]))
    <3>1. PICK body : body = Files[file]
      OBVIOUS
    <3>2. PICK headers : headers = Append(ContentType(file), LengthField(body))
      OBVIOUS
    <3>3. PICK r : r = MakeResponse(200, headers, body)
      OBVIOUS
    <3>4. r.body = body /\ r.headers = headers
      BY <3>3, FieldsMade
    <3>5. response = r
      BY <2>1, <3>1, <3>2, <3>3, Zenon DEF FileAt
    <3> QED BY <3>1, <3>2, <3>4, <3>5, Zenon
  <2>6. /\ \A e \in DOMAIN ContentMappings : Extension(file) = <<e>> => type = <<ContentMappings[e]>>
        /\ type # <<>> => \E e \in DOMAIN ContentMappings : Extension(file) = <<e>>
    <3>1. PICK body : body = Files[file]
      OBVIOUS
    <3>2. PICK headers : headers = Append(ContentType(file), LengthField(body))
      OBVIOUS
    <3>3. /\ \A e \in DOMAIN ContentMappings :
               Extension(file) = <<e>> => get_header(headers, <<"Content-Type">>) = <<ContentMappings[e]>>
          /\ get_header(headers, <<"Content-Type">>) # <<>> =>
               \E e \in DOMAIN ContentMappings : Extension(file) = <<e>>
      <4>1. LET t == get_header(Append(ContentType(file), LengthField(body)), <<"Content-Type">>)
            IN  /\ \A e \in DOMAIN ContentMappings : Extension(file) = <<e>> => t = <<ContentMappings[e]>>
                /\ t # <<>> => \E e \in DOMAIN ContentMappings : Extension(file) = <<e>>
        BY TypeOfFile
      <4> QED BY <3>2, <4>1, Zenon
    <3>4. headers = response.headers
      BY <2>5, <3>1, <3>2, Zenon
    <3> QED BY <3>3, <3>4, Zenon
  <2>7. \A e \in DOMAIN ContentMappings : Extension(file) = <<e>> <=> Len(parts) > 1 /\ Last(parts) = <<e>>
    BY <2>3, <2>4, TypeOfName
  <2> HIDE DEF path, parts, type
  <2> QED BY <2>1, <2>4, <2>5, <2>6, <2>7, Zenon
<1>2. EInv /\ Served /\ [ExchangeNext]_exchangeVars => Served'
  BY ServedStep
<1> QED
  BY Invariance, Initially, ServedInitially, <1>1, <1>2, InvariantStep, PTL DEF ExchangeSpec

-----------------------------------------------------------------------------
\* What a handler is called with

\* What comes behind the blank line leaves alone what is before it.
LEMMA MoreBehind ==
  ASSUME NEW s \in Text, NEW u \in Text, FindIn(s, BlankLine) # 0, NEW both, both = Cat(s, u)
  PROVE  /\ both \in Text /\ FindIn(both, BlankLine) # 0
         /\ Lines(both) = Lines(s) /\ BodyOf(both) = Cat(BodyOf(s), u)
<1>1. /\ both \in Text /\ Len(both) = Len(s) + Len(u) /\ Len(s) \in Nat /\ Len(u) \in Nat
      /\ \A k \in 1..Len(s) : both[k] = s[k]
  BY CatElements
<1>2. PICK m \in Nat, n \in Nat : m = Len(s) /\ n = Len(u) /\ Len(both) = m + n
  BY <1>1
<1>3. PICK blank \in Text : blank = BlankLine /\ Len(blank) = 4
  BY WordsAreTexts
<1>4. PICK end \in Nat \ {0} :
        /\ end = FindIn(s, blank) /\ end \in Occurrences(s, blank) /\ end + 4 <= m + 1
        /\ \A j \in Occurrences(s, blank) : end <= j
        /\ \A j \in 1..4 : s[end + j - 1] = blank[j]
  <2>1. /\ FindIn(s, blank) \in Nat
        /\ FindIn(s, blank) # 0 => /\ FindIn(s, blank) \in Occurrences(s, blank)
                                   /\ FindIn(s, blank) + Len(blank) <= Len(s) + 1
                                   /\ \A k \in Occurrences(s, blank) : FindIn(s, blank) <= k
    BY FindFirst
  <2>2. PICK end \in Nat \ {0} : end = FindIn(s, blank) /\ end \in Occurrences(s, blank)
    BY <1>3, <2>1
  <2>3. \A j \in 1..Len(blank) : s[end + j - 1] = blank[j]
    BY <2>2, OccurrenceTokens
  <2> QED BY <1>2, <1>3, <2>1, <2>2, <2>3
<1>5. end \in Occurrences(both, blank)
  <2>1. \A j \in 1..4 : both[end + j - 1] = blank[j]
    <3> TAKE j \in 1..4
    <3>1. end + j - 1 \in 1..m
      BY <1>4
    <3> QED BY <1>1, <1>2, <1>4, <3>1
  <2>2. end \in Nat /\ 1 <= end /\ end + 4 <= (m + n) + 1
    BY <1>4
  <2>3. end + Len(blank) <= Len(both) + 1 /\ \A j \in 1..Len(blank) : both[end + j - 1] = blank[j]
    BY <1>2, <1>3, <2>1, <2>2
  <2>4. PICK t \in Text : t = both
    BY <1>1
  <2>5. end + Len(blank) <= Len(t) + 1 /\ \A j \in 1..Len(blank) : t[end + j - 1] = blank[j]
    BY <2>3, <2>4
  <2>6. end \in Occurrences(t, blank)
    BY <2>2, <2>5, OccurrenceTokens
  <2> QED BY <2>4, <2>6
<1>6. FindIn(both, blank) = end
  <2>1. ASSUME NEW j \in Occurrences(both, blank)
        PROVE  end <= j
    <3>1. j \in Nat
      BY <1>1, OccurrenceTokens
    <3>2. ASSUME j < end
          PROVE  FALSE
      <4>1. j + Len(blank) <= Len(s) + 1
        BY <1>2, <1>3, <1>4, <3>1, <3>2
      <4>2. j \in Occurrences(Cat(s, u), blank)
        BY <2>1
      <4>3. j \in Occurrences(s, blank)
        BY <4>1, <4>2, OccurrenceBefore
      <4> QED BY <1>4, <3>1, <3>2, <4>3
    <3> QED BY <3>1, <3>2
  <2> QED BY <1>1, <1>5, <2>1, FoundFirst
<1>7. SubSeq(both, 1, end) = SubSeq(s, 1, end)
  <2>1. 1 \in 1..(m + 1) /\ end \in (1 - 1)..m /\ 1 \in 1..((m + n) + 1) /\ end \in (1 - 1)..(m + n)
    BY <1>4
  <2>2. /\ SubSeq(s, 1, end) \in Seq(Tokens) /\ Len(SubSeq(s, 1, end)) = end - 1 + 1
        /\ \A k \in 1..(end - 1 + 1) : SubSeq(s, 1, end)[k] = s[1 + k - 1]
    BY <1>2, <2>1, PartElements DEF Text
  <2>3. /\ SubSeq(both, 1, end) \in Seq(Tokens) /\ Len(SubSeq(both, 1, end)) = end - 1 + 1
        /\ \A k \in 1..(end - 1 + 1) : SubSeq(both, 1, end)[k] = both[1 + k - 1]
    BY <1>1, <1>2, <2>1, PartElements DEF Text
  <2>4. PICK a, b : a = SubSeq(s, 1, end) /\ b = SubSeq(both, 1, end)
    OBVIOUS
  <2>5. a \in Seq(Tokens) /\ b \in Seq(Tokens) /\ Len(a) = end /\ Len(b) = end
    BY <2>2, <2>3, <2>4
  <2>6. \A k \in 1..end : a[k] = b[k]
    <3> TAKE k \in 1..end
    <3>1. a[k] = s[1 + k - 1] /\ b[k] = both[1 + k - 1]
      BY <2>2, <2>3, <2>4
    <3>2. 1 + k - 1 = k /\ k \in 1..m
      BY <1>4
    <3> QED BY <1>1, <1>2, <3>1, <3>2
  <2>7. a = b
    BY <2>5, <2>6, SeqEqual
  <2> QED BY <2>4, <2>7
<1>8. Lines(both) = Lines(s)
  BY <1>3, <1>4, <1>6, <1>7, Zenon DEF Lines
<1>9. BodyOf(both) = Cat(BodyOf(s), u)
  <2>1. PICK before \in Text, body \in Text :
          body = BodyOf(s) /\ s = Cat(Cat(before, blank), body) /\ Len(body) = (m + 1) - (end + 4)
    <3>1. s = SubSeq(s, 1, end - 1) \o blank \o SubSeq(s, end + Len(blank), Len(s))
      BY <1>4, OccurrenceParts
    <3>2. /\ SubSeq(s, 1, end - 1) \in Text /\ SubSeq(s, end + Len(blank), Len(s)) \in Text
          /\ Len(SubSeq(s, end + Len(blank), Len(s))) = Len(s) + 1 - (end + Len(blank))
      BY <1>4, AroundOccurrence
    <3>3. BodyOf(s) = SubSeq(s, end + Len(blank), Len(s))
      BY <1>3, <1>4 DEF BodyOf
    <3>4. PICK before \in Text, body \in Text :
            before = SubSeq(s, 1, end - 1) /\ body = SubSeq(s, end + Len(blank), Len(s))
      BY <3>2
    <3>5. Len(body) = (m + 1) - (end + 4)
      BY <1>2, <1>3, <3>2, <3>4
    <3>6. s = Cat(Cat(before, blank), body)
      BY <3>1, <3>4, Zenon DEF Cat
    <3> QED BY <3>3, <3>4, <3>5, <3>6
  <2>2. PICK front \in Text, rest \in Text :
          rest = BodyOf(both) /\ both = Cat(Cat(front, blank), rest) /\ Len(rest) = ((m + n) + 1) - (end + 4)
    <3>1. both = SubSeq(both, 1, end - 1) \o blank \o SubSeq(both, end + Len(blank), Len(both))
      BY <1>1, <1>5, OccurrenceParts
    <3>2. /\ SubSeq(both, 1, end - 1) \in Text /\ SubSeq(both, end + Len(blank), Len(both)) \in Text
          /\ Len(SubSeq(both, end + Len(blank), Len(both))) = Len(both) + 1 - (end + Len(blank))
      BY <1>1, <1>5, AroundOccurrence
    <3>3. BodyOf(both) = SubSeq(both, end + Len(blank), Len(both))
      BY <1>3, <1>6 DEF BodyOf
    <3>4. PICK front \in Text, rest \in Text :
            front = SubSeq(both, 1, end - 1) /\ rest = SubSeq(both, end + Len(blank), Len(both))
      BY <3>2
    <3>5. Len(rest) = ((m + n) + 1) - (end + 4)
      BY <1>2, <1>3, <3>2, <3>4
    <3>6. both = Cat(Cat(front, blank), rest)
      BY <3>1, <3>4, Zenon DEF Cat
    <3> QED BY <3>3, <3>4, <3>5, <3>6
  <2>3. PICK x \in Text, y \in Text, more \in Text :
          x = Cat(before, blank) /\ y = Cat(front, blank) /\ more = Cat(body, u)
    BY CatsAssociate
  <2>4. Cat(x, more) = Cat(y, rest)
    <3>1. Cat(Cat(x, body), u) = Cat(x, Cat(body, u))
      BY CatsAssociate
    <3> QED BY <2>1, <2>2, <2>3, <3>1, Zenon
  <2>5. Len(more) = Len(rest)
    <3>1. Len(Cat(body, u)) = Len(body) + Len(u)
      BY CatElements
    <3>2. Len(more) = Len(body) + Len(u)
      BY <2>3, <3>1
    <3>3. Len(more) = ((m + 1) - (end + 4)) + n
      BY <1>2, <2>1, <3>2
    <3>4. Len(rest) = ((m + n) + 1) - (end + 4)
      BY <2>2
    <3>5. ((m + 1) - (end + 4)) + n = ((m + n) + 1) - (end + 4)
      OBVIOUS
    <3> QED BY <3>3, <3>4, <3>5
  <2>6. more = rest
    BY <2>4, <2>5, SameEnds
  <2> QED BY <2>1, <2>2, <2>3, <2>6
<1> QED
  BY <1>1, <1>3, <1>4, <1>6, <1>8, <1>9

\* It is a request, or it is not one, whatever comes behind.
LEMMA SameRequest ==
  ASSUME NEW s \in Text, NEW u \in Text, FindIn(s, BlankLine) # 0, NEW both, both = Cat(s, u)
  PROVE  /\ IsRequest(both) <=> IsRequest(s)
         /\ FirstLine(both) = FirstLine(s) /\ HeadersOf(both) = HeadersOf(s)
<1>1. both \in Text /\ FindIn(both, BlankLine) # 0 /\ Lines(both) = Lines(s)
  BY MoreBehind
<1>2. FirstLine(both) = FirstLine(s)
  BY <1>1, Zenon DEF FirstLine
<1>3. HeadersAreValid(both) <=> HeadersAreValid(s)
  BY <1>1, Zenon DEF HeadersAreValid
<1>4. HeadersOf(both) = HeadersOf(s)
  BY <1>1, Zenon DEF HeadersOf
<1> QED
  BY <1>1, <1>2, <1>3, <1>4, Zenon DEF IsRequest

Blank(w) == w \in {" ", CR, "\n"}

WordsOf(value) == {k \in 1..Len(value) : ~ Blank(value[k])}

\* A '\r' after the value of a header leaves the number in it alone.
LEMMA LengthMarked ==
  ASSUME NEW value \in Text, NEW marked, marked = Cat(value, <<CR>>)
  PROVE  /\ IsLength(marked) <=> IsLength(value)
         /\ IsLength(value) => LengthOf(marked) = LengthOf(value)
<1>1. PICK n \in Nat :
        /\ n = Len(value) /\ Len(marked) = n + 1 /\ marked \in Text
        /\ \A k \in 1..n : marked[k] = value[k]
        /\ marked[n + 1] = CR
  <2>1. PICK cr \in Text : cr = <<CR>> /\ Len(cr) = 1 /\ cr[1] = CR
    BY CRAlone
  <2>2. /\ Cat(value, cr) \in Text
        /\ Len(value) \in Nat /\ Len(Cat(value, cr)) = Len(value) + Len(cr)
        /\ \A k \in 1..Len(value) : Cat(value, cr)[k] = value[k]
        /\ \A k \in 1..Len(cr) : Cat(value, cr)[Len(value) + k] = cr[k]
    BY CatElements
  <2>3. 1 \in 1..Len(cr)
    BY <2>1
  <2>4. Cat(value, cr)[Len(value) + 1] = CR
    BY <2>1, <2>2, <2>3
  <2> QED BY <2>1, <2>2, <2>4
<1>2. Blank(CR)
  BY Zenon DEF Blank
<1>3. WordsOf(marked) = WordsOf(value)
  <2>1. ASSUME NEW k \in WordsOf(marked)
        PROVE  k \in WordsOf(value)
    <3>1. k \in 1..(n + 1) /\ ~ Blank(marked[k])
      BY <1>1 DEF WordsOf
    <3>2. k # n + 1
      BY <1>1, <1>2, <3>1
    <3>3. k \in 1..n
      BY <3>1, <3>2
    <3> QED BY <1>1, <3>1, <3>3 DEF WordsOf
  <2>2. ASSUME NEW k \in WordsOf(value)
        PROVE  k \in WordsOf(marked)
    <3>1. k \in 1..n /\ ~ Blank(value[k])
      BY <1>1 DEF WordsOf
    <3>2. k \in 1..(n + 1)
      BY <3>1
    <3> QED BY <1>1, <3>1, <3>2 DEF WordsOf
  <2> QED BY <2>1, <2>2
<1>4. \A v : FirstWord(v) = IF WordsOf(v) # {} THEN Min(WordsOf(v)) ELSE 0
  BY DEF FirstWord, SelectInSeq, WordsOf, Blank
<1>5. PICK first : first = FirstWord(value) /\ first = FirstWord(marked)
  BY <1>3, <1>4, Zenon
<1>6. first # 0 => first \in 1..n
  <2>1. WordsOf(value) \in SUBSET Nat /\ WordsOf(value) \subseteq 1..n
    BY <1>1 DEF WordsOf
  <2>2. WordsOf(value) # {} => Min(WordsOf(value)) \in WordsOf(value)
    BY <2>1, MinIsLeast
  <2> QED BY <1>4, <1>5, <2>1, <2>2
<1>7. first # 0 => marked[first] = value[first]
  BY <1>1, <1>6
<1> QED
  BY <1>5, <1>7, Zenon DEF IsLength, LengthOf

\* No number, no length.
LEMMA NoLength == ~ IsLength(<<>>)
<1>1. WordsOf(<<>>) = {}
  BY DEF WordsOf
<1>2. FirstWord(<<>>) = IF WordsOf(<<>>) # {} THEN Min(WordsOf(<<>>)) ELSE 0
  BY DEF FirstWord, SelectInSeq, WordsOf, Blank
<1> QED
  BY <1>1, <1>2 DEF IsLength

\* The headers that a request is read with: those sent, the last with a '\r'.
Marked(read, headers) ==
  /\ read \in Seq(Fields) /\ headers \in Seq(Fields) /\ Len(read) = Len(headers)
  /\ \A k \in 1..Len(headers) :
       read[k] = IF k = Len(headers)
                 THEN Header(headers[k].key, Cat(headers[k].value, <<CR>>))
                 ELSE headers[k]

\* Both have the same number as the value of a header.
LEMMA NumberMarked ==
  ASSUME NEW read, NEW headers, Marked(read, headers), NEW key
  PROVE  /\ IsLength(get_header(read, key)) <=> IsLength(get_header(headers, key))
         /\ IsLength(get_header(headers, key)) =>
              LengthOf(get_header(read, key)) = LengthOf(get_header(headers, key))
<1>1. read \in Seq(Fields) /\ headers \in Seq(Fields) /\ Len(read) = Len(headers) /\ Len(headers) \in Nat
  BY DEF Marked
<1>2. \A k \in 1..Len(headers) :
        /\ read[k].key = headers[k].key
        /\ read[k].value = headers[k].value \/ read[k].value = Cat(headers[k].value, <<CR>>)
  <2> TAKE k \in 1..Len(headers)
  <2>1. CASE k = Len(headers)
    <3>1. PICK key1, value1 : key1 = headers[k].key /\ value1 = Cat(headers[k].value, <<CR>>)
      OBVIOUS
    <3>2. read[k] = Header(key1, value1)
      BY <2>1, <3>1, Zenon DEF Marked
    <3>3. Header(key1, value1).key = key1 /\ Header(key1, value1).value = value1
      BY DEF Header
    <3> QED BY <3>1, <3>2, <3>3
  <2>2. CASE k # Len(headers)
    BY <2>2 DEF Marked
  <2> QED BY <2>1, <2>2
<1>3. PICK p : p = KeyAt(headers, key) /\ p = KeyAt(read, key)
  <2>1. {k \in 1..Len(read) : read[k].key = key} = {k \in 1..Len(headers) : headers[k].key = key}
    BY <1>1, <1>2
  <2>2. \A hs : KeyAt(hs, key) = LET At == {k \in 1..Len(hs) : hs[k].key = key}
                                 IN  IF At # {} THEN Min(At) ELSE 0
    BY DEF KeyAt, SelectInSeq
  <2> QED BY <2>1, <2>2, Zenon
<1>4. /\ get_header(headers, key) = IF p = 0 THEN <<>> ELSE headers[p].value
      /\ get_header(read, key) = IF p = 0 THEN <<>> ELSE read[p].value
  BY <1>3 DEF get_header, KeyAt
<1>5. CASE p = 0
  BY <1>4, <1>5
<1>6. CASE p # 0
  <2>1. p \in 1..Len(headers)
    BY <1>1, <1>3, <1>6, KeyFound
  <2>2. PICK value \in Text : value = headers[p].value
    <3>1. headers[p] \in Fields
      BY <1>1, <2>1, ElementOfSeq
    <3> QED BY <3>1 DEF Fields
  <2>3. CASE read[p].value = headers[p].value
    BY <1>4, <1>6, <2>3
  <2>4. CASE read[p].value = Cat(headers[p].value, <<CR>>)
    <3>1. PICK marked : marked = Cat(value, <<CR>>)
      OBVIOUS
    <3>2. /\ IsLength(marked) <=> IsLength(value)
          /\ IsLength(value) => LengthOf(marked) = LengthOf(value)
      BY <3>1, LengthMarked
    <3>3. get_header(headers, key) = value /\ get_header(read, key) = marked
      BY <1>4, <1>6, <2>2, <2>4, <3>1
    <3> QED BY <3>2, <3>3, Zenon
  <2> QED BY <1>2, <2>1, <2>3, <2>4
<1> QED
  BY <1>5, <1>6

\* A '\r' at the end of a text lies in what follows a separator.
LEMMA MarkAtEnd ==
  ASSUME NEW head \in Text, NEW sep \in Text, sep # <<>>, sep[Len(sep)] # CR,
         NEW tail \in Text, NEW last \in Text,
         Cat(Cat(head, sep), tail) = Cat(last, <<CR>>)
  PROVE  /\ Front(tail) \in Text /\ tail = Cat(Front(tail), <<CR>>)
         /\ last = Cat(Cat(head, sep), Front(tail))
<1>1. PICK cr \in Text, c \in Tokens : cr = <<CR>> /\ Len(cr) = 1 /\ cr[1] = CR /\ c = CR
  BY CRAlone, TokensAssumption
<1>2. PICK both \in Text : both = Cat(head, sep) /\ Cat(both, tail) = Cat(last, <<c>>)
  BY <1>1, CatsAssociate
<1>3. tail # <<>>
  <2>1. ASSUME tail = <<>>
        PROVE  FALSE
    <3>1. Cat(head, sep) = Cat(last, <<c>>)
      BY <1>2, <2>1, EmptyText
    <3>2. PICK end \in Text : sep = Cat(end, <<c>>)
      BY <3>1, LastPart
    <3>3. sep = Cat(end, cr)
      BY <1>1, <3>2
    <3>4. Len(sep) = Len(end) + 1 /\ Len(end) \in Nat /\ sep[Len(end) + 1] = CR
      <4>1. /\ Len(end) \in Nat /\ Len(Cat(end, cr)) = Len(end) + Len(cr)
            /\ \A k \in 1..Len(cr) : Cat(end, cr)[Len(end) + k] = cr[k]
        BY CatElements
      <4>2. 1 \in 1..Len(cr)
        BY <1>1
      <4> QED BY <1>1, <3>3, <4>1, <4>2
    <3> QED BY <3>4
  <2> QED BY <2>1
<1>4. PICK end \in Text : tail = Cat(end, <<c>>) /\ last = Cat(both, end)
  BY <1>2, <1>3, LastPart
<1>5. Front(tail) = end
  <2>1. PICK one \in Text : one = <<c>> /\ Len(one) = 1
    BY OneToken
  <2>2. SubSeq(end \o one, 1, Len(end)) = end
    BY ConcatParts DEF Text
  <2>3. Len(Cat(end, one)) = Len(end) + Len(one) /\ Len(end) \in Nat
    BY CatElements
  <2>4. Len(tail) - 1 = Len(end)
    BY <1>4, <2>1, <2>3
  <2>5. tail = end \o one
    BY <1>4, <2>1 DEF Cat
  <2> QED BY <2>2, <2>4, <2>5, Zenon DEF Front
<1> QED
  BY <1>1, <1>2, <1>4, <1>5

\* A line of three words is these words with spaces between them.
LEMMA WordsJoined ==
  ASSUME NEW s \in Text, Len(Split(s, Space)) = 3
  PROVE  \E m \in Text, u \in Text, v \in Text :
           /\ m = Split(s, Space)[1] /\ u = Split(s, Space)[2] /\ v = Split(s, Space)[3]
           /\ s = ThreeWords(m, u, v)
<1>1. PICK sp \in Text : sp = Space /\ sp # <<>>
  BY WordsAreTexts
<1>2. \A t \in Text : /\ Split(t, sp) \in Seq(Text) /\ Len(Split(t, sp)) \in Nat \ {0}
                      /\ Len(Split(t, sp)) # 1 =>
                           \E first \in Text, rest \in Text :
                             /\ t = Cat(first, Cat(sp, rest)) /\ Split(t, sp) = <<first>> \o Split(rest, sp)
                      /\ Len(Split(t, sp)) = 1 => Split(t, sp)[1] = t
  <2> SUFFICES ASSUME NEW t \in Text
               PROVE  /\ Split(t, sp) \in Seq(Text) /\ Len(Split(t, sp)) \in Nat \ {0}
                      /\ Len(Split(t, sp)) # 1 =>
                           \E first \in Text, rest \in Text :
                             /\ t = Cat(first, Cat(sp, rest)) /\ Split(t, sp) = <<first>> \o Split(rest, sp)
                      /\ Len(Split(t, sp)) = 1 => Split(t, sp)[1] = t
    OBVIOUS
  <2>1. Split(t, sp) \in Seq(Text) /\ Len(Split(t, sp)) \in Nat \ {0}
    BY <1>1, SplitType
  <2>2. CASE FindIn(t, sp) = 0
    <3>1. Split(t, sp) = <<t>>
      BY <1>1, <2>2, SplitUnfold
    <3> QED BY <2>1, <3>1
  <2>3. CASE FindIn(t, sp) # 0
    <3>1. PICK first \in Text, rest \in Text :
            /\ first = SubSeq(t, 1, FindIn(t, sp) - 1) /\ Len(first) = FindIn(t, sp) - 1
            /\ rest = Rest(t, sp)
            /\ t = first \o sp \o rest
            /\ Len(t) \in Nat /\ Len(rest) \in Nat /\ Len(rest) < Len(t)
            /\ Occurrences(first, sp) = {}
            /\ Split(t, sp) = <<first>> \o Split(rest, sp)
      BY <1>1, <2>3, SplitFirst, Zenon
    <3>2. Cat(Cat(first, sp), rest) = Cat(first, Cat(sp, rest))
      BY CatsAssociate
    <3>3. t = Cat(first, Cat(sp, rest))
      BY <3>1, <3>2, Zenon DEF Cat
    <3>4. Len(Split(t, sp)) # 1
      <4>1. Split(rest, sp) \in Seq(Text) /\ Len(Split(rest, sp)) \in Nat \ {0}
        BY <1>1, SplitType
      <4>2. Len(<<first>> \o Split(rest, sp)) = Len(Split(rest, sp)) + 1
        BY <4>1, ConsElements
      <4> QED BY <3>1, <4>1, <4>2
    <3> QED BY <2>1, <3>1, <3>3, <3>4
  <2> QED BY <2>2, <2>3
<1>3. PICK m \in Text, t \in Text : s = Cat(m, Cat(sp, t)) /\ Split(s, sp) = <<m>> \o Split(t, sp)
  <2>1. Len(Split(s, sp)) # 1
    BY <1>1
  <2>2. \E m \in Text, t \in Text : s = Cat(m, Cat(sp, t)) /\ Split(s, sp) = <<m>> \o Split(t, sp)
    BY <1>2, <2>1, Zenon
  <2> QED BY <2>2, Zenon
<1>4. PICK words \in Seq(Text) :
        /\ words = Split(t, sp) /\ Len(words) = 2
        /\ Split(s, sp)[1] = m /\ Split(s, sp)[2] = words[1] /\ Split(s, sp)[3] = words[2]
  <2>1. PICK words \in Seq(Text) : words = Split(t, sp)
    BY <1>2
  <2>2. /\ Len(words) \in Nat /\ Len(<<m>> \o words) = Len(words) + 1
        /\ (<<m>> \o words)[1] = m /\ \A j \in 1..Len(words) : (<<m>> \o words)[j + 1] = words[j]
    BY ConsElements
  <2>3. Len(words) = 2
    <3>1. PICK n \in Nat : n = Len(words) /\ Len(<<m>> \o words) = n + 1
      BY <2>2
    <3>2. n + 1 = 3
      BY <1>1, <1>3, <2>1, <3>1, Zenon
    <3> QED BY <3>1, <3>2
  <2>4. (<<m>> \o words)[2] = words[1] /\ (<<m>> \o words)[3] = words[2]
    <3>1. 1 \in 1..Len(words) /\ 2 \in 1..Len(words) /\ 1 + 1 = 2 /\ 2 + 1 = 3
      BY <2>3
    <3> QED BY <2>2, <3>1
  <2> QED BY <1>3, <2>1, <2>2, <2>3, <2>4
<1>5. PICK u \in Text, v \in Text : t = Cat(u, Cat(sp, v)) /\ Split(t, sp) = <<u>> \o Split(v, sp)
  <2>1. Len(Split(t, sp)) # 1
    BY <1>4
  <2>2. \E u \in Text, v \in Text : t = Cat(u, Cat(sp, v)) /\ Split(t, sp) = <<u>> \o Split(v, sp)
    BY <1>2, <2>1, Zenon
  <2> QED BY <2>2, Zenon
<1>6. words[1] = u /\ words[2] = v
  <2>1. PICK last \in Seq(Text) : last = Split(v, sp)
    BY <1>2
  <2>2. /\ Len(last) \in Nat /\ Len(<<u>> \o last) = Len(last) + 1
        /\ (<<u>> \o last)[1] = u /\ \A j \in 1..Len(last) : (<<u>> \o last)[j + 1] = last[j]
    BY ConsElements
  <2>3. Len(last) = 1
    <3>1. <<u>> \o last = words
      BY <1>4, <1>5, <2>1, Zenon
    <3>2. Len(<<u>> \o last) = 2
      BY <1>4, <3>1, Zenon
    <3> QED BY <2>2, <3>2
  <2>4. last[1] = v
    BY <1>2, <2>1, <2>3
  <2>5. (<<u>> \o last)[2] = last[1]
    <3>1. 1 \in 1..Len(last) /\ 1 + 1 = 2
      BY <2>3
    <3> QED BY <2>2, <3>1
  <2> QED BY <1>4, <1>5, <2>1, <2>2, <2>4, <2>5
<1>7. s = ThreeWords(m, u, v)
  BY <1>1, <1>3, <1>5, Zenon DEF ThreeWords
<1> QED
  BY <1>1, <1>4, <1>6, <1>7

\* The head of a request, with a body behind it.
LEMMA HeadOfMessage ==
  ASSUME NEW r \in Requests, NEW b \in Text
  PROVE  /\ HeadText(r) \in Text
         /\ Cat(HeadText(r), b) = Message(ThreeWords(r.method, r.uri, r.version), r.headers, b)
<1>1. PICK m \in Text, u \in Text, v \in Text, h \in Text, sp \in Text, nl \in Text :
        /\ m = r.method /\ u = r.uri /\ v = r.version
        /\ h = HeaderText(r.headers) /\ sp = Space /\ nl = CRLF
  <2>1. r.headers \in Seq(Fields)
    BY DEF Requests
  <2>2. HeaderText(r.headers) \in Text
    BY <2>1, HeaderTextType
  <2>3. r.method \in Text /\ r.uri \in Text /\ r.version \in Text
    BY DEF Requests
  <2> QED BY <2>2, <2>3, WordsAreTexts
<1>2. PICK m1 \in Text : m1 = Cat(m, sp)
  BY CatElements
<1>3. PICK m2 \in Text : m2 = Cat(m1, u)
  BY CatElements
<1>4. PICK m3 \in Text : m3 = Cat(m2, sp)
  BY CatElements
<1>5. PICK line \in Text : line = Cat(m3, v)
  BY CatElements
<1>6. PICK ended \in Text : ended = Cat(line, nl)
  BY CatElements
<1>7. PICK head \in Text : head = Cat(ended, h)
  BY CatElements
<1>8. PICK blank \in Text : blank = Cat(head, nl)
  BY CatElements
<1>9. HeadText(r) = blank
  BY <1>1, <1>2, <1>3, <1>4, <1>5, <1>6, <1>7, <1>8, Zenon DEF HeadText, Cat
<1>10. PICK others \in Text : others = Cat(nl, b)
  BY CatElements
<1>11. Cat(blank, b) = Cat(ended, Cat(h, others))
  <2>1. Cat(Cat(head, nl), b) = Cat(head, others)
    BY <1>10, CatsAssociate
  <2>2. Cat(Cat(ended, h), others) = Cat(ended, Cat(h, others))
    BY CatsAssociate
  <2> QED BY <1>7, <1>8, <2>1, <2>2
<1>12. line = ThreeWords(m, u, v)
  <2>1. PICK spv \in Text : spv = Cat(sp, v)
    BY CatElements
  <2>2. PICK uspv \in Text : uspv = Cat(u, spv)
    BY CatElements
  <2>3. Cat(Cat(m2, sp), v) = Cat(m2, spv)
    BY <2>1, CatsAssociate
  <2>4. Cat(Cat(m1, u), spv) = Cat(m1, uspv)
    BY <2>2, CatsAssociate
  <2>5. Cat(Cat(m, sp), uspv) = Cat(m, Cat(sp, uspv))
    BY CatsAssociate
  <2> QED BY <1>1, <1>2, <1>3, <1>4, <1>5, <2>1, <2>2, <2>3, <2>4, <2>5 DEF ThreeWords
<1> QED
  BY <1>1, <1>6, <1>8, <1>9, <1>10, <1>11, <1>12 DEF Message

\* AsSent, field by field.
LEMMA AsSentBare ==
  ASSUME NEW r \in Requests, r.headers = <<>>, Front(r.version) \in Text
  PROVE  /\ AsSent(r) \in Requests
         /\ AsSent(r).method = r.method /\ AsSent(r).uri = r.uri /\ AsSent(r).body = r.body
         /\ AsSent(r).headers = <<>> /\ AsSent(r).version = Front(r.version)
<1>1. PICK v \in Text : v = Front(r.version)
  OBVIOUS
<1>2. AsSent(r) = [r EXCEPT !.version = v]
  BY <1>1, Zenon DEF AsSent
<1>3. PICK s : s = [r EXCEPT !.version = v]
  OBVIOUS
<1>4. s \in Requests /\ s.method = r.method /\ s.uri = r.uri /\ s.body = r.body
      /\ s.headers = r.headers /\ s.version = v
  BY <1>3 DEF Requests
<1> QED
  BY <1>1, <1>2, <1>3, <1>4

LEMMA AsSentHeaders ==
  ASSUME NEW r \in Requests, NEW n \in Nat \ {0}, Len(r.headers) = n, Front(r.headers[n].value) \in Text
  PROVE  /\ AsSent(r) \in Requests
         /\ AsSent(r).method = r.method /\ AsSent(r).uri = r.uri /\ AsSent(r).body = r.body
         /\ AsSent(r).version = r.version
         /\ AsSent(r).headers \in Seq(Fields) /\ Len(AsSent(r).headers) = n
         /\ \A k \in 1..n : AsSent(r).headers[k] =
              IF k = n THEN Header(r.headers[n].key, Front(r.headers[n].value)) ELSE r.headers[k]
<1>1. PICK read \in Seq(Fields), last \in Fields, value \in Text :
        /\ read = r.headers /\ Len(read) = n /\ last = read[n] /\ value = Front(last.value)
  <2>1. r.headers \in Seq(Fields)
    BY DEF Requests
  <2>2. r.headers[n] \in Fields
    BY <2>1, ElementOfSeq
  <2> QED BY <2>1, <2>2
<1>2. PICK field \in Fields : field = [last EXCEPT !.value = value] /\ field = Header(last.key, value)
  <2>1. [last EXCEPT !.value = value] = [key |-> last.key, value |-> value]
    BY DEF Fields
  <2>2. [key |-> last.key, value |-> value] \in Fields
    BY DEF Fields
  <2> QED BY <2>1, <2>2, Zenon DEF Header
<1>3. PICK headers : headers = [read EXCEPT ![n] = field]
  OBVIOUS
<1>4. headers \in Seq(Fields) /\ Len(headers) = n
      /\ \A k \in 1..n : headers[k] = IF k = n THEN field ELSE read[k]
  BY <1>1, <1>3, ExceptSeq
<1>5. AsSent(r) = [r EXCEPT !.headers = headers]
  <2>1. r.headers # <<>>
    BY <1>1, EmptySeq
  <2>2. AsSent(r) = [r EXCEPT !.headers[Len(r.headers)].value = Front(@)]
    BY <2>1, Zenon DEF AsSent
  <2>3. [read EXCEPT ![n].value = value] = [read EXCEPT ![n] = field]
    BY <1>1, <1>2
  <2>4. [r EXCEPT !.headers[Len(r.headers)].value = Front(@)] = [r EXCEPT !.headers = [read EXCEPT ![n].value = value]]
    BY <1>1
  <2> QED BY <1>3, <2>2, <2>3, <2>4
<1>6. PICK s : s = [r EXCEPT !.headers = headers]
  OBVIOUS
<1>7. s \in Requests /\ s.method = r.method /\ s.uri = r.uri /\ s.body = r.body
      /\ s.version = r.version /\ s.headers = headers
  BY <1>4, <1>6 DEF Requests
<1> QED
  BY <1>1, <1>2, <1>4, <1>5, <1>6, <1>7

\* The '\r' of the blank line is at the end of the version, or of the last
\* header; what was sent is without it.
LEMMA BareHead ==
  ASSUME NEW t \in Text, IsRequest(t), NEW r \in Requests, r = ParseRequest(t),
         NEW last \in Text, Lines(t) = <<Cat(last, <<CR>>)>>,
         t = Cat(Printed(<<last>>), Cat(CRLF, BodyOf(t)))
  PROVE  /\ AsSent(r) \in Requests
         /\ AsSent(r).method = r.method /\ AsSent(r).uri = r.uri /\ AsSent(r).body = r.body
         /\ r.headers = <<>> /\ AsSent(r).headers = <<>>
         /\ Plain(AsSent(r).version)
         /\ t = Cat(HeadText(AsSent(r)), BodyOf(t))
<1>1. PICK line \in Text, body \in Text, cr \in Text, sp \in Text, nl \in Text :
        /\ line = Cat(last, cr) /\ body = BodyOf(t)
        /\ cr = <<CR>> /\ sp = Space /\ nl = CRLF /\ sp # <<>> /\ Len(sp) = 1 /\ sp[1] # CR
  <2>1. BodyOf(t) \in Text
    BY BodyType
  <2>2. PICK cr \in Text : cr = <<CR>>
    BY CRAlone
  <2>3. Cat(last, cr) \in Text
    BY CatElements
  <2>4. Space[1] # CR
    BY DEF Space, CR
  <2> QED BY <2>1, <2>2, <2>3, <2>4, WordsAreTexts
<1>2. PICK m \in Text, u \in Text, v \in Text :
        /\ m = r.method /\ u = r.uri /\ v = r.version /\ line = ThreeWords(m, u, v)
  <2>1. FirstLine(t) = Split(line, Space)
    <3>1. Lines(t) = <<line>> /\ <<line>>[1] = line
      BY <1>1
    <3> QED BY <3>1 DEF FirstLine
  <2>2. Len(Split(line, Space)) = 3
    BY <2>1 DEF IsRequest
  <2>3. PICK m \in Text, u \in Text, v \in Text :
          /\ m = Split(line, Space)[1] /\ u = Split(line, Space)[2] /\ v = Split(line, Space)[3]
          /\ line = ThreeWords(m, u, v)
    BY <2>2, WordsJoined
  <2> QED BY <2>1, <2>3, FieldsOfParse
<1>3. PICK two \in Text, head \in Text :
        /\ two = Cat(sp, u) /\ head = Cat(m, two)
        /\ \A w \in Text : ThreeWords(m, u, w) = Cat(Cat(head, sp), w)
  <2>1. PICK two \in Text, head \in Text : two = Cat(sp, u) /\ head = Cat(m, two)
    BY CatElements
  <2>2. ASSUME NEW w \in Text
        PROVE  ThreeWords(m, u, w) = Cat(Cat(head, sp), w)
    <3>1. PICK spw \in Text : spw = Cat(sp, w)
      BY CatElements
    <3>2. PICK uspw \in Text : uspw = Cat(u, spw)
      BY CatElements
    <3>3. Cat(Cat(head, sp), w) = Cat(head, spw)
      BY <3>1, CatsAssociate
    <3>4. Cat(Cat(m, two), spw) = Cat(m, Cat(two, spw))
      BY CatsAssociate
    <3>5. Cat(Cat(sp, u), spw) = Cat(sp, Cat(u, spw))
      BY CatsAssociate
    <3>6. ThreeWords(m, u, w) = Cat(m, Cat(sp, uspw))
      BY <1>1, <3>1, <3>2 DEF ThreeWords
    <3> QED BY <2>1, <3>2, <3>3, <3>4, <3>5, <3>6, Zenon
  <2> QED BY <2>1, <2>2
<1>4. PICK w \in Text : w = Front(v) /\ v = Cat(w, cr) /\ last = ThreeWords(m, u, w)
  <2>1. Cat(Cat(head, sp), v) = Cat(last, <<CR>>)
    BY <1>1, <1>2, <1>3, Zenon
  <2>2. sp[Len(sp)] # CR
    BY <1>1
  <2>3. /\ Front(v) \in Text /\ v = Cat(Front(v), <<CR>>)
        /\ last = Cat(Cat(head, sp), Front(v))
    BY <1>1, <2>1, <2>2, MarkAtEnd
  <2> QED BY <1>1, <1>3, <2>3
<1>5. r.headers = <<>>
  <2>1. /\ HeadersOf(t) \in Seq(Fields) /\ Len(HeadersOf(t)) = Len(Lines(t)) - 1
    BY HeadersType
  <2>2. Len(HeadersOf(t)) = 0
    BY <1>1, <2>1
  <2>3. HeadersOf(t) = <<>>
    BY <2>1, <2>2, EmptySeq
  <2> QED BY <2>3, FieldsOfParse
<1>6. PICK s \in Requests :
        /\ s = AsSent(r) /\ s.method = m /\ s.uri = u /\ s.version = w
        /\ s.headers = <<>> /\ s.body = r.body
  BY <1>2, <1>4, <1>5, AsSentBare
<1>7. Plain(w)
  <2>1. Plain(v)
    <3>1. Readable(r)
      BY ParseIsReadable
    <3> QED BY <1>2, <3>1, Zenon DEF Readable
  <2>2. \A sep \in Text : Occurrences(v, sep) = {} => Occurrences(w, sep) = {}
    BY <1>1, <1>4, NoneInside
  <2> QED BY <2>1, <2>2, PlainParts, WordsAreTexts
<1>8. t = Cat(HeadText(s), body)
  <2>1. Cat(HeadText(s), body) = Message(last, <<>>, body)
    <3>1. Cat(HeadText(s), body) = Message(ThreeWords(s.method, s.uri, s.version), s.headers, body)
      BY HeadOfMessage
    <3> QED BY <1>4, <1>6, <3>1, Zenon
  <2>2. PICK ended \in Text, end \in Text : ended = Cat(last, nl) /\ end = Cat(nl, body)
    BY CatElements
  <2>3. Message(last, <<>>, body) = Cat(ended, end)
    <3>1. HeaderText(<<>>) = <<>>
      BY NoHeaders
    <3>2. Cat(<<>>, end) = end
      BY EmptyText
    <3> QED BY <1>1, <2>2, <3>1, <3>2, Zenon DEF Message
  <2>4. Printed(<<last>>) = ended
    <3>1. PICK none \in Seq(Text) : none = <<>> /\ <<last>> \o none = <<last>>
      <4>1. <<last>> \in Seq(Text) /\ <<>> \in Seq(Text)
        BY EmptySeq
      <4>2. <<last>> \o <<>> = <<last>>
        BY <4>1, ConcatEmptySeq
      <4> QED BY <4>1, <4>2
    <3>2. Printed(<<last>> \o none) = Cat(Cat(last, CRLF), Printed(none))
      BY PrintedCons
    <3>3. Cat(ended, <<>>) = ended
      BY EmptyText
    <3> QED BY <1>1, <2>2, <3>1, <3>2, <3>3, PrintedEmpty, Zenon
  <2> QED BY <1>1, <2>1, <2>2, <2>3, <2>4, Zenon
<1> QED
  BY <1>1, <1>2, <1>5, <1>6, <1>7, <1>8

LEMMA AppendBehind ==
  ASSUME NEW x \in Text, NEW more \in Seq(Text), NEW y \in Text
  PROVE  Append(<<x>> \o more, y) = <<x>> \o Append(more, y)
<1>1. PICK both \in Seq(Text), longer \in Seq(Text), n \in Nat :
        /\ both = <<x>> \o more /\ longer = Append(more, y)
        /\ n = Len(more) /\ Len(both) = n + 1 /\ Len(longer) = n + 1
        /\ both[1] = x /\ \A k \in 1..n : both[k + 1] = more[k] /\ longer[k] = more[k]
        /\ longer[n + 1] = y
  <2>1. /\ <<x>> \o more \in Seq(Text) /\ Len(more) \in Nat
        /\ Len(<<x>> \o more) = Len(more) + 1 /\ (<<x>> \o more)[1] = x
        /\ \A j \in 1..Len(more) : (<<x>> \o more)[j + 1] = more[j]
    BY ConsElements
  <2>2. /\ Append(more, y) \in Seq(Text) /\ Len(Append(more, y)) = Len(more) + 1
        /\ \A k \in 1..Len(more) : Append(more, y)[k] = more[k]
        /\ Append(more, y)[Len(more) + 1] = y
    BY AppendProperties
  <2>3. PICK both \in Seq(Text), longer \in Seq(Text), n \in Nat :
          both = <<x>> \o more /\ longer = Append(more, y) /\ n = Len(more)
    BY <2>1, <2>2, Zenon
  <2>4. Len(both) = n + 1 /\ both[1] = x /\ \A k \in 1..n : both[k + 1] = more[k]
    BY <2>1, <2>3, Zenon
  <2>5. Len(longer) = n + 1 /\ longer[n + 1] = y /\ \A k \in 1..n : longer[k] = more[k]
    BY <2>2, <2>3, Zenon
  <2> QED BY <2>3, <2>4, <2>5, Zenon
<1>2. PICK a \in Seq(Text), b \in Seq(Text) :
        /\ a = Append(both, y) /\ b = <<x>> \o longer
        /\ Len(a) = (n + 1) + 1 /\ Len(b) = (n + 1) + 1
        /\ \A k \in 1..(n + 1) : a[k] = both[k] /\ b[k + 1] = longer[k]
        /\ a[(n + 1) + 1] = y /\ b[1] = x
  <2>1. /\ <<x>> \o longer \in Seq(Text)
        /\ Len(<<x>> \o longer) = Len(longer) + 1 /\ (<<x>> \o longer)[1] = x
        /\ \A j \in 1..Len(longer) : (<<x>> \o longer)[j + 1] = longer[j]
    BY ConsElements
  <2>2. /\ Append(both, y) \in Seq(Text) /\ Len(Append(both, y)) = Len(both) + 1
        /\ \A k \in 1..Len(both) : Append(both, y)[k] = both[k]
        /\ Append(both, y)[Len(both) + 1] = y
    BY AppendProperties
  <2>3. PICK a \in Seq(Text), b \in Seq(Text) : a = Append(both, y) /\ b = <<x>> \o longer
    BY <2>1, <2>2, Zenon
  <2>4. Len(b) = (n + 1) + 1 /\ b[1] = x /\ \A k \in 1..(n + 1) : b[k + 1] = longer[k]
    BY <1>1, <2>1, <2>3, Zenon
  <2>5. Len(a) = (n + 1) + 1 /\ a[(n + 1) + 1] = y /\ \A k \in 1..(n + 1) : a[k] = both[k]
    BY <1>1, <2>2, <2>3, Zenon
  <2> QED BY <2>3, <2>4, <2>5, Zenon
<1>3. \A k \in 1..((n + 1) + 1) : a[k] = b[k]
  <2> TAKE k \in 1..((n + 1) + 1)
  <2>1. CASE k = 1
    BY <1>1, <1>2, <2>1
  <2>2. CASE k = (n + 1) + 1
    BY <1>1, <1>2, <2>2
  <2>3. CASE k # 1 /\ k # (n + 1) + 1
    <3>1. PICK j \in 1..n : k = j + 1 /\ j \in 1..(n + 1) /\ j + 1 \in 1..(n + 1)
      BY <2>3
    <3> QED BY <1>1, <1>2, <3>1
  <2> QED BY <2>1, <2>2, <2>3
<1> QED
  BY <1>1, <1>2, <1>3, SeqEqual

\* The lines of a message, the last less a '\r', and what they make.
TakenApart(t, front, last) ==
  /\ Lines(t) = Append(front, Cat(last, <<CR>>))
  /\ t = Cat(Printed(Append(front, last)), Cat(CRLF, BodyOf(t)))

LEMMA FullHead ==
  ASSUME NEW t \in Text, IsRequest(t), NEW r \in Requests, r = ParseRequest(t),
         NEW line \in Text, NEW more \in Seq(Text), NEW last \in Text, Occurrences(last, CRLF) = {},
         NEW front \in Seq(Text), front = <<line>> \o more, TakenApart(t, front, last)
  PROVE  /\ AsSent(r) \in Requests
         /\ AsSent(r).method = r.method /\ AsSent(r).uri = r.uri /\ AsSent(r).body = r.body
         /\ AsSent(r).version = r.version
         /\ Clean(AsSent(r).headers) /\ Marked(r.headers, AsSent(r).headers)
         /\ t = Cat(HeadText(AsSent(r)), BodyOf(t))
<1>0. /\ Lines(t) = Append(<<line>> \o more, Cat(last, <<CR>>))
      /\ t = Cat(Printed(Append(<<line>> \o more, last)), Cat(CRLF, BodyOf(t)))
  BY Zenon DEF TakenApart
<1>1. PICK marked \in Text, body \in Text, cr \in Text, colon \in Text, nl \in Text :
        /\ marked = Cat(last, cr) /\ body = BodyOf(t)
        /\ cr = <<CR>> /\ colon = ColonSpace /\ nl = CRLF
        /\ colon # <<>> /\ Len(colon) = 2 /\ colon[2] # CR
  <2>1. BodyOf(t) \in Text
    BY BodyType
  <2>2. PICK cr \in Text : cr = <<CR>>
    BY CRAlone
  <2>3. Cat(last, cr) \in Text
    BY CatElements
  <2> QED BY <2>1, <2>2, <2>3, WordsAreTexts, SeparatorsUnbroken
<1>12. ASSUME NEW key \in Text, NEW all \in Text, Cat(Cat(key, colon), all) = Cat(last, <<CR>>)
       PROVE  /\ Front(all) \in Text /\ all = Cat(Front(all), <<CR>>)
              /\ last = Cat(Cat(key, colon), Front(all))
  <2>1. colon # <<>> /\ colon[Len(colon)] # CR
    BY <1>1
  <2> QED BY <1>12, <2>1, MarkAtEnd
<1>2. PICK m \in Text, u \in Text, v \in Text :
        /\ m = r.method /\ u = r.uri /\ v = r.version /\ line = ThreeWords(m, u, v)
  <2>1. FirstLine(t) = Split(line, Space)
    <3>1. HeadersAreValid(t)
      BY DEF IsRequest
    <3>2. Lines(t)[1] = line
      BY <1>0, <1>1, <3>1, HeadersAreLines
    <3> QED BY <3>2 DEF FirstLine
  <2>2. Len(Split(line, Space)) = 3
    BY <2>1 DEF IsRequest
  <2>3. PICK m \in Text, u \in Text, v \in Text :
          /\ m = Split(line, Space)[1] /\ u = Split(line, Space)[2] /\ v = Split(line, Space)[3]
          /\ line = ThreeWords(m, u, v)
    BY <2>2, WordsJoined
  <2> QED BY <2>1, <2>3, FieldsOfParse
<1>3. PICK n \in Nat, p \in Nat \ {0}, read \in Seq(Fields) :
        /\ n = Len(more) /\ p = n + 1 /\ read = r.headers /\ Len(read) = p
        /\ \A k \in 1..n : LineOf(read[k]) = more[k]
        /\ LineOf(read[p]) = marked
  <2>1. HeadersAreValid(t)
    BY DEF IsRequest
  <2>2. /\ HeadersOf(t) \in Seq(Fields) /\ Len(HeadersOf(t)) = Len(more) + 1 /\ Len(more) \in Nat
        /\ \A k \in 1..Len(more) : LineOf(HeadersOf(t)[k]) = more[k]
        /\ LineOf(HeadersOf(t)[Len(more) + 1]) = marked
    BY <1>0, <1>1, <2>1, HeadersAreLines
  <2>3. PICK read \in Seq(Fields) : read = HeadersOf(t) /\ read = r.headers
    BY <2>2, FieldsOfParse
  <2>4. PICK n \in Nat, p \in Nat \ {0} : n = Len(more) /\ p = n + 1
    BY <2>2
  <2>5. Len(read) = p /\ \A k \in 1..n : LineOf(read[k]) = more[k]
    BY <2>2, <2>3, <2>4, Zenon
  <2>6. LineOf(read[p]) = marked
    BY <2>2, <2>3, <2>4, Zenon
  <2> QED BY <2>3, <2>4, <2>5, <2>6
<1>4. Clean(read)
  BY <1>3, ParseIsReadable, Zenon DEF Readable
<1>5. PICK h \in Fields : h = read[p] /\ h.key \in Text /\ h.value \in Text
  <2>1. read[p] \in Fields
    BY <1>3, ElementOfSeq
  <2> QED BY <2>1, LineType
<1>6. PICK value \in Text, field \in Fields :
        /\ value = Front(h.value) /\ h.value = Cat(value, cr)
        /\ field = Header(h.key, value) /\ field.key = h.key /\ field.value = value
        /\ LineOf(field) = last
  <2>1. Cat(Cat(h.key, colon), h.value) = Cat(last, <<CR>>)
    BY <1>1, <1>3, <1>5, Zenon DEF LineOf
  <2>3. /\ Front(h.value) \in Text /\ h.value = Cat(Front(h.value), <<CR>>)
        /\ last = Cat(Cat(h.key, colon), Front(h.value))
    BY <1>5, <1>12, <2>1, Zenon
  <2>4. PICK value \in Text : value = Front(h.value)
    BY <2>3
  <2>5. /\ Header(h.key, value) \in Fields
        /\ Header(h.key, value).key = h.key /\ Header(h.key, value).value = value
    BY <1>5 DEF Header, Fields
  <2>6. LineOf(Header(h.key, value)) = last
    BY <1>1, <2>3, <2>4, <2>5, Zenon DEF LineOf
  <2> QED BY <1>1, <2>3, <2>4, <2>5, <2>6
<1>7. PICK s \in Requests, headers \in Seq(Fields) :
        /\ s = AsSent(r) /\ s.method = m /\ s.uri = u /\ s.version = v /\ s.body = r.body
        /\ headers = s.headers /\ Len(headers) = p
        /\ \A k \in 1..p : headers[k] = IF k = p THEN field ELSE read[k]
  <2>1. Len(r.headers) = p /\ Front(r.headers[p].value) \in Text
    BY <1>3, <1>5, <1>6
  <2>2. /\ AsSent(r) \in Requests
        /\ AsSent(r).method = r.method /\ AsSent(r).uri = r.uri /\ AsSent(r).body = r.body
        /\ AsSent(r).version = r.version
        /\ AsSent(r).headers \in Seq(Fields) /\ Len(AsSent(r).headers) = p
        /\ \A k \in 1..p : AsSent(r).headers[k] =
             IF k = p THEN Header(r.headers[p].key, Front(r.headers[p].value)) ELSE r.headers[k]
    BY <2>1, AsSentHeaders
  <2>3. Header(r.headers[p].key, Front(r.headers[p].value)) = field
    BY <1>3, <1>5, <1>6
  <2> QED BY <1>2, <1>3, <2>2, <2>3
<1>8. Marked(read, headers)
  <2>1. ASSUME NEW k \in 1..Len(headers)
        PROVE  read[k] = IF k = Len(headers)
                         THEN Header(headers[k].key, Cat(headers[k].value, <<CR>>))
                         ELSE headers[k]
    <3>1. CASE k = p
      <4>1. headers[k] = field
        BY <1>7, <3>1
      <4>2. h = Header(h.key, h.value)
        BY <1>5 DEF Fields, Header
      <4>3. Header(field.key, Cat(field.value, <<CR>>)) = h
        BY <1>1, <1>6, <4>2, Zenon
      <4> QED BY <1>5, <1>7, <3>1, <4>1, <4>3, Zenon
    <3>2. CASE k # p
      BY <1>7, <3>2
    <3> QED BY <3>1, <3>2
  <2>2. Len(read) = Len(headers)
    BY <1>3, <1>7
  <2> QED BY <2>1, <2>2 DEF Marked
<1>9. Clean(headers)
  <2>1. ASSUME NEW k \in 1..Len(headers)
        PROVE  Occurrences(headers[k].key, ColonSpace) = {} /\ Occurrences(LineOf(headers[k]), CRLF) = {}
    <3>1. k \in 1..Len(read)
      BY <1>3, <1>7
    <3>2. Occurrences(read[k].key, ColonSpace) = {} /\ Occurrences(LineOf(read[k]), CRLF) = {}
      BY <1>4, <3>1 DEF Clean
    <3>3. CASE k = p
      <4>1. headers[k] = field /\ read[k].key = field.key
        BY <1>5, <1>6, <1>7, <3>3
      <4> QED BY <1>6, <3>2, <4>1
    <3>4. CASE k # p
      <4>1. headers[k] = read[k]
        BY <1>7, <3>4
      <4> QED BY <3>2, <4>1
    <3> QED BY <3>3, <3>4
  <2> QED BY <2>1 DEF Clean
<1>10. PICK rows \in Seq(Text) :
         /\ rows = Append(more, last) /\ HeaderText(headers) = Printed(rows)
  <2>1. PICK rows \in Seq(Text) :
          /\ rows = Append(more, last) /\ Len(rows) = p /\ rows[p] = last
          /\ \A k \in 1..n : rows[k] = more[k]
    <3>1. /\ Append(more, last) \in Seq(Text) /\ Len(Append(more, last)) = Len(more) + 1
          /\ Append(more, last)[Len(more) + 1] = last
          /\ \A k \in 1..Len(more) : Append(more, last)[k] = more[k]
      BY AppendProperties
    <3> QED BY <1>3, <3>1
  <2>2. PICK printed \in Seq(Text) :
          /\ printed = HeaderLines(headers) /\ Len(printed) = p
          /\ \A k \in 1..p : printed[k] = LineOf(headers[k])
          /\ HeaderText(headers) = Printed(printed)
    <3>1. /\ HeaderLines(headers) \in Seq(Text)
          /\ Len(HeaderLines(headers)) = Len(headers)
          /\ \A k \in 1..Len(headers) : HeaderLines(headers)[k] = LineOf(headers[k])
          /\ HeaderText(headers) = Printed(HeaderLines(headers))
      BY HeadersPrinted
    <3> QED BY <1>7, <3>1, Zenon
  <2>3. ASSUME NEW k \in 1..p
        PROVE  printed[k] = rows[k]
    <3>1. CASE k = p
      BY <1>6, <1>7, <2>1, <2>2, <3>1
    <3>2. CASE k # p
      <4>1. k \in 1..n
        BY <1>3, <3>2
      <4>2. headers[k] = read[k]
        BY <1>7, <3>2
      <4> QED BY <1>3, <2>1, <2>2, <4>1, <4>2
    <3> QED BY <3>1, <3>2
  <2>4. printed = rows
    BY <2>1, <2>2, <2>3, SeqEqual
  <2> QED BY <2>1, <2>2, <2>4
<1>11. t = Cat(HeadText(s), body)
  <2>1. Cat(HeadText(s), body) = Message(line, headers, body)
    <3>1. Cat(HeadText(s), body) = Message(ThreeWords(s.method, s.uri, s.version), s.headers, body)
      BY HeadOfMessage
    <3> QED BY <1>2, <1>7, <3>1, Zenon
  <2>2. PICK ended \in Text, end \in Text, printed \in Text :
          ended = Cat(line, nl) /\ end = Cat(nl, body) /\ printed = Printed(rows)
    <3>1. Printed(rows) \in Text
      BY <1>7, <1>10, HeaderTextType
    <3> QED BY <3>1, CatElements
  <2>3. Message(line, headers, body) = Cat(ended, Cat(printed, end))
    BY <1>1, <1>10, <2>2, Zenon DEF Message
  <2>4. Append(<<line>> \o more, last) = <<line>> \o rows
    BY <1>10, AppendBehind
  <2>5. Printed(<<line>> \o rows) = Cat(ended, printed)
    BY <1>1, <2>2, PrintedCons
  <2>6. Cat(Cat(ended, printed), end) = Cat(ended, Cat(printed, end))
    BY CatsAssociate
  <2> QED BY <1>0, <1>1, <2>1, <2>2, <2>3, <2>4, <2>5, <2>6, Zenon
<1> QED
  BY <1>1, <1>2, <1>3, <1>7, <1>8, <1>9, <1>11

\* A request that is read is the head of the one that was sent, and a body.
LEMMA SentHead ==
  ASSUME NEW t \in Text, IsRequest(t), NEW r \in Requests, r = ParseRequest(t)
  PROVE  /\ AsSent(r) \in Requests
         /\ AsSent(r).method = r.method /\ AsSent(r).uri = r.uri /\ AsSent(r).body = r.body
         /\ Readable(AsSent(r)) /\ Marked(r.headers, AsSent(r).headers)
         /\ t = Cat(HeadText(AsSent(r)), BodyOf(t))
<1>1. FindIn(t, BlankLine) # 0
  BY DEF IsRequest
<1>2. PICK front \in Seq(Text), last \in Text :
        /\ Lines(t) = Append(front, Cat(last, <<CR>>))
        /\ Unbroken(Append(front, last))
        /\ t = Cat(Printed(Append(front, last)), Cat(CRLF, BodyOf(t)))
  BY <1>1, ReadPrinted
<1>3. r.method \in {<<"GET">>, <<"POST">>} /\ Plain(r.uri) /\ Plain(r.version)
  BY ParseIsReadable, Zenon DEF Readable
<1>4. CASE front = <<>>
  <2>1. Lines(t) = <<Cat(last, <<CR>>)>> /\ t = Cat(Printed(<<last>>), Cat(CRLF, BodyOf(t)))
    <3>1. \A x : Append(<<>>, x) = <<x>>
      OBVIOUS
    <3> QED BY <1>2, <1>4, <3>1, Zenon
  <2>2. /\ AsSent(r) \in Requests
        /\ AsSent(r).method = r.method /\ AsSent(r).uri = r.uri /\ AsSent(r).body = r.body
        /\ r.headers = <<>> /\ AsSent(r).headers = <<>> /\ Plain(AsSent(r).version)
        /\ t = Cat(HeadText(AsSent(r)), BodyOf(t))
    BY <2>1, BareHead
  <2>3. Clean(<<>>) /\ Marked(<<>>, <<>>)
    BY NoHeaders DEF Clean, Marked
  <2> QED BY <1>3, <2>2, <2>3, Zenon DEF Readable
<1>5. CASE front # <<>>
  <2>1. PICK line \in Text, more \in Seq(Text) : front = <<line>> \o more
    <3>1. Head(front) \in Text /\ Tail(front) \in Seq(Text) /\ front = <<Head(front)>> \o Tail(front)
      BY <1>5
    <3> QED BY <3>1
  <2>2. Occurrences(last, CRLF) = {}
    <3>1. /\ Append(front, last) \in Seq(Text) /\ Len(Append(front, last)) = Len(front) + 1
          /\ Append(front, last)[Len(front) + 1] = last /\ Len(front) \in Nat
      BY AppendProperties
    <3>2. PICK rows \in Seq(Text), n \in Nat \ {0} : rows = Append(front, last) /\ n = Len(front) + 1
      <4>1. PICK n \in Nat \ {0} : n = Len(front) + 1
        BY <3>1
      <4> QED BY <3>1, <4>1, Zenon
    <3>3. rows[n] = last /\ Len(rows) = n
      BY <3>1, <3>2, Zenon
    <3>4. n \in 1..Len(rows) /\ Unbroken(rows)
      BY <1>2, <3>2, <3>3
    <3> QED BY <3>3, <3>4, Zenon DEF Unbroken
  <2>3. /\ AsSent(r) \in Requests
        /\ AsSent(r).method = r.method /\ AsSent(r).uri = r.uri /\ AsSent(r).body = r.body
        /\ AsSent(r).version = r.version
        /\ Clean(AsSent(r).headers) /\ Marked(r.headers, AsSent(r).headers)
        /\ t = Cat(HeadText(AsSent(r)), BodyOf(t))
    <3>1. TakenApart(t, front, last)
      BY <1>2, Zenon DEF TakenApart
    <3> QED BY <2>1, <2>2, <3>1, FullHead
  <2> QED BY <1>3, <2>3, Zenon DEF Readable
<1> QED
  BY <1>4, <1>5

\* And the head of a request, with whatever body, is read as that request.
LEMMA HeadRead ==
  ASSUME NEW r \in Requests, Readable(r), NEW b \in Text, NEW t, t = Cat(HeadText(r), b)
  PROVE  /\ t \in Text /\ IsRequest(t) /\ FirstLine(t)[1] = r.method
         /\ Marked(HeadersOf(t), r.headers) /\ BodyOf(t) = b
<1>1. PICK m \in Text, u \in Text, v \in Text, h \in Seq(Fields) :
        m = r.method /\ u = r.uri /\ v = r.version /\ h = r.headers
  BY DEF Requests
<1>2. /\ Occurrences(m, Space) = {} /\ Occurrences(u, Space) = {} /\ Occurrences(v, Space) = {}
      /\ Occurrences(m, CRLF) = {} /\ Occurrences(u, CRLF) = {} /\ Occurrences(v, CRLF) = {}
      /\ m \in {<<"GET">>, <<"POST">>} /\ Clean(h)
  <2>1. m \in {<<"GET">>, <<"POST">>} /\ Plain(u) /\ Plain(v) /\ Clean(h)
    BY <1>1 DEF Readable
  <2>2. Plain(m)
    BY <2>1, MethodIsPlain
  <2> QED BY <2>1, <2>2, PlainParts
<1>3. PICK first \in Text :
        /\ first = ThreeWords(m, u, v) /\ Occurrences(first, CRLF) = {} /\ first # <<>>
        /\ Len(Split(first, Space)) = 3 /\ Split(first, Space)[1] = m
  BY <1>2, WordsSplit, WordsUnbroken
<1>4. t = Message(first, h, b)
  <2>1. Cat(HeadText(r), b) = Message(ThreeWords(r.method, r.uri, r.version), r.headers, b)
    BY HeadOfMessage
  <2> QED BY <1>1, <1>3, <2>1
<1>5. CASE h # <<>>
  <2>1. t \in Text /\ FindIn(t, BlankLine) # 0 /\ BodyOf(t) = b /\ Lines(t)[1] = first
    BY <1>2, <1>3, <1>4, <1>5, MessageLines
  <2>2. /\ HeadersOf(t) \in Seq(Fields) /\ Len(HeadersOf(t)) = Len(h)
        /\ \A k \in 1..Len(h) : HeadersOf(t)[k] = IF k = Len(h)
                                                  THEN Header(h[k].key, Cat(h[k].value, <<CR>>))
                                                  ELSE h[k]
        /\ HeadersAreValid(t)
    BY <1>2, <1>3, <1>4, <1>5, MessageHeaders
  <2>3. FirstLine(t) = Split(first, Space)
    BY <2>1 DEF FirstLine
  <2>4. IsRequest(t)
    BY <1>2, <1>3, <2>1, <2>2, <2>3, Zenon DEF IsRequest
  <2>5. Marked(HeadersOf(t), h)
    BY <2>2 DEF Marked
  <2> QED BY <1>1, <1>3, <2>1, <2>3, <2>4, <2>5
<1>6. CASE h = <<>>
  <2>1. /\ t \in Text /\ FindIn(t, BlankLine) # 0 /\ BodyOf(t) = b
        /\ Lines(t) = <<Cat(first, <<CR>>)>>
        /\ HeadersOf(t) = <<>> /\ HeadersAreValid(t)
    <3>1. t = Message(first, <<>>, b)
      BY <1>4, <1>6
    <3> QED BY <1>3, <3>1, BareMessageRead
  <2>2. PICK w \in Text, cr \in Text :
          cr = <<CR>> /\ w = Cat(v, cr) /\ Occurrences(w, Space) = {}
    <3>1. PICK cr \in Text : cr = <<CR>>
      BY CRAlone
    <3>2. Cat(v, cr) \in Text
      BY CatElements
    <3> QED BY <1>2, <3>1, <3>2, MarkIsNoSpace
  <2>3. Cat(first, cr) = ThreeWords(m, u, w)
    <3>1. PICK sp \in Text : sp = Space
      BY WordsAreTexts
    <3>2. PICK a \in Text, c \in Text, d \in Text :
            a = Cat(sp, v) /\ c = Cat(u, a) /\ d = Cat(sp, c) /\ first = Cat(m, d)
      <4>1. PICK a \in Text : a = Cat(sp, v)
        BY CatElements
      <4>2. PICK c \in Text : c = Cat(u, a)
        BY CatElements
      <4>3. PICK d \in Text : d = Cat(sp, c)
        BY CatElements
      <4> QED BY <1>3, <3>1, <4>1, <4>2, <4>3, Zenon DEF ThreeWords
    <3>3. Cat(Cat(m, d), cr) = Cat(m, Cat(d, cr))
      BY CatsAssociate
    <3>4. Cat(Cat(sp, c), cr) = Cat(sp, Cat(c, cr))
      BY CatsAssociate
    <3>5. Cat(Cat(u, a), cr) = Cat(u, Cat(a, cr))
      BY CatsAssociate
    <3>6. Cat(Cat(sp, v), cr) = Cat(sp, Cat(v, cr))
      BY CatsAssociate
    <3> QED BY <2>2, <3>1, <3>2, <3>3, <3>4, <3>5, <3>6, Zenon DEF ThreeWords
  <2>4. Lines(t)[1] = Cat(first, cr)
    BY <2>1, <2>2
  <2>5. FirstLine(t) = Split(ThreeWords(m, u, w), Space)
    BY <2>3, <2>4, Zenon DEF FirstLine
  <2>6. /\ Len(Split(ThreeWords(m, u, w), Space)) = 3
        /\ Split(ThreeWords(m, u, w), Space)[1] = m
    BY <1>2, <2>2, WordsSplit
  <2>7. IsRequest(t)
    BY <1>2, <2>1, <2>5, <2>6, Zenon DEF IsRequest
  <2>8. Marked(<<>>, <<>>)
    BY NoHeaders DEF Marked
  <2> QED BY <1>1, <1>6, <2>1, <2>5, <2>6, <2>7, <2>8, Zenon
<1> QED
  BY <1>5, <1>6

-----------------------------------------------------------------------------
\* The fifth invariant: the request that a handler is called with is what has
\* been read of the text, and only what is malformed is answered with 400.

\* A request as clients send it: its head fits into the buffer, and a POST says
\* how much of its body there is at least.
IsSent(r) ==
  /\ Readable(r) /\ Len(HeadText(r)) <= MaxBuffer
  /\ r.method = <<"POST">> =>
       IsLength(ContentLength(r)) /\ LengthOf(ContentLength(r)) \in 0..Len(r.body)

WellMade(t) == \E r \in Requests : IsSent(r) /\ t = Cat(HeadText(r), r.body)

\* A text is a request as clients send it if it is read as one.
LEMMA WellMadeIsRead ==
  ASSUME NEW t \in Text
  PROVE  WellMade(t) <=> IsWellFormed(t)
<1>1. ASSUME IsWellFormed(t)
      PROVE  WellMade(t)
  <2>1. PICK r \in Requests : IsRequest(t) /\ r = ParseRequest(t)
    BY <1>1, ParseRequestType, Zenon DEF IsWellFormed
  <2>2. PICK s \in Requests :
          s = AsSent(r) /\ s.body = r.body /\ Readable(s) /\ t = Cat(HeadText(s), BodyOf(t))
    BY <2>1, SentHead
  <2>3. r.body = BodyOf(t)
    BY <2>1, FieldsOfParse, Zenon
  <2>4. IsSent(s) /\ t = Cat(HeadText(s), s.body)
    BY <1>1, <2>1, <2>2, <2>3, Zenon DEF IsWellFormed, IsSent
  <2> QED BY <2>4, Zenon DEF WellMade
<1>2. ASSUME WellMade(t)
      PROVE  IsWellFormed(t)
  <2>1. PICK r \in Requests : IsSent(r) /\ t = Cat(HeadText(r), r.body)
    BY <1>2, Zenon DEF WellMade
  <2>2. PICK body \in Text : body = r.body
    BY DEF Requests
  <2>3. /\ IsRequest(t) /\ FirstLine(t)[1] = r.method
        /\ Marked(HeadersOf(t), r.headers) /\ BodyOf(t) = body
    <3>1. Readable(r) /\ t = Cat(HeadText(r), body)
      BY <2>1, <2>2, Zenon DEF IsSent
    <3> QED BY <3>1, HeadRead
  <2>4. PICK q \in Requests : q = ParseRequest(t)
    BY <2>3, ParseRequestType
  <2>5. q.method = r.method /\ q.headers = HeadersOf(t) /\ q.body = body
    BY <2>3, <2>4, FieldsOfParse, Zenon
  <2>6. PICK s \in Requests :
          /\ s = AsSent(q) /\ s.method = q.method /\ s.body = q.body
          /\ Marked(q.headers, s.headers) /\ t = Cat(HeadText(s), BodyOf(t))
    BY <2>3, <2>4, SentHead
  <2>7. Len(HeadText(s)) <= MaxBuffer
    <3>1. PICK head \in Text, sent \in Text : head = HeadText(r) /\ sent = HeadText(s)
      BY HeadOfMessage, EmptyText
    <3>2. Cat(head, body) = Cat(sent, body)
      BY <2>1, <2>2, <2>3, <2>6, <3>1, Zenon
    <3>3. /\ Len(head) \in Nat /\ Len(sent) \in Nat /\ Len(body) \in Nat
          /\ Len(Cat(head, body)) = Len(head) + Len(body) /\ Len(Cat(sent, body)) = Len(sent) + Len(body)
      BY CatElements
    <3>4. Len(head) = Len(sent)
      BY <3>2, <3>3
    <3> QED BY <2>1, <3>1, <3>4, Zenon DEF IsSent
  <2>8. ASSUME s.method = <<"POST">>
        PROVE  IsLength(ContentLength(s)) /\ LengthOf(ContentLength(s)) \in 0..Len(s.body)
    <3>1. PICK key : key = <<"Content-Length">>
      OBVIOUS
    <3>2. IsLength(ContentLength(r)) /\ LengthOf(ContentLength(r)) \in 0..Len(r.body)
      BY <2>1, <2>5, <2>6, <2>8, Zenon DEF IsSent
    <3>3. /\ IsLength(get_header(HeadersOf(t), key)) <=> IsLength(get_header(r.headers, key))
          /\ IsLength(get_header(r.headers, key)) =>
               LengthOf(get_header(HeadersOf(t), key)) = LengthOf(get_header(r.headers, key))
      BY <2>3, NumberMarked
    <3>4. Marked(HeadersOf(t), s.headers)
      BY <2>5, <2>6, Zenon
    <3>5. /\ IsLength(get_header(HeadersOf(t), key)) <=> IsLength(get_header(s.headers, key))
          /\ IsLength(get_header(s.headers, key)) =>
               LengthOf(get_header(HeadersOf(t), key)) = LengthOf(get_header(s.headers, key))
      BY <3>4, NumberMarked
    <3>6. IsLength(ContentLength(s)) /\ LengthOf(ContentLength(s)) = LengthOf(ContentLength(r))
      BY <3>1, <3>2, <3>3, <3>5, Zenon DEF ContentLength
    <3>7. s.body = r.body
      BY <2>2, <2>5, <2>6, Zenon
    <3> QED BY <3>2, <3>6, <3>7, Zenon
  <2>9. AsSent(ParseRequest(t)) = s
    BY <2>4, <2>6, Zenon
  <2> QED BY <2>3, <2>7, <2>8, <2>9, Zenon DEF IsWellFormed
<1> QED
  BY <1>1, <1>2

\* The texts of clients are called what they are.
Classified == \A t \in WellFormed \cup Malformed : t \in WellFormed <=> WellMade(t)

Held ==
  /\ IsRequest(Buffered) /\ request = ParseRequest(Buffered)
  /\ Len(HeadText(AsSent(request))) <= MaxBuffer
  /\ request.method = <<"POST">> => IsLength(ContentLength(request))

EnoughRead == request.method = <<"POST">> => BodyIsRead

Fits == stage = "reading" => got <= MaxBuffer
NotYet == stage \notin {"respond", "written"} => response.status # 400
Holds == stage \in {"body", "route"} \/ Handled => Held
Completes == stage = "route" \/ Handled => EnoughRead
Rightly == Refused => text \in Malformed

DInv == Fits /\ NotYet /\ Holds /\ Completes /\ Rightly

LEMMA DeliveredInitially == ExchangeInit => DInv
<1> SUFFICES ASSUME ExchangeInit
             PROVE  DInv
  OBVIOUS
<1>1. stage = "new" /\ response.status = 0
  BY DEF ExchangeInit, NoResponse
<1> QED
  BY <1>1 DEF DInv, Fits, NotYet, Holds, Completes, Rightly, Handled, Refused

LEMMA HeldStays ==
  ASSUME UNCHANGED <<text, got, request>>
  PROVE  (Held' <=> Held) /\ (EnoughRead' <=> EnoughRead)
<1>1. Buffered' = Buffered
  BY DEF Buffered
<1>2. Held' <=> Held
  BY <1>1, Zenon DEF Held
<1>3. BodyIsRead' <=> BodyIsRead
  BY Zenon DEF BodyIsRead
<1> QED
  BY <1>2, <1>3, Zenon DEF EnoughRead

\* Steps that leave the request and the answer alone.
LEMMA DeliveredKept ==
  ASSUME DInv, UNCHANGED <<text, request, response, outgoing>>,
         stage' = "reading" => got' <= MaxBuffer,
         stage' \notin {"respond", "written"} => stage \notin {"respond", "written"},
         stage' \in {"body", "route", "visiting", "waiting", "respond", "written"} =>
           got' = got /\ stage \in {"body", "route", "visiting", "waiting", "respond", "written"},
         stage' \in {"route", "visiting", "waiting", "respond", "written"} =>
           stage \in {"route", "visiting", "waiting", "respond", "written"} \/ EnoughRead,
         stage' \in {"respond", "written"} => stage \in {"respond", "written"}
  PROVE  DInv'
<1>1. Refused' <=> Refused
  BY DEF Refused
<1>2. response.status = 400 => stage \in {"respond", "written"}
  BY DEF DInv, NotYet
<1>3. Fits' /\ NotYet'
  BY <1>2 DEF Fits, NotYet
<1>4. Rightly'
  BY <1>1 DEF DInv, Rightly
<1>5. Holds'
  <2>1. ASSUME stage' \in {"body", "route"} \/ Handled'
        PROVE  Held'
    <3>1. stage' \in {"body", "route", "visiting", "waiting", "respond", "written"}
      BY <2>1 DEF Handled
    <3>2. stage \in {"body", "route"} \/ Handled
      <4>1. stage \in {"visiting", "waiting"} => ~ Refused
        BY <1>2 DEF Refused
      <4>2. stage \in {"respond", "written"} => ~ Refused
        BY <1>1, <2>1 DEF Handled
      <4> QED BY <3>1, <4>1, <4>2 DEF Handled
    <3>3. Held
      BY <3>2 DEF DInv, Holds
    <3> QED BY <3>1, <3>3, HeldStays
  <2> QED BY <2>1 DEF Holds
<1>6. Completes'
  <2>1. ASSUME stage' = "route" \/ Handled'
        PROVE  EnoughRead'
    <3>1. stage' \in {"route", "visiting", "waiting", "respond", "written"} /\ got' = got
      BY <2>1 DEF Handled
    <3>2. CASE stage \in {"route", "visiting", "waiting", "respond", "written"}
      <4>1. stage \in {"visiting", "waiting"} => ~ Refused
        BY <1>2 DEF Refused
      <4>2. stage \in {"respond", "written"} => ~ Refused
        BY <1>1, <2>1 DEF Handled
      <4>3. stage = "route" \/ Handled
        BY <3>2, <4>1, <4>2 DEF Handled
      <4> QED BY <3>1, <4>3, HeldStays DEF DInv, Completes
    <3>3. CASE EnoughRead
      BY <3>1, <3>3, HeldStays
    <3> QED BY <3>1, <3>2, <3>3
  <2> QED BY <2>1 DEF Completes
<1> QED
  BY <1>3, <1>4, <1>5, <1>6 DEF DInv

\* What has been read, and what is read next.
LEMMA ReadMore ==
  ASSUME NEW s \in Text, NEW n \in Nat, NEW m \in Nat, n <= m, m <= Len(s)
  PROVE  /\ SubSeq(s, 1, n) \in Text /\ Len(SubSeq(s, 1, n)) = n
         /\ SubSeq(s, n + 1, m) \in Text
         /\ SubSeq(s, 1, m) = Cat(SubSeq(s, 1, n), SubSeq(s, n + 1, m))
<1>1. PICK one \in Nat \ {0}, p \in Nat \ {0}, len \in Nat : one = 1 /\ p = n + 1 /\ len = Len(s)
  BY DEF Text
<1>2. SubSeq(s, one, n) \in Text /\ SubSeq(s, p, m) \in Text
  <2>1. n \in Int /\ m \in Int /\ n <= Len(s)
    BY <1>1
  <2> QED BY <2>1, PartIsText
<1>3. one \in 1..(Len(s) + 1) /\ n \in (one - 1)..Len(s) /\ m \in n..Len(s)
  BY <1>1
<1>4. Len(SubSeq(s, one, n)) = n - one + 1
  BY <1>3, PartElements DEF Text
<1>5. SubSeq(s, one, n) \o SubSeq(s, n + 1, m) = SubSeq(s, one, m)
  BY <1>3, ConcatAdjacentSubSeq DEF Text
<1>6. Len(SubSeq(s, one, n)) = n
  BY <1>1, <1>4
<1> QED
  BY <1>1, <1>2, <1>5, <1>6, Zenon DEF Cat

LEMMA BufferedAndRest ==
  ASSUME EInv
  PROVE  \E rest \in Text : text = Cat(Buffered, rest) /\ Len(Buffered) = got
<1>1. text \in Text /\ got \in Nat /\ got <= Len(text) /\ Len(text) \in Nat
  BY BufferedIsText
<1>2. PICK n \in Nat, m \in Nat : n = got /\ m = Len(text) /\ n <= m /\ m <= Len(text)
  BY <1>1
<1>3. /\ Len(SubSeq(text, 1, n)) = n /\ SubSeq(text, n + 1, m) \in Text
      /\ SubSeq(text, 1, m) = Cat(SubSeq(text, 1, n), SubSeq(text, n + 1, m))
  BY <1>1, <1>2, ReadMore
<1>4. SubSeq(text, 1, Len(text)) = text
  BY <1>1, SubSeqFull DEF Text
<1>5. PICK rest \in Text : rest = SubSeq(text, n + 1, m)
  BY <1>3
<1> QED
  BY <1>2, <1>3, <1>4, <1>5, Zenon DEF Buffered

\* Nobody who sent a request that can be read gets 400.
LEMMA RefusedRightly ==
  ASSUME EInv, Classified, FindIn(Buffered, BlankLine) # 0,
         \/ ~ IsRequest(Buffered)
         \/ /\ FirstLine(Buffered)[1] = <<"POST">>
            /\ get_header(HeadersOf(Buffered), <<"Content-Length">>) = <<>>
  PROVE  text \in Malformed
<1>1. PICK read \in Text, rest \in Text :
        read = Buffered /\ text = Cat(read, rest) /\ FindIn(read, BlankLine) # 0
  BY BufferedAndRest, BufferedIsText
<1>2. text \in Text /\ FindIn(text, BlankLine) # 0
  BY <1>1, MoreBehind
<1>3. text \in WellFormed \cup Malformed
  <2>1. FindIn(<<>>, BlankLine) = 0
    BY EmptyText, WordsAreTexts DEF FindIn
  <2>2. text # <<>>
    BY <1>2, <2>1
  <2> QED BY <2>2 DEF EInv, ExchangeTypeOK
<1>4. ASSUME text \notin Malformed
      PROVE  FALSE
  <2>1. PICK r \in Requests : IsSent(r) /\ text = Cat(HeadText(r), r.body)
    BY <1>3, <1>4 DEF Classified, WellMade
  <2>2. PICK body \in Text : body = r.body
    BY DEF Requests
  <2>3. IsRequest(text) /\ FirstLine(text)[1] = r.method /\ Marked(HeadersOf(text), r.headers)
    <3>1. Readable(r)
      BY <2>1 DEF IsSent
    <3>2. text = Cat(HeadText(r), body)
      BY <2>1, <2>2
    <3> QED BY <3>1, <3>2, HeadRead
  <2>4. /\ IsRequest(text) <=> IsRequest(read)
        /\ FirstLine(text) = FirstLine(read) /\ HeadersOf(text) = HeadersOf(read)
    BY <1>1, SameRequest
  <2>5. r.method = <<"POST">> /\ get_header(HeadersOf(text), <<"Content-Length">>) = <<>>
    BY <1>1, <2>3, <2>4, Zenon
  <2>6. IsLength(get_header(r.headers, <<"Content-Length">>))
    BY <2>1, <2>5, Zenon DEF IsSent, ContentLength
  <2>7. PICK key : key = <<"Content-Length">>
    OBVIOUS
  <2>8. IsLength(get_header(HeadersOf(text), key)) <=> IsLength(get_header(r.headers, key))
    BY <2>3, NumberMarked
  <2>9. IsLength(<<>>)
    BY <2>5, <2>6, <2>7, <2>8, Zenon
  <2> QED BY <2>9, NoLength
<1> QED
  BY <1>4

\* The part of a request before its body is not longer than the request.
LEMMA HeadIsPart ==
  ASSUME NEW t \in Text, IsRequest(t), NEW r \in Requests, r = ParseRequest(t)
  PROVE  /\ HeadText(AsSent(r)) \in Text /\ Len(HeadText(AsSent(r))) \in Nat
         /\ Len(t) = Len(HeadText(AsSent(r))) + Len(BodyOf(t))
         /\ Len(HeadText(AsSent(r))) <= Len(t)
<1>1. PICK s \in Requests : s = AsSent(r) /\ t = Cat(HeadText(s), BodyOf(t))
  BY SentHead
<1>2. HeadText(s) \in Text
  BY HeadOfMessage, EmptyText
<1>3. BodyOf(t) \in Text
  BY BodyType
<1>4. PICK head \in Text, body \in Text : head = HeadText(s) /\ body = BodyOf(t)
  BY <1>2, <1>3
<1>5. Len(head) \in Nat /\ Len(body) \in Nat /\ Len(Cat(head, body)) = Len(head) + Len(body)
  BY CatElements
<1>6. Len(t) = Len(head) + Len(body)
  BY <1>1, <1>4, <1>5
<1> QED
  BY <1>1, <1>4, <1>5, <1>6

LEMMA MethodsDiffer == <<>> # <<"GET">> /\ <<>> # <<"POST">> /\ <<"GET">> # <<"POST">>
<1>1. "GET" # "POST"
  OBVIOUS
<1>2. <<"GET">>[1] = "GET" /\ <<"POST">>[1] = "POST"
  OBVIOUS
<1>3. <<"GET">> # <<"POST">>
  BY <1>1, <1>2
<1> QED
  BY <1>3

\* An answer of 400 ends what can be said of a request, but for its text.
LEMMA DeliveredRefused ==
  ASSUME stage' = "respond", response'.status = 400, outgoing' = NoRequest, (text \in Malformed)'
  PROVE  DInv'
<1>1. Refused' /\ ~ Handled'
  BY DEF Refused, Handled
<1> QED
  BY <1>1 DEF DInv, Fits, NotYet, Holds, Completes, Rightly

LEMMA HandleRequestDelivered ==
  ASSUME EInv, RInv, DInv, Classified, HandleRequest
  PROVE  DInv'
<1>1. /\ stage = "reading" /\ UNCHANGED <<text, got, outgoing>>
      /\ FindIn(Buffered, BlankLine) # 0
      /\ request' = IF IsRequest(Buffered) THEN ParseRequest(Buffered) ELSE NoRequest
  BY Zenon DEF HandleRequest, visit, connection
<1>2. outgoing' = NoRequest
  BY <1>1 DEF RInv, Unsent
<1>3. response.status # 400 /\ got <= MaxBuffer
  BY <1>1 DEF DInv, NotYet, Fits
<1>4. Buffered \in Text /\ Buffered' = Buffered /\ Len(Buffered) = got
  <2>1. Len(Buffered) = got
    BY BufferedAndRest
  <2>2. Buffered' = Buffered
    BY <1>1 DEF Buffered
  <2> QED BY <2>1, <2>2, BufferedIsText
<1>5. request'.method \in {<<"GET">>, <<"POST">>} =>
        IsRequest(Buffered) /\ request' = ParseRequest(Buffered)
  <2>1. NoRequest.method = <<>>
    BY DEF NoRequest
  <2> QED BY <1>1, <2>1, MethodsDiffer
<1>6. ASSUME IsRequest(Buffered), request' = ParseRequest(Buffered),
             request'.method = <<"POST">> => IsLength(ContentLength(request'))
      PROVE  Held'
  <2>1. PICK r \in Requests : r = ParseRequest(Buffered)
    BY <1>4, <1>6, ParseRequestType
  <2>2. Len(HeadText(AsSent(r))) <= Len(Buffered) /\ Len(HeadText(AsSent(r))) \in Nat /\ Len(Buffered) \in Nat
    <3>1. Len(Buffered) \in Nat
      BY <1>4 DEF Text
    <3> QED BY <1>4, <1>6, <2>1, <3>1, HeadIsPart
  <2>3. PICK length : length = Len(HeadText(AsSent(r)))
    OBVIOUS
  <2>4. length <= MaxBuffer
    BY <1>3, <1>4, <2>2, <2>3, BufferAssumption
  <2>5. request' = r
    BY <1>6, <2>1
  <2> QED BY <1>4, <1>6, <2>1, <2>3, <2>4, <2>5, Zenon DEF Held
<1>7. CASE request' = NoRequest /\ stage' = "respond" /\ response'.status = 400
  <2>1. request'.method = <<>>
    BY <1>7 DEF NoRequest
  <2>2. ParseRequest(Buffered).method \in {<<"GET">>, <<"POST">>} \/ ~ IsRequest(Buffered)
    BY FieldsOfParse, Zenon DEF IsRequest
  <2>3. ~ IsRequest(Buffered)
    BY <1>1, <2>1, <2>2, MethodsDiffer
  <2>4. text \in Malformed
    BY <1>1, <2>3, RefusedRightly
  <2> QED BY <1>1, <1>2, <1>7, <2>4, DeliveredRefused
<1>8. CASE /\ request'.method = <<"POST">> /\ ContentLength(request') = <<>>
           /\ stage' = "respond" /\ response'.status = 400
  <2>1. request' = ParseRequest(Buffered)
    BY <1>5, <1>8
  <2>2. FirstLine(Buffered)[1] = <<"POST">>
    BY <1>8, <2>1, FieldsOfParse, Zenon
  <2>3. get_header(HeadersOf(Buffered), <<"Content-Length">>) = <<>>
    BY <1>8, <2>1, FieldsOfParse, Zenon DEF ContentLength
  <2>4. text \in Malformed
    BY <1>1, <2>2, <2>3, RefusedRightly
  <2> QED BY <1>1, <1>2, <1>8, <2>4, DeliveredRefused
<1>9. CASE /\ request'.method = <<"POST">> /\ UNCHANGED response
           /\ stage' = IF IsLength(ContentLength(request')) THEN "body" ELSE "ended"
  <2>1. stage' \in {"body", "ended"} /\ ~ Handled'
    BY <1>9 DEF Handled
  <2>2. stage' = "body" => Held'
    <3>1. stage' = "body" => IsLength(ContentLength(request'))
      BY <1>9
    <3> QED BY <1>5, <1>6, <1>9, <3>1
  <2>3. ~ Refused'
    BY <1>3, <1>9 DEF Refused
  <2> QED BY <1>3, <1>9, <2>1, <2>2, <2>3 DEF DInv, Fits, NotYet, Holds, Completes, Rightly
<1>10. CASE request'.method = <<"GET">> /\ UNCHANGED response /\ stage' = "route"
  <2>1. request'.method # <<"POST">>
    BY <1>10, MethodsDiffer
  <2>2. Held' /\ EnoughRead'
    <3>1. Held'
      BY <1>5, <1>6, <1>10, <2>1
    <3>2. EnoughRead'
      BY <2>1, Zenon DEF EnoughRead
    <3> QED BY <3>1, <3>2
  <2>3. ~ Refused'
    BY <1>3, <1>10 DEF Refused
  <2> QED BY <1>3, <1>10, <2>2, <2>3 DEF DInv, Fits, NotYet, Holds, Completes, Rightly
<1>11. \/ request' = NoRequest /\ stage' = "respond" /\ response'.status = 400
       \/ /\ request'.method = <<"POST">> /\ ContentLength(request') = <<>>
          /\ stage' = "respond" /\ response'.status = 400
       \/ /\ request'.method = <<"POST">> /\ UNCHANGED response
          /\ stage' = IF IsLength(ContentLength(request')) THEN "body" ELSE "ended"
       \/ request'.method = <<"GET">> /\ UNCHANGED response /\ stage' = "route"
  <2>1. PICK code : code = 400
    OBVIOUS
  <2>2. \A h, b : MakeResponse(code, h, b).status = code
    BY FieldsMade
  <2>3. \/ request' = NoRequest /\ stage' = "respond" /\ \E h, b : response' = MakeResponse(code, h, b)
        \/ /\ request'.method = <<"POST">> /\ ContentLength(request') = <<>>
           /\ stage' = "respond" /\ \E h, b : response' = MakeResponse(code, h, b)
        \/ /\ request'.method = <<"POST">> /\ UNCHANGED response
           /\ stage' = IF IsLength(ContentLength(request')) THEN "body" ELSE "ended"
        \/ request'.method = <<"GET">> /\ UNCHANGED response /\ stage' = "route"
    BY <2>1, Zenon DEF HandleRequest, Respond
  <2>4. (\E h, b : response' = MakeResponse(code, h, b)) => response'.status = 400
    <3> SUFFICES ASSUME NEW h, NEW b, response' = MakeResponse(code, h, b)
                 PROVE  response'.status = 400
      OBVIOUS
    <3>1. MakeResponse(code, h, b).status = code
      BY <2>2, Zenon
    <3> QED BY <2>1, <3>1
  <2> QED BY <2>3, <2>4
<1> QED
  BY <1>7, <1>8, <1>9, <1>10, <1>11, Zenon

\* A request that is read on is the request that the longer text is.
LEMMA ReadOn ==
  ASSUME NEW s \in Text, IsRequest(s), NEW u \in Text, NEW both, both = Cat(s, u)
  PROVE  /\ IsRequest(both)
         /\ append_body(ParseRequest(s), u) = ParseRequest(both)
         /\ ParseRequest(both).method = ParseRequest(s).method
         /\ ContentLength(ParseRequest(both)) = ContentLength(ParseRequest(s))
         /\ Len(HeadText(AsSent(ParseRequest(both)))) = Len(HeadText(AsSent(ParseRequest(s))))
<1>1. FindIn(s, BlankLine) # 0
  BY DEF IsRequest
<1>2. /\ both \in Text /\ IsRequest(both) /\ BodyOf(both) = Cat(BodyOf(s), u)
      /\ FirstLine(both) = FirstLine(s) /\ HeadersOf(both) = HeadersOf(s)
  <2>1. both \in Text /\ BodyOf(both) = Cat(BodyOf(s), u)
    BY <1>1, MoreBehind
  <2>2. /\ IsRequest(both) <=> IsRequest(s)
        /\ FirstLine(both) = FirstLine(s) /\ HeadersOf(both) = HeadersOf(s)
    BY <1>1, SameRequest
  <2> QED BY <2>1, <2>2
<1>3. PICK r \in Requests, after \in Requests : r = ParseRequest(s) /\ after = ParseRequest(both)
  BY <1>2, ParseRequestType
<1>4. /\ after.method = r.method /\ after.uri = r.uri /\ after.version = r.version
      /\ after.headers = r.headers /\ after.body = Cat(r.body, u) /\ after.raw = Cat(r.raw, u)
  <2>1. /\ r.method = FirstLine(s)[1] /\ r.uri = FirstLine(s)[2] /\ r.version = FirstLine(s)[3]
        /\ r.headers = HeadersOf(s) /\ r.body = BodyOf(s) /\ r.raw = s
    BY <1>3, FieldsOfParse, Zenon
  <2>2. /\ after.method = FirstLine(both)[1] /\ after.uri = FirstLine(both)[2]
        /\ after.version = FirstLine(both)[3] /\ after.headers = HeadersOf(both)
        /\ after.body = BodyOf(both) /\ after.raw = both
    BY <1>3, FieldsOfParse, Zenon
  <2> QED BY <1>2, <2>1, <2>2, Zenon
<1>5. append_body(r, u) = after
  <2>1. PICK longer \in Requests : longer = append_body(r, u)
    BY AppendBodyType
  <2>2. /\ longer.method = r.method /\ longer.uri = r.uri /\ longer.version = r.version
        /\ longer.headers = r.headers /\ longer.body = Cat(r.body, u) /\ longer.raw = Cat(r.raw, u)
    BY <2>1, BodyAppended, Zenon
  <2>3. /\ longer.method = after.method /\ longer.uri = after.uri /\ longer.version = after.version
        /\ longer.headers = after.headers /\ longer.body = after.body /\ longer.raw = after.raw
    BY <1>4, <2>2, Zenon
  <2>4. longer = after
    BY <2>3 DEF Requests
  <2> QED BY <2>1, <2>4
<1>6. ContentLength(after) = ContentLength(r)
  BY <1>4, Zenon DEF ContentLength
<1>7. Len(HeadText(AsSent(after))) = Len(HeadText(AsSent(r)))
  <2>1. PICK x \in Nat, y \in Nat :
          /\ x = Len(HeadText(AsSent(r))) /\ Len(s) = x + Len(BodyOf(s))
          /\ y = Len(HeadText(AsSent(after))) /\ Len(both) = y + Len(BodyOf(both))
    <3>1. Len(HeadText(AsSent(r))) \in Nat /\ Len(s) = Len(HeadText(AsSent(r))) + Len(BodyOf(s))
      BY <1>3, HeadIsPart
    <3>2. /\ Len(HeadText(AsSent(after))) \in Nat
          /\ Len(both) = Len(HeadText(AsSent(after))) + Len(BodyOf(both))
      BY <1>2, <1>3, HeadIsPart
    <3> QED BY <3>1, <3>2
  <2>2. PICK n \in Nat : n = Len(u) /\ Len(both) = Len(s) + n /\ Len(s) \in Nat
    BY CatElements
  <2>3. Len(BodyOf(both)) = Len(BodyOf(s)) + n /\ Len(BodyOf(s)) \in Nat
    <3>1. PICK body \in Text : body = BodyOf(s)
      BY BodyType
    <3>2. Len(Cat(body, u)) = Len(body) + Len(u) /\ Len(body) \in Nat
      BY CatElements
    <3> QED BY <1>2, <2>2, <3>1, <3>2
  <2>4. PICK k \in Nat : k = Len(BodyOf(s)) /\ Len(BodyOf(both)) = k + n
    BY <2>3
  <2>5. x + k + n = y + (k + n)
    BY <2>1, <2>2, <2>4
  <2>6. x = y
    BY <2>5
  <2> QED BY <2>1, <2>6
<1> QED
  BY <1>2, <1>3, <1>4, <1>5, <1>6, <1>7, Zenon

LEMMA ReadBodyDelivered ==
  ASSUME EInv, DInv, ReadBody
  PROVE  DInv'
<1>1. /\ stage = "body" /\ stage' = "body" /\ UNCHANGED <<text, outgoing, response>>
      /\ got' \in (got + 1)..Min({Len(text), got + MaxRead})
      /\ request' = append_body(request, SubSeq(text, got + 1, got'))
  BY DEF ReadBody, visit
<1>2. Held /\ response.status # 400
  BY <1>1 DEF DInv, Holds, NotYet
<1>3. PICK data \in Text : data = SubSeq(text, got + 1, got') /\ Buffered' = Cat(Buffered, data)
  <2>1. PICK most \in Nat : most = got + MaxRead
    BY BufferedIsText, BufferAssumption
  <2>2. got' \in (got + 1)..Min({Len(text), most})
    BY <1>1, <2>1
  <2>3. got' \in 0..Len(text) /\ got' \in Nat /\ got < got'
    BY <2>2, BufferedIsText, NoMoreThan
  <2>4. PICK n \in Nat, m \in Nat : n = got /\ m = got' /\ n <= m /\ m <= Len(text)
    BY <2>3, BufferedIsText
  <2>5. SubSeq(text, n + 1, m) \in Text /\ SubSeq(text, 1, m) = Cat(SubSeq(text, 1, n), SubSeq(text, n + 1, m))
    BY <2>4, BufferedIsText, ReadMore
  <2>6. Buffered' = SubSeq(text, 1, got')
    BY <1>1 DEF Buffered
  <2> QED BY <2>4, <2>5, <2>6, Zenon DEF Buffered
<1>4. PICK read \in Text, both \in Text : read = Buffered /\ both = Cat(read, data) /\ both = Buffered'
  <2>1. Cat(Buffered, data) \in Text
    BY BufferedIsText, CatElements
  <2> QED BY <1>3, <2>1, BufferedIsText
<1>5. IsRequest(read) /\ request = ParseRequest(read)
  BY <1>2, <1>4, Zenon DEF Held
<1>6. /\ IsRequest(both)
      /\ append_body(ParseRequest(read), data) = ParseRequest(both)
      /\ ParseRequest(both).method = ParseRequest(read).method
      /\ ContentLength(ParseRequest(both)) = ContentLength(ParseRequest(read))
      /\ Len(HeadText(AsSent(ParseRequest(both)))) = Len(HeadText(AsSent(ParseRequest(read))))
  BY <1>4, <1>5, ReadOn
<1>7. request' = ParseRequest(both)
  BY <1>1, <1>3, <1>5, <1>6, Zenon
<1>8. Held'
  BY <1>2, <1>4, <1>5, <1>6, <1>7, Zenon DEF Held
<1>9. ~ Refused' /\ ~ Handled'
  BY <1>1, <1>2 DEF Refused, Handled
<1> QED
  BY <1>1, <1>2, <1>8, <1>9 DEF DInv, Fits, NotYet, Holds, Completes, Rightly

LEMMA FailedStatus == Failed.status = 500
<1>1. \A code, headers, body : MakeResponse(code, headers, body).status = code
  BY FieldsMade
<1>2. \E headers, body : Failed = MakeResponse(500, headers, body)
  BY Zenon DEF Failed
<1> QED
  BY <1>1, <1>2

\* Steps that answer otherwise than with 400, or not yet.
LEMMA DeliveredAnswer ==
  ASSUME DInv, UNCHANGED <<text, got, request>>, Held, EnoughRead,
         stage' \in {"visiting", "waiting", "respond"},
         stage' # "respond" => response'.status # 400, ~ Refused'
  PROVE  DInv'
<1>1. Held' /\ EnoughRead'
  BY HeldStays
<1> QED
  BY <1>1 DEF DInv, Fits, NotYet, Holds, Completes, Rightly

LEMMA RunHandlerDelivered ==
  ASSUME EInv, DInv, RunHandler
  PROVE  DInv'
<1>1. PICK kind \in Found(request.uri) :
        IF kind = "proxy"
        THEN BeginRequest
        ELSE Respond(AnswerOf(kind, request)) /\ UNCHANGED <<members, request, visit>>
  BY DEF RunHandler
<1>2. stage = "route" /\ UNCHANGED <<text, got>>
  BY DEF RunHandler, connection
<1>3. Held /\ EnoughRead /\ response.status # 400
  BY <1>2 DEF DInv, Holds, Completes, NotYet
<1>4. CASE kind # "proxy"
  <2>1. response' = AnswerOf(kind, request) /\ stage' = "respond" /\ UNCHANGED request
    BY <1>1, <1>4 DEF Respond
  <2>2. kind \in (Handlers \cup {"none"}) \ {"proxy"}
    BY <1>4 DEF Found, EInv, ExchangeTypeOK
  <2>3. response'.status # 400
    BY <2>1, <2>2, AnswerStatus DEF HandlerCodes
  <2>4. ~ Refused'
    BY <2>3 DEF Refused
  <2> QED BY <1>2, <1>3, <2>1, <2>4, DeliveredAnswer
<1>5. CASE kind = "proxy"
  <2>1. stage' = "visiting" /\ UNCHANGED <<request, response>>
    BY <1>1, <1>5 DEF BeginRequest
  <2>2. ~ Refused'
    BY <1>3, <2>1 DEF Refused
  <2> QED BY <1>2, <1>3, <2>1, <2>2, DeliveredAnswer
<1> QED
  BY <1>4, <1>5

\* A handler has been called while a server outside is visited.
LEMMA VisitHeld ==
  ASSUME DInv, Visiting
  PROVE  Held /\ EnoughRead /\ response.status # 400
<1>1. stage \in {"visiting", "waiting"}
  BY DEF Visiting
<1>2. response.status # 400
  BY <1>1 DEF DInv, NotYet
<1>3. Handled
  BY <1>1, <1>2 DEF Handled, Refused
<1> QED
  BY <1>2, <1>3 DEF DInv, Holds, Completes

LEMMA FailedDelivered ==
  ASSUME DInv, Visiting, ReturnError, UNCHANGED <<text, got, request>>
  PROVE  DInv'
<1>1. response' = Failed /\ stage' = "respond"
  BY DEF ReturnError
<1>2. ~ Refused'
  BY <1>1, FailedStatus DEF Refused
<1> QED
  BY <1>1, <1>2, VisitHeld, DeliveredAnswer

LEMMA ReceiveDelivered ==
  ASSUME EInv, SInv, DInv, NEW t \in RemoteTexts, Receive(t), UNCHANGED connection
  PROVE  DInv'
<1> DEFINE url == get_header(HeadersOf(t), <<"Location">>)
<1>1. resp' = t /\ stage = "waiting" /\ Visiting /\ UNCHANGED <<text, got, request>>
  BY DEF Receive, Visiting, connection
<1>2. CASE ReturnError
  BY <1>1, <1>2, FailedDelivered
<1>3. CASE stage' = "respond" /\ UNCHANGED outgoing
  <2>1. outgoing.headers # <<>>
    BY <1>1 DEF SInv, SentOut
  <2>2. ~ Refused'
    <3>1. outgoing' # NoRequest
      BY <1>3, <2>1, Addressed
    <3> QED BY <3>1 DEF Refused
  <2> QED BY <1>1, <1>3, <2>2, VisitHeld, DeliveredAnswer
<1>4. CASE IsResponse(t) /\ Protocol(url) # 0 /\ FollowRedirect(t, url)
  <2>1. CASE stage' = "visiting" /\ UNCHANGED response
    <3>1. ~ Refused'
      BY <1>1, <2>1, VisitHeld DEF Refused
    <3> QED BY <1>1, <2>1, <3>1, VisitHeld, DeliveredAnswer
  <2>2. CASE stage' = "respond"
    <3>1. outgoing' # NoRequest
      BY <1>1, <1>4, FollowRedirectSends
    <3>2. ~ Refused'
      BY <3>1 DEF Refused
    <3> QED BY <1>1, <2>2, <3>2, VisitHeld, DeliveredAnswer
  <2> QED BY <1>4, <2>1, <2>2 DEF FollowRedirect
<1> HIDE DEF url
<1>5. \/ ReturnError
      \/ stage' = "respond" /\ UNCHANGED outgoing
      \/ IsResponse(t) /\ Protocol(url) # 0 /\ FollowRedirect(t, url)
  BY DEF Receive, url
<1> QED
  BY <1>2, <1>3, <1>4, <1>5

LEMMA ReadUntilDelivered ==
  ASSUME EInv, DInv, ReadUntil
  PROVE  DInv'
<1>1. /\ stage = "reading" /\ stage' = "reading" /\ UNCHANGED <<text, request, response, outgoing>>
      /\ got' \in (got + 1)..Min({Len(text), MaxBuffer})
  BY DEF ReadUntil, visit
<1>2. got' <= MaxBuffer
  <2>1. Min({Len(text), MaxBuffer}) <= MaxBuffer
    <3>1. {MaxBuffer, Len(text)} \in SUBSET Nat /\ {MaxBuffer, Len(text)} # {}
      BY BufferedIsText, BufferAssumption
    <3> QED BY <3>1, MinIsLeast
  <2>2. Min({Len(text), MaxBuffer}) \in Nat
    <3>1. {MaxBuffer, Len(text)} \in SUBSET Nat /\ {MaxBuffer, Len(text)} # {}
      BY BufferedIsText, BufferAssumption
    <3> QED BY <3>1, MinIsLeast
  <2>3. PICK least \in Nat : least = Min({Len(text), MaxBuffer}) /\ least <= MaxBuffer
    BY <2>1, <2>2
  <2> QED BY <1>1, <2>3, BufferedIsText, BufferAssumption
<1> QED
  BY <1>1, <1>2, DeliveredKept

LEMMA MountDelivered ==
  ASSUME EInv, DInv, NEW kind, NEW prefix, NEW url, NEW sent, Mount(kind, prefix, url, sent)
  PROVE  DInv'
<1>1. stage = "new" /\ stage' = "reading" /\ UNCHANGED <<got, response>>
  BY DEF Mount
<1>2. got' = 0 /\ 0 <= MaxBuffer /\ response'.status # 400
  BY <1>1, BufferAssumption DEF EInv, DInv, NotYet
<1> QED
  BY <1>1, <1>2 DEF DInv, Fits, NotYet, Holds, Completes, Rightly, Handled, Refused

LEMMA DeliveredStep == Classified /\ EInv /\ SInv /\ RInv /\ DInv /\ [ExchangeNext]_exchangeVars => DInv'
<1> SUFFICES ASSUME Classified, EInv, SInv, RInv, DInv, [ExchangeNext]_exchangeVars
             PROVE  DInv'
  OBVIOUS
<1>1. CASE UNCHANGED exchangeVars \/ Over
  <2>1. UNCHANGED <<stage, text, got, request, response, outgoing>>
    BY <1>1 DEF exchangeVars, Over, visit, connection
  <2>2. Held' <=> Held
    BY <2>1, HeldStays
  <2>3. EnoughRead' <=> EnoughRead
    BY <2>1, HeldStays
  <2>4. (Refused' <=> Refused) /\ (Handled' <=> Handled)
    BY <2>1 DEF Refused, Handled
  <2> QED BY <2>1, <2>2, <2>3, <2>4 DEF DInv, Fits, NotYet, Holds, Completes, Rightly
<1>2. CASE \E kind \in Handlers, prefix \in UriPrefixes, url \in ProxyPasses :
             \E sent \in Tried(kind, url) : Mount(kind, prefix, url, sent)
  BY <1>2, MountDelivered
<1>3. CASE (\E prefix \in UriPrefixes : MountRefused(prefix)) \/ TooLong \/ ClientLeaves \/ AbandonBody
  <2>1. /\ stage \in {"new", "reading", "body"} /\ stage' \in {"refused", "closed", "abandoned"}
        /\ UNCHANGED <<text, got, request, response, outgoing>>
    BY <1>3 DEF MountRefused, TooLong, ClientLeaves, AbandonBody, visit, connection
  <2> QED BY <2>1, DeliveredKept
<1>4. CASE ReadUntil
  BY <1>4, ReadUntilDelivered
<1>5. CASE HandleRequest
  BY <1>5, HandleRequestDelivered
<1>6. CASE ReadBody
  BY <1>6, ReadBodyDelivered
<1>7. CASE EndBody
  <2>1. /\ stage = "body" /\ stage' = "route" /\ EnoughRead
        /\ UNCHANGED <<text, got, request, response, outgoing>>
    BY <1>7 DEF EndBody, EnoughRead, visit, connection
  <2> QED BY <2>1, DeliveredKept
<1>8. CASE RunHandler
  BY <1>8, RunHandlerDelivered
<1>9. CASE Visit
  <2>1. CASE (EstablishConnection \/ VisitThrows) /\ UNCHANGED connection
    <3>1. /\ stage \in {"visiting", "waiting"} /\ stage' \in {"waiting", "ended"}
          /\ UNCHANGED <<text, got, request, response, outgoing>>
      BY <2>1 DEF EstablishConnection, VisitThrows, visit, connection
    <3> QED BY <3>1, DeliveredKept
  <2>2. CASE VisitFails /\ UNCHANGED connection
    <3>1. Visiting /\ ReturnError /\ UNCHANGED <<text, got, request>>
      BY <2>2 DEF VisitFails, Visiting, connection
    <3> QED BY <3>1, FailedDelivered
  <2>3. CASE (\E t \in RemoteTexts : Receive(t)) /\ UNCHANGED connection
    BY <2>3, ReceiveDelivered
  <2>4. /\ \/ EstablishConnection \/ VisitFails \/ VisitThrows
           \/ \E t \in RemoteTexts : Receive(t)
        /\ UNCHANGED connection
    BY <1>9, Zenon DEF Visit, ProxyStep
  <2> QED BY <2>1, <2>2, <2>3, <2>4
<1>10. CASE WriteResponse
  <2>1. /\ stage = "respond" /\ stage' = "written"
        /\ UNCHANGED <<text, got, request, response, outgoing>>
    BY <1>10 DEF WriteResponse, visit
  <2> QED BY <2>1, DeliveredKept
<1> QED
  BY <1>1, <1>2, <1>3, <1>4, <1>5, <1>6, <1>7, <1>8, <1>9, <1>10 DEF ExchangeNext, Proceed

LEMMA NoSpaceWithin ==
  ASSUME NEW s \in Text, Plain(s)
  PROVE  " " \notin ToSet(s)
<1>1. Occurrences(s, Space) = {}
  BY PlainParts
<1>2. PICK blank : blank = " "
  OBVIOUS
<1>3. PICK sp \in Text : sp = Space
  BY WordsAreTexts
<1>4. Len(sp) = 1
  BY <1>3 DEF Space
<1>5. sp[1] = blank
  BY <1>2, <1>3 DEF Space
<1>6. ASSUME NEW k \in 1..Len(s), s[k] = blank
      PROVE  FALSE
  <2>1. k \in Nat /\ Len(s) \in Nat /\ 1 <= k /\ k <= Len(s)
    BY DEF Text
  <2>2. k + Len(sp) <= Len(s) + 1
    BY <1>4, <2>1
  <2>3. \A j \in 1..Len(sp) : s[k + j - 1] = sp[j]
    <3>1. \A j \in 1..Len(sp) : j = 1
      BY <1>4
    <3>2. k + 1 - 1 = k
      BY <2>1
    <3> QED BY <1>5, <1>6, <3>1, <3>2
  <2>4. k \in Occurrences(s, sp)
    BY <2>1, <2>2, <2>3, OccurrenceTokens
  <2> QED BY <1>1, <1>3, <2>4
<1>7. blank \notin ToSet(s)
  BY <1>6 DEF ToSet, Text
<1> QED
  BY <1>2, <1>7, Zenon

LEMMA NumberKnown ==
  ASSUME NEW value, IsLength(value)
  PROVE  LengthOf(value) \in Numbers /\ LengthOf(value) \in Int
<1>1. value[FirstWord(value)] \in DOMAIN NumberOf
  BY DEF IsLength, IsNumber
<1>2. PICK w : w = value[FirstWord(value)] /\ w \in DOMAIN NumberOf
  BY <1>1
<1>3. PICK m \in Numbers : w = Numeral[m]
  BY <1>2 DEF NumberOf
<1>4. NumberOf[w] = CHOOSE n \in Numbers : Numeral[n] = w
  BY <1>2 DEF NumberOf
<1>5. NumberOf[w] \in Numbers
  BY <1>3, <1>4
<1>6. LengthOf(value) \in Numbers
  BY <1>2, <1>5 DEF LengthOf
<1> QED
  BY <1>6, TokensAssumption

LEMMA OwnClean ==
  ASSUME NEW headers \in Seq(Fields), Clean(headers), NEW h \in ToSet(headers)
  PROVE  Occurrences(h.key, ColonSpace) = {}
BY DEF Clean, ToSet

LEMMA PrefixOf ==
  ASSUME NEW s \in Text, NEW t \in Text
  PROVE  IsPrefix(s, Cat(s, t))
<1>1. PICK both \in Text : both = Cat(s, t)
  BY CatElements
<1>2. PICK m \in Nat, n \in Nat : m = Len(s) /\ n = Len(t) /\ Len(both) = m + n
  BY <1>1, CatElements
<1>3. \A k \in 1..m : both[k] = s[k]
  BY <1>1, <1>2, CatElements
<1>4. SubSeq(s, 1, m) = s
  BY <1>2, SubSeqFull DEF Text
<1>5. SubSeq(both, 1, m) = s
  <2>1. SubSeq(both, 1, m) \in Text /\ Len(SubSeq(both, 1, m)) = m
    <3>1. m <= Len(both)
      BY <1>2
    <3> QED BY <3>1, ReadMore
  <2>2. \A k \in 1..m : SubSeq(both, 1, m)[k] = both[k]
    BY <1>2 DEF Text
  <2>3. PICK part \in Text : part = SubSeq(both, 1, m) /\ Len(part) = m /\ \A k \in 1..m : part[k] = both[k]
    BY <2>1, <2>2
  <2>4. part = s
    BY <1>2, <1>3, <2>3 DEF Text
  <2> QED BY <2>3, <2>4
<1>6. Len(s) <= Len(both)
  BY <1>2
<1> QED
  BY <1>1, <1>2, <1>4, <1>5, <1>6, Zenon DEF IsPrefix

\* Of a number that a size_t holds as it is, the body that is announced is
\* there; a negative one announces more than anybody sends.
LEMMA EnoughSent ==
  ASSUME WideEnough, NEW n \in Numbers, NEW m \in Nat, m >= n % SizeRange,
         NEW t \in WellFormed \cup Malformed, m <= Len(t)
  PROVE  n \in 0..m
<1>1. n \in Int /\ SizeRange \in Nat \ {0}
  BY TokensAssumption, BufferAssumption
<1>2. PICK size \in Int : size = n % SizeRange
  BY <1>1
<1>3. Len(t) \in Nat
  BY SentIsText
<1>4. CASE n >= 0
  <2>1. n % SizeRange = n
    BY <1>4 DEF WideEnough
  <2> QED BY <1>1, <1>4, <2>1
<1>5. CASE ~ (n >= 0)
  <2>1. Len(t) < n % SizeRange
    BY <1>5 DEF WideEnough
  <2> QED BY <1>2, <1>3, <2>1
<1> QED
  BY <1>4, <1>5

\* What has been read of a request is the beginning of one that is well made.
LEMMA ReadIsSent ==
  ASSUME WideEnough, NEW t \in WellFormed \cup Malformed,
         NEW b \in Text, NEW rest \in Text, t = Cat(b, rest), IsRequest(b),
         NEW r \in Requests, r = ParseRequest(b), NEW s \in Requests, s = AsSent(r),
         Len(HeadText(s)) <= MaxBuffer,
         r.method = <<"POST">> => /\ IsLength(ContentLength(r))
                                  /\ Len(r.body) >= Announced(ContentLength(r))
  PROVE  /\ WellMade(t)
         /\ s.method = <<"POST">> => Len(s.body) >= LengthOf(ContentLength(s))
<1>1. /\ s.method = r.method /\ s.body = r.body /\ Readable(s) /\ Marked(r.headers, s.headers)
      /\ b = Cat(HeadText(s), BodyOf(b))
  BY SentHead
<1>2. r.body = BodyOf(b)
  BY FieldsOfParse
<1>3. PICK body \in Text, head \in Text : body = s.body /\ head = HeadText(s) /\ b = Cat(head, body)
  <2>1. s.body \in Text /\ HeadText(s) \in Text
    BY HeadOfMessage, EmptyText DEF Requests
  <2> QED BY <1>1, <1>2, <2>1
<1>4. PICK all \in Text : all = Cat(body, rest) /\ t = Cat(head, all)
  <2>1. PICK all \in Text : all = Cat(body, rest)
    BY CatElements
  <2>2. Cat(Cat(head, body), rest) = Cat(head, Cat(body, rest))
    BY CatsAssociate
  <2> QED BY <1>3, <2>1, <2>2
<1>5. PICK m \in Nat, n \in Nat, k \in Nat :
        m = Len(body) /\ n = Len(all) /\ k = Len(t) /\ m <= n /\ n <= k
  <2>1. Len(body) \in Nat /\ Len(rest) \in Nat /\ Len(Cat(body, rest)) = Len(body) + Len(rest)
    BY CatElements
  <2>2. Len(head) \in Nat /\ Len(all) \in Nat /\ Len(Cat(head, all)) = Len(head) + Len(all)
    BY CatElements
  <2> QED BY <1>4, <2>1, <2>2
<1>6. ASSUME s.method = <<"POST">>
      PROVE  IsLength(ContentLength(s)) /\ LengthOf(ContentLength(s)) \in 0..m
  <2>1. PICK key : key = <<"Content-Length">>
    OBVIOUS
  <2>2. IsLength(get_header(r.headers, key)) <=> IsLength(get_header(s.headers, key))
    BY <1>1, NumberMarked
  <2>3. IsLength(get_header(s.headers, key)) =>
          LengthOf(get_header(r.headers, key)) = LengthOf(get_header(s.headers, key))
    BY <1>1, NumberMarked
  <2>4. IsLength(ContentLength(s)) /\ LengthOf(ContentLength(r)) = LengthOf(ContentLength(s))
    BY <1>1, <1>6, <2>1, <2>2, <2>3, Zenon DEF ContentLength
  <2>5. PICK number \in Numbers : number = LengthOf(ContentLength(s))
    BY <2>4, NumberKnown
  <2>6. Len(r.body) >= number % SizeRange
    BY <1>1, <1>6, <2>4, <2>5 DEF Announced
  <2>7. m >= number % SizeRange /\ m <= Len(t)
    <3>1. Len(r.body) = m
      BY <1>1, <1>3, <1>5, Zenon
    <3>2. m <= k
      BY <1>5
    <3> QED BY <1>5, <2>6, <3>1, <3>2
  <2>8. number \in 0..m
    BY <2>7, EnoughSent
  <2> QED BY <2>4, <2>5, <2>8
<1>7. WellMade(t)
  <2>1. PICK sent \in Requests : sent = [s EXCEPT !.body = all]
    BY DEF Requests
  <2>2. /\ sent.method = s.method /\ sent.uri = s.uri /\ sent.version = s.version
        /\ sent.headers = s.headers /\ sent.body = all
    BY <2>1 DEF Requests
  <2>3. Readable(sent)
    BY <1>1, <2>2, ReadableFields
  <2>4. HeadText(sent) = head
    BY <1>3, <2>2, Zenon DEF HeadText
  <2>5. ContentLength(sent) = ContentLength(s)
    BY <2>2, Zenon DEF ContentLength
  <2>6. sent.method = <<"POST">> =>
          IsLength(ContentLength(sent)) /\ LengthOf(ContentLength(sent)) \in 0..Len(sent.body)
    <3>1. ASSUME s.method = <<"POST">>
          PROVE  IsLength(ContentLength(s)) /\ LengthOf(ContentLength(s)) \in 0..n
      BY <1>5, <1>6, <3>1
    <3> QED BY <1>5, <2>2, <2>5, <3>1
  <2>7. IsSent(sent)
    BY <1>3, <2>3, <2>4, <2>6, Zenon DEF IsSent
  <2> QED BY <1>4, <2>2, <2>4, <2>7, Zenon DEF WellMade
<1>8. ASSUME s.method = <<"POST">>
      PROVE  Len(s.body) >= LengthOf(ContentLength(s))
  <2>1. PICK number \in 0..m : number = LengthOf(ContentLength(s))
    BY <1>6, <1>8
  <2>2. m >= number
    OBVIOUS
  <2>3. Len(s.body) = m
    BY <1>3, <1>5, Zenon
  <2> QED BY <2>1, <2>2, <2>3
<1> QED
  BY <1>7, <1>8

LEMMA DeliveredHolds ==
  ASSUME EInv, DInv, Classified, WideEnough
  PROVE  DeliveredAsSent
<1> DEFINE announced == get_header(AsSent(request).headers, <<"Content-Length">>)
<1>1. ASSUME Handled
      PROVE  /\ text \in WellFormed
             /\ " " \notin ToSet(AsSent(request).uri)
             /\ \A h \in ToSet(AsSent(request).headers) : Occurrences(h.key, ColonSpace) = {}
             /\ request.raw = HeadText(AsSent(request)) \o AsSent(request).body
             /\ IsPrefix(request.raw, text)
             /\ AsSent(request).method = <<"POST">> => Len(AsSent(request).body) >= LengthOf(announced)
  <2>1. Held /\ EnoughRead
    BY <1>1 DEF DInv, Holds, Completes
  <2>2. PICK b \in Text, rest \in Text : b = Buffered /\ text = Cat(b, rest)
    BY BufferedAndRest, BufferedIsText
  <2>3. /\ IsRequest(b) /\ request = ParseRequest(b)
        /\ Len(HeadText(AsSent(request))) <= MaxBuffer
        /\ request.method = <<"POST">> => IsLength(ContentLength(request))
    BY <2>1, <2>2, Zenon DEF Held
  <2>4. PICK r \in Requests : r = request
    BY DEF EInv, Texts
  <2>5. PICK s \in Requests :
          /\ s = AsSent(r) /\ s.body = r.body /\ Readable(s) /\ b = Cat(HeadText(s), BodyOf(b))
    BY <2>3, <2>4, SentHead
  <2>6. r.raw = b /\ r.body = BodyOf(b)
    BY <2>3, <2>4, FieldsOfParse, Zenon
  <2>7. text \in WellFormed \cup Malformed
    <3>1. text # <<>>
      <4>1. FindIn(<<>>, BlankLine) = 0
        BY EmptyText, WordsAreTexts DEF FindIn
      <4>2. FindIn(text, BlankLine) # 0
        BY <2>2, <2>3, MoreBehind DEF IsRequest
      <4> QED BY <4>1, <4>2
    <3> QED BY <3>1 DEF EInv, ExchangeTypeOK
  <2>8. r.method = <<"POST">> => /\ IsLength(ContentLength(r))
                                 /\ Len(r.body) >= Announced(ContentLength(r))
    BY <2>1, <2>3, <2>4, Zenon DEF EnoughRead, BodyIsRead
  <2>9. /\ WellMade(text)
        /\ s.method = <<"POST">> => Len(s.body) >= LengthOf(ContentLength(s))
    <3>1. PICK t \in WellFormed \cup Malformed : t = text /\ t = Cat(b, rest)
      BY <2>2, <2>7
    <3>2. IsRequest(b) /\ r = ParseRequest(b) /\ s = AsSent(r) /\ Len(HeadText(s)) <= MaxBuffer
      BY <2>3, <2>4, <2>5, Zenon
    <3>3. WellMade(t) /\ (s.method = <<"POST">> => Len(s.body) >= LengthOf(ContentLength(s)))
      BY <2>8, <3>1, <3>2, ReadIsSent
    <3> QED BY <3>1, <3>3
  <2>10. text \in WellFormed
    BY <2>7, <2>9 DEF Classified
  <2>11. " " \notin ToSet(s.uri)
    <3>1. s.uri \in Text /\ Plain(s.uri)
      BY <2>5 DEF Requests, Readable
    <3> QED BY <3>1, NoSpaceWithin, Zenon
  <2>12. \A h \in ToSet(s.headers) : Occurrences(h.key, ColonSpace) = {}
    <3>1. s.headers \in Seq(Fields) /\ Clean(s.headers)
      BY <2>5 DEF Requests, Readable
    <3> QED BY <3>1, OwnClean
  <2>13. r.raw = HeadText(s) \o s.body
    BY <2>5, <2>6, Zenon DEF Cat
  <2>14. IsPrefix(r.raw, text)
    BY <2>2, <2>6, PrefixOf, Zenon
  <2> QED BY <2>4, <2>5, <2>9, <2>10, <2>11, <2>12, <2>13, <2>14, Zenon DEF ContentLength
<1>2. Refused => text \in Malformed
  BY DEF DInv, Rightly
<1> QED
  BY <1>1, <1>2, Zenon DEF DeliveredAsSent

\* However the text of a client is cut on its way, a handler is called with
\* the request that it is, and only a malformed one is answered with 400
\* (connection.cc:46-92, request.cc:130-194).  That the texts are called
\* well-formed or malformed rightly, and that a size_t holds every number that
\* is written in one, is assumed.
THEOREM RequestsDelivered ==
  ASSUME Classified, WideEnough
  PROVE  ExchangeSpec => []DeliveredAsSent
<1>1. EInv /\ SInv /\ RInv /\ DInv /\ [ExchangeNext]_exchangeVars => DInv'
  BY DeliveredStep
<1>2. EInv /\ SInv /\ RInv /\ [ExchangeNext]_exchangeVars => RInv'
  BY MeantStep
<1>3. EInv /\ SInv /\ [ExchangeNext]_exchangeVars => SInv'
  BY SentStep
<1>4. EInv /\ DInv => DeliveredAsSent
  BY DeliveredHolds
<1> QED
  BY Invariance, Initially, SentInitially, MeantInitially, DeliveredInitially,
     <1>1, <1>2, <1>3, <1>4, InvariantStep, PTL DEF ExchangeSpec
=============================================================================
