------------------------- MODULE ConfigParserProofs -------------------------
(***************************************************************************)
(* For a file of any length, Parse builds a well-formed tree, never uses   *)
(* the top of an empty stack or the last of no statements, accepts the     *)
(* files of the grammar and no others, and gives the caller a tree that    *)
(* says what the file said.                                                *)
(***************************************************************************)
EXTENDS ConfigParser, SequenceLemmas

\* The part of the type invariant about what Parse keeps.
TreeOK ==
  /\ blocks \in Seq(Seq(Statement))
  /\ config_stack \in Seq(DOMAIN blocks)
  /\ last_token_type \in TokenTypes \cup {"START"}
  /\ bracket_count \in Nat
  /\ tokens \in Seq(TokenTypes)
  /\ result \in {"closed", "reading"} \cup Results

\* The part about what ParseToken keeps.
LexerOK ==
  /\ read \in 0..MaxInput
  /\ unread \in Chars \cup {NoChar}
  /\ state \in LexerStates
  /\ value \in Seq(Chars)

TreeInv == TreeOK /\ AccessesDefined

PInv == LexerOK /\ TreeInv

LEMMA TypeSplit == ParserTypeOK <=> LexerOK /\ TreeOK
BY DEF ParserTypeOK, LexerOK, TreeOK

\* The NginxConfig that Parse works on is one that exists.
LEMMA TopExists ==
  ASSUME TreeInv
  PROVE  /\ top \in DOMAIN blocks
         /\ blocks[top] \in Seq(Statement)
         /\ Len(config_stack) \in Nat \ {0}
BY DEF TreeInv, TreeOK, AccessesDefined, top, Last

LEMMA RejectStep ==
  ASSUME TreeInv, NEW type \in TokenTypes, Reject(type)
  PROVE  TreeInv'
BY DEF TreeInv, TreeOK, AccessesDefined, Reject, Results, top

\* A word ends up in the last statement of the block on top.
LEMMA AddWordStep ==
  ASSUME TreeInv, NEW word \in Seq(Chars), AddWord(word)
  PROVE  TreeInv'
<1> DEFINE stmts == blocks[top]
           n == Len(stmts)
           new == IF last_token_type # "NORMAL"
                  THEN Append(stmts, [words |-> <<word>>, child |-> 0])
                  ELSE [stmts EXCEPT ![n].words = Append(stmts[n].words, word)]
<1>1. top \in DOMAIN blocks /\ stmts \in Seq(Statement) /\ Len(config_stack) \in Nat \ {0}
  BY TopExists
<1>2. blocks' = [blocks EXCEPT ![top] = new] /\ UNCHANGED <<config_stack, bracket_count>>
  BY DEF AddWord
<1>3. new \in Seq(Statement) /\ new # <<>>
  <2>1. CASE last_token_type # "NORMAL"
    <3>1. [words |-> <<word>>, child |-> 0] \in Statement
      BY DEF Statement
    <3> QED BY <1>1, <2>1, <3>1
  <2>2. CASE last_token_type = "NORMAL"
    <3>1. n \in Nat \ {0} /\ n \in DOMAIN stmts
      BY <1>1, <2>2 DEF TreeInv, AccessesDefined
    <3>11. stmts[n] \in Statement
      BY <1>1, <3>1
    <3>12. stmts[n].words \in Seq(Seq(Chars))
      BY <3>11 DEF Statement
    <3>13. \A ws \in Seq(Seq(Chars)) : Append(ws, word) \in Seq(Seq(Chars))
      OBVIOUS
    <3>2. stmts[n] \in Statement /\ Append(stmts[n].words, word) \in Seq(Seq(Chars))
      BY <3>11, <3>12, <3>13
    <3>3. [stmts[n] EXCEPT !.words = Append(stmts[n].words, word)] \in Statement
      BY <3>2 DEF Statement
    <3> DEFINE longer == [stmts[n] EXCEPT !.words = Append(stmts[n].words, word)]
    <3>4. new = [stmts EXCEPT ![n] = longer]
      BY <2>2
    <3>5. longer \in Statement
      BY <3>3
    <3> HIDE DEF longer
    <3>6. [stmts EXCEPT ![n] = longer] \in Seq(Statement)
      BY <1>1, <3>1, <3>5
    <3>7. Len([stmts EXCEPT ![n] = longer]) = n
      BY <1>1, <3>1
    <3> HIDE DEF new, n
    <3>8. new \in Seq(Statement) /\ Len(new) # 0
      BY <3>1, <3>4, <3>6, <3>7
    <3> QED BY <3>8
  <2> QED BY <2>1, <2>2
<1> HIDE DEF new
<1>4. /\ blocks' \in Seq(Seq(Statement))
      /\ DOMAIN blocks' = DOMAIN blocks
      /\ blocks'[top] = new
  BY <1>1, <1>2, <1>3 DEF TreeInv, TreeOK
<1>5. top' = top
  BY <1>2 DEF top, Last
<1>6. last_token_type' = "NORMAL" /\ tokens' = Append(tokens, "NORMAL") /\ UNCHANGED result
  BY DEF AddWord, Accept
<1> QED BY <1>2, <1>3, <1>4, <1>5, <1>6 DEF TreeInv, TreeOK, AccessesDefined, TokenTypes

LEMMA EndStatementStep ==
  ASSUME TreeInv, EndStatement
  PROVE  TreeInv'
<1>1. CASE last_token_type = "NORMAL"
  <2>1. /\ last_token_type' = "STATEMENT_END"
        /\ tokens' = Append(tokens, "STATEMENT_END")
        /\ UNCHANGED <<blocks, config_stack, bracket_count, result>>
    BY <1>1 DEF EndStatement, Accept
  <2>2. tokens' \in Seq(TokenTypes)
    BY <2>1 DEF TreeInv, TreeOK, TokenTypes
  <2> QED BY <2>1, <2>2 DEF TreeInv, TreeOK, AccessesDefined, TokenTypes
<1>2. CASE last_token_type # "NORMAL"
  BY <1>2, RejectStep DEF EndStatement, TokenTypes
<1> QED BY <1>1, <1>2

\* The new block is the child of the last statement and goes on the stack.
LEMMA StartBlockStep ==
  ASSUME TreeInv, StartBlock
  PROVE  TreeInv'
<1>1. CASE last_token_type # "NORMAL"
  BY <1>1, RejectStep DEF StartBlock, TokenTypes
<1>2. CASE last_token_type = "NORMAL"
  <2> DEFINE stmts == blocks[top]
             n == Len(stmts)
             child == Len(blocks) + 1
             parent == [stmts[n] EXCEPT !.child = child]
             linked == [stmts EXCEPT ![n] = parent]
             grown == [blocks EXCEPT ![top] = linked]
  <2>1. top \in DOMAIN blocks /\ stmts \in Seq(Statement) /\ Len(config_stack) \in Nat \ {0}
    BY TopExists
  <2>2. n \in Nat \ {0} /\ n \in DOMAIN stmts /\ stmts[n] \in Statement /\ child \in Nat
    BY <1>2, <2>1 DEF TreeInv, AccessesDefined, TreeOK
  <2>3. parent \in Statement
    BY <2>2 DEF Statement
  <2>4. /\ blocks' = Append(grown, <<>>)
        /\ config_stack' = Append(config_stack, child)
        /\ bracket_count' = bracket_count + 1
        /\ last_token_type' = "START_BLOCK"
        /\ tokens' = Append(tokens, "START_BLOCK")
        /\ UNCHANGED result
    BY <1>2 DEF StartBlock, Accept
  <2> HIDE DEF parent
  <2>5. linked \in Seq(Statement)
    BY <2>1, <2>2, <2>3
  <2> HIDE DEF linked
  <2>6. grown \in Seq(Seq(Statement)) /\ Len(grown) = Len(blocks)
    BY <2>1, <2>5 DEF TreeInv, TreeOK
  <2> HIDE DEF grown
  <2>7. blocks' \in Seq(Seq(Statement)) /\ DOMAIN blocks' = 1..child
    BY <2>4, <2>6 DEF TreeInv, TreeOK
  <2>8. config_stack \in Seq(1..child) /\ child \in 1..child
    BY <2>2 DEF TreeInv, TreeOK
  <2>9. config_stack' \in Seq(DOMAIN blocks') /\ Len(config_stack') = Len(config_stack) + 1
    BY <2>4, <2>7, <2>8
  <2> QED BY <2>4, <2>7, <2>9 DEF TreeInv, TreeOK, AccessesDefined, TokenTypes
<1> QED BY <1>1, <1>2

\* A bracket is taken off the stack only while the count says it was put there.
LEMMA EndBlockStep ==
  ASSUME TreeInv, EndBlock
  PROVE  TreeInv'
<1>1. CASE /\ last_token_type \in {"STATEMENT_END", "END_BLOCK", "START_BLOCK"}
           /\ bracket_count > 0
  <2>1. Len(config_stack) = bracket_count + 1 /\ config_stack \in Seq(DOMAIN blocks)
    BY DEF TreeInv, AccessesDefined, TreeOK
  <2>2. config_stack' = SubSeq(config_stack, 1, Len(config_stack) - 1) /\ blocks' = blocks
    BY <1>1 DEF EndBlock, Front
  <2>3. config_stack' \in Seq(DOMAIN blocks') /\ Len(config_stack') = Len(config_stack) - 1
    BY <1>1, <2>1, <2>2 DEF TreeInv, TreeOK
  <2>4. /\ bracket_count' = bracket_count - 1
        /\ last_token_type' = "END_BLOCK"
        /\ tokens' = Append(tokens, "END_BLOCK")
        /\ UNCHANGED result
    BY <1>1 DEF EndBlock, Accept
  <2> QED BY <1>1, <2>1, <2>2, <2>3, <2>4 DEF TreeInv, TreeOK, AccessesDefined, TokenTypes
<1>2. CASE ~ (/\ last_token_type \in {"STATEMENT_END", "END_BLOCK", "START_BLOCK"}
              /\ bracket_count > 0)
  BY <1>2, RejectStep DEF EndBlock, TokenTypes
<1> QED BY <1>1, <1>2

LEMMA ParseStep ==
  ASSUME TreeInv, NEW type \in TokenTypes, NEW text \in Seq(Chars), Parse(type, text)
  PROVE  TreeInv'
BY AddWordStep, EndStatementStep, StartBlockStep, EndBlockStep DEF Parse, TokenTypes

\* The text of a token and the character put back are made of characters read.
LEMMA ReturnStep ==
  ASSUME PInv, NEW c \in Chars, Get(c), NEW type \in TokenTypes, NEW text \in Seq(Chars),
         NEW back \in Chars \cup {NoChar}, Return(type, text, back)
  PROVE  PInv'
<1>1. TreeInv'
  BY ParseStep DEF PInv, Return
<1>2. LexerOK'
  BY ParserAssumption DEF PInv, LexerOK, Get, Return, LexerStates
<1> QED BY <1>1, <1>2 DEF PInv

LEMMA ContinueStep ==
  ASSUME PInv, NEW c \in Chars, Get(c), NEW next \in LexerStates, NEW text \in Seq(Chars),
         Continue(next, text)
  PROVE  PInv'
<1>1. TreeInv'
  BY DEF PInv, Continue, tree, TreeInv, TreeOK, AccessesDefined, top
<1>2. LexerOK'
  BY ParserAssumption DEF PInv, LexerOK, Get, Continue
<1> QED BY <1>1, <1>2 DEF PInv

LEMMA ReadStep ==
  ASSUME PInv, NEW c \in Chars,
         InitialWhitespace(c) \/ Quoted(c) \/ Comment(c) \/ Normal(c)
  PROVE  PInv'
<1>1. Get(c)
  BY DEF InitialWhitespace, Quoted, Comment, Normal
<1>2. /\ value \in Seq(Chars) /\ <<c>> \in Seq(Chars) /\ <<>> \in Seq(Chars)
      /\ Append(value, c) \in Seq(Chars)
      /\ state \in LexerStates
  BY DEF PInv, LexerOK
<1>3. /\ DOMAIN Punctuation = {";", "{", "}"}
      /\ \A p \in DOMAIN Punctuation : Punctuation[p] \in TokenTypes
  BY DEF Punctuation, TokenTypes
<1>4. CASE InitialWhitespace(c)
  BY <1>1, <1>2, <1>3, <1>4, ReturnStep, ContinueStep DEF InitialWhitespace, LexerStates
<1>5. CASE Quoted(c)
  BY <1>1, <1>2, <1>5, ReturnStep, ContinueStep DEF Quoted, TokenTypes
<1>6. CASE Comment(c)
  BY <1>1, <1>2, <1>6, ContinueStep DEF Comment, LexerStates
<1>7. CASE Normal(c)
  BY <1>1, <1>2, <1>7, ReturnStep, ContinueStep DEF Normal, TokenTypes, LexerStates
<1> QED BY <1>4, <1>5, <1>6, <1>7

\* The invariant holds in every state, for every MaxInput.
THEOREM ParserInvariance == ParserSpec => []PInv
<1>1. ParserInit => PInv
  BY ParserAssumption DEF ParserInit, PInv, LexerOK, TreeInv, TreeOK, AccessesDefined,
     LexerStates, Statement, top, Last
<1>2. PInv /\ [ParserNext]_parserVars => PInv'
  <2> SUFFICES ASSUME PInv, [ParserNext]_parserVars
               PROVE  PInv'
    OBVIOUS
  <2>1. CASE \E c \in Chars : InitialWhitespace(c) \/ Quoted(c) \/ Comment(c) \/ Normal(c)
    BY <2>1, ReadStep
  <2>2. CASE OpenFile \/ EndOfFile \/ ParserDone \/ UNCHANGED parserVars
    BY <2>2 DEF OpenFile, EndOfFile, ParserDone, parserVars, lexer, tree, PInv, LexerOK,
       TreeInv, TreeOK, AccessesDefined, Results, top
  <2> QED BY <2>1, <2>2 DEF ParserNext
<1> QED BY <1>1, <1>2, PTL DEF ParserSpec

\* The tree that Parse builds and what ParseToken keeps have their types.
THEOREM ParserTypes == ParserSpec => []ParserTypeOK
<1>1. PInv => ParserTypeOK
  BY TypeSplit DEF PInv, TreeInv
<1> QED BY <1>1, ParserInvariance, PTL

\* Parse (config_parser.cc:153-247) stays within its stack and its statement
\* lists whatever the file says.
THEOREM ParserAccesses == ParserSpec => []AccessesDefined
<1>1. PInv => AccessesDefined
  BY DEF PInv, TreeInv
<1> QED BY <1>1, ParserInvariance, PTL

-----------------------------------------------------------------------------
\* The grammar

\* One statement from b on, the last of it at n, if f knows where the lists
\* end that start after b.
IsStatement(s, f, b, m, n) ==
  /\ \A k \in b..m : s[k] = "NORMAL"
  /\ \/ n = m + 1 /\ s[n] = "STATEMENT_END"
     \/ /\ s[m + 1] = "START_BLOCK" /\ s[n] = "END_BLOCK"
        /\ m + 1 < n /\ n \in f[m + 2]

EndsFrom(s, f, b) ==
  {e \in b..(Len(s) + 1) :
     e = b \/ \E m \in b..(e - 2), n \in b..(e - 1) :
       IsStatement(s, f, b, m, n) /\ e \in f[n + 1]}

\* f says where the lists end that start at from or later.
AreEnds(s, f, from) == f = [b \in from..(Len(s) + 1) |-> EndsFrom(s, f, b)]

\* Where a list that starts at b may end depends on the places after b only.
LEMMA EndsLocal ==
  ASSUME NEW s, Len(s) \in Nat, NEW b \in 1..(Len(s) + 1), NEW f, NEW g,
         \A k \in (b + 1)..(Len(s) + 1) : f[k] = g[k]
  PROVE  EndsFrom(s, f, b) = EndsFrom(s, g, b)
<1>1. ASSUME NEW e \in b..(Len(s) + 1), NEW m \in b..(e - 2), NEW n \in b..(e - 1)
      PROVE  /\ f[n + 1] = g[n + 1]
             /\ m + 2 \in (b + 1)..(Len(s) + 1) => f[m + 2] = g[m + 2]
  <2>1. n + 1 \in (b + 1)..(Len(s) + 1)
    OBVIOUS
  <2> QED BY <2>1
<1>2. ASSUME NEW e \in b..(Len(s) + 1), NEW m \in b..(e - 2), NEW n \in b..(e - 1)
      PROVE  IsStatement(s, f, b, m, n) /\ e \in f[n + 1] <=> IsStatement(s, g, b, m, n) /\ e \in g[n + 1]
  <2>1. m + 2 \in (b + 1)..(Len(s) + 1)
    OBVIOUS
  <2> QED BY <1>1, <2>1 DEF IsStatement
<1> QED
  BY <1>2, Zenon DEF EndsFrom

LEMMA ShortEndsExist ==
  ASSUME NEW s, Len(s) \in Nat
  PROVE  \A n \in 0..Len(s) : \E f : AreEnds(s, f, Len(s) + 1 - n)
<1> DEFINE Without == {n \in Nat : n <= Len(s) /\ ~ \E f : AreEnds(s, f, Len(s) + 1 - n)}
           least == Min(Without)
<1>1. ASSUME Without # {}
      PROVE  FALSE
  <2>1. Without \in SUBSET Nat
    OBVIOUS
  <2>2. least \in Without /\ \A k \in Without : least <= k
    BY <1>1, <2>1, MinIsLeast
  <2>3. least \in Nat /\ least <= Len(s) /\ ~ \E f : AreEnds(s, f, Len(s) + 1 - least)
    BY <2>2
  <2> HIDE DEF least
  <2>4. PICK b \in 1..(Len(s) + 1) : b = Len(s) + 1 - least
    BY <2>3
  <2>5. \E f : b < Len(s) + 1 => AreEnds(s, f, b + 1)
    <3>1. CASE least = 0
      BY <2>3, <2>4, <3>1
    <3>2. CASE least # 0
      <4>1. least - 1 \in Nat /\ ~ (least <= least - 1) /\ least - 1 <= Len(s)
        BY <2>3, <3>2
      <4>2. PICK f : AreEnds(s, f, Len(s) + 1 - (least - 1))
        BY <2>2, <4>1
      <4>3. Len(s) + 1 - (least - 1) = b + 1
        BY <2>3, <2>4
      <4> QED BY <4>2, <4>3
    <3> QED BY <3>1, <3>2
  <2>6. PICK f : b < Len(s) + 1 => AreEnds(s, f, b + 1)
    BY <2>5
  <2> DEFINE g == [k \in b..(Len(s) + 1) |-> IF k = b THEN EndsFrom(s, f, b) ELSE f[k]]
  <2>7. \A k \in (b + 1)..(Len(s) + 1) : g[k] = f[k]
    OBVIOUS
  <2>8. ASSUME NEW k \in b..(Len(s) + 1)
        PROVE  g[k] = EndsFrom(s, g, k)
    <3>1. k \in 1..(Len(s) + 1) /\ \A j \in (k + 1)..(Len(s) + 1) : f[j] = g[j]
      BY <2>7
    <3> HIDE DEF g
    <3>2. EndsFrom(s, f, k) = EndsFrom(s, g, k)
      BY <3>1, EndsLocal
    <3>3. CASE k = b
      BY <3>2, <3>3 DEF g
    <3>4. CASE k # b
      <4>1. k \in (b + 1)..(Len(s) + 1) /\ b < Len(s) + 1
        BY <3>4
      <4>2. f = [j \in (b + 1)..(Len(s) + 1) |-> EndsFrom(s, f, j)]
        BY <2>6, <4>1 DEF AreEnds
      <4>3. f[k] = EndsFrom(s, f, k)
        BY <4>1, <4>2
      <4> QED BY <2>7, <3>2, <4>1, <4>3
    <3> QED BY <3>3, <3>4
  <2>9. AreEnds(s, g, b)
    BY <2>8 DEF AreEnds
  <2> QED BY <2>3, <2>4, <2>9
<1> QED
  BY <1>1

\* The recursion that IsStatementList is defined by has a solution.
LEMMA StatementListEnds ==
  ASSUME NEW s, Len(s) \in Nat
  PROVE  \E f : /\ \A b \in 1..(Len(s) + 1) : f[b] = EndsFrom(s, f, b)
                /\ IsStatementList(s) <=> Len(s) + 1 \in f[1]
<1> DEFINE f == CHOOSE f : f = [b \in 1..(Len(s) + 1) |-> EndsFrom(s, f, b)]
<1>1. \E g : g = [b \in 1..(Len(s) + 1) |-> EndsFrom(s, g, b)]
  <2>1. Len(s) \in 0..Len(s) /\ Len(s) + 1 - Len(s) = 1
    OBVIOUS
  <2> QED BY <2>1, ShortEndsExist DEF AreEnds
<1>2. f = [b \in 1..(Len(s) + 1) |-> EndsFrom(s, f, b)]
  BY <1>1
<1>3. IsStatementList(s) <=> Len(s) + 1 \in f[1]
  BY DEF IsStatementList, EndsFrom, IsStatement
<1> HIDE DEF f
<1>4. \A b \in 1..(Len(s) + 1) : f[b] = EndsFrom(s, f, b)
  BY <1>2
<1> QED
  BY <1>3, <1>4

-----------------------------------------------------------------------------
\* What a list looks like: where a token may stand, and how deep the blocks are

\* What Parse asks of the token before the one at k (config_parser.cc:178-230).
Follows(s, k) ==
  /\ s[k] \in {"STATEMENT_END", "START_BLOCK"} => s[k - 1] = "NORMAL"
  /\ s[k] = "END_BLOCK" => s[k - 1] \in {"STATEMENT_END", "END_BLOCK", "START_BLOCK"}

\* The tokens from b to before e stand where they may, the first is a word and
\* the last one ends a statement.
InOrder(s, b, e) ==
  /\ \A k \in (b + 1)..(e - 1) : Follows(s, k)
  /\ b < e => s[b] = "NORMAL" /\ s[e - 1] \in {"STATEMENT_END", "END_BLOCK"}

\* d counts the blocks that are open after each of the tokens b to last.
Deepens(s, d, b, last) ==
  \A k \in b..last :
    /\ s[k] \in {"NORMAL", "STATEMENT_END"} => d[k] = d[k - 1]
    /\ s[k] = "START_BLOCK" => d[k] = d[k - 1] + 1
    /\ s[k] = "END_BLOCK" => d[k] = d[k - 1] - 1

\* Words open and close nothing.
LEMMA WordsAreFlat ==
  ASSUME NEW s, NEW d, NEW last \in Nat, Deepens(s, d, 1, last),
         NEW b \in Nat \ {0}, NEW m \in Nat, \A k \in b..m : s[k] = "NORMAL"
  PROVE  \A k \in b..m : k <= last => d[k] = d[b - 1]
<1> DEFINE Wrong == {k \in Nat : k \in b..m /\ k <= last /\ d[k] # d[b - 1]}
           least == Min(Wrong)
<1>1. ASSUME Wrong # {}
      PROVE  FALSE
  <2>1. Wrong \in SUBSET Nat
    OBVIOUS
  <2>2. least \in Wrong /\ \A k \in Wrong : least <= k
    BY <1>1, <2>1, MinIsLeast
  <2>3. least \in Nat /\ least \in b..m /\ least <= last /\ d[least] # d[b - 1]
    BY <2>2
  <2> HIDE DEF least
  <2>4. d[least] = d[least - 1]
    BY <2>3 DEF Deepens
  <2>5. CASE least = b
    BY <2>3, <2>4, <2>5
  <2>6. CASE least # b
    <3>1. /\ least - 1 \in Nat /\ least - 1 \in b..m /\ least - 1 <= last
          /\ ~ (least <= least - 1)
      BY <2>3, <2>6
    <3>2. d[least - 1] = d[b - 1]
      BY <2>2, <3>1
    <3> QED BY <2>3, <2>4, <3>2
  <2> QED BY <2>5, <2>6
<1> QED
  BY <1>1

\* A statement from b to n that f finds: its words, then its end or a block.
LEMMA StatementShape ==
  ASSUME NEW s, NEW f, NEW b \in Nat, NEW m \in Nat, NEW n \in Nat, b <= m, b <= n,
         IsStatement(s, f, b, m, n)
  PROVE  /\ m < n
         /\ s[b] = "NORMAL" /\ s[m] = "NORMAL"
         /\ \/ n = m + 1 /\ s[n] = "STATEMENT_END"
            \/ /\ m + 2 <= n /\ n \in f[m + 2]
               /\ s[m + 1] = "START_BLOCK" /\ s[n] = "END_BLOCK"
BY DEF IsStatement

LEMMA ListInOrder ==
  ASSUME NEW s, Len(s) \in Nat, NEW f,
         \A b \in 1..(Len(s) + 1) : f[b] = EndsFrom(s, f, b)
  PROVE  \A b \in 1..(Len(s) + 1) : \A e \in f[b] : e \in b..(Len(s) + 1) /\ InOrder(s, b, e)
<1> DEFINE Wrong == {b \in 0..(Len(s) + 1) :
                       b # 0 /\ ~ \A e \in f[b] : e \in b..(Len(s) + 1) /\ InOrder(s, b, e)}
<1>1. ASSUME Wrong # {}
      PROVE  FALSE
  <2>1. Wrong \in SUBSET (0..(Len(s) + 1)) /\ Len(s) + 1 \in Nat
    OBVIOUS
  <2>2. PICK b \in Wrong : \A k \in Wrong : k <= b
    BY <1>1, <2>1, LargestExists
  <2>3. b \in 1..(Len(s) + 1) /\ ~ \A e \in f[b] : e \in b..(Len(s) + 1) /\ InOrder(s, b, e)
    BY <2>2
  <2>4. PICK e \in f[b] : ~ (e \in b..(Len(s) + 1) /\ InOrder(s, b, e))
    BY <2>3
  <2>5. e \in EndsFrom(s, f, b)
    BY <2>3, <2>4
  <2>6. e \in b..(Len(s) + 1) /\ ~ InOrder(s, b, e)
    BY <2>4, <2>5 DEF EndsFrom
  <2>7. e # b
    BY <2>3, <2>6 DEF InOrder
  <2>8. PICK m \in b..(e - 2), n \in b..(e - 1) : IsStatement(s, f, b, m, n) /\ e \in f[n + 1]
    BY <2>5, <2>7 DEF EndsFrom
  <2>9. /\ m < n
        /\ s[b] = "NORMAL" /\ s[m] = "NORMAL"
        /\ \/ n = m + 1 /\ s[n] = "STATEMENT_END"
           \/ /\ m + 2 <= n /\ n \in f[m + 2]
              /\ s[m + 1] = "START_BLOCK" /\ s[n] = "END_BLOCK"
    <3>1. b \in Nat /\ m \in Nat /\ n \in Nat /\ b <= m /\ b <= n
      BY <2>3, <2>6, <2>8
    <3> QED BY <2>8, <3>1, StatementShape
  <2>10. \A k \in b..m : s[k] = "NORMAL"
    BY <2>8 DEF IsStatement
  <2>11. \A k \in 1..(Len(s) + 1) : k > b => \A x \in f[k] : InOrder(s, k, x)
    <3>1. ASSUME NEW k \in 1..(Len(s) + 1), k > b
          PROVE  k \notin Wrong
      BY <2>2, <2>3, <3>1
    <3> QED BY <3>1
  <2>12. InOrder(s, n + 1, e)
    BY <2>3, <2>6, <2>8, <2>11
  <2>13. \A k \in (b + 1)..(n - 1) : Follows(s, k)
    <3> SUFFICES ASSUME NEW k \in (b + 1)..(n - 1)
                 PROVE  Follows(s, k)
      OBVIOUS
    <3>1. CASE k <= m
      <4>1. s[k] = "NORMAL"
        BY <2>3, <2>10, <3>1
      <4> QED BY <4>1 DEF Follows
    <3>2. CASE k = m + 1
      <4>1. s[k] = "START_BLOCK" /\ s[k - 1] = "NORMAL"
        BY <2>3, <2>6, <2>8, <2>9, <3>2
      <4> QED BY <4>1 DEF Follows
    <3>3. CASE k > m + 1
      <4>1. m + 2 <= n - 1 /\ n \in f[m + 2] /\ m + 2 \in 1..(Len(s) + 1) /\ m + 2 > b
        BY <2>3, <2>6, <2>8, <2>9, <3>3
      <4>2. InOrder(s, m + 2, n)
        BY <2>11, <4>1
      <4>3. s[m + 2] = "NORMAL" /\ \A j \in (m + 3)..(n - 1) : Follows(s, j)
        BY <2>3, <2>6, <2>8, <4>1, <4>2 DEF InOrder
      <4>4. CASE k = m + 2
        BY <4>3, <4>4 DEF Follows
      <4>5. CASE k # m + 2
        <5>1. k \in (m + 3)..(n - 1)
          BY <2>3, <2>6, <2>8, <3>3, <4>5
        <5> QED BY <4>3, <5>1
      <4> QED BY <4>4, <4>5
    <3> QED BY <2>3, <2>6, <2>8, <3>1, <3>2, <3>3
  <2>14. Follows(s, n)
    <3>1. CASE n = m + 1 /\ s[n] = "STATEMENT_END"
      <4>1. s[n - 1] = "NORMAL"
        BY <2>3, <2>6, <2>8, <2>9, <3>1
      <4> QED BY <3>1, <4>1 DEF Follows
    <3>2. CASE /\ m + 2 <= n /\ n \in f[m + 2]
               /\ s[m + 1] = "START_BLOCK" /\ s[n] = "END_BLOCK"
      <4>1. CASE n = m + 2
        <5>1. s[n - 1] = "START_BLOCK"
          BY <2>3, <2>6, <2>8, <3>2, <4>1
        <5> QED BY <3>2, <5>1 DEF Follows
      <4>2. CASE n # m + 2
        <5>1. m + 2 \in 1..(Len(s) + 1) /\ m + 2 > b /\ m + 2 < n
          BY <2>3, <2>6, <2>8, <3>2, <4>2
        <5>2. s[n - 1] \in {"STATEMENT_END", "END_BLOCK"}
          BY <2>11, <3>2, <5>1 DEF InOrder
        <5> QED BY <3>2, <5>2 DEF Follows
      <4> QED BY <4>1, <4>2
    <3> QED BY <2>9, <3>1, <3>2
  <2>15. \A k \in (n + 1)..(e - 1) : Follows(s, k)
    <3> SUFFICES ASSUME NEW k \in (n + 1)..(e - 1)
                 PROVE  Follows(s, k)
      OBVIOUS
    <3>1. CASE k = n + 1
      <4>1. s[k] = "NORMAL"
        BY <2>3, <2>6, <2>8, <2>12, <3>1 DEF InOrder
      <4> QED BY <4>1 DEF Follows
    <3>2. CASE k # n + 1
      <4>1. k \in ((n + 1) + 1)..(e - 1)
        BY <2>3, <2>6, <2>8, <3>2
      <4> QED BY <2>12, <4>1 DEF InOrder
    <3> QED BY <3>1, <3>2
  <2>16. s[e - 1] \in {"STATEMENT_END", "END_BLOCK"}
    <3>1. CASE n = e - 1
      BY <2>9, <3>1
    <3>2. CASE n # e - 1
      <4>1. n + 1 < e
        BY <2>3, <2>6, <2>8, <3>2
      <4> QED BY <2>12, <4>1 DEF InOrder
    <3> QED BY <3>1, <3>2
  <2>17. ASSUME NEW k \in (b + 1)..(e - 1)
         PROVE  Follows(s, k)
    <3>1. k \in (b + 1)..(n - 1) \/ k = n \/ k \in (n + 1)..(e - 1)
      BY <2>3, <2>6, <2>8
    <3> QED BY <2>13, <2>14, <2>15, <3>1
  <2>18. InOrder(s, b, e)
    BY <2>9, <2>16, <2>17 DEF InOrder
  <2> QED BY <2>6, <2>18
<1>2. ASSUME NEW b \in 1..(Len(s) + 1)
      PROVE  \A e \in f[b] : e \in b..(Len(s) + 1) /\ InOrder(s, b, e)
  <2>1. b \in 0..(Len(s) + 1) /\ b # 0
    OBVIOUS
  <2>2. b \notin Wrong
    BY <1>1
  <2> QED BY <2>1, <2>2
<1> QED
  BY <1>2

Depths == [Nat -> Int]

\* Up to last, a list from b to before e closes no block that it has not opened,
\* and in the end it has closed them all.
Closes(d, b, e, last) ==
  \A j \in (b - 1)..(e - 1) :
    j <= last => d[j] >= d[b - 1] /\ (j = e - 1 => d[j] = d[b - 1])

\* One statement, and the list after it.
LEMMA StatementCloses ==
  ASSUME NEW s, Len(s) \in Nat, NEW f, NEW d \in Depths, NEW last \in Nat,
         Deepens(s, d, 1, last),
         NEW b \in 1..(Len(s) + 1), NEW e \in b..(Len(s) + 1),
         NEW m \in b..(e - 2), NEW n \in b..(e - 1), IsStatement(s, f, b, m, n),
         m + 1 < n => Closes(d, m + 2, n, last),
         Closes(d, n + 1, e, last)
  PROVE  Closes(d, b, e, last)
<1> USE DEF Closes
<1>1. /\ m < n
      /\ \/ n = m + 1 /\ s[n] = "STATEMENT_END"
         \/ m + 2 <= n /\ s[m + 1] = "START_BLOCK" /\ s[n] = "END_BLOCK"
  <2>1. b \in Nat /\ m \in Nat /\ n \in Nat /\ b <= m /\ b <= n
    OBVIOUS
  <2> HIDE DEF Closes
  <2> QED BY <2>1, StatementShape
<1>2. \A k \in b..m : s[k] = "NORMAL"
  BY DEF IsStatement
<1>3. \A k \in Nat : d[k] \in Int
  BY DEF Depths
<1>4. \A k \in b..m : k <= last => d[k] = d[b - 1]
  <2> HIDE DEF Closes
  <2>1. b \in Nat \ {0} /\ m \in Nat
    OBVIOUS
  <2> QED BY <1>2, <2>1, WordsAreFlat
<1>5. ASSUME NEW j \in (b - 1)..n, j <= last
      PROVE  d[j] >= d[b - 1] /\ (j = n => d[j] = d[b - 1])
  <2>1. j \in Nat /\ b - 1 \in Nat
    OBVIOUS
  <2>2. CASE j < b
    BY <1>3, <2>1, <2>2
  <2>3. CASE j >= b /\ j <= m
    <3>1. j \in b..m /\ j # n /\ d[b - 1] \in Int
      BY <1>1, <1>3, <2>1, <2>3
    <3>2. d[j] = d[b - 1]
      BY <1>4, <1>5, <3>1
    <3> QED BY <3>1, <3>2
  <2>4. CASE j = m + 1
    <3>1. d[j - 1] = d[b - 1] /\ j - 1 = m
      BY <1>4, <1>5, <2>4
    <3>2. j \in 1..last
      BY <1>5, <2>4
    <3>3. CASE s[j] = "STATEMENT_END"
      <4>1. d[j] = d[j - 1]
        BY <3>2, <3>3 DEF Deepens
      <4> QED BY <1>3, <2>1, <3>1, <4>1
    <3>4. CASE s[j] = "START_BLOCK" /\ j # n
      <4>1. d[j] = d[j - 1] + 1
        BY <3>2, <3>4 DEF Deepens
      <4> QED BY <1>3, <2>1, <3>1, <3>4, <4>1
    <3> QED BY <1>1, <2>4, <3>3, <3>4
  <2>5. CASE j > m + 1
    <3>1. m + 2 <= n /\ s[m + 1] = "START_BLOCK" /\ s[n] = "END_BLOCK" /\ m + 1 < n
      BY <1>1, <2>5
    <3>2. d[m + 1] = d[m] + 1 /\ d[m] = d[b - 1] /\ m + 1 \in Nat /\ m \in Nat
      <4>1. m + 1 \in 1..last /\ m \in b..m /\ m <= last /\ m + 1 - 1 = m
        BY <1>5, <2>5
      <4> QED BY <1>4, <3>1, <4>1 DEF Deepens
    <3>3. \A i \in (m + 1)..(n - 1) : i <= last => d[i] >= d[m + 1] /\ (i = n - 1 => d[i] = d[m + 1])
      <4>1. (m + 2) - 1 = m + 1
        OBVIOUS
      <4> QED BY <3>1, <4>1
    <3>4. CASE j < n
      <4>1. d[j] >= d[m + 1]
        BY <2>5, <3>3, <3>4, <1>5
      <4> QED BY <1>3, <2>1, <3>2, <3>4, <4>1
    <3>5. CASE j = n
      <4>1. n - 1 \in (m + 1)..(n - 1) /\ n - 1 <= last /\ n - 1 \in Nat /\ n \in 1..last
        BY <1>5, <3>1, <3>5
      <4>2. d[n - 1] = d[m + 1]
        BY <3>3, <4>1
      <4>3. d[n] = d[n - 1] - 1
        BY <3>1, <4>1 DEF Deepens
      <4> QED BY <1>3, <2>1, <3>2, <3>5, <4>1, <4>2, <4>3
    <3> QED BY <3>4, <3>5
  <2> QED BY <2>2, <2>3, <2>4, <2>5
<1>6. ASSUME NEW j \in (b - 1)..(e - 1), j <= last
      PROVE  d[j] >= d[b - 1] /\ (j = e - 1 => d[j] = d[b - 1])
  <2>1. CASE j <= n /\ j # e - 1
    BY <1>5, <1>6, <2>1
  <2>2. CASE j > n \/ j = e - 1
    <3>1. n <= last /\ n \in (b - 1)..n /\ n <= j
      BY <1>6, <2>2
    <3>2. d[n] = d[b - 1]
      BY <1>5, <3>1
    <3>3. (n + 1) - 1 = n /\ j \in n..(e - 1)
      BY <1>6, <3>1
    <3>4. d[j] >= d[n] /\ (j = e - 1 => d[j] = d[n])
      BY <1>6, <3>3
    <3> QED BY <3>2, <3>4
  <2> QED BY <2>1, <2>2
<1> QED
  BY <1>6

LEMMA ListCloses ==
  ASSUME NEW s, Len(s) \in Nat, NEW f,
         \A b \in 1..(Len(s) + 1) : f[b] = EndsFrom(s, f, b),
         NEW d \in Depths, NEW last \in Nat, Deepens(s, d, 1, last)
  PROVE  \A b \in 1..(Len(s) + 1) : \A e \in f[b] : Closes(d, b, e, last)
<1> DEFINE Wrong == {b \in 0..(Len(s) + 1) :
                       b # 0 /\ ~ \A e \in f[b] : Closes(d, b, e, last)}
<1>1. ASSUME Wrong # {}
      PROVE  FALSE
  <2>1. Wrong \in SUBSET (0..(Len(s) + 1)) /\ Len(s) + 1 \in Nat
    OBVIOUS
  <2>2. PICK b \in Wrong : \A k \in Wrong : k <= b
    BY <1>1, <2>1, LargestExists
  <2>3. b \in 1..(Len(s) + 1) /\ ~ \A e \in f[b] : Closes(d, b, e, last)
    BY <2>2
  <2>4. PICK e \in f[b] : ~ Closes(d, b, e, last)
    BY <2>3
  <2>5. e \in EndsFrom(s, f, b)
    BY <2>3, <2>4
  <2>6. e \in b..(Len(s) + 1)
    BY <2>5 DEF EndsFrom
  <2>7. e # b
    <3>1. b - 1 \in Nat /\ d[b - 1] \in Int
      BY <2>3 DEF Depths
    <3>2. ASSUME e = b
          PROVE  Closes(d, b, e, last)
      <4>1. \A j \in (b - 1)..(e - 1) : j = b - 1
        BY <2>3, <3>2
      <4> QED BY <3>1, <4>1 DEF Closes
    <3> QED BY <2>4, <3>2
  <2>8. PICK m \in b..(e - 2), n \in b..(e - 1) : IsStatement(s, f, b, m, n) /\ e \in f[n + 1]
    BY <2>5, <2>7 DEF EndsFrom
  <2>9. \A k \in 1..(Len(s) + 1) : k > b => \A x \in f[k] : Closes(d, k, x, last)
    <3>1. ASSUME NEW k \in 1..(Len(s) + 1), k > b
          PROVE  k \notin Wrong
      BY <2>2, <2>3, <3>1
    <3> QED BY <3>1
  <2>10. Closes(d, n + 1, e, last)
    <3>1. n + 1 \in 1..(Len(s) + 1) /\ n + 1 > b
      BY <2>3, <2>6, <2>8
    <3> QED BY <2>8, <2>9, <3>1
  <2>11. m + 1 < n => Closes(d, m + 2, n, last)
    <3>1. ASSUME m + 1 < n
          PROVE  n \in f[m + 2] /\ m + 2 \in 1..(Len(s) + 1) /\ m + 2 > b
      <4>1. n # m + 1
        BY <2>3, <2>6, <2>8, <3>1
      <4> QED BY <2>3, <2>6, <2>8, <3>1, <4>1 DEF IsStatement
    <3> QED BY <2>9, <3>1
  <2> QED BY <2>3, <2>4, <2>6, <2>8, <2>10, <2>11, StatementCloses
<1>2. ASSUME NEW b \in 1..(Len(s) + 1)
      PROVE  \A e \in f[b] : Closes(d, b, e, last)
  <2>1. b \in 0..(Len(s) + 1) /\ b # 0
    OBVIOUS
  <2>2. b \notin Wrong
    BY <1>1
  <2> QED BY <2>1, <2>2
<1> QED
  BY <1>2

\* The tokens from b to before e are in order and every block is closed.
Balanced(s, d, b, e) == InOrder(s, b, e) /\ Closes(d, b, e, Len(s))

\* After a token that ends a statement or opens a block, a balanced part goes
\* on with a word.
LEMMA WordNext ==
  ASSUME NEW s \in Seq(TokenTypes), NEW d \in Depths, Deepens(s, d, 1, Len(s)),
         NEW k \in 2..Len(s), Follows(s, k), s[k - 1] # "NORMAL", d[k] >= d[k - 1]
  PROVE  s[k] = "NORMAL"
<1>1. s[k] \in {"NORMAL", "START_BLOCK", "END_BLOCK", "STATEMENT_END"}
  BY DEF TokenTypes
<1>2. s[k] \notin {"STATEMENT_END", "START_BLOCK"}
  BY DEF Follows
<1>3. ASSUME s[k] = "END_BLOCK"
      PROVE  FALSE
  <2>1. k \in 1..Len(s) /\ k \in Nat /\ k - 1 \in Nat
    OBVIOUS
  <2>2. d[k] = d[k - 1] - 1
    BY <1>3, <2>1 DEF Deepens
  <2>3. d[k] \in Int /\ d[k - 1] \in Int
    BY <2>1 DEF Depths
  <2> QED BY <2>2, <2>3
<1> QED BY <1>1, <1>2, <1>3

\* The statement that a balanced part begins with.
LEMMA BalancedStatement ==
  ASSUME NEW s \in Seq(TokenTypes), NEW d \in Depths, Deepens(s, d, 1, Len(s)),
         NEW b \in 1..(Len(s) + 1), NEW e \in b..(Len(s) + 1), b < e, Balanced(s, d, b, e)
  PROVE  \E m \in b..(e - 2), n \in b..(e - 1) :
           /\ \A k \in b..m : s[k] = "NORMAL"
           /\ \/ n = m + 1 /\ s[n] = "STATEMENT_END"
              \/ /\ s[m + 1] = "START_BLOCK" /\ s[n] = "END_BLOCK" /\ m + 1 < n
                 /\ Balanced(s, d, m + 2, n)
           /\ Balanced(s, d, n + 1, e)
<1>0. /\ Len(s) \in Nat /\ b \in Nat \ {0} /\ e \in Nat /\ e - 1 \in Nat /\ b <= e - 1 /\ e - 1 <= Len(s)
      /\ b - 1 \in Nat
  OBVIOUS
<1>1. /\ s[b] = "NORMAL" /\ s[e - 1] \in {"STATEMENT_END", "END_BLOCK"}
      /\ \A k \in (b + 1)..(e - 1) : Follows(s, k)
  BY DEF Balanced, InOrder
<1>2. \A k \in 1..Len(s) : s[k] \in {"NORMAL", "START_BLOCK", "END_BLOCK", "STATEMENT_END"}
  BY DEF TokenTypes
<1>3. \A k \in Nat : d[k] \in Int
  BY DEF Depths
<1>4. /\ \A j \in (b - 1)..(e - 1) : d[j] >= d[b - 1]
      /\ d[e - 1] = d[b - 1]
  <2>1. \A j \in (b - 1)..(e - 1) : j <= Len(s)
    BY <1>0
  <2>2. e - 1 \in (b - 1)..(e - 1)
    BY <1>0
  <2> QED BY <2>1, <2>2 DEF Balanced, Closes
\* the first token that is no word
<1> DEFINE Ends == {k \in Nat : k \in b..(e - 1) /\ s[k] # "NORMAL"}
           x == Min(Ends)
<1>5. /\ x \in Nat /\ x \in b..(e - 1) /\ s[x] # "NORMAL"
      /\ \A k \in b..(x - 1) : s[k] = "NORMAL"
  <2>1. e - 1 \in Ends
    BY <1>0, <1>1
  <2>2. Ends \in SUBSET Nat
    OBVIOUS
  <2>3. x \in Ends /\ \A k \in Ends : x <= k
    BY <2>1, <2>2, MinIsLeast
  <2> HIDE DEF x
  <2>4. ASSUME NEW k \in b..(x - 1), s[k] # "NORMAL"
        PROVE  FALSE
    <3>1. k \in Ends /\ ~ (x <= k)
      BY <1>0, <2>3, <2>4
    <3> QED BY <2>3, <3>1
  <2> QED BY <2>3, <2>4
<1> HIDE DEF x
<1>6. PICK m \in Nat : m + 1 = x /\ m \in b..(e - 2)
  <2>1. x # b
    BY <1>1, <1>5
  <2>2. x - 1 \in Nat /\ (x - 1) + 1 = x /\ x - 1 \in b..(e - 2)
    BY <1>0, <1>5, <2>1
  <2> QED BY <2>2
<1>7. /\ \A k \in b..m : s[k] = "NORMAL"
      /\ s[m + 1] \in {"START_BLOCK", "END_BLOCK", "STATEMENT_END"}
      /\ m + 1 \in (b + 1)..(e - 1) /\ m + 1 \in 1..Len(s)
  BY <1>0, <1>2, <1>5, <1>6
<1>8. d[m] = d[b - 1]
  <2>1. m \in b..m /\ m <= Len(s)
    BY <1>0, <1>6
  <2> QED BY <1>0, <1>6, <1>7, <2>1, WordsAreFlat
<1>9. s[m + 1] \in {"START_BLOCK", "STATEMENT_END"}
  <2>1. Follows(s, m + 1) /\ s[(m + 1) - 1] = "NORMAL"
    BY <1>1, <1>6, <1>7
  <2> QED BY <1>7, <2>1 DEF Follows
\* what follows a statement that ends at n without a change of depth
<1>10. ASSUME NEW n \in b..(e - 1), s[n] \in {"STATEMENT_END", "END_BLOCK"}, d[n] = d[b - 1]
       PROVE  Balanced(s, d, n + 1, e)
  <2>1. n \in Nat /\ (n + 1) - 1 = n
    BY <1>0
  <2>2. Closes(d, n + 1, e, Len(s))
    BY <1>0, <1>4, <1>10, <2>1 DEF Closes
  <2>3. \A k \in ((n + 1) + 1)..(e - 1) : Follows(s, k)
    BY <1>0, <1>1, <2>1
  <2>4. ASSUME n + 1 < e
        PROVE  s[n + 1] = "NORMAL"
    <3>1. n + 1 \in 2..Len(s) /\ n + 1 \in (b + 1)..(e - 1) /\ s[(n + 1) - 1] # "NORMAL"
      BY <1>0, <1>10, <2>1, <2>4
    <3>2. d[n + 1] >= d[(n + 1) - 1]
      BY <1>0, <1>4, <1>10, <2>1, <2>4
    <3> QED BY <1>1, <3>1, <3>2, WordNext
  <2> QED BY <1>1, <2>2, <2>3, <2>4 DEF Balanced, InOrder
<1>11. CASE s[m + 1] = "STATEMENT_END"
  <2>1. m + 1 \in b..(e - 1) /\ (m + 1) - 1 = m
    BY <1>0, <1>6, <1>7
  <2>2. d[m + 1] = d[m]
    BY <1>7, <1>11, <2>1 DEF Deepens
  <2>3. Balanced(s, d, (m + 1) + 1, e)
    BY <1>8, <1>10, <1>11, <2>1, <2>2
  <2> QED BY <1>6, <1>7, <1>11, <2>1, <2>3
<1>12. CASE s[m + 1] = "START_BLOCK"
  <2>1. d[m + 1] = d[b - 1] + 1
    <3>1. (m + 1) - 1 = m
      BY <1>6
    <3>2. d[m + 1] = d[m] + 1
      BY <1>7, <1>12, <3>1 DEF Deepens
    <3> QED BY <1>8, <3>2
  \* the bracket that closes the block
  <2> DEFINE Back == {k \in Nat : k \in (m + 2)..(e - 1) /\ d[k] <= d[b - 1]}
             n == Min(Back)
  <2>2. /\ n \in Nat /\ n \in (m + 2)..(e - 1) /\ d[n] <= d[b - 1]
        /\ \A k \in (m + 2)..(n - 1) : d[k] > d[b - 1]
    <3>1. m + 1 # e - 1
      BY <1>1, <1>12
    <3>2. e - 1 \in (m + 2)..(e - 1) /\ d[e - 1] <= d[b - 1] /\ e - 1 \in Nat
      BY <1>0, <1>3, <1>4, <1>6, <3>1
    <3>3. e - 1 \in Back
      BY <3>2
    <3>4. Back \in SUBSET Nat
      OBVIOUS
    <3>5. n \in Back /\ \A k \in Back : n <= k
      BY <3>3, <3>4, MinIsLeast
    <3> HIDE DEF n
    <3>6. ASSUME NEW k \in (m + 2)..(n - 1), ~ (d[k] > d[b - 1])
          PROVE  FALSE
      <4>1. k \in Nat /\ k \in (m + 2)..(e - 1) /\ ~ (n <= k)
        BY <1>0, <1>6, <3>5, <3>6
      <4>2. d[k] <= d[b - 1]
        BY <1>0, <1>3, <3>6, <4>1
      <4> QED BY <3>5, <4>1, <4>2
    <3> QED BY <3>5, <3>6
  <2> HIDE DEF n
  <2>3. n \in b..(e - 1) /\ m + 1 < n /\ n \in 1..Len(s) /\ n - 1 \in Nat /\ n - 1 \in (m + 1)..(e - 1)
    BY <1>0, <1>6, <2>2
  <2>4. d[n] = d[b - 1]
    <3>1. d[n] >= d[b - 1]
      BY <1>0, <1>4, <2>3
    <3> QED BY <1>0, <1>3, <2>2, <3>1
  <2>5. \A k \in (m + 1)..(n - 1) : d[k] >= d[b - 1] + 1
    <3> SUFFICES ASSUME NEW k \in (m + 1)..(n - 1)
                 PROVE  d[k] >= d[b - 1] + 1
      OBVIOUS
    <3>1. k \in Nat /\ d[k] \in Int /\ d[b - 1] \in Int
      BY <1>0, <1>3, <1>6, <2>2
    <3>2. CASE k = m + 1
      BY <2>1, <3>1, <3>2
    <3>3. CASE k # m + 1
      <4>1. k \in (m + 2)..(n - 1)
        BY <1>6, <2>2, <3>3
      <4>2. d[k] > d[b - 1]
        BY <2>2, <4>1
      <4> QED BY <3>1, <4>2
    <3> QED BY <3>2, <3>3
  <2>6. /\ n - 1 \in (m + 1)..(n - 1) /\ d[n] \in Int /\ d[n - 1] \in Int /\ d[b - 1] \in Int
        /\ d[n - 1] >= d[b - 1] + 1
    BY <1>0, <1>3, <1>6, <2>2, <2>3, <2>5
  <2>7. s[n] = "END_BLOCK" /\ d[n - 1] = d[b - 1] + 1
    <3>1. ASSUME s[n] # "END_BLOCK"
          PROVE  FALSE
      <4>1. d[n] = d[n - 1] \/ d[n] = d[n - 1] + 1
        BY <1>2, <2>3, <3>1 DEF Deepens
      <4> QED BY <2>4, <2>6, <4>1
    <3>2. d[n] = d[n - 1] - 1
      BY <2>3, <3>1 DEF Deepens
    <3> QED BY <2>4, <2>6, <3>1, <3>2
  <2>8. Closes(d, m + 2, n, Len(s))
    <3>1. (m + 2) - 1 = m + 1
      BY <1>6
    <3> QED BY <2>1, <2>5, <2>7, <3>1 DEF Closes
  <2>9. \A k \in ((m + 2) + 1)..(n - 1) : Follows(s, k)
    BY <1>0, <1>1, <1>6, <2>2
  <2>10. ASSUME m + 2 < n
         PROVE  s[m + 2] = "NORMAL"
    <3>1. /\ m + 2 \in 2..Len(s) /\ m + 2 \in (b + 1)..(e - 1) /\ (m + 2) - 1 = m + 1
          /\ m + 2 \in (m + 1)..(n - 1)
      BY <1>0, <1>6, <2>2, <2>10
    <3>2. d[m + 2] >= d[(m + 2) - 1] /\ s[(m + 2) - 1] # "NORMAL"
      BY <1>12, <2>1, <2>5, <3>1
    <3> QED BY <1>1, <3>1, <3>2, WordNext
  <2>11. ASSUME m + 2 < n
         PROVE  s[n - 1] \in {"STATEMENT_END", "END_BLOCK"}
    <3>1. Follows(s, n)
      BY <1>0, <1>1, <1>6, <2>2
    <3>2. ASSUME s[n - 1] = "START_BLOCK"
          PROVE  FALSE
      <4>1. n - 1 \in 1..Len(s) /\ (n - 1) - 1 \in (m + 1)..(n - 1) /\ (n - 1) - 1 \in Nat
        BY <1>0, <1>6, <2>2, <2>3, <2>11
      <4>2. d[n - 1] = d[(n - 1) - 1] + 1
        BY <3>2, <4>1 DEF Deepens
      <4>3. d[(n - 1) - 1] >= d[b - 1] + 1 /\ d[(n - 1) - 1] \in Int
        BY <1>3, <2>5, <4>1
      <4> QED BY <2>6, <2>7, <4>2, <4>3
    <3> QED BY <2>7, <3>1, <3>2 DEF Follows
  <2>12. Balanced(s, d, m + 2, n)
    BY <2>8, <2>9, <2>10, <2>11 DEF Balanced, InOrder
  <2>13. Balanced(s, d, n + 1, e)
    BY <1>10, <2>3, <2>4, <2>7
  <2> QED BY <1>6, <1>7, <1>12, <2>3, <2>7, <2>12, <2>13
<1> QED
  BY <1>9, <1>11, <1>12

LEMMA BalancedIsList ==
  ASSUME NEW s \in Seq(TokenTypes), NEW f,
         \A b \in 1..(Len(s) + 1) : f[b] = EndsFrom(s, f, b),
         NEW d \in Depths, Deepens(s, d, 1, Len(s))
  PROVE  \A b \in 1..(Len(s) + 1) : \A e \in b..(Len(s) + 1) : Balanced(s, d, b, e) => e \in f[b]
<1> DEFINE Wrong == {b \in 0..(Len(s) + 1) :
                       /\ b # 0
                       /\ ~ \A e \in b..(Len(s) + 1) : Balanced(s, d, b, e) => e \in f[b]}
<1>1. ASSUME Wrong # {}
      PROVE  FALSE
  <2>1. Wrong \in SUBSET (0..(Len(s) + 1)) /\ Len(s) + 1 \in Nat /\ Len(s) \in Nat
    OBVIOUS
  <2>2. PICK b \in Wrong : \A k \in Wrong : k <= b
    BY <1>1, <2>1, LargestExists
  <2>3. /\ b \in 1..(Len(s) + 1)
        /\ ~ \A e \in b..(Len(s) + 1) : Balanced(s, d, b, e) => e \in f[b]
    BY <2>2
  <2>4. PICK e \in b..(Len(s) + 1) : Balanced(s, d, b, e) /\ e \notin f[b]
    BY <2>3
  <2>5. e \notin EndsFrom(s, f, b)
    BY <2>3, <2>4
  <2>6. e # b
    BY <2>3, <2>5 DEF EndsFrom
  <2>7. b < e
    BY <2>1, <2>3, <2>4, <2>6
  <2>8. PICK m \in b..(e - 2), n \in b..(e - 1) :
           /\ \A k \in b..m : s[k] = "NORMAL"
           /\ \/ n = m + 1 /\ s[n] = "STATEMENT_END"
              \/ /\ s[m + 1] = "START_BLOCK" /\ s[n] = "END_BLOCK" /\ m + 1 < n
                 /\ Balanced(s, d, m + 2, n)
           /\ Balanced(s, d, n + 1, e)
    BY <2>3, <2>4, <2>7, BalancedStatement
  <2>9. ASSUME NEW k \in 1..(Len(s) + 1), k > b, NEW x \in k..(Len(s) + 1), Balanced(s, d, k, x)
        PROVE  x \in f[k]
    <3>1. k \notin Wrong
      BY <2>1, <2>2, <2>3, <2>9
    <3> QED BY <2>1, <2>9, <3>1
  <2>10. e \in f[n + 1]
    <3>1. n + 1 \in 1..(Len(s) + 1) /\ n + 1 > b /\ e \in (n + 1)..(Len(s) + 1)
      BY <2>1, <2>3, <2>4, <2>8
    <3> QED BY <2>8, <2>9, <3>1
  <2>11. ASSUME m + 1 < n, Balanced(s, d, m + 2, n)
         PROVE  n \in f[m + 2]
    <3>1. m + 2 \in 1..(Len(s) + 1) /\ m + 2 > b /\ n \in (m + 2)..(Len(s) + 1)
      BY <2>1, <2>3, <2>4, <2>8, <2>11
    <3> QED BY <2>9, <2>11, <3>1
  <2>12. IsStatement(s, f, b, m, n)
    BY <2>8, <2>11 DEF IsStatement
  <2> QED BY <2>4, <2>5, <2>8, <2>10, <2>12 DEF EndsFrom
<1>2. ASSUME NEW b \in 1..(Len(s) + 1)
      PROVE  \A e \in b..(Len(s) + 1) : Balanced(s, d, b, e) => e \in f[b]
  <2>1. b \in 0..(Len(s) + 1) /\ b # 0
    OBVIOUS
  <2>2. b \notin Wrong
    BY <1>1
  <2> QED BY <2>1, <2>2
<1> QED
  BY <1>2

\* Without mentioning the recursion: the lists are the balanced sequences.
LEMMA ListIsBalanced ==
  ASSUME NEW s \in Seq(TokenTypes), NEW d \in Depths, Deepens(s, d, 1, Len(s))
  PROVE  IsStatementList(s) <=> Balanced(s, d, 1, Len(s) + 1)
<1>1. Len(s) \in Nat /\ 1 \in 1..(Len(s) + 1) /\ Len(s) + 1 \in 1..(Len(s) + 1)
  OBVIOUS
<1>2. PICK f : /\ \A b \in 1..(Len(s) + 1) : f[b] = EndsFrom(s, f, b)
               /\ IsStatementList(s) <=> Len(s) + 1 \in f[1]
  BY <1>1, StatementListEnds
<1>3. ASSUME Len(s) + 1 \in f[1]
      PROVE  Balanced(s, d, 1, Len(s) + 1)
  <2>1. InOrder(s, 1, Len(s) + 1)
    BY <1>1, <1>2, <1>3, ListInOrder
  <2>2. Closes(d, 1, Len(s) + 1, Len(s))
    BY <1>1, <1>2, <1>3, ListCloses
  <2> QED BY <2>1, <2>2 DEF Balanced
<1>4. Balanced(s, d, 1, Len(s) + 1) => Len(s) + 1 \in f[1]
  BY <1>1, <1>2, BalancedIsList
<1> QED
  BY <1>2, <1>3, <1>4

\* Nor does a list close too much on the way, whatever comes later.
LEMMA ListNeverBelow ==
  ASSUME NEW s \in Seq(TokenTypes), IsStatementList(s),
         NEW d \in Depths, NEW last \in 1..Len(s), Deepens(s, d, 1, last)
  PROVE  InOrder(s, 1, Len(s) + 1) /\ d[last] >= d[0]
<1>1. /\ Len(s) \in Nat /\ 1 \in 1..(Len(s) + 1) /\ last \in Nat /\ 1 - 1 = 0
      /\ last \in 0..((Len(s) + 1) - 1)
  OBVIOUS
<1>2. PICK f : /\ \A b \in 1..(Len(s) + 1) : f[b] = EndsFrom(s, f, b)
               /\ IsStatementList(s) <=> Len(s) + 1 \in f[1]
  BY <1>1, StatementListEnds
<1>3. InOrder(s, 1, Len(s) + 1)
  BY <1>1, <1>2, ListInOrder
<1>4. Closes(d, 1, Len(s) + 1, last)
  BY <1>1, <1>2, ListCloses
<1>5. d[last] >= d[0]
  BY <1>1, <1>4 DEF Closes
<1> QED
  BY <1>3, <1>5

-----------------------------------------------------------------------------
\* What Parse has accepted so far

\* t may begin a list: its tokens are in order and no block is closed that is
\* not open.
Begins(t, d) ==
  /\ d \in Depths /\ d[0] = 0 /\ Deepens(t, d, 1, Len(t))
  /\ \A k \in 0..Len(t) : d[k] >= 0
  /\ \A k \in 2..Len(t) : Follows(t, k)
  /\ t # <<>> => t[1] = "NORMAL"

\* The conditions of Parse for the next token.
MayFollow(t, d, type) ==
  /\ type \in {"STATEMENT_END", "START_BLOCK"} => t # <<>> /\ t[Len(t)] = "NORMAL"
  /\ type = "END_BLOCK" =>
       /\ t # <<>> /\ t[Len(t)] \in {"STATEMENT_END", "END_BLOCK", "START_BLOCK"}
       /\ d[Len(t)] > 0

Change(type) ==
  IF type = "START_BLOCK" THEN 1 ELSE IF type = "END_BLOCK" THEN 0 - 1 ELSE 0

LEMMA BeginsAppend ==
  ASSUME NEW t \in Seq(TokenTypes), NEW d, Begins(t, d),
         NEW type \in TokenTypes, MayFollow(t, d, type)
  PROVE  \E e : /\ Begins(Append(t, type), e)
                /\ e[Len(Append(t, type))] = d[Len(t)] + Change(type)
<1> DEFINE n == Len(t)
           u == Append(t, type)
           e == [k \in Nat |-> IF k <= n THEN d[k] ELSE d[n] + Change(type)]
<1>1. /\ n \in Nat /\ u \in Seq(TokenTypes) /\ Len(u) = n + 1
      /\ u[n + 1] = type /\ \A k \in 1..n : u[k] = t[k]
  OBVIOUS
<1>2. (\A k \in Nat : d[k] \in Int) /\ d[0] = 0 /\ Change(type) \in Int
  BY DEF Begins, Depths, Change
<1> HIDE DEF u
<1>3. e \in Depths /\ e[0] = 0
  BY <1>1, <1>2 DEF Depths
<1>4. (\A k \in 0..n : e[k] = d[k]) /\ e[n + 1] = d[n] + Change(type)
  BY <1>1
<1> HIDE DEF e
<1>5. Deepens(u, e, 1, Len(u))
  <2>1. ASSUME NEW k \in 1..n
        PROVE  u[k] = t[k] /\ e[k] = d[k] /\ e[k - 1] = d[k - 1]
    BY <1>1, <1>4
  <2>2. Deepens(t, d, 1, n)
    BY DEF Begins
  <2>3. Deepens(u, e, 1, n)
    BY <2>1, <2>2 DEF Deepens
  <2>4. e[(n + 1) - 1] = d[n]
    BY <1>1, <1>4
  <2>5. d[n] \in Int
    BY <1>1, <1>2
  <2>6. /\ u[n + 1] \in {"NORMAL", "STATEMENT_END"} => e[n + 1] = e[(n + 1) - 1]
        /\ u[n + 1] = "START_BLOCK" => e[n + 1] = e[(n + 1) - 1] + 1
        /\ u[n + 1] = "END_BLOCK" => e[n + 1] = e[(n + 1) - 1] - 1
    BY <1>1, <1>4, <2>4, <2>5 DEF Change
  <2>7. \A k \in 1..Len(u) : k \in 1..n \/ k = n + 1
    BY <1>1
  <2> QED BY <2>3, <2>6, <2>7 DEF Deepens
<1>6. \A k \in 0..Len(u) : e[k] >= 0
  <2>1. \A k \in 0..n : d[k] >= 0
    BY DEF Begins
  <2>2. n \in 0..n /\ d[n] \in Int
    BY <1>1, <1>2
  <2>3. e[n + 1] >= 0
    <3>1. type = "END_BLOCK" => d[n] > 0
      BY DEF MayFollow
    <3> QED BY <1>4, <2>1, <2>2, <3>1 DEF Change
  <2>4. \A k \in 0..Len(u) : k \in 0..n \/ k = n + 1
    BY <1>1
  <2> QED BY <1>4, <2>1, <2>3, <2>4
<1>7. \A k \in 2..Len(u) : Follows(u, k)
  <2> SUFFICES ASSUME NEW k \in 2..Len(u)
               PROVE  Follows(u, k)
    OBVIOUS
  <2>1. CASE k <= n
    <3>1. k \in 2..n /\ u[k] = t[k] /\ u[k - 1] = t[k - 1]
      BY <1>1, <2>1
    <3>2. Follows(t, k)
      BY <3>1 DEF Begins
    <3> QED BY <3>1, <3>2 DEF Follows
  <2>2. CASE k = n + 1
    <3>1. u[k] = type /\ u[k - 1] = t[n]
      BY <1>1, <2>2
    <3> QED BY <3>1 DEF Follows, MayFollow
  <2> QED BY <1>1, <2>1, <2>2
<1>8. u[1] = "NORMAL"
  <2>1. CASE t = <<>>
    <3>1. n = 0 /\ type \in {"NORMAL"}
      BY <2>1 DEF MayFollow, TokenTypes
    <3> QED BY <1>1, <3>1
  <2>2. CASE t # <<>>
    <3>1. 1 \in 1..n
      BY <1>1, <2>2, EmptySeq
    <3> QED BY <1>1, <2>2, <3>1 DEF Begins
  <2> QED BY <2>1, <2>2
<1>9. Begins(u, e)
  BY <1>3, <1>5, <1>6, <1>7, <1>8 DEF Begins
<1> QED
  BY <1>1, <1>4, <1>9 DEF u

\* Brackets that close all the open blocks.
CloseBlocks(n) == [k \in 1..n |-> "END_BLOCK"]

LEMMA CloseBlocksType ==
  ASSUME NEW n \in Nat
  PROVE  /\ CloseBlocks(n) \in Seq(TokenTypes) /\ Len(CloseBlocks(n)) = n
         /\ \A k \in 1..n : CloseBlocks(n)[k] = "END_BLOCK"
<1>1. \A k \in 1..n : CloseBlocks(n)[k] \in TokenTypes
  BY DEF CloseBlocks, TokenTypes
<1> QED
  BY <1>1 DEF CloseBlocks

\* With its blocks closed, the beginning of a list is a list.
LEMMA ClosedIsList ==
  ASSUME NEW t \in Seq(TokenTypes), NEW d, Begins(t, d),
         t # <<>> => t[Len(t)] # "NORMAL"
  PROVE  IsStatementList(t \o CloseBlocks(d[Len(t)]))
<1> DEFINE n == Len(t)
           open == d[n]
           s == t \o CloseBlocks(open)
           e == [k \in Nat |-> IF k <= n THEN d[k] ELSE open - (k - n)]
<1>1. /\ n \in Nat /\ open \in Nat /\ d[0] = 0
      /\ \A k \in Nat : d[k] \in Int
      /\ \A k \in 0..n : d[k] >= 0
  BY DEF Begins, Depths
<1>2. PICK m \in Nat : m = open
  BY <1>1
<1>3. /\ s \in Seq(TokenTypes) /\ Len(s) = n + m
      /\ \A k \in 1..n : s[k] = t[k]
      /\ \A k \in 1..m : s[n + k] = "END_BLOCK"
  <2>1. PICK close \in Seq(TokenTypes) :
          /\ close = CloseBlocks(open) /\ Len(close) = m
          /\ \A k \in 1..m : close[k] = "END_BLOCK"
    BY <1>2, CloseBlocksType
  <2>2. /\ t \o close \in Seq(TokenTypes) /\ Len(t \o close) = Len(t) + Len(close)
        /\ \A k \in 1..Len(t) : (t \o close)[k] = t[k]
        /\ \A k \in 1..Len(close) : (t \o close)[Len(t) + k] = close[k]
    BY ConcatElements
  <2> QED BY <2>1, <2>2
<1>4. \A k \in (n + 1)..(n + m) : s[k] = "END_BLOCK"
  <2> SUFFICES ASSUME NEW k \in (n + 1)..(n + m)
               PROVE  s[k] = "END_BLOCK"
    OBVIOUS
  <2> HIDE DEF s
  <2>1. PICK j \in 1..m : k = n + j
    <3>1. k - n \in 1..m /\ k = n + (k - n)
      BY <1>1, <1>2
    <3> QED BY <3>1
  <2> QED BY <1>3, <2>1
<1>5. /\ e \in Depths
      /\ \A k \in 0..n : e[k] = d[k]
      /\ \A k \in n..(n + m) : e[k] = m - (k - n)
  BY <1>1, <1>2 DEF Depths
<1> HIDE DEF s, e
<1>6. Deepens(s, e, 1, Len(s))
  <2>1. ASSUME NEW k \in 1..n
        PROVE  s[k] = t[k] /\ e[k] = d[k] /\ e[k - 1] = d[k - 1]
    BY <1>1, <1>3, <1>5
  <2>2. Deepens(t, d, 1, n)
    BY DEF Begins
  <2>3. Deepens(s, e, 1, n)
    BY <2>1, <2>2 DEF Deepens
  <2>4. ASSUME NEW k \in (n + 1)..(n + m)
        PROVE  s[k] = "END_BLOCK" /\ e[k] = e[k - 1] - 1
    BY <1>1, <1>4, <1>5
  <2>5. \A k \in 1..Len(s) : k \in 1..n \/ k \in (n + 1)..(n + m)
    BY <1>1, <1>3
  <2> QED BY <2>3, <2>4, <2>5 DEF Deepens
<1>7. Closes(e, 1, Len(s) + 1, Len(s))
  <2>1. \A j \in 0..(n + m) : e[j] >= 0
    <3> SUFFICES ASSUME NEW j \in 0..(n + m)
                 PROVE  e[j] >= 0
      OBVIOUS
    <3>1. CASE j <= n
      BY <1>1, <1>5, <3>1
    <3>2. CASE j > n
      BY <1>1, <1>2, <1>5, <3>2
    <3> QED BY <1>1, <3>1, <3>2
  <2>2. e[0] = 0 /\ e[n + m] = 0
    BY <1>1, <1>5
  <2>3. 1 - 1 = 0 /\ (Len(s) + 1) - 1 = n + m
    BY <1>1, <1>3
  <2> QED BY <2>1, <2>2, <2>3 DEF Closes
<1>8. \A k \in 2..(n + m) : Follows(s, k)
  <2> SUFFICES ASSUME NEW k \in 2..(n + m)
               PROVE  Follows(s, k)
    OBVIOUS
  <2>1. CASE k <= n
    <3>1. k \in 2..n /\ s[k] = t[k] /\ s[k - 1] = t[k - 1]
      BY <1>1, <1>3, <2>1
    <3>2. Follows(t, k)
      BY <3>1 DEF Begins
    <3> QED BY <3>1, <3>2 DEF Follows
  <2>2. CASE k = n + 1
    <3>1. s[k] = "END_BLOCK" /\ s[k - 1] = t[n] /\ n \in 1..n /\ t # <<>>
      BY <1>1, <1>3, <1>4, <2>2
    <3>2. t[n] \in TokenTypes /\ t[n] # "NORMAL"
      BY <3>1
    <3> QED BY <3>1, <3>2 DEF Follows, TokenTypes
  <2>3. CASE k > n + 1
    <3>1. s[k] = "END_BLOCK" /\ s[k - 1] = "END_BLOCK"
      BY <1>1, <1>4, <2>3
    <3> QED BY <3>1 DEF Follows
  <2> QED BY <1>1, <2>1, <2>2, <2>3
<1>9. 1 < Len(s) + 1 => s[1] = "NORMAL" /\ s[n + m] \in {"STATEMENT_END", "END_BLOCK"}
  <2> SUFFICES ASSUME 1 <= n + m
               PROVE  s[1] = "NORMAL" /\ s[n + m] \in {"STATEMENT_END", "END_BLOCK"}
    BY <1>1, <1>3
  <2>1. n # 0
    BY <1>1, <1>2
  <2>2. t # <<>> /\ 1 \in 1..n /\ n \in 1..n
    BY <1>1, <2>1
  <2>3. s[1] = "NORMAL"
    BY <1>3, <2>2 DEF Begins
  <2>4. CASE m # 0
    <3>1. n + m \in (n + 1)..(n + m)
      BY <1>1, <2>4
    <3> QED BY <1>4, <2>3, <3>1
  <2>5. CASE m = 0
    <3>1. s[n + m] = t[n] /\ t[n] \in TokenTypes /\ t[n] # "NORMAL"
      BY <1>1, <1>3, <2>2, <2>5
    <3>2. ASSUME t[n] = "START_BLOCK"
          PROVE  FALSE
      <4>1. d[n] = d[n - 1] + 1
        BY <2>2, <3>2 DEF Begins, Deepens
      <4>2. n - 1 \in 0..n /\ n - 1 \in Nat
        BY <1>1, <2>1
      <4>3. d[n - 1] >= 0 /\ d[n - 1] \in Int
        BY <1>1, <4>2
      <4>4. PICK before \in Int : before = d[n - 1] /\ before >= 0
        BY <4>3
      <4>5. before + 1 = 0
        BY <1>2, <2>5, <4>1, <4>4
      <4> QED BY <4>4, <4>5
    <3> QED BY <2>3, <3>1, <3>2 DEF TokenTypes
  <2> QED BY <2>4, <2>5
<1>10. InOrder(s, 1, Len(s) + 1)
  <2>1. (Len(s) + 1) - 1 = n + m /\ 1 + 1 = 2
    BY <1>1, <1>3
  <2> QED BY <1>8, <1>9, <2>1 DEF InOrder
<1>11. IsStatementList(s)
  BY <1>3, <1>5, <1>6, <1>7, <1>10, ListIsBalanced DEF Balanced
<1> QED
  BY <1>11 DEF s

\* What Parse goes on from can still become a list.
LEMMA BeginningIsCompletable ==
  ASSUME NEW t \in Seq(TokenTypes), NEW d, Begins(t, d), d[Len(t)] <= Len(t)
  PROVE  Completable(t)
<1>1. Len(t) \in Nat /\ d[Len(t)] \in 0..Len(t)
  BY DEF Begins, Depths
<1>2. PICK n \in 0..Len(t) : n = d[Len(t)]
  BY <1>1
<1>3. IsStatementList(t \o CloseBlocks(n)) \/ IsStatementList(Append(t, "STATEMENT_END") \o CloseBlocks(n))
  <2>1. CASE t # <<>> => t[Len(t)] # "NORMAL"
    BY <1>2, <2>1, ClosedIsList
  <2>2. CASE t # <<>> /\ t[Len(t)] = "NORMAL"
    <3>1. MayFollow(t, d, "STATEMENT_END") /\ "STATEMENT_END" \in TokenTypes
      BY <2>2 DEF MayFollow, TokenTypes
    <3>2. PICK e : /\ Begins(Append(t, "STATEMENT_END"), e)
                   /\ e[Len(Append(t, "STATEMENT_END"))] = d[Len(t)] + Change("STATEMENT_END")
      BY <3>1, BeginsAppend
    <3>3. PICK u \in Seq(TokenTypes) :
            u = Append(t, "STATEMENT_END") /\ u # <<>> /\ u[Len(u)] = "STATEMENT_END"
      <4>1. ASSUME NEW x \in TokenTypes
            PROVE  /\ Append(t, x) \in Seq(TokenTypes) /\ Append(t, x) # <<>>
                   /\ Append(t, x)[Len(Append(t, x))] = x
        BY AppendProperties
      <4> QED BY <3>1, <4>1, Zenon
    <3>4. d[Len(t)] + Change("STATEMENT_END") = n
      BY <1>1, <1>2 DEF Change
    <3>5. Begins(u, e) /\ e[Len(u)] = n
      BY <3>2, <3>3, <3>4, Zenon
    <3>6. IsStatementList(u \o CloseBlocks(e[Len(u)]))
      BY <3>3, <3>5, ClosedIsList
    <3> QED BY <3>3, <3>5, <3>6, Zenon
  <2> QED BY <2>1, <2>2
<1>4. Append(t, "STATEMENT_END") = t \o <<"STATEMENT_END">>
  OBVIOUS
<1> QED
  BY <1>3, <1>4, Zenon DEF Completable, CloseBlocks

\* No list begins with tokens that Parse has rejected.
LEMMA RejectedIsNoList ==
  ASSUME NEW t \in Seq(TokenTypes), NEW d, Begins(t, d),
         NEW type \in TokenTypes, ~ MayFollow(t, d, type),
         NEW s \in Seq(TokenTypes), Len(t) + 1 <= Len(s),
         \A k \in 1..Len(t) : s[k] = t[k], s[Len(t) + 1] = type
  PROVE  ~ IsStatementList(s)
<1> SUFFICES ASSUME IsStatementList(s)
             PROVE  FALSE
  OBVIOUS
<1> DEFINE n == Len(t)
           e == [k \in Nat |-> IF k <= n THEN d[k] ELSE 0 - 1]
<1>1. n \in Nat /\ Len(s) \in Nat /\ n + 1 \in 1..Len(s)
  OBVIOUS
<1>2. /\ \A k \in Nat : d[k] \in Int
      /\ \A k \in 0..n : d[k] >= 0
      /\ d[0] = 0
  BY DEF Begins, Depths
<1>3. InOrder(s, 1, Len(s) + 1)
  <2>1. [k \in Nat |-> 0] \in Depths
    BY DEF Depths
  <2>2. PICK f : /\ \A b \in 1..(Len(s) + 1) : f[b] = EndsFrom(s, f, b)
                 /\ IsStatementList(s) <=> Len(s) + 1 \in f[1]
    BY <1>1, StatementListEnds
  <2>3. 1 \in 1..(Len(s) + 1)
    BY <1>1
  <2> QED BY <1>1, <2>2, <2>3, ListInOrder
<1>4. s[1] = "NORMAL" /\ \A k \in 2..Len(s) : Follows(s, k)
  BY <1>1, <1>3 DEF InOrder
<1>5. n # 0 /\ t # <<>> /\ n \in 1..n
  <2>1. type # "NORMAL"
    BY DEF MayFollow
  <2> QED BY <1>1, <1>4, <2>1
<1>6. Follows(s, n + 1) /\ s[(n + 1) - 1] = t[n]
  BY <1>1, <1>4, <1>5
<1>7. type = "END_BLOCK" /\ ~ (d[n] > 0)
  BY <1>5, <1>6 DEF Follows, MayFollow
<1>8. d[n] = 0 /\ n \in 0..n
  BY <1>1, <1>2, <1>7
<1>9. e \in Depths /\ (\A k \in 0..n : e[k] = d[k]) /\ e[n + 1] = 0 - 1
  BY <1>1, <1>2 DEF Depths
<1> HIDE DEF e
<1>10. Deepens(s, e, 1, n + 1)
  <2>1. ASSUME NEW k \in 1..n
        PROVE  s[k] = t[k] /\ e[k] = d[k] /\ e[k - 1] = d[k - 1]
    BY <1>1, <1>9
  <2>2. Deepens(t, d, 1, n)
    BY DEF Begins
  <2>3. Deepens(s, e, 1, n)
    BY <2>1, <2>2 DEF Deepens
  <2>4. s[n + 1] = "END_BLOCK" /\ e[n + 1] = e[(n + 1) - 1] - 1
    BY <1>1, <1>7, <1>8, <1>9
  <2>5. \A k \in 1..(n + 1) : k \in 1..n \/ k = n + 1
    BY <1>1
  <2> QED BY <2>3, <2>4, <2>5 DEF Deepens
<1>11. e[n + 1] >= e[0]
  BY <1>1, <1>9, <1>10, ListNeverBelow
<1> QED
  BY <1>1, <1>2, <1>9, <1>11

LEMMA RejectedStaysNoList ==
  ASSUME NEW t \in Seq(TokenTypes), NEW d, Begins(t, d),
         NEW type \in TokenTypes, ~ MayFollow(t, d, type), NEW more \in Seq(TokenTypes)
  PROVE  /\ ~ IsStatementList(Append(t, type) \o more)
         /\ ~ IsStatementList(Append(t, type) \o <<"STATEMENT_END">> \o more)
<1>1. PICK u \in Seq(TokenTypes) :
        /\ u = Append(t, type) /\ Len(u) = Len(t) + 1 /\ u[Len(t) + 1] = type
        /\ \A k \in 1..Len(t) : u[k] = t[k]
  <2>1. /\ Append(t, type) \in Seq(TokenTypes)
        /\ Len(Append(t, type)) = Len(t) + 1 /\ Append(t, type)[Len(t) + 1] = type
        /\ \A k \in 1..Len(t) : Append(t, type)[k] = t[k]
    BY AppendProperties
  <2> QED BY <2>1, Zenon
<1>2. Len(t) \in Nat /\ Len(t) + 1 \in 1..Len(u) /\ \A k \in 1..Len(t) : k \in 1..Len(u)
  BY <1>1
<1>3. ASSUME NEW s \in Seq(TokenTypes), Len(u) <= Len(s), \A k \in 1..Len(u) : s[k] = u[k]
      PROVE  ~ IsStatementList(s)
  <2>1. Len(t) + 1 <= Len(s) /\ s[Len(t) + 1] = type
    BY <1>1, <1>2, <1>3
  <2>2. \A k \in 1..Len(t) : s[k] = t[k]
    BY <1>1, <1>2, <1>3
  <2> QED BY <2>1, <2>2, RejectedIsNoList
<1>4. ASSUME NEW x \in Seq(TokenTypes)
      PROVE  /\ u \o x \in Seq(TokenTypes)
             /\ Len(u) <= Len(u \o x) /\ Len(u \o x) \in Nat
             /\ \A k \in 1..Len(u) : (u \o x)[k] = u[k]
  BY ConcatElements
<1>5. ~ IsStatementList(u \o more)
  BY <1>3, <1>4
<1>6. PICK v \in Seq(TokenTypes) :
        /\ v = u \o <<"STATEMENT_END">> /\ Len(u) <= Len(v) /\ Len(v) \in Nat
        /\ \A k \in 1..Len(u) : v[k] = u[k]
  <2>1. PICK x \in Seq(TokenTypes) : x = <<"STATEMENT_END">>
    <3>1. \A x \in TokenTypes : <<x>> \in Seq(TokenTypes)
      OBVIOUS
    <3>2. "STATEMENT_END" \in TokenTypes
      BY DEF TokenTypes
    <3> QED BY <3>1, <3>2, Zenon
  <2> QED BY <1>4, <2>1
<1>7. PICK s \in Seq(TokenTypes) :
        /\ s = v \o more /\ Len(v) <= Len(s) /\ Len(s) \in Nat
        /\ \A k \in 1..Len(v) : s[k] = v[k]
  <2>1. /\ v \o more \in Seq(TokenTypes)
        /\ Len(v) <= Len(v \o more) /\ Len(v \o more) \in Nat
        /\ \A k \in 1..Len(v) : (v \o more)[k] = v[k]
    BY ConcatElements
  <2> QED BY <2>1, Zenon
<1>8. \A k \in 1..Len(u) : k \in 1..Len(v)
  BY <1>1, <1>6
<1>9. ~ IsStatementList(s)
  <2>1. Len(u) <= Len(s)
    BY <1>1, <1>6, <1>7
  <2>2. \A k \in 1..Len(u) : s[k] = u[k]
    BY <1>6, <1>7, <1>8
  <2> QED BY <1>3, <2>1, <2>2
<1> QED
  BY <1>1, <1>5, <1>6, <1>7, <1>9, Zenon

LEMMA RejectedIsNotCompletable ==
  ASSUME NEW t \in Seq(TokenTypes), NEW d, Begins(t, d),
         NEW type \in TokenTypes, ~ MayFollow(t, d, type)
  PROVE  ~ Completable(Append(t, type))
<1>1. ASSUME NEW n \in 0..Len(Append(t, type))
      PROVE  /\ ~ IsStatementList(Append(t, type) \o CloseBlocks(n))
             /\ ~ IsStatementList(Append(t, type) \o <<"STATEMENT_END">> \o CloseBlocks(n))
  <2>1. PICK more \in Seq(TokenTypes) : more = CloseBlocks(n)
    BY CloseBlocksType
  <2>2. /\ ~ IsStatementList(Append(t, type) \o more)
        /\ ~ IsStatementList(Append(t, type) \o <<"STATEMENT_END">> \o more)
    BY RejectedStaysNoList
  <2> QED BY <2>1, <2>2, Zenon
<1> QED
  BY <1>1, Zenon DEF Completable, CloseBlocks

\* What Parse accepts is a list.
LEMMA AcceptedIsList ==
  ASSUME NEW t \in Seq(TokenTypes), NEW d, Begins(t, d), t # <<>>, d[Len(t)] = 0,
         t[Len(t)] \in {"STATEMENT_END", "END_BLOCK"}
  PROVE  IsStatementList(t)
<1>1. t[Len(t)] # "NORMAL"
  OBVIOUS
<1>2. IsStatementList(t \o CloseBlocks(d[Len(t)]))
  BY <1>1, ClosedIsList
<1>3. CloseBlocks(0) = <<>>
  BY CloseBlocksType, EmptySeq
<1>4. t \o <<>> = t
  BY ConcatEmptySeq
<1> QED
  BY <1>2, <1>3, <1>4, Zenon

\* What it finds incomplete at the end of the file is none.
LEMMA IncompleteIsNoList ==
  ASSUME NEW t \in Seq(TokenTypes), NEW d, Begins(t, d), t # <<>>,
         ~ (d[Len(t)] = 0 /\ t[Len(t)] \in {"STATEMENT_END", "END_BLOCK"})
  PROVE  ~ IsStatementList(t)
<1> SUFFICES ASSUME IsStatementList(t)
             PROVE  FALSE
  OBVIOUS
<1>1. Len(t) \in Nat /\ Len(t) # 0 /\ (Len(t) + 1) - 1 = Len(t) /\ 1 - 1 = 0 /\ 1 < Len(t) + 1
  BY EmptySeq
<1>2. d \in Depths /\ Deepens(t, d, 1, Len(t)) /\ d[0] = 0
  BY DEF Begins
<1>3. Balanced(t, d, 1, Len(t) + 1)
  BY <1>2, ListIsBalanced
<1>4. t[Len(t)] \in {"STATEMENT_END", "END_BLOCK"}
  BY <1>1, <1>3 DEF Balanced, InOrder
<1>5. d[Len(t)] = 0
  <2>2. Len(t) \in (1 - 1)..((Len(t) + 1) - 1) /\ Len(t) <= Len(t)
    BY <1>1
  <2> QED BY <1>1, <1>2, <1>3, <2>2 DEF Balanced, Closes
<1> QED
  BY <1>4, <1>5

-----------------------------------------------------------------------------
\* The invariant about the tokens

\* The tokens that Parse has accepted begin a list; the bracket count and the
\* last token type are what the next one is judged by.
Accepted(t) ==
  \E d : /\ Begins(t, d)
         /\ bracket_count = d[Len(t)] /\ bracket_count <= Len(t)
         /\ last_token_type = IF t = <<>> THEN "START" ELSE t[Len(t)]

\* A rejected token is one that no list goes on with.
RejectedLast ==
  \E t \in Seq(TokenTypes), type \in TokenTypes :
    tokens = Append(t, type) /\ \E d : Begins(t, d) /\ ~ MayFollow(t, d, type)

MayStop == last_token_type \in {"STATEMENT_END", "END_BLOCK"} /\ bracket_count = 0

GInv ==
  /\ result # "rejected" => Accepted(tokens)
  /\ result = "rejected" => RejectedLast
  /\ result = "accepted" => MayStop
  /\ result = "incomplete" => state \in {"single_quote", "double_quote"} \/ ~ MayStop

LEMMA RejectGrammar ==
  ASSUME TreeOK, NEW type \in TokenTypes, Reject(type),
         NEW d, Begins(tokens, d), ~ MayFollow(tokens, d, type)
  PROVE  GInv'
<1>1. tokens \in Seq(TokenTypes)
  BY DEF TreeOK
<1>2. tokens' = Append(tokens, type) /\ result' = "rejected"
  BY DEF Reject
<1>3. RejectedLast'
  <2>1. \E e : Begins(tokens, e) /\ ~ MayFollow(tokens, e, type)
    OBVIOUS
  <2>2. \E t \in Seq(TokenTypes), x \in TokenTypes :
          tokens' = Append(t, x) /\ \E e : Begins(t, e) /\ ~ MayFollow(t, e, x)
    BY <1>1, <1>2, <2>1, Zenon
  <2> QED BY <2>2, Zenon DEF RejectedLast
<1> QED
  BY <1>2, <1>3 DEF GInv

LEMMA AcceptGrammar ==
  ASSUME TreeOK, NEW type \in TokenTypes, Accept(type), result = "reading",
         NEW d, Begins(tokens, d), MayFollow(tokens, d, type),
         bracket_count = d[Len(tokens)], bracket_count <= Len(tokens),
         bracket_count' = bracket_count + Change(type)
  PROVE  GInv'
<1>1. tokens \in Seq(TokenTypes) /\ bracket_count \in Nat
  BY DEF TreeOK
<1>2. tokens' = Append(tokens, type) /\ result' = "reading" /\ last_token_type' = type
  BY DEF Accept
<1>3. PICK e : /\ Begins(Append(tokens, type), e)
               /\ e[Len(Append(tokens, type))] = d[Len(tokens)] + Change(type)
  BY <1>1, BeginsAppend
<1>4. /\ Len(Append(tokens, type)) = Len(tokens) + 1 /\ Append(tokens, type) # <<>>
      /\ Append(tokens, type)[Len(Append(tokens, type))] = type /\ Len(tokens) \in Nat
  BY <1>1, AppendProperties
<1>5. bracket_count' <= Len(Append(tokens, type))
  BY <1>1, <1>4 DEF Change
<1>6. Accepted(tokens)'
  BY <1>2, <1>3, <1>4, <1>5 DEF Accepted
<1> QED
  BY <1>2, <1>6 DEF GInv

\* Parse judges a token as the grammar does.
LEMMA ParseGrammar ==
  ASSUME TreeOK, GInv, result = "reading",
         NEW type \in TokenTypes, NEW text, Parse(type, text)
  PROVE  GInv'
<1>1. PICK d : /\ Begins(tokens, d)
               /\ bracket_count = d[Len(tokens)] /\ bracket_count <= Len(tokens)
               /\ last_token_type = IF tokens = <<>> THEN "START" ELSE tokens[Len(tokens)]
  BY DEF GInv, Accepted
<1>2. bracket_count \in Nat /\ TokenTypes = {"NORMAL", "START_BLOCK", "END_BLOCK", "STATEMENT_END"}
  BY DEF TreeOK, TokenTypes
<1>3. CASE type = "NORMAL"
  <2>1. Accept(type) /\ bracket_count' = bracket_count
    BY <1>3 DEF Parse, AddWord
  <2>2. MayFollow(tokens, d, type) /\ bracket_count' = bracket_count + Change(type)
    BY <1>2, <1>3, <2>1 DEF MayFollow, Change
  <2> QED BY <1>1, <2>1, <2>2, AcceptGrammar
<1>4. CASE type = "STATEMENT_END"
  <2>1. EndStatement
    BY <1>4 DEF Parse
  <2>2. CASE last_token_type = "NORMAL"
    <3>1. Accept(type) /\ bracket_count' = bracket_count
      BY <1>4, <2>1, <2>2 DEF EndStatement
    <3>2. MayFollow(tokens, d, type) /\ bracket_count' = bracket_count + Change(type)
      BY <1>1, <1>2, <1>4, <2>2, <3>1 DEF MayFollow, Change
    <3> QED BY <1>1, <3>1, <3>2, AcceptGrammar
  <2>3. CASE last_token_type # "NORMAL"
    <3>1. Reject(type)
      BY <1>4, <2>1, <2>3 DEF EndStatement
    <3>2. ~ MayFollow(tokens, d, type)
      BY <1>1, <1>4, <2>3 DEF MayFollow
    <3> QED BY <1>1, <3>1, <3>2, RejectGrammar
  <2> QED BY <2>2, <2>3
<1>5. CASE type = "START_BLOCK"
  <2>1. StartBlock
    BY <1>5 DEF Parse
  <2>2. CASE last_token_type = "NORMAL"
    <3>1. Accept(type) /\ bracket_count' = bracket_count + 1
      BY <1>5, <2>1, <2>2 DEF StartBlock
    <3>2. MayFollow(tokens, d, type) /\ bracket_count' = bracket_count + Change(type)
      BY <1>1, <1>2, <1>5, <2>2, <3>1 DEF MayFollow, Change
    <3> QED BY <1>1, <3>1, <3>2, AcceptGrammar
  <2>3. CASE last_token_type # "NORMAL"
    <3>1. Reject(type)
      BY <1>5, <2>1, <2>3 DEF StartBlock
    <3>2. ~ MayFollow(tokens, d, type)
      BY <1>1, <1>5, <2>3 DEF MayFollow
    <3> QED BY <1>1, <3>1, <3>2, RejectGrammar
  <2> QED BY <2>2, <2>3
<1>6. CASE type = "END_BLOCK"
  <2>1. EndBlock
    BY <1>6 DEF Parse
  <2>2. CASE last_token_type \in {"STATEMENT_END", "END_BLOCK", "START_BLOCK"} /\ bracket_count > 0
    <3>1. Accept(type) /\ bracket_count' = bracket_count - 1
      BY <1>6, <2>1, <2>2 DEF EndBlock
    <3>2. MayFollow(tokens, d, type)
      BY <1>1, <1>6, <2>2 DEF MayFollow
    <3>3. bracket_count' = bracket_count + Change(type)
      BY <1>2, <1>6, <3>1 DEF Change
    <3> QED BY <1>1, <3>1, <3>2, <3>3, AcceptGrammar
  <2>3. CASE ~ (last_token_type \in {"STATEMENT_END", "END_BLOCK", "START_BLOCK"} /\ bracket_count > 0)
    <3>1. Reject(type)
      BY <1>6, <2>1, <2>3 DEF EndBlock
    <3>2. ~ MayFollow(tokens, d, type)
      BY <1>1, <1>6, <2>3 DEF MayFollow
    <3> QED BY <1>1, <3>1, <3>2, RejectGrammar
  <2> QED BY <2>2, <2>3
<1> QED
  BY <1>2, <1>3, <1>4, <1>5, <1>6

LEMMA GrammarReadStep ==
  ASSUME PInv, GInv, NEW c \in Chars,
         InitialWhitespace(c) \/ Quoted(c) \/ Comment(c) \/ Normal(c)
  PROVE  GInv'
<1>1. TreeOK /\ result = "reading"
  BY DEF PInv, TreeInv, InitialWhitespace, Quoted, Comment, Normal, Get
<1>2. ASSUME NEW next, NEW text, Continue(next, text)
      PROVE  GInv'
  <2>1. UNCHANGED <<tokens, last_token_type, bracket_count, result>>
    BY <1>2 DEF Continue, tree
  <2> QED BY <1>1, <2>1 DEF GInv, Accepted
<1>3. ASSUME NEW type \in TokenTypes, NEW text, NEW back, Return(type, text, back)
      PROVE  GInv'
  BY <1>1, <1>3, ParseGrammar DEF Return
<1>4. /\ DOMAIN Punctuation = {";", "{", "}"} /\ "NORMAL" \in TokenTypes
      /\ \A p \in DOMAIN Punctuation : Punctuation[p] \in TokenTypes
  BY DEF Punctuation, TokenTypes
<1> QED
  BY <1>2, <1>3, <1>4 DEF InitialWhitespace, Quoted, Comment, Normal

LEMMA GrammarInvariance == ParserSpec => []GInv
<1>1. ParserInit => GInv
  <2> SUFFICES ASSUME ParserInit
               PROVE  GInv
    OBVIOUS
  <2>1. /\ tokens = <<>> /\ last_token_type = "START" /\ bracket_count = 0 /\ result = "closed"
        /\ Len(<<>>) = 0
    BY DEF ParserInit
  <2> DEFINE d == [k \in Nat |-> 0]
  <2>2. Begins(<<>>, d) /\ d[0] = 0
    BY DEF Begins, Depths, Deepens
  <2>3. Accepted(tokens)
    BY <2>1, <2>2 DEF Accepted
  <2> QED BY <2>1, <2>3 DEF GInv
<1>2. PInv /\ GInv /\ [ParserNext]_parserVars => GInv'
  <2> SUFFICES ASSUME PInv, GInv, [ParserNext]_parserVars
               PROVE  GInv'
    OBVIOUS
  <2>1. CASE \E c \in Chars : InitialWhitespace(c) \/ Quoted(c) \/ Comment(c) \/ Normal(c)
    BY <2>1, GrammarReadStep
  <2>2. CASE OpenFile
    BY <2>2 DEF OpenFile, lexer, tree, GInv, Accepted
  <2>3. CASE EndOfFile
    BY <2>3 DEF EndOfFile, lexer, tree, GInv, Accepted, MayStop
  <2>4. CASE ParserDone \/ UNCHANGED parserVars
    BY <2>4 DEF ParserDone, parserVars, lexer, tree, GInv, Accepted, MayStop, RejectedLast
  <2> QED BY <2>1, <2>2, <2>3, <2>4 DEF ParserNext
<1> QED BY <1>1, <1>2, ParserInvariance, PTL DEF ParserSpec

\* Parse (config_parser.cc:153-247) accepts the files whose tokens are a list
\* of statements and no others, however long they are and however deep their
\* blocks, and it gives up at the first token that no list goes on with.
THEOREM ParserAcceptsGrammar == ParserSpec => []AcceptsGrammar
<1>1. PInv /\ GInv => AcceptsGrammar
  <2> SUFFICES ASSUME PInv, GInv
               PROVE  AcceptsGrammar
    OBVIOUS
  <2>1. tokens \in Seq(TokenTypes)
    BY DEF PInv, TreeInv, TreeOK
  <2>2. CASE result = "rejected"
    <3>1. PICK t \in Seq(TokenTypes), type \in TokenTypes :
            tokens = Append(t, type) /\ \E d : Begins(t, d) /\ ~ MayFollow(t, d, type)
      BY <2>2 DEF GInv, RejectedLast
    <3>2. ~ Completable(Append(t, type))
      BY <3>1, RejectedIsNotCompletable
    <3> QED BY <2>2, <3>1, <3>2 DEF AcceptsGrammar
  <2>3. CASE result # "rejected"
    <3>1. PICK d : /\ Begins(tokens, d)
                   /\ bracket_count = d[Len(tokens)] /\ bracket_count <= Len(tokens)
                   /\ last_token_type = IF tokens = <<>> THEN "START" ELSE tokens[Len(tokens)]
      BY <2>3 DEF GInv, Accepted
    <3>2. MayStop => tokens # <<>>
      BY <3>1 DEF MayStop
    <3>3. MayStop => IsStatementList(tokens)
      BY <2>1, <3>1, <3>2, AcceptedIsList DEF MayStop
    <3>4. Completable(tokens)
      BY <2>1, <3>1, BeginningIsCompletable
    <3>5. ~ MayStop => tokens = <<>> \/ ~ IsStatementList(tokens)
      BY <2>1, <3>1, IncompleteIsNoList DEF MayStop
    <3> QED BY <2>3, <3>2, <3>3, <3>4, <3>5 DEF GInv, AcceptsGrammar
  <2> QED BY <2>2, <2>3
<1> QED
  BY <1>1, ParserInvariance, GrammarInvariance, PTL

-----------------------------------------------------------------------------
\* The text of a tree

\* For each block a text.
BlockTexts == [Nat -> Seq(TokenTypes)]

WordsText(words) == [k \in DOMAIN words |-> "NORMAL"]

StatementText(st, text) ==
  WordsText(st.words) \o
    IF st.child = 0 THEN <<"STATEMENT_END">>
    ELSE <<"START_BLOCK">> \o text[st.child] \o <<"END_BLOCK">>

BlockText(stmts, text) ==
  FlattenSeq([k \in DOMAIN stmts |-> StatementText(stmts[k], text)])

LEMMA TypesAlone ==
  /\ <<"NORMAL">> \in Seq(TokenTypes) /\ <<"STATEMENT_END">> \in Seq(TokenTypes)
  /\ <<"START_BLOCK">> \in Seq(TokenTypes) /\ <<"END_BLOCK">> \in Seq(TokenTypes)
<1>1. \A type \in TokenTypes : <<type>> \in Seq(TokenTypes)
  OBVIOUS
<1>2. {"NORMAL", "STATEMENT_END", "START_BLOCK", "END_BLOCK"} \subseteq TokenTypes
  BY DEF TokenTypes
<1> QED
  BY <1>1, <1>2

LEMMA ConcatType ==
  ASSUME NEW S, NEW s \in Seq(S), NEW t \in Seq(S)
  PROVE  s \o t \in Seq(S)
OBVIOUS

LEMMA AppendOne ==
  ASSUME NEW S, NEW s \in Seq(S), NEW x \in S
  PROVE  Append(s, x) = s \o <<x>> /\ Append(s, x) \in Seq(S) /\ <<x>> \in Seq(S)
OBVIOUS

LEMMA WordsTextType ==
  ASSUME NEW words \in Seq(Seq(Chars))
  PROVE  WordsText(words) \in Seq(TokenTypes)
BY DEF WordsText, TokenTypes

LEMMA WordsTextAppend ==
  ASSUME NEW words \in Seq(Seq(Chars)), NEW word \in Seq(Chars)
  PROVE  WordsText(Append(words, word)) = WordsText(words) \o <<"NORMAL">>
<1> DEFINE longer == Append(words, word)
<1>1. longer \in Seq(Seq(Chars)) /\ Len(longer) = Len(words) + 1 /\ Len(words) \in Nat
  OBVIOUS
<1> HIDE DEF longer
<1>2. DOMAIN longer = 1..(Len(words) + 1) /\ DOMAIN words = 1..Len(words)
  BY <1>1
<1>3. PICK type \in TokenTypes : type = "NORMAL"
  BY DEF TokenTypes
<1>4. WordsText(longer) = [k \in 1..(Len(words) + 1) |-> type]
  BY <1>2, <1>3 DEF WordsText
<1>5. WordsText(words) = [k \in 1..Len(words) |-> type]
  BY <1>2, <1>3 DEF WordsText
<1>6. Append(WordsText(words), type) = [k \in 1..(Len(words) + 1) |-> type]
  BY <1>1, <1>5
<1>7. Append(WordsText(words), type) = WordsText(words) \o <<type>>
  BY WordsTextType, AppendOne
<1> QED
  BY <1>3, <1>4, <1>6, <1>7, Zenon DEF longer

LEMMA WordsTextOne ==
  ASSUME NEW word \in Seq(Chars)
  PROVE  WordsText(<<word>>) = <<"NORMAL">>
BY DEF WordsText

LEMMA StatementTextType ==
  ASSUME NEW st \in Statement, NEW text \in BlockTexts
  PROVE  StatementText(st, text) \in Seq(TokenTypes)
<1>1. st.words \in Seq(Seq(Chars)) /\ st.child \in Nat
  BY DEF Statement
<1>2. WordsText(st.words) \in Seq(TokenTypes)
  BY <1>1, WordsTextType
<1>3. text[st.child] \in Seq(TokenTypes)
  BY <1>1 DEF BlockTexts
<1>4. <<"START_BLOCK">> \o text[st.child] \o <<"END_BLOCK">> \in Seq(TokenTypes)
  BY <1>3, TypesAlone, ConcatType
<1> DEFINE rest == IF st.child = 0 THEN <<"STATEMENT_END">>
                   ELSE <<"START_BLOCK">> \o text[st.child] \o <<"END_BLOCK">>
<1>5. rest \in Seq(TokenTypes)
  BY <1>4, TypesAlone, Zenon
<1> HIDE DEF rest
<1>6. WordsText(st.words) \o rest \in Seq(TokenTypes)
  BY <1>2, <1>5
<1> QED
  BY <1>6, Zenon DEF StatementText, rest

LEMMA BlockTextType ==
  ASSUME NEW stmts \in Seq(Statement), NEW text \in BlockTexts
  PROVE  /\ BlockText(stmts, text) \in Seq(TokenTypes)
         /\ [k \in DOMAIN stmts |-> StatementText(stmts[k], text)] \in Seq(Seq(TokenTypes))
<1> DEFINE texts == [k \in DOMAIN stmts |-> StatementText(stmts[k], text)]
<1>1. \A k \in 1..Len(stmts) : StatementText(stmts[k], text) \in Seq(TokenTypes)
  BY StatementTextType
<1>2. texts = [k \in 1..Len(stmts) |-> StatementText(stmts[k], text)] /\ Len(stmts) \in Nat
  OBVIOUS
<1>3. texts \in Seq(Seq(TokenTypes))
  BY <1>1, <1>2
<1> QED
  BY <1>3, FlattenType DEF BlockText

LEMMA BlockTextEmpty ==
  ASSUME NEW text
  PROVE  BlockText(<<>>, text) = <<>>
<1>1. [k \in DOMAIN <<>> |-> StatementText(<<>>[k], text)] = <<>>
  OBVIOUS
<1> QED
  BY <1>1, FlattenEmpty DEF BlockText

LEMMA BlockTextAppend ==
  ASSUME NEW stmts \in Seq(Statement), NEW st \in Statement, NEW text \in BlockTexts
  PROVE  BlockText(Append(stmts, st), text) = BlockText(stmts, text) \o StatementText(st, text)
<1> DEFINE texts == [k \in DOMAIN stmts |-> StatementText(stmts[k], text)]
           longer == Append(stmts, st)
           all == [k \in DOMAIN longer |-> StatementText(longer[k], text)]
<1>1. texts \in Seq(Seq(TokenTypes)) /\ StatementText(st, text) \in Seq(TokenTypes)
  BY BlockTextType, StatementTextType
<1>2. /\ DOMAIN longer = 1..(Len(stmts) + 1) /\ DOMAIN stmts = 1..Len(stmts) /\ Len(stmts) \in Nat
      /\ longer[Len(stmts) + 1] = st /\ \A k \in 1..Len(stmts) : longer[k] = stmts[k]
  OBVIOUS
<1> HIDE DEF longer
<1>3. all = Append(texts, StatementText(st, text))
  <2>1. /\ Len(texts) = Len(stmts)
        /\ \A k \in 1..Len(stmts) : texts[k] = StatementText(stmts[k], text)
    BY <1>2
  <2>2. PICK last \in Seq(TokenTypes) : last = StatementText(st, text)
    BY <1>1
  <2> HIDE DEF texts
  <2>3. /\ Append(texts, last) \in Seq(Seq(TokenTypes))
        /\ Len(Append(texts, last)) = Len(stmts) + 1
        /\ Append(texts, last)[Len(stmts) + 1] = last
        /\ \A k \in 1..Len(stmts) : Append(texts, last)[k] = texts[k]
    <3>1. /\ Append(texts, last) \in Seq(Seq(TokenTypes))
          /\ Len(Append(texts, last)) = Len(texts) + 1
          /\ Append(texts, last)[Len(texts) + 1] = last
          /\ \A k \in 1..Len(texts) : Append(texts, last)[k] = texts[k]
      <4>1. ASSUME NEW S, NEW s \in Seq(S), NEW x \in S
            PROVE  /\ Append(s, x) \in Seq(S) /\ Len(Append(s, x)) = Len(s) + 1
                   /\ Append(s, x)[Len(s) + 1] = x
                   /\ \A k \in 1..Len(s) : Append(s, x)[k] = s[k]
        BY AppendProperties
      <4>2. texts \in Seq(Seq(TokenTypes)) /\ last \in Seq(TokenTypes)
        BY <1>1
      <4> QED BY <4>1, <4>2
    <3> QED BY <2>1, <3>1, Zenon
  <2>4. ASSUME NEW k \in 1..(Len(stmts) + 1)
        PROVE  StatementText(longer[k], text) = Append(texts, last)[k]
    <3>1. CASE k \in 1..Len(stmts)
      BY <1>2, <2>1, <2>3, <3>1
    <3>2. CASE k = Len(stmts) + 1
      BY <1>2, <2>2, <2>3, <3>2
    <3>3. k \in 1..Len(stmts) \/ k = Len(stmts) + 1
      BY <1>2
    <3> QED BY <3>1, <3>2, <3>3
  <2>5. \A k \in 1..(Len(stmts) + 1) : all[k] = Append(texts, last)[k]
    BY <1>2, <2>4
  <2>6. all \in Seq(Seq(TokenTypes)) /\ Len(all) = Len(stmts) + 1
    <3>1. longer \in Seq(Statement)
      BY DEF longer
    <3>2. all \in Seq(Seq(TokenTypes))
      BY <3>1, BlockTextType
    <3> QED BY <1>2, <3>2
  <2> HIDE DEF all
  <2>7. all = Append(texts, last)
    BY <2>3, <2>5, <2>6, SeqEqual
  <2> QED BY <2>2, <2>7
<1> HIDE DEF texts, all
<1>4. FlattenSeq(all) = FlattenSeq(texts) \o StatementText(st, text)
  BY <1>1, <1>3, FlattenAppend
<1> QED
  BY <1>4, Zenon DEF BlockText, texts, all, longer

\* The text of a block depends on the texts of its children only.
LEMMA BlockTextLocal ==
  ASSUME NEW stmts \in Seq(Statement), NEW text, NEW other,
         \A k \in DOMAIN stmts : stmts[k].child # 0 => text[stmts[k].child] = other[stmts[k].child]
  PROVE  BlockText(stmts, text) = BlockText(stmts, other)
<1>1. \A k \in DOMAIN stmts : StatementText(stmts[k], text) = StatementText(stmts[k], other)
  BY Zenon DEF StatementText
<1>2. [k \in DOMAIN stmts |-> StatementText(stmts[k], text)]
        = [k \in DOMAIN stmts |-> StatementText(stmts[k], other)]
  BY <1>1, Zenon
<1> QED
  BY <1>2, Zenon DEF BlockText

LEMMA LastOfAppend ==
  ASSUME NEW S, NEW s \in Seq(S), NEW x \in S
  PROVE  Front(Append(s, x)) = s /\ Last(Append(s, x)) = x
BY DEF Front, Last

LEMMA LastApart ==
  ASSUME NEW S, NEW s \in Seq(S), s # <<>>
  PROVE  /\ Front(s) \in Seq(S) /\ Last(s) \in S /\ s = Append(Front(s), Last(s))
         /\ Last(s) = s[Len(s)] /\ Len(s) \in Nat \ {0} /\ Len(Front(s)) = Len(s) - 1
         /\ \A k \in 1..(Len(s) - 1) : Front(s)[k] = s[k]
<1>1. PICK t \in Seq(S), x \in S : s = Append(t, x)
  BY SequenceEmptyOrAppend
<1>2. Front(s) = t /\ Last(s) = x
  BY <1>1, LastOfAppend
<1>3. /\ Len(s) = Len(t) + 1 /\ Len(t) \in Nat /\ s[Len(t) + 1] = x
      /\ \A k \in 1..Len(t) : s[k] = t[k]
  BY <1>1
<1> QED
  BY <1>1, <1>2, <1>3

LEMMA LastReplaced ==
  ASSUME NEW S, NEW s \in Seq(S), s # <<>>, NEW x \in S
  PROVE  [s EXCEPT ![Len(s)] = x] = Append(Front(s), x)
<1>1. /\ Front(s) \in Seq(S) /\ Len(s) \in Nat \ {0} /\ Len(Front(s)) = Len(s) - 1
      /\ \A k \in 1..(Len(s) - 1) : Front(s)[k] = s[k]
  BY LastApart
<1>2. PICK f \in Seq(S) : f = Front(s) /\ Len(f) = Len(s) - 1 /\ \A k \in 1..(Len(s) - 1) : f[k] = s[k]
  BY <1>1
<1>3. /\ Append(f, x) \in Seq(S) /\ Len(Append(f, x)) = Len(s)
      /\ Append(f, x)[Len(s)] = x /\ \A k \in 1..(Len(s) - 1) : Append(f, x)[k] = s[k]
  BY <1>1, <1>2
<1>4. /\ [s EXCEPT ![Len(s)] = x] \in Seq(S) /\ Len([s EXCEPT ![Len(s)] = x]) = Len(s)
      /\ [s EXCEPT ![Len(s)] = x][Len(s)] = x
      /\ \A k \in 1..(Len(s) - 1) : [s EXCEPT ![Len(s)] = x][k] = s[k]
  BY <1>1
<1> DEFINE t == [s EXCEPT ![Len(s)] = x]
<1> HIDE DEF t
<1>5. ASSUME NEW k \in 1..Len(s)
      PROVE  t[k] = Append(f, x)[k]
  <2>1. k \in 1..(Len(s) - 1) \/ k = Len(s)
    BY <1>1
  <2> QED BY <1>3, <1>4, <2>1 DEF t
<1>6. t = Append(f, x)
  BY <1>3, <1>4, <1>5, SeqEqual DEF t
<1> QED
  BY <1>2, <1>6 DEF t

-----------------------------------------------------------------------------
\* The shape of the tree

\* No block is the child of two statements.
OneParent(bs) ==
  \A b, c \in DOMAIN bs : \A k \in DOMAIN bs[b], j \in DOMAIN bs[c] :
    bs[b][k].child # 0 /\ bs[b][k].child = bs[c][j].child => b = c /\ k = j

\* A block is the child of one statement of an earlier block, and those on the
\* stack are each the child of the last statement of the one below.
TreeShape(bs, stack) ==
  /\ OneParent(bs)
  /\ bs \in Seq(Seq(Statement))
  /\ stack \in Seq(DOMAIN bs) /\ stack # <<>> /\ stack[1] = 1
  /\ \A i, j \in 1..Len(stack) : i < j => stack[i] < stack[j]
  /\ \A b \in DOMAIN bs : \A k \in DOMAIN bs[b] :
       bs[b][k].child = 0 \/ bs[b][k].child \in (b + 1)..Len(bs)
  /\ \A i \in 1..(Len(stack) - 1) :
       bs[stack[i]] # <<>> /\ bs[stack[i]][Len(bs[stack[i]])].child = stack[i + 1]

\* The statement that a word has been added to has no block yet.
WordPending(stmts, last) ==
  last = "NORMAL" => stmts # <<>> /\ stmts[Len(stmts)].child = 0

\* Up to the end of its last word.
HeadText(stmts, text) == BlockText(Front(stmts), text) \o WordsText(Last(stmts).words)

\* The innermost block, as far as the tokens have come.
Current(stmts, last, text) ==
  IF last = "NORMAL" THEN HeadText(stmts, text) ELSE BlockText(stmts, text)

\* text is right about the blocks that are closed, open has the beginnings of
\* those around the innermost one, and together they are the tokens.
PrintedAs(bs, stack, last, toks, text, open) ==
  /\ \A b \in DOMAIN bs :
       (\A i \in 1..Len(stack) : stack[i] # b) => text[b] = BlockText(bs[b], text)
  /\ Len(open) = Len(stack) - 1
  /\ \A i \in 1..(Len(stack) - 1) :
       open[i] = HeadText(bs[stack[i]], text) \o <<"START_BLOCK">>
  /\ toks = FlattenSeq(open) \o Current(bs[Last(stack)], last, text)

LEMMA ShapeTop ==
  ASSUME NEW bs, NEW stack, TreeShape(bs, stack)
  PROVE  /\ Len(stack) \in Nat \ {0} /\ Last(stack) = stack[Len(stack)]
         /\ Last(stack) \in DOMAIN bs /\ bs[Last(stack)] \in Seq(Statement)
         /\ \A i \in 1..Len(stack) : stack[i] \in DOMAIN bs /\ bs[stack[i]] \in Seq(Statement)
         /\ DOMAIN bs = 1..Len(bs) /\ Len(bs) \in Nat
         /\ \A i \in 1..(Len(stack) - 1) : stack[i] # Last(stack)
<1>1. bs \in Seq(Seq(Statement)) /\ stack \in Seq(DOMAIN bs) /\ stack # <<>>
  BY DEF TreeShape
<1>2. Len(stack) \in Nat \ {0} /\ Last(stack) = stack[Len(stack)]
  BY <1>1, LastApart
<1>3. \A i \in 1..Len(stack) : stack[i] \in DOMAIN bs /\ bs[stack[i]] \in Seq(Statement)
  BY <1>1
<1>4. ASSUME NEW i \in 1..(Len(stack) - 1)
      PROVE  stack[i] # Last(stack)
  <2>1. i \in 1..Len(stack) /\ Len(stack) \in 1..Len(stack) /\ i < Len(stack)
    BY <1>2
  <2>2. stack[i] < stack[Len(stack)]
    BY <2>1 DEF TreeShape
  <2>3. stack[i] \in Nat /\ stack[Len(stack)] \in Nat
    <3>1. DOMAIN bs = 1..Len(bs) /\ Len(bs) \in Nat
      BY <1>1
    <3>2. stack[i] \in DOMAIN bs /\ stack[Len(stack)] \in DOMAIN bs
      BY <1>3, <2>1
    <3> QED BY <3>1, <3>2
  <2> QED BY <1>2, <2>2, <2>3
<1>5. Len(stack) \in 1..Len(stack)
  BY <1>2
<1> QED
  BY <1>1, <1>2, <1>3, <1>4, <1>5

\* A change of the innermost block that keeps its children keeps the shape.
LEMMA ShapeUpdate ==
  ASSUME NEW bs, NEW stack, TreeShape(bs, stack), NEW new \in Seq(Statement),
         \A k \in DOMAIN new :
           new[k].child # 0 => /\ k \in DOMAIN bs[Last(stack)]
                               /\ new[k].child = bs[Last(stack)][k].child
  PROVE  TreeShape([bs EXCEPT ![Last(stack)] = new], stack)
<1> DEFINE cs == [bs EXCEPT ![Last(stack)] = new]
<1>1. bs \in Seq(Seq(Statement)) /\ Last(stack) \in DOMAIN bs /\ Len(stack) \in Nat \ {0}
  BY ShapeTop DEF TreeShape
<1>2. /\ cs \in Seq(Seq(Statement)) /\ DOMAIN cs = DOMAIN bs /\ Len(cs) = Len(bs)
      /\ cs[Last(stack)] = new
      /\ \A b \in DOMAIN bs : b # Last(stack) => cs[b] = bs[b]
  BY <1>1
<1> HIDE DEF cs
<1>3. ASSUME NEW b \in DOMAIN bs, NEW k \in DOMAIN cs[b], cs[b][k].child # 0
      PROVE  k \in DOMAIN bs[b] /\ cs[b][k].child = bs[b][k].child
  BY <1>2, <1>3
<1>4. ASSUME NEW b \in DOMAIN cs, NEW k \in DOMAIN cs[b]
      PROVE  cs[b][k].child = 0 \/ cs[b][k].child \in (b + 1)..Len(cs)
  BY <1>2, <1>3 DEF TreeShape
<1>5. ASSUME NEW b \in DOMAIN cs, NEW c \in DOMAIN cs, NEW k \in DOMAIN cs[b], NEW j \in DOMAIN cs[c],
             cs[b][k].child # 0, cs[b][k].child = cs[c][j].child
      PROVE  b = c /\ k = j
  <2>1. /\ k \in DOMAIN bs[b] /\ cs[b][k].child = bs[b][k].child
        /\ j \in DOMAIN bs[c] /\ cs[c][j].child = bs[c][j].child
        /\ b \in DOMAIN bs /\ c \in DOMAIN bs
    BY <1>2, <1>3, <1>5
  <2>2. OneParent(bs)
    BY DEF TreeShape
  <2>3. bs[b][k].child # 0 /\ bs[b][k].child = bs[c][j].child
    BY <1>5, <2>1
  <2> QED BY <2>1, <2>2, <2>3, Zenon DEF OneParent
<1>6. ASSUME NEW i \in 1..(Len(stack) - 1)
      PROVE  cs[stack[i]] # <<>> /\ cs[stack[i]][Len(cs[stack[i]])].child = stack[i + 1]
  <2>1. i \in 1..Len(stack) /\ stack[i] # Last(stack)
    BY <1>1, ShapeTop
  <2>2. stack[i] \in DOMAIN bs
    BY <2>1, ShapeTop
  <2>3. cs[stack[i]] = bs[stack[i]]
    BY <1>2, <2>1, <2>2
  <2> QED BY <2>3 DEF TreeShape
<1>7. stack \in Seq(DOMAIN cs) /\ stack # <<>> /\ stack[1] = 1
  BY <1>2 DEF TreeShape
<1>8. \A i, j \in 1..Len(stack) : i < j => stack[i] < stack[j]
  BY DEF TreeShape
<1>9. TreeShape(cs, stack)
  <2>1. OneParent(cs)
    BY <1>5 DEF OneParent
  <2> QED BY <1>2, <1>4, <1>6, <1>7, <1>8, <2>1, Zenon DEF TreeShape
<1> QED
  BY <1>9 DEF cs

LEMMA PrintedUpdate ==
  ASSUME NEW bs, NEW stack, TreeShape(bs, stack), NEW new \in Seq(Statement),
         NEW last, NEW toks, NEW text, NEW open, PrintedAs(bs, stack, last, toks, text, open),
         NEW next, NEW more, more = FlattenSeq(open) \o Current(new, next, text)
  PROVE  PrintedAs([bs EXCEPT ![Last(stack)] = new], stack, next, more, text, open)
<1> DEFINE cs == [bs EXCEPT ![Last(stack)] = new]
<1>1. bs \in Seq(Seq(Statement)) /\ Last(stack) \in DOMAIN bs /\ Len(stack) \in Nat \ {0}
  BY ShapeTop DEF TreeShape
<1>2. /\ DOMAIN cs = DOMAIN bs /\ cs[Last(stack)] = new
      /\ \A b \in DOMAIN bs : b # Last(stack) => cs[b] = bs[b]
  BY <1>1
<1> HIDE DEF cs
<1>3. Len(stack) \in 1..Len(stack) /\ Last(stack) = stack[Len(stack)]
  BY <1>1, ShapeTop
<1>4. ASSUME NEW b \in DOMAIN cs, \A i \in 1..Len(stack) : stack[i] # b
      PROVE  text[b] = BlockText(cs[b], text)
  <2>1. b # Last(stack) /\ b \in DOMAIN bs
    BY <1>2, <1>3, <1>4
  <2>2. cs[b] = bs[b]
    BY <1>2, <2>1
  <2> QED BY <1>4, <2>1, <2>2, Zenon DEF PrintedAs
<1>5. ASSUME NEW i \in 1..(Len(stack) - 1)
      PROVE  open[i] = HeadText(cs[stack[i]], text) \o <<"START_BLOCK">>
  <2>1. i \in 1..Len(stack) /\ stack[i] # Last(stack)
    BY <1>1, ShapeTop
  <2>2. stack[i] \in DOMAIN bs
    BY <2>1, ShapeTop
  <2>3. cs[stack[i]] = bs[stack[i]]
    BY <1>2, <2>1, <2>2
  <2> QED BY <2>3, Zenon DEF PrintedAs
<1>6. more = FlattenSeq(open) \o Current(cs[Last(stack)], next, text)
  BY <1>2
<1>7. Len(open) = Len(stack) - 1
  BY DEF PrintedAs
<1>8. PrintedAs(cs, stack, next, more, text, open)
  BY <1>4, <1>5, <1>6, <1>7, Zenon DEF PrintedAs
<1> QED
  BY <1>8 DEF cs

LEMMA HeadTextType ==
  ASSUME NEW stmts \in Seq(Statement), stmts # <<>>, NEW text \in BlockTexts
  PROVE  /\ HeadText(stmts, text) \in Seq(TokenTypes)
         /\ BlockText(Front(stmts), text) \in Seq(TokenTypes)
         /\ WordsText(Last(stmts).words) \in Seq(TokenTypes)
<1>1. Front(stmts) \in Seq(Statement) /\ Last(stmts) \in Statement
  BY LastApart
<1>2. Last(stmts).words \in Seq(Seq(Chars))
  BY <1>1 DEF Statement
<1>3. BlockText(Front(stmts), text) \in Seq(TokenTypes) /\ WordsText(Last(stmts).words) \in Seq(TokenTypes)
  BY <1>1, <1>2, BlockTextType, WordsTextType
<1> QED
  BY <1>3, ConcatType DEF HeadText

LEMMA CurrentType ==
  ASSUME NEW stmts \in Seq(Statement), NEW last, WordPending(stmts, last), NEW text \in BlockTexts
  PROVE  Current(stmts, last, text) \in Seq(TokenTypes)
BY HeadTextType, BlockTextType DEF Current, WordPending

\* The tokens grow at the end as the text of the innermost block does.
LEMMA TokensGrow ==
  ASSUME NEW open \in Seq(Seq(TokenTypes)), NEW before \in Seq(TokenTypes), NEW after,
         NEW type \in TokenTypes, after = before \o <<type>>
  PROVE  Append(FlattenSeq(open) \o before, type) = FlattenSeq(open) \o after
<1>1. PICK f \in Seq(TokenTypes), one \in Seq(TokenTypes) : f = FlattenSeq(open) /\ one = <<type>>
  <2>1. FlattenSeq(open) \in Seq(TokenTypes)
    BY FlattenType
  <2>2. <<type>> \in Seq(TokenTypes)
    OBVIOUS
  <2> QED BY <2>1, <2>2, Zenon
<1>2. f \o before \in Seq(TokenTypes)
  BY ConcatType
<1>3. Append(f \o before, type) = (f \o before) \o one
  BY <1>1, <1>2, AppendOne
<1>4. (f \o before) \o one = f \o (before \o one)
  BY ConcatAssociative
<1> QED
  BY <1>1, <1>3, <1>4, Zenon

\* Another last statement, without a block.
LEMMA LastChanged ==
  ASSUME NEW stmts \in Seq(Statement), NEW front \in Seq(Statement), NEW st \in Statement,
         st.child = 0, \A k \in DOMAIN front : k \in DOMAIN stmts /\ front[k] = stmts[k]
  PROVE  \E new \in Seq(Statement) :
           /\ new = Append(front, st) /\ WordPending(new, "NORMAL")
           /\ \A k \in DOMAIN new : new[k].child # 0 => k \in DOMAIN stmts /\ new[k].child = stmts[k].child
           /\ \A text \in BlockTexts :
                Current(new, "NORMAL", text) = BlockText(front, text) \o WordsText(st.words)
<1>0. PICK new \in Seq(Statement) : new = Append(front, st)
  BY AppendOne
<1>1. /\ new \in Seq(Statement) /\ new # <<>> /\ Len(new) = Len(front) + 1 /\ new[Len(front) + 1] = st
      /\ \A k \in 1..Len(front) : new[k] = front[k]
  BY <1>0, AppendProperties
<1>2. DOMAIN new = 1..(Len(front) + 1) /\ DOMAIN front = 1..Len(front) /\ Len(front) \in Nat
  BY <1>1
<1>3. \A k \in DOMAIN new : k \in DOMAIN front \/ k = Len(front) + 1
  BY <1>2
<1>4. \A k \in DOMAIN new : new[k].child # 0 => k \in DOMAIN stmts /\ new[k].child = stmts[k].child
  BY <1>1, <1>2, <1>3
<1>5. Front(new) = front /\ Last(new) = st
  BY <1>0, LastOfAppend
<1>6. \A text \in BlockTexts :
        Current(new, "NORMAL", text) = BlockText(front, text) \o WordsText(st.words)
  BY <1>5 DEF Current, HeadText
<1>7. WordPending(new, "NORMAL")
  BY <1>1 DEF WordPending
<1> QED
  BY <1>0, <1>4, <1>6, <1>7, Zenon

LEMMA StatementParts ==
  ASSUME NEW ws \in Seq(Seq(Chars))
  PROVE  /\ [words |-> ws, child |-> 0] \in Statement
         /\ [words |-> ws, child |-> 0].words = ws /\ [words |-> ws, child |-> 0].child = 0
         /\ \A st \in Statement :
              /\ st.words \in Seq(Seq(Chars)) /\ st.child \in Nat
              /\ [st EXCEPT !.words = ws] \in Statement
              /\ [st EXCEPT !.words = ws].words = ws /\ [st EXCEPT !.words = ws].child = st.child
BY DEF Statement

\* What AddWord makes of the statements of a block.
WithWord(stmts, last, word) ==
  IF last # "NORMAL"
  THEN Append(stmts, [words |-> <<word>>, child |-> 0])
  ELSE [stmts EXCEPT ![Len(stmts)].words = Append(stmts[Len(stmts)].words, word)]

\* A word goes to the last statement, or starts one.
LEMMA WordCurrent ==
  ASSUME NEW stmts \in Seq(Statement), NEW last, WordPending(stmts, last), NEW word \in Seq(Chars)
  PROVE  \E new \in Seq(Statement) :
           /\ new = WithWord(stmts, last, word) /\ WordPending(new, "NORMAL")
           /\ \A k \in DOMAIN new : new[k].child # 0 => k \in DOMAIN stmts /\ new[k].child = stmts[k].child
           /\ \A text \in BlockTexts :
                Current(new, "NORMAL", text) = Current(stmts, last, text) \o <<"NORMAL">>
<1>1. CASE last # "NORMAL"
  <2>1. PICK one \in Seq(Seq(Chars)) : one = <<word>>
    <3>1. ASSUME NEW S, NEW x \in S
          PROVE  <<x>> \in Seq(S)
      OBVIOUS
    <3> QED BY <3>1, Zenon
  <2>2. PICK st \in Statement : st = [words |-> <<word>>, child |-> 0] /\ st.words = one /\ st.child = 0
    BY <2>1, StatementParts
  <2>3. PICK new \in Seq(Statement) :
          /\ new = Append(stmts, st) /\ WordPending(new, "NORMAL")
          /\ \A k \in DOMAIN new : new[k].child # 0 => k \in DOMAIN stmts /\ new[k].child = stmts[k].child
          /\ \A text \in BlockTexts :
               Current(new, "NORMAL", text) = BlockText(stmts, text) \o WordsText(st.words)
    <3>1. \A k \in DOMAIN stmts : k \in DOMAIN stmts /\ stmts[k] = stmts[k]
      OBVIOUS
    <3> QED BY <2>2, <3>1, LastChanged, Zenon
  <2>4. new = WithWord(stmts, last, word)
    BY <1>1, <2>2, <2>3, Zenon DEF WithWord
  <2>6. WordsText(st.words) = <<"NORMAL">>
    BY <2>1, <2>2, WordsTextOne
  <2>7. \A text \in BlockTexts : Current(stmts, last, text) = BlockText(stmts, text)
    BY <1>1 DEF Current
  <2>8. \A text \in BlockTexts :
          Current(new, "NORMAL", text) = Current(stmts, last, text) \o <<"NORMAL">>
    BY <2>3, <2>6, <2>7, Zenon
  <2> QED BY <2>3, <2>4, <2>8, Zenon
<1>2. CASE last = "NORMAL"
  <2>1. /\ stmts # <<>> /\ Front(stmts) \in Seq(Statement) /\ Last(stmts) \in Statement
        /\ Last(stmts) = stmts[Len(stmts)] /\ Len(stmts) \in Nat \ {0}
        /\ Len(Front(stmts)) = Len(stmts) - 1
        /\ \A k \in 1..(Len(stmts) - 1) : Front(stmts)[k] = stmts[k]
        /\ Last(stmts).child = 0
    BY <1>2, LastApart DEF WordPending
  <2>2. PICK front \in Seq(Statement), final \in Statement :
          /\ front = Front(stmts) /\ final = stmts[Len(stmts)] /\ final = Last(stmts)
          /\ Len(front) = Len(stmts) - 1 /\ \A k \in 1..(Len(stmts) - 1) : front[k] = stmts[k]
    BY <2>1, Zenon
  <2>3. final.words \in Seq(Seq(Chars)) /\ final.child = 0
    <3>1. final.words \in Seq(Seq(Chars))
      BY DEF Statement
    <3> QED BY <2>1, <2>2, <3>1, Zenon
  <2>4. PICK ws \in Seq(Seq(Chars)) : ws = Append(final.words, word)
    BY <2>3, AppendOne
  <2>5. PICK st \in Statement : st = [final EXCEPT !.words = ws] /\ st.words = ws /\ st.child = 0
    BY <2>3, StatementParts
  <2>6. WithWord(stmts, last, word) = [stmts EXCEPT ![Len(stmts)] = st]
    BY <1>2, <2>2, <2>4, <2>5 DEF WithWord
  <2>7. \A k \in DOMAIN front : k \in DOMAIN stmts /\ front[k] = stmts[k]
    <3>1. DOMAIN front = 1..(Len(stmts) - 1) /\ DOMAIN stmts = 1..Len(stmts)
      BY <2>2
    <3> QED BY <2>1, <2>2, <3>1
  <2>9. PICK new \in Seq(Statement) :
          /\ new = Append(front, st) /\ WordPending(new, "NORMAL")
          /\ \A k \in DOMAIN new : new[k].child # 0 => k \in DOMAIN stmts /\ new[k].child = stmts[k].child
          /\ \A text \in BlockTexts :
               Current(new, "NORMAL", text) = BlockText(front, text) \o WordsText(st.words)
    <3>1. st.child = 0
      BY <2>5, Zenon
    <3> HIDE DEF WordPending, Current, BlockText
    <3> QED BY <3>1, <2>7, LastChanged
  <2>8. new = WithWord(stmts, last, word)
    BY <2>1, <2>2, <2>6, <2>9, LastReplaced
  <2>11. WordsText(st.words) = WordsText(final.words) \o <<"NORMAL">>
    BY <2>3, <2>4, <2>5, WordsTextAppend
  <2>12. ASSUME NEW text \in BlockTexts
         PROVE  Current(new, "NORMAL", text) = Current(stmts, last, text) \o <<"NORMAL">>
    <3>1. PICK b \in Seq(TokenTypes), w \in Seq(TokenTypes), one \in Seq(TokenTypes) :
            b = BlockText(front, text) /\ w = WordsText(final.words) /\ one = <<"NORMAL">>
      BY <2>3, BlockTextType, WordsTextType, TypesAlone
    <3>2. (b \o w) \o one = b \o (w \o one)
      BY ConcatAssociative
    <3>3. Current(stmts, last, text) = b \o w
      BY <1>2, <2>2, <3>1, Zenon DEF Current, HeadText
    <3>4. Current(new, "NORMAL", text) = b \o (w \o one)
      BY <2>9, <2>11, <3>1, Zenon
    <3> QED BY <3>1, <3>2, <3>3, <3>4, Zenon
  <2> QED BY <2>8, <2>9, <2>12, Zenon
<1> QED
  BY <1>1, <1>2

\* A semicolon completes the last statement.
LEMMA EndCurrent ==
  ASSUME NEW stmts \in Seq(Statement), WordPending(stmts, "NORMAL"), NEW text \in BlockTexts
  PROVE  Current(stmts, "STATEMENT_END", text) = Current(stmts, "NORMAL", text) \o <<"STATEMENT_END">>
<1>1. /\ stmts # <<>> /\ Front(stmts) \in Seq(Statement) /\ Last(stmts) \in Statement
      /\ stmts = Append(Front(stmts), Last(stmts)) /\ Last(stmts).child = 0
  BY LastApart DEF WordPending
<1>2. BlockText(stmts, text) = BlockText(Front(stmts), text) \o StatementText(Last(stmts), text)
  BY <1>1, BlockTextAppend
<1>3. StatementText(Last(stmts), text) = WordsText(Last(stmts).words) \o <<"STATEMENT_END">>
  BY <1>1, Zenon DEF StatementText
<1>4. PICK b \in Seq(TokenTypes), w \in Seq(TokenTypes), one \in Seq(TokenTypes) :
        b = BlockText(Front(stmts), text) /\ w = WordsText(Last(stmts).words) /\ one = <<"STATEMENT_END">>
  BY <1>1, HeadTextType, TypesAlone
<1>5. (b \o w) \o one = b \o (w \o one)
  BY ConcatAssociative
<1>6. Current(stmts, "NORMAL", text) = b \o w
  BY <1>4, Zenon DEF Current, HeadText
<1>7. Current(stmts, "STATEMENT_END", text) = BlockText(stmts, text)
  BY DEF Current
<1> QED
  BY <1>2, <1>3, <1>4, <1>5, <1>6, <1>7, Zenon

\* cs is bs with a new block, the child of the last statement of block here.
IsOpened(bs, here, cs) ==
  /\ cs \in Seq(Seq(Statement)) /\ Len(cs) = Len(bs) + 1 /\ cs[Len(bs) + 1] = <<>>
  /\ \A b \in DOMAIN bs : b # here => cs[b] = bs[b]
  /\ Len(cs[here]) = Len(bs[here]) /\ Len(cs[here]) \in Nat \ {0}
  /\ \A k \in 1..(Len(cs[here]) - 1) : cs[here][k] = bs[here][k]
  /\ cs[here][Len(cs[here])].child = Len(bs) + 1
  /\ Front(cs[here]) = Front(bs[here]) /\ Last(cs[here]).words = Last(bs[here]).words

\* The tree after an opening bracket.
LEMMA TreeOpened ==
  ASSUME NEW bs, NEW stack, TreeShape(bs, stack), WordPending(bs[Last(stack)], "NORMAL")
  PROVE  \E cs \in Seq(Seq(Statement)) :
           /\ cs = Append([bs EXCEPT ![Last(stack)][Len(bs[Last(stack)])].child = Len(bs) + 1], <<>>)
           /\ IsOpened(bs, Last(stack), cs)
<1>1. PICK old \in Seq(Statement), here \in DOMAIN bs : here = Last(stack) /\ old = bs[here]
  BY ShapeTop
<1>2. bs \in Seq(Seq(Statement)) /\ DOMAIN bs = 1..Len(bs) /\ Len(bs) \in Nat
  BY ShapeTop DEF TreeShape
<1>3. PICK n \in Nat : n = Len(bs) + 1
  BY <1>2
<1>4. /\ old # <<>> /\ Front(old) \in Seq(Statement) /\ Last(old) \in Statement
      /\ Last(old) = old[Len(old)] /\ Len(old) \in Nat \ {0} /\ Len(Front(old)) = Len(old) - 1
      /\ \A k \in 1..(Len(old) - 1) : Front(old)[k] = old[k]
  BY <1>1, LastApart DEF WordPending
<1>5. PICK st \in Statement : st = [old[Len(old)] EXCEPT !.child = n] /\ st.child = n /\ st.words = Last(old).words
  <2>1. \A s \in Statement : [s EXCEPT !.child = n] \in Statement /\ [s EXCEPT !.child = n].child = n
                             /\ [s EXCEPT !.child = n].words = s.words
    BY DEF Statement
  <2> QED BY <1>4, <2>1, Zenon
<1>6. PICK front \in Seq(Statement) : front = Front(old)
  BY <1>4
<1>7. PICK new \in Seq(Statement) : new = Append(front, st)
  BY AppendOne
<1>8. /\ Len(new) = Len(old) /\ new[Len(new)] = st /\ Front(new) = front /\ Last(new) = st
      /\ \A k \in 1..(Len(new) - 1) : new[k] = old[k]
  <2>1. Front(new) = front /\ Last(new) = st
    BY <1>7, LastOfAppend
  <2>2. /\ Len(new) = Len(front) + 1 /\ new[Len(front) + 1] = st
        /\ \A k \in 1..Len(front) : new[k] = front[k]
    BY <1>7, AppendProperties
  <2> QED BY <1>4, <1>6, <2>1, <2>2
<1>9. new = [old EXCEPT ![Len(old)] = st]
  BY <1>4, <1>6, <1>7, LastReplaced
<1>10. [bs EXCEPT ![here][Len(bs[here])].child = Len(bs) + 1] = [bs EXCEPT ![here] = new]
  BY <1>1, <1>3, <1>5, <1>9
<1>11. PICK mid \in Seq(Seq(Statement)) :
         /\ mid = [bs EXCEPT ![here] = new] /\ Len(mid) = Len(bs) /\ mid[here] = new
         /\ \A b \in DOMAIN bs : b # here => mid[b] = bs[b]
  <2>1. here \in DOMAIN bs /\ bs \in Seq(Seq(Statement))
    BY <1>1, <1>2
  <2>2. /\ [bs EXCEPT ![here] = new] \in Seq(Seq(Statement)) /\ Len([bs EXCEPT ![here] = new]) = Len(bs)
        /\ [bs EXCEPT ![here] = new][here] = new
        /\ \A b \in DOMAIN bs : b # here => [bs EXCEPT ![here] = new][b] = bs[b]
    BY <2>1
  <2> QED BY <2>2, Zenon
<1>12. <<>> \in Seq(Statement)
  OBVIOUS
<1>13. PICK cs \in Seq(Seq(Statement)) : cs = Append(mid, <<>>)
  BY <1>12, AppendOne
<1>14. /\ Len(cs) = n /\ cs[n] = <<>> /\ \A b \in 1..Len(bs) : cs[b] = mid[b]
  <2>1. /\ Len(cs) = Len(mid) + 1 /\ cs[Len(mid) + 1] = <<>> /\ \A b \in 1..Len(mid) : cs[b] = mid[b]
    BY <1>12, <1>13, AppendProperties
  <2> QED BY <1>3, <1>11, <2>1
<1>15. cs[here] = new /\ \A b \in DOMAIN bs : b # here => cs[b] = bs[b]
  BY <1>2, <1>11, <1>14
<1>16. cs = Append([bs EXCEPT ![here][Len(bs[here])].child = Len(bs) + 1], <<>>)
  BY <1>10, <1>11, <1>13, Zenon
<1>17. new[Len(new)].child = Len(bs) + 1 /\ Last(new).words = Last(old).words /\ Len(new) \in Nat \ {0}
  BY <1>3, <1>4, <1>5, <1>8
<1>18. Len(cs) = Len(bs) + 1 /\ cs[Len(bs) + 1] = <<>>
  BY <1>3, <1>14
<1>19. IsOpened(bs, here, cs)
  <2>1. Len(new) = Len(old) /\ Front(new) = Front(old) /\ \A k \in 1..(Len(new) - 1) : new[k] = old[k]
    BY <1>6, <1>8
  <2> QED BY <1>1, <1>15, <1>17, <1>18, <2>1, Zenon DEF IsOpened
<1> QED
  BY <1>1, <1>16, <1>19, Zenon

LEMMA ShapeOpened ==
  ASSUME NEW bs, NEW stack, TreeShape(bs, stack), NEW cs, IsOpened(bs, Last(stack), cs)
  PROVE  TreeShape(cs, Append(stack, Len(bs) + 1))
<1>1. PICK here \in DOMAIN bs, n \in Nat : here = Last(stack) /\ n = Len(bs) + 1
  <2>1. Len(bs) \in Nat /\ Last(stack) \in DOMAIN bs
    BY ShapeTop
  <2>2. Len(bs) + 1 \in Nat
    BY <2>1
  <2> QED BY <2>1, <2>2, Zenon
<1>2. /\ Len(stack) \in Nat \ {0} /\ stack[Len(stack)] = here
      /\ \A i \in 1..Len(stack) : stack[i] \in DOMAIN bs
      /\ DOMAIN bs = 1..Len(bs) /\ Len(bs) \in Nat
      /\ \A i \in 1..(Len(stack) - 1) : stack[i] # here
      /\ bs \in Seq(Seq(Statement)) /\ stack \in Seq(DOMAIN bs)
  BY <1>1, ShapeTop DEF TreeShape
<1>0. /\ cs \in Seq(Seq(Statement)) /\ Len(cs) = n /\ cs[n] = <<>>
      /\ \A b \in DOMAIN bs : b # here => cs[b] = bs[b]
      /\ Len(cs[here]) = Len(bs[here]) /\ Len(cs[here]) \in Nat \ {0}
      /\ \A k \in 1..(Len(cs[here]) - 1) : cs[here][k] = bs[here][k]
      /\ cs[here][Len(cs[here])].child = n
  BY <1>1, Zenon DEF IsOpened
<1>3. DOMAIN cs = 1..n /\ DOMAIN bs = 1..(n - 1) /\ here \in 1..(n - 1)
  BY <1>0, <1>1, <1>2
<1>4. ASSUME NEW b \in DOMAIN cs, NEW k \in DOMAIN cs[b], cs[b][k].child # 0
      PROVE  \/ b = here /\ k = Len(bs[here]) /\ cs[b][k].child = n
             \/ b \in DOMAIN bs /\ k \in DOMAIN bs[b] /\ cs[b][k].child = bs[b][k].child
  <2>1. b # n
    BY <1>0, <1>4
  <2>2. b \in DOMAIN bs
    BY <1>3, <2>1
  <2>3. CASE b # here
    BY <1>0, <2>2, <2>3
  <2>4. CASE b = here
    <3>1. cs[here] \in Seq(Statement) /\ bs[here] \in Seq(Statement)
      BY <1>0, <1>2, <1>3
    <3>2. k \in 1..Len(bs[here]) /\ DOMAIN bs[here] = 1..Len(bs[here]) /\ Len(bs[here]) \in Nat \ {0}
      BY <1>0, <2>4, <3>1
    <3>3. CASE k = Len(bs[here])
      BY <1>0, <2>4, <3>3
    <3>4. CASE k # Len(bs[here])
      <4>1. k \in 1..(Len(bs[here]) - 1)
        BY <3>2, <3>4
      <4>2. cs[here][k] = bs[here][k]
        BY <1>0, <3>2, <4>1
      <4> QED BY <2>2, <2>4, <3>2, <4>2
    <3> QED BY <3>3, <3>4
  <2> QED BY <2>3, <2>4
<1>5. ASSUME NEW b \in DOMAIN bs, NEW k \in DOMAIN bs[b]
      PROVE  bs[b][k].child = 0 \/ bs[b][k].child \in (b + 1)..(n - 1)
  <2>1. bs[b][k].child = 0 \/ bs[b][k].child \in (b + 1)..Len(bs)
    BY DEF TreeShape
  <2> QED BY <1>1, <1>2, <2>1
<1>6. ASSUME NEW b \in DOMAIN cs, NEW k \in DOMAIN cs[b]
      PROVE  cs[b][k].child = 0 \/ cs[b][k].child \in (b + 1)..Len(cs)
  <2>1. Len(cs) = n /\ b \in Nat /\ n \in Nat
    BY <1>0, <1>1, <1>3
  <2>2. CASE b = here /\ cs[b][k].child = n
    BY <1>3, <2>1, <2>2
  <2>3. CASE b \in DOMAIN bs /\ k \in DOMAIN bs[b] /\ cs[b][k].child = bs[b][k].child
    <3>1. bs[b][k].child = 0 \/ bs[b][k].child \in (b + 1)..(n - 1)
      BY <1>5, <2>3
    <3>2. (b + 1)..(n - 1) \subseteq (b + 1)..n
      BY <2>1
    <3> QED BY <2>1, <2>3, <3>1, <3>2
  <2> QED BY <1>4, <2>2, <2>3
<1>7. OneParent(cs)
  <2>1. ASSUME NEW b \in DOMAIN cs, NEW c \in DOMAIN cs, NEW k \in DOMAIN cs[b], NEW j \in DOMAIN cs[c],
               cs[b][k].child # 0, cs[b][k].child = cs[c][j].child
        PROVE  b = c /\ k = j
    <3>1. CASE cs[b][k].child = n
      <4>1. ASSUME NEW d \in DOMAIN cs, NEW i \in DOMAIN cs[d], cs[d][i].child = n
            PROVE  d = here /\ i = Len(bs[here])
        <5>1. CASE d \in DOMAIN bs /\ i \in DOMAIN bs[d] /\ cs[d][i].child = bs[d][i].child
          <6>1. bs[d][i].child = 0 \/ bs[d][i].child \in (d + 1)..(n - 1)
            BY <1>5, <5>1
          <6>2. n \notin (d + 1)..(n - 1) /\ n # 0
            BY <1>1, <1>3
          <6> QED BY <4>1, <5>1, <6>1, <6>2
        <5>2. n # 0
          BY <1>3
        <5> QED BY <1>4, <4>1, <5>1, <5>2
      <4>2. cs[b][k].child = n /\ cs[c][j].child = n
        BY <2>1, <3>1
      <4>3. b = here /\ k = Len(bs[here])
        BY <4>1, <4>2
      <4>4. c = here /\ j = Len(bs[here])
        BY <4>1, <4>2
      <4> QED BY <4>3, <4>4
    <3>2. CASE cs[b][k].child # n
      <4>1. b \in DOMAIN bs /\ k \in DOMAIN bs[b] /\ cs[b][k].child = bs[b][k].child
        BY <1>4, <2>1, <3>2
      <4>2. c \in DOMAIN bs /\ j \in DOMAIN bs[c] /\ cs[c][j].child = bs[c][j].child
        BY <1>4, <2>1, <3>2
      <4>3. bs[b][k].child # 0 /\ bs[b][k].child = bs[c][j].child
        BY <2>1, <4>1, <4>2
      <4>4. OneParent(bs)
        BY DEF TreeShape
      <4>5. ASSUME NEW d \in DOMAIN bs, NEW e \in DOMAIN bs, NEW x \in DOMAIN bs[d], NEW y \in DOMAIN bs[e],
                   bs[d][x].child # 0, bs[d][x].child = bs[e][y].child
            PROVE  d = e /\ x = y
        BY <4>4, <4>5 DEF OneParent
      <4> QED BY <4>1, <4>2, <4>3, <4>5
    <3> QED BY <3>1, <3>2
  <2> QED BY <2>1 DEF OneParent
<1>8. PICK more \in Seq(DOMAIN cs) :
        /\ more = Append(stack, n) /\ Len(more) = Len(stack) + 1 /\ more[Len(stack) + 1] = n
        /\ \A i \in 1..Len(stack) : more[i] = stack[i]
  <2>1. stack \in Seq(DOMAIN cs) /\ n \in DOMAIN cs
    BY <1>1, <1>2, <1>3
  <2>2. ASSUME NEW S, NEW s \in Seq(S), NEW x \in S
        PROVE  /\ Append(s, x) \in Seq(S) /\ Len(Append(s, x)) = Len(s) + 1 /\ Append(s, x)[Len(s) + 1] = x
               /\ \A i \in 1..Len(s) : Append(s, x)[i] = s[i]
    BY AppendProperties
  <2>3. /\ Append(stack, n) \in Seq(DOMAIN cs) /\ Len(Append(stack, n)) = Len(stack) + 1
        /\ Append(stack, n)[Len(stack) + 1] = n
        /\ \A i \in 1..Len(stack) : Append(stack, n)[i] = stack[i]
    BY <2>1, <2>2
  <2> QED BY <2>3, Zenon
<1>9. more # <<>> /\ more[1] = 1
  <2>1. stack[1] = 1 /\ 1 \in 1..Len(stack)
    BY <1>2 DEF TreeShape
  <2>2. more[1] = stack[1] /\ Len(more) # 0
    BY <1>2, <1>8, <2>1
  <2> QED BY <2>1, <2>2
<1>10. ASSUME NEW i \in 1..Len(more), NEW j \in 1..Len(more), i < j
       PROVE  more[i] < more[j]
  <2>1. i \in 1..Len(stack) /\ more[i] = stack[i]
    BY <1>2, <1>8, <1>10
  <2>2. CASE j = Len(more)
    BY <1>2, <1>3, <1>8, <2>1, <2>2
  <2>3. CASE j # Len(more)
    <3>1. j \in 1..Len(stack) /\ more[j] = stack[j]
      BY <1>2, <1>8, <2>3
    <3>2. stack[i] < stack[j]
      BY <1>10, <2>1, <3>1 DEF TreeShape
    <3> QED BY <2>1, <3>1, <3>2
  <2> QED BY <2>2, <2>3
<1>11. ASSUME NEW i \in 1..(Len(more) - 1)
       PROVE  cs[more[i]] # <<>> /\ cs[more[i]][Len(cs[more[i]])].child = more[i + 1]
  <2>1. i \in 1..Len(stack) /\ more[i] = stack[i]
    BY <1>2, <1>8
  <2>2. CASE i = Len(stack)
    <3>1. more[i] = here /\ more[i + 1] = n
      BY <1>2, <1>8, <2>1, <2>2
    <3>2. cs[here] # <<>> /\ cs[here][Len(cs[here])].child = n
      BY <1>0
    <3> QED BY <3>1, <3>2
  <2>3. CASE i # Len(stack)
    <3>1. i \in 1..(Len(stack) - 1) /\ i + 1 \in 1..Len(stack) /\ more[i + 1] = stack[i + 1]
      BY <1>2, <1>8, <2>1, <2>3
    <3>2. cs[stack[i]] = bs[stack[i]]
      BY <1>0, <1>2, <2>1, <3>1
    <3>3. bs[stack[i]] # <<>> /\ bs[stack[i]][Len(bs[stack[i]])].child = stack[i + 1]
      BY <3>1 DEF TreeShape
    <3> QED BY <2>1, <3>1, <3>2, <3>3
  <2> QED BY <2>2, <2>3
<1>12. TreeShape(cs, more)
  BY <1>0, <1>6, <1>7, <1>8, <1>9, <1>10, <1>11, Zenon DEF TreeShape
<1> QED
  BY <1>1, <1>8, <1>12

LEMMA PrintedOpened ==
  ASSUME NEW bs, NEW stack, TreeShape(bs, stack), WordPending(bs[Last(stack)], "NORMAL"),
         NEW cs, IsOpened(bs, Last(stack), cs), NEW toks, NEW text \in BlockTexts,
         NEW open \in Seq(Seq(TokenTypes)), PrintedAs(bs, stack, "NORMAL", toks, text, open)
  PROVE  \E wider \in Seq(Seq(TokenTypes)) :
           PrintedAs(cs, Append(stack, Len(bs) + 1), "START_BLOCK", Append(toks, "START_BLOCK"), text, wider)
<1>1. PICK here \in DOMAIN bs, n \in Nat, old \in Seq(Statement) :
        here = Last(stack) /\ n = Len(bs) + 1 /\ old = bs[here]
  <2>1. Len(bs) \in Nat /\ Last(stack) \in DOMAIN bs /\ bs[Last(stack)] \in Seq(Statement)
    BY ShapeTop
  <2>2. Len(bs) + 1 \in Nat
    BY <2>1
  <2> QED BY <2>1, <2>2, Zenon
<1>2. /\ Len(stack) \in Nat \ {0} /\ stack[Len(stack)] = here
      /\ \A i \in 1..Len(stack) : stack[i] \in DOMAIN bs
      /\ DOMAIN bs = 1..(n - 1)
      /\ \A i \in 1..(Len(stack) - 1) : stack[i] # here
      /\ stack \in Seq(DOMAIN bs)
  <2>1. /\ Len(stack) \in Nat \ {0} /\ stack[Len(stack)] = Last(stack)
        /\ \A i \in 1..Len(stack) : stack[i] \in DOMAIN bs
        /\ DOMAIN bs = 1..Len(bs) /\ Len(bs) \in Nat
        /\ \A i \in 1..(Len(stack) - 1) : stack[i] # Last(stack)
    BY ShapeTop
  <2>2. stack \in Seq(DOMAIN bs)
    BY DEF TreeShape
  <2> QED BY <1>1, <2>1, <2>2
<1>3. /\ Len(cs) = n /\ cs[n] = <<>> /\ cs \in Seq(Seq(Statement))
      /\ \A b \in DOMAIN bs : b # here => cs[b] = bs[b]
      /\ Front(cs[here]) = Front(old) /\ Last(cs[here]).words = Last(old).words
  BY <1>1, Zenon DEF IsOpened
<1>4. HeadText(cs[here], text) = HeadText(old, text)
  BY <1>3, Zenon DEF HeadText
<1>5. PICK head \in Seq(TokenTypes), start \in Seq(TokenTypes) :
        head = HeadText(old, text) /\ start = <<"START_BLOCK">>
  <2>1. old # <<>>
    BY <1>1 DEF WordPending
  <2>2. HeadText(old, text) \in Seq(TokenTypes)
    BY <2>1, HeadTextType
  <2> QED BY <2>2, TypesAlone, Zenon
<1>6. PICK beginning \in Seq(TokenTypes) : beginning = head \o start
  BY ConcatType
<1>7. PICK wider \in Seq(Seq(TokenTypes)) :
        /\ wider = Append(open, beginning) /\ Len(wider) = Len(open) + 1
        /\ wider[Len(open) + 1] = beginning /\ \A i \in 1..Len(open) : wider[i] = open[i]
  <2>1. /\ Append(open, beginning) \in Seq(Seq(TokenTypes)) /\ Len(Append(open, beginning)) = Len(open) + 1
        /\ Append(open, beginning)[Len(open) + 1] = beginning
        /\ \A i \in 1..Len(open) : Append(open, beginning)[i] = open[i]
    BY AppendProperties
  <2> QED BY <2>1, Zenon
<1>8. PICK more \in Seq(Nat) :
        /\ more = Append(stack, n) /\ Len(more) = Len(stack) + 1 /\ more[Len(stack) + 1] = n
        /\ \A i \in 1..Len(stack) : more[i] = stack[i]
  <2>1. stack \in Seq(Nat) /\ n \in Nat
    BY <1>2
  <2>2. /\ Append(stack, n) \in Seq(Nat) /\ Len(Append(stack, n)) = Len(stack) + 1
        /\ Append(stack, n)[Len(stack) + 1] = n
        /\ \A i \in 1..Len(stack) : Append(stack, n)[i] = stack[i]
    BY <2>1, AppendProperties
  <2> QED BY <2>2, Zenon
<1>15. /\ Len(wider) = Len(open) + 1 /\ wider[Len(open) + 1] = beginning
       /\ \A i \in 1..Len(open) : wider[i] = open[i]
       /\ Len(more) = Len(stack) + 1 /\ more[Len(stack) + 1] = n
       /\ \A i \in 1..Len(stack) : more[i] = stack[i]
  BY <1>7, <1>8, Zenon
<1>9. /\ Len(open) = Len(stack) - 1
      /\ \A i \in 1..(Len(stack) - 1) : open[i] = HeadText(bs[stack[i]], text) \o start
      /\ toks = FlattenSeq(open) \o head
      /\ \A b \in DOMAIN bs :
           (\A i \in 1..Len(stack) : stack[i] # b) => text[b] = BlockText(bs[b], text)
  <2>1. Current(bs[Last(stack)], "NORMAL", text) = head
    BY <1>1, <1>5, Zenon DEF Current
  <2> QED BY <1>5, <2>1, Zenon DEF PrintedAs
<1>10. ASSUME NEW b \in DOMAIN cs, \A i \in 1..Len(more) : more[i] # b
       PROVE  text[b] = BlockText(cs[b], text)
  <2>1. b \in 1..n /\ n \in DOMAIN cs
    BY <1>3
  <2>2. b # n
    <3>1. Len(more) \in 1..Len(more) /\ more[Len(more)] = n
      BY <1>2, <1>8
    <3> QED BY <1>10, <3>1
  <2>3. b \in DOMAIN bs
    BY <1>2, <2>1, <2>2
  <2>4. \A i \in 1..Len(stack) : stack[i] # b
    BY <1>2, <1>8, <1>10
  <2>5. b # here
    BY <1>2, <2>4
  <2> QED BY <1>3, <1>9, <2>3, <2>4, <2>5
<1>11. ASSUME NEW i \in 1..(Len(more) - 1)
       PROVE  wider[i] = HeadText(cs[more[i]], text) \o start
  <2>1. i \in 1..Len(stack) /\ more[i] = stack[i]
    BY <1>2, <1>8
  <2>2. CASE i = Len(stack)
    <3>1. wider[i] = beginning /\ more[i] = here
      BY <1>2, <1>7, <1>9, <2>1, <2>2
    <3> QED BY <1>4, <1>5, <1>6, <3>1, Zenon
  <2>3. CASE i # Len(stack)
    <3>1. i \in 1..(Len(stack) - 1) /\ wider[i] = open[i]
      <4>1. i \in 1..(Len(stack) - 1) /\ Len(open) = Len(stack) - 1
        <5>1. Len(open) = Len(stack) - 1 /\ Len(stack) \in Nat
          BY <1>2, <1>9, Zenon
        <5> QED BY <2>1, <2>3, <5>1
      <4> QED BY <1>15, <4>1
    <3>2. cs[stack[i]] = bs[stack[i]]
      BY <1>2, <1>3, <2>1, <3>1
    <3> QED BY <1>9, <2>1, <3>1, <3>2, Zenon
  <2> QED BY <2>2, <2>3
<1>12. Len(wider) = Len(more) - 1
  BY <1>2, <1>7, <1>8, <1>9
<1>13. Append(toks, "START_BLOCK") = FlattenSeq(wider) \o Current(cs[Last(more)], "START_BLOCK", text)
  <2>1. Last(more) = n /\ more # <<>>
    <3>1. Len(more) = Len(stack) + 1 /\ more[Len(stack) + 1] = n /\ Len(stack) \in Nat \ {0}
      BY <1>2, <1>15, Zenon
    <3>2. more[Len(more)] = n /\ Len(more) # 0
      BY <3>1
    <3>3. more # <<>>
      BY <3>2
    <3> QED BY <3>2, <3>3, Zenon DEF Last
  <2>2. Current(cs[Last(more)], "START_BLOCK", text) = <<>>
    BY <1>3, <2>1, BlockTextEmpty DEF Current
  <2>3. FlattenSeq(wider) = FlattenSeq(open) \o beginning
    BY <1>7, FlattenAppend
  <2>4. Append(FlattenSeq(open) \o head, "START_BLOCK") = FlattenSeq(open) \o beginning
    <3>1. PICK type \in TokenTypes : type = "START_BLOCK"
      BY DEF TokenTypes
    <3>2. beginning = head \o <<type>>
      BY <1>5, <1>6, <3>1, Zenon
    <3>3. Append(FlattenSeq(open) \o head, type) = FlattenSeq(open) \o beginning
      BY <3>2, TokensGrow, Zenon
    <3> QED BY <3>1, <3>3, Zenon
  <2>5. (FlattenSeq(open) \o beginning) \o <<>> = FlattenSeq(open) \o beginning
    <3>1. PICK f \in Seq(TokenTypes) : f = FlattenSeq(open)
      BY FlattenType
    <3>2. f \o beginning \in Seq(TokenTypes)
      BY ConcatType
    <3>3. (f \o beginning) \o <<>> = f \o beginning
      BY <3>2, ConcatEmptySeq
    <3> QED BY <3>1, <3>3, Zenon
  <2> QED BY <1>9, <2>2, <2>3, <2>4, <2>5, Zenon
<1>14. PrintedAs(cs, more, "START_BLOCK", Append(toks, "START_BLOCK"), text, wider)
  <2>1. \A i \in 1..(Len(more) - 1) : wider[i] = HeadText(cs[more[i]], text) \o <<"START_BLOCK">>
    BY <1>5, <1>11, Zenon
  <2> QED BY <1>10, <1>12, <1>13, <2>1, Zenon DEF PrintedAs
<1> QED
  BY <1>1, <1>8, <1>14, Zenon

\* A bracket leaves the innermost block and changes no block.
LEMMA ShapeClosed ==
  ASSUME NEW bs, NEW stack, TreeShape(bs, stack), Len(stack) > 1
  PROVE  TreeShape(bs, Front(stack)) /\ Len(Front(stack)) = Len(stack) - 1
         /\ \A i \in 1..(Len(stack) - 1) : Front(stack)[i] = stack[i]
<1>1. Len(stack) \in Nat \ {0} /\ stack \in Seq(DOMAIN bs) /\ stack # <<>>
  BY ShapeTop DEF TreeShape
<1>2. PICK less \in Seq(DOMAIN bs) :
        /\ less = Front(stack) /\ Len(less) = Len(stack) - 1
        /\ \A i \in 1..(Len(stack) - 1) : less[i] = stack[i]
  BY <1>1, LastApart, Zenon
<1>3. Len(less) = Len(stack) - 1 /\ \A i \in 1..(Len(stack) - 1) : less[i] = stack[i]
  BY <1>2, Zenon
<1>4. less # <<>> /\ less[1] = 1
  <2>1. stack[1] = 1
    BY DEF TreeShape
  <2>2. 1 \in 1..(Len(stack) - 1) /\ Len(less) # 0
    BY <1>1, <1>3
  <2> QED BY <1>3, <2>1, <2>2
<1>5. ASSUME NEW i \in 1..Len(less), NEW j \in 1..Len(less), i < j
      PROVE  less[i] < less[j]
  <2>1. i \in 1..Len(stack) /\ j \in 1..Len(stack) /\ i \in 1..(Len(stack) - 1) /\ j \in 1..(Len(stack) - 1)
    BY <1>1, <1>3
  <2>2. stack[i] < stack[j]
    BY <1>5, <2>1 DEF TreeShape
  <2> QED BY <1>3, <2>1, <2>2
<1>6. ASSUME NEW i \in 1..(Len(less) - 1)
      PROVE  bs[less[i]] # <<>> /\ bs[less[i]][Len(bs[less[i]])].child = less[i + 1]
  <2>1. i \in 1..(Len(stack) - 1) /\ i + 1 \in 1..(Len(stack) - 1)
    BY <1>1, <1>3
  <2>2. less[i] = stack[i] /\ less[i + 1] = stack[i + 1]
    BY <1>3, <2>1
  <2>3. bs[stack[i]] # <<>> /\ bs[stack[i]][Len(bs[stack[i]])].child = stack[i + 1]
    BY <2>1 DEF TreeShape
  <2> QED BY <2>2, <2>3, Zenon
<1>7. /\ OneParent(bs) /\ bs \in Seq(Seq(Statement))
      /\ \A b \in DOMAIN bs : \A k \in DOMAIN bs[b] :
           bs[b][k].child = 0 \/ bs[b][k].child \in (b + 1)..Len(bs)
  BY Zenon DEF TreeShape
<1>8. TreeShape(bs, less)
  BY <1>4, <1>5, <1>6, <1>7, Zenon DEF TreeShape
<1> QED
  BY <1>2, <1>3, <1>8, Zenon

\* Only the last statement of block outer has block here.
IsParent(bs, outer, here) ==
  /\ here \in DOMAIN bs /\ outer \in DOMAIN bs
  /\ bs[outer] \in Seq(Statement) /\ bs[outer] # <<>> /\ outer # here
  /\ Last(bs[outer]).child = here /\ here # 0
  /\ \A b \in DOMAIN bs : \A k \in DOMAIN bs[b] :
       bs[b][k].child = here => b = outer /\ k = Len(bs[outer])

LEMMA InnermostParent ==
  ASSUME NEW bs, NEW stack, TreeShape(bs, stack), Len(stack) > 1
  PROVE  IsParent(bs, stack[Len(stack) - 1], Last(stack))
<1>1. /\ Len(stack) \in Nat \ {0} /\ Last(stack) = stack[Len(stack)]
      /\ \A i \in 1..Len(stack) : stack[i] \in DOMAIN bs /\ bs[stack[i]] \in Seq(Statement)
      /\ DOMAIN bs = 1..Len(bs)
      /\ \A i \in 1..(Len(stack) - 1) : stack[i] # Last(stack)
  BY ShapeTop
<1>2. PICK m \in 1..(Len(stack) - 1) : m = Len(stack) - 1 /\ m + 1 = Len(stack) /\ m \in 1..Len(stack)
  <2>1. /\ Len(stack) - 1 \in 1..(Len(stack) - 1) /\ (Len(stack) - 1) + 1 = Len(stack)
        /\ Len(stack) - 1 \in 1..Len(stack)
    BY <1>1
  <2> QED BY <2>1, Zenon
<1>3. PICK here \in DOMAIN bs, outer \in DOMAIN bs, stmts \in Seq(Statement) :
        here = Last(stack) /\ outer = stack[m] /\ stmts = bs[outer]
  <2>1. Last(stack) \in DOMAIN bs /\ stack[m] \in DOMAIN bs /\ bs[stack[m]] \in Seq(Statement)
    BY <1>1, <1>2, ShapeTop
  <2> QED BY <2>1, Zenon
<1>4. stmts # <<>> /\ stmts[Len(stmts)].child = here
  <2>1. bs[stack[m]] # <<>> /\ bs[stack[m]][Len(bs[stack[m]])].child = stack[m + 1]
    BY <1>2 DEF TreeShape
  <2> QED BY <1>1, <1>2, <1>3, <2>1
<1>5. here # 0 /\ outer # here
  BY <1>1, <1>2, <1>3
<1>6. Len(stmts) \in DOMAIN stmts /\ Last(stmts) = stmts[Len(stmts)]
  <2>1. Len(stmts) \in Nat \ {0} /\ Last(stmts) = stmts[Len(stmts)]
    BY <1>4, LastApart
  <2>2. DOMAIN stmts = 1..Len(stmts)
    BY <1>3
  <2> QED BY <2>1, <2>2
<1>7. ASSUME NEW b \in DOMAIN bs, NEW k \in DOMAIN bs[b], bs[b][k].child = here
      PROVE  b = outer /\ k = Len(stmts)
  <2>1. OneParent(bs)
    BY DEF TreeShape
  <2>2. PICK j \in DOMAIN bs[outer] : j = Len(stmts) /\ bs[outer][j].child = here
    BY <1>3, <1>4, <1>6
  <2>3. bs[b][k].child # 0 /\ bs[b][k].child = bs[outer][j].child
    BY <1>5, <1>7, <2>2
  <2>4. b = outer /\ k = j
    BY <2>1, <2>3 DEF OneParent
  <2> QED BY <2>2, <2>4
<1>8. IsParent(bs, outer, here)
  BY <1>3, <1>4, <1>5, <1>6, <1>7, Zenon DEF IsParent
<1>9. m = Len(stack) - 1 /\ outer = stack[m] /\ here = Last(stack)
  BY <1>2, <1>3, Zenon
<1> QED
  BY <1>8, <1>9

\* put differs from text in block here, and what block outer says before the
\* one inside it does not depend on that.
IsPut(bs, outer, here, text, closed, put) ==
  /\ put[here] = closed /\ \A b \in DOMAIN bs : b # here => put[b] = text[b]
  /\ \A b \in DOMAIN bs : b # outer => BlockText(bs[b], put) = BlockText(bs[b], text)
  /\ \A b \in DOMAIN bs : bs[b] # <<>> => HeadText(bs[b], put) = HeadText(bs[b], text)

MayPut(bs, outer, here, text, closed) ==
  \E put \in BlockTexts : IsPut(bs, outer, here, text, closed, put)

\* The text of the innermost block is put where its number is.
LEMMA TextPut ==
  ASSUME NEW bs \in Seq(Seq(Statement)), NEW outer, NEW here, IsParent(bs, outer, here),
         NEW text \in BlockTexts, NEW closed \in Seq(TokenTypes)
  PROVE  MayPut(bs, outer, here, text, closed)
<1>1. /\ here \in DOMAIN bs /\ outer \in DOMAIN bs /\ outer # here /\ DOMAIN bs \subseteq Nat
      /\ \A b \in DOMAIN bs : bs[b] \in Seq(Statement)
      /\ \A b \in DOMAIN bs : \A k \in DOMAIN bs[b] :
           bs[b][k].child = here => b = outer /\ k = Len(bs[outer])
  BY DEF IsParent
<1>2. PICK put \in BlockTexts : put[here] = closed /\ \A b \in Nat : b # here => put[b] = text[b]
  <2>1. /\ [text EXCEPT ![here] = closed] \in BlockTexts /\ [text EXCEPT ![here] = closed][here] = closed
        /\ \A b \in Nat : b # here => [text EXCEPT ![here] = closed][b] = text[b]
    BY <1>1 DEF BlockTexts
  <2> QED BY <2>1, Zenon
<1>3. ASSUME NEW stmts \in Seq(Statement), \A k \in DOMAIN stmts : stmts[k].child # here
      PROVE  BlockText(stmts, put) = BlockText(stmts, text)
  <2>1. \A k \in DOMAIN stmts : stmts[k].child \in Nat
    <3>1. \A k \in DOMAIN stmts : stmts[k] \in Statement
      OBVIOUS
    <3>2. \A st \in Statement : st.child \in Nat
      BY DEF Statement
    <3> QED BY <3>1, <3>2, Zenon
  <2>2. \A k \in DOMAIN stmts : stmts[k].child # 0 => put[stmts[k].child] = text[stmts[k].child]
    BY <1>2, <1>3, <2>1
  <2> QED BY <2>2, BlockTextLocal
<1>4. ASSUME NEW b \in DOMAIN bs, b # outer
      PROVE  BlockText(bs[b], put) = BlockText(bs[b], text)
  <2>1. bs[b] \in Seq(Statement) /\ \A k \in DOMAIN bs[b] : bs[b][k].child # here
    BY <1>1, <1>4
  <2> QED BY <1>3, <2>1
<1>5. ASSUME NEW b \in DOMAIN bs, bs[b] # <<>>
      PROVE  HeadText(bs[b], put) = HeadText(bs[b], text)
  <2>1. PICK stmts \in Seq(Statement) : stmts = bs[b] /\ stmts # <<>>
    BY <1>1, <1>5
  <2>2. /\ Front(stmts) \in Seq(Statement) /\ Len(stmts) \in Nat \ {0} /\ Len(Front(stmts)) = Len(stmts) - 1
        /\ \A k \in 1..(Len(stmts) - 1) : Front(stmts)[k] = stmts[k]
    BY <2>1, LastApart, Zenon
  <2>3. PICK front \in Seq(Statement) : front = Front(stmts)
    BY <2>2
  <2>4. ASSUME NEW k \in DOMAIN front
        PROVE  front[k].child # here
    <3>1. k \in 1..(Len(stmts) - 1) /\ k \in DOMAIN stmts /\ k # Len(stmts)
      <4>1. DOMAIN front = 1..Len(front) /\ DOMAIN stmts = 1..Len(stmts) /\ Len(front) = Len(stmts) - 1
        BY <2>2, <2>3
      <4> QED BY <2>2, <4>1
    <3>2. front[k] = stmts[k]
      BY <2>2, <2>3, <3>1
    <3> QED BY <1>1, <2>1, <3>1, <3>2
  <2>5. BlockText(front, put) = BlockText(front, text)
    BY <1>3, <2>4
  <2> QED BY <2>1, <2>3, <2>5, Zenon DEF HeadText
<1>6. \A b \in DOMAIN bs : b # here => put[b] = text[b]
  BY <1>1, <1>2
<1>7. IsPut(bs, outer, here, text, closed, put)
  BY <1>2, <1>4, <1>5, <1>6, Zenon DEF IsPut
<1> QED
  BY <1>7, Zenon DEF MayPut

\* Concatenation, for the proofs that ask no more of it than that it is
\* associative.
Joined(s, t) == s \o t

LEMMA JoinedAssociative ==
  ASSUME NEW S, NEW s \in Seq(S), NEW t \in Seq(S), NEW u \in Seq(S)
  PROVE  Joined(Joined(s, t), u) = Joined(s, Joined(t, u))
<1>1. (s \o t) \o u = s \o (t \o u)
  BY ConcatAssociative
<1> QED
  BY <1>1, Zenon DEF Joined

Regroups(o, x, y, s, c, e) ==
  Joined(Joined(Joined(o, Joined(Joined(x, y), s)), c), e)
    = Joined(o, Joined(x, Joined(y, Joined(Joined(s, c), e))))

LEMMA Regrouped ==
  ASSUME NEW o \in Seq(TokenTypes), NEW x \in Seq(TokenTypes), NEW y \in Seq(TokenTypes),
         NEW s \in Seq(TokenTypes), NEW c \in Seq(TokenTypes), NEW e \in Seq(TokenTypes)
  PROVE  Regroups(o, x, y, s, c, e)
<1>1. ASSUME NEW a \in Seq(TokenTypes), NEW b \in Seq(TokenTypes)
      PROVE  Joined(a, b) \in Seq(TokenTypes)
  BY ConcatType DEF Joined
<1>2. ASSUME NEW a \in Seq(TokenTypes), NEW b \in Seq(TokenTypes), NEW d \in Seq(TokenTypes)
      PROVE  Joined(Joined(a, b), d) = Joined(a, Joined(b, d))
  BY JoinedAssociative
<1>3. Joined(Joined(Joined(o, Joined(Joined(x, y), s)), c), e)
        = Joined(o, Joined(x, Joined(y, Joined(Joined(s, c), e))))
  <2>1. PICK xy \in Seq(TokenTypes), sc \in Seq(TokenTypes) : xy = Joined(x, y) /\ sc = Joined(s, c)
    BY <1>1, Zenon
  <2>2. PICK xys \in Seq(TokenTypes), sce \in Seq(TokenTypes), ce \in Seq(TokenTypes) :
          xys = Joined(xy, s) /\ sce = Joined(sc, e) /\ ce = Joined(c, e)
    BY <1>1, Zenon
  <2>3. PICK oxys \in Seq(TokenTypes), ysce \in Seq(TokenTypes) : oxys = Joined(o, xys) /\ ysce = Joined(y, sce)
    BY <1>1, Zenon
  <2>4. Joined(Joined(oxys, c), e) = Joined(oxys, ce)
    BY <1>2, <2>2
  <2>5. Joined(oxys, ce) = Joined(o, Joined(xys, ce))
    BY <1>2, <2>3
  <2>6. Joined(xys, ce) = Joined(xy, Joined(s, ce))
    BY <1>2, <2>2
  <2>7. Joined(s, ce) = sce
    BY <1>2, <2>1, <2>2
  <2>8. Joined(xy, sce) = Joined(x, ysce)
    BY <1>2, <2>1, <2>3
  <2> QED BY <2>1, <2>2, <2>3, <2>4, <2>5, <2>6, <2>7, <2>8, Zenon
<1> QED
  BY <1>3, Zenon DEF Regroups

Encloses(stmts, text, closed, open, start) ==
  Append((open \o (HeadText(stmts, text) \o start)) \o closed, "END_BLOCK") = open \o BlockText(stmts, text)

\* With its brackets around it the innermost block is the end of the last
\* statement of the one that has it.
LEMMA BracketsAround ==
  ASSUME NEW stmts \in Seq(Statement), stmts # <<>>, Last(stmts).child # 0,
         NEW text \in BlockTexts, NEW closed \in Seq(TokenTypes), text[Last(stmts).child] = closed,
         NEW open \in Seq(TokenTypes), NEW start \in Seq(TokenTypes), start = <<"START_BLOCK">>
  PROVE  Encloses(stmts, text, closed, open, start)
<1>1. /\ Front(stmts) \in Seq(Statement) /\ Last(stmts) \in Statement
      /\ stmts = Append(Front(stmts), Last(stmts))
  BY LastApart
<1>2. PICK b \in Seq(TokenTypes), w \in Seq(TokenTypes), end \in Seq(TokenTypes), type \in TokenTypes :
        /\ b = BlockText(Front(stmts), text) /\ w = WordsText(Last(stmts).words)
        /\ end = <<type>> /\ type = "END_BLOCK"
  <2>1. PICK type \in TokenTypes : type = "END_BLOCK"
    BY DEF TokenTypes
  <2>2. <<type>> \in Seq(TokenTypes)
    OBVIOUS
  <2>3. BlockText(Front(stmts), text) \in Seq(TokenTypes) /\ WordsText(Last(stmts).words) \in Seq(TokenTypes)
    BY HeadTextType
  <2> QED BY <2>1, <2>2, <2>3, Zenon
<1>3. BlockText(stmts, text) = b \o StatementText(Last(stmts), text)
  <2>1. BlockText(Append(Front(stmts), Last(stmts)), text)
          = BlockText(Front(stmts), text) \o StatementText(Last(stmts), text)
    BY <1>1, BlockTextAppend, Zenon
  <2> QED BY <1>1, <1>2, <2>1, Zenon
<1>4. StatementText(Last(stmts), text) = w \o ((start \o closed) \o end)
  BY <1>2, Zenon DEF StatementText
<1>5. HeadText(stmts, text) = b \o w
  BY <1>2, Zenon DEF HeadText
<1>7. ((open \o ((b \o w) \o start)) \o closed) \o end = open \o (b \o (w \o ((start \o closed) \o end)))
  <2>1. Regroups(open, b, w, start, closed, end)
    BY Regrouped
  <2> QED BY <2>1, Zenon DEF Regroups, Joined
<1>8. Append((open \o ((b \o w) \o start)) \o closed, type) = ((open \o ((b \o w) \o start)) \o closed) \o end
  <2>1. (open \o ((b \o w) \o start)) \o closed \in Seq(TokenTypes)
    <3>1. ASSUME NEW c \in Seq(TokenTypes), NEW d \in Seq(TokenTypes)
          PROVE  Joined(c, d) \in Seq(TokenTypes)
      BY ConcatType DEF Joined
    <3>2. Joined(Joined(open, Joined(Joined(b, w), start)), closed) \in Seq(TokenTypes)
      BY <3>1
    <3> QED BY <3>2, Zenon DEF Joined
  <2>2. PICK all \in Seq(TokenTypes) : all = (open \o ((b \o w) \o start)) \o closed
    BY <2>1, Zenon
  <2>3. Append(all, type) = all \o <<type>>
    BY AppendOne
  <2> QED BY <1>2, <2>2, <2>3, Zenon
<1> QED
  BY <1>2, <1>3, <1>4, <1>5, <1>7, <1>8, Zenon DEF Encloses

LEMMA PrintedClosed ==
  ASSUME NEW bs, NEW stack, TreeShape(bs, stack), Len(stack) > 1, NEW last, last # "NORMAL",
         NEW toks, NEW text \in BlockTexts, NEW open \in Seq(Seq(TokenTypes)),
         PrintedAs(bs, stack, last, toks, text, open)
  PROVE  \E put \in BlockTexts, less \in Seq(Seq(TokenTypes)) :
           PrintedAs(bs, Front(stack), "END_BLOCK", Append(toks, "END_BLOCK"), put, less)
<1>1. PICK here \in DOMAIN bs, outer \in DOMAIN bs, m \in Nat :
        /\ here = Last(stack) /\ outer = stack[m] /\ m = Len(stack) - 1
        /\ IsParent(bs, outer, here) /\ m # 0 /\ here = stack[Len(stack)]
  <2>1. IsParent(bs, stack[Len(stack) - 1], Last(stack))
    BY InnermostParent
  <2>2. Len(stack) - 1 \in Nat /\ Len(stack) - 1 # 0 /\ Last(stack) = stack[Len(stack)]
    BY ShapeTop
  <2>3. Last(stack) \in DOMAIN bs /\ stack[Len(stack) - 1] \in DOMAIN bs
    BY <2>1, Zenon DEF IsParent
  <2> QED BY <2>1, <2>2, <2>3, Zenon
<1>2. /\ bs \in Seq(Seq(Statement)) /\ bs[here] \in Seq(Statement)
      /\ bs[outer] \in Seq(Statement) /\ bs[outer] # <<>> /\ outer # here
      /\ Last(bs[outer]).child = here /\ here # 0
  <2>1. bs \in Seq(Seq(Statement)) /\ bs[here] \in Seq(Statement)
    BY DEF TreeShape
  <2> QED BY <1>1, <2>1, Zenon DEF IsParent
<1>3. /\ \A b \in DOMAIN bs :
           (\A i \in 1..Len(stack) : stack[i] # b) => text[b] = BlockText(bs[b], text)
      /\ Len(open) = Len(stack) - 1
      /\ \A i \in 1..(Len(stack) - 1) : open[i] = HeadText(bs[stack[i]], text) \o <<"START_BLOCK">>
      /\ toks = FlattenSeq(open) \o Current(bs[Last(stack)], last, text)
  BY Zenon DEF PrintedAs
<1>4. PICK closed \in Seq(TokenTypes) : closed = BlockText(bs[here], text)
  BY <1>2, BlockTextType
<1>5. toks = FlattenSeq(open) \o closed
  BY <1>1, <1>3, <1>4, Zenon DEF Current
<1>6. PICK put \in BlockTexts :
        /\ put[here] = closed /\ \A b \in DOMAIN bs : b # here => put[b] = text[b]
        /\ \A b \in DOMAIN bs : b # outer => BlockText(bs[b], put) = BlockText(bs[b], text)
        /\ \A b \in DOMAIN bs : bs[b] # <<>> => HeadText(bs[b], put) = HeadText(bs[b], text)
  <2>1. MayPut(bs, outer, here, text, closed)
    BY <1>1, <1>2, TextPut
  <2> QED BY <2>1, Zenon DEF MayPut, IsPut
<1>7. open # <<>>
  BY <1>1, <1>3
<1>8. PICK less \in Seq(Seq(TokenTypes)), beginning \in Seq(TokenTypes) :
        /\ less = Front(open) /\ beginning = open[m] /\ open = Append(less, beginning)
        /\ Len(less) = m - 1 /\ \A i \in 1..(m - 1) : less[i] = open[i]
  <2>1. /\ Front(open) \in Seq(Seq(TokenTypes)) /\ Last(open) \in Seq(TokenTypes)
        /\ open = Append(Front(open), Last(open)) /\ Last(open) = open[Len(open)]
        /\ Len(Front(open)) = Len(open) - 1
        /\ \A k \in 1..(Len(open) - 1) : Front(open)[k] = open[k]
    BY <1>7, LastApart
  <2>2. Len(open) = m
    BY <1>1, <1>3, Zenon
  <2> QED BY <2>1, <2>2, Zenon
<1>9. PICK shorter \in Seq(DOMAIN bs) :
        /\ shorter = Front(stack) /\ Len(shorter) = m /\ \A i \in 1..m : shorter[i] = stack[i]
        /\ shorter # <<>> /\ Last(shorter) = outer
  <2>1. /\ TreeShape(bs, Front(stack)) /\ Len(Front(stack)) = Len(stack) - 1
        /\ \A i \in 1..(Len(stack) - 1) : Front(stack)[i] = stack[i]
    BY ShapeClosed
  <2>2. Front(stack) \in Seq(DOMAIN bs) /\ Front(stack) # <<>>
    BY <2>1, Zenon DEF TreeShape
  <2>3. Last(Front(stack)) = Front(stack)[Len(Front(stack))]
    BY <2>2, LastApart
  <2>4. m \in 1..m
    BY <1>1
  <2>5. Len(Front(stack)) = m /\ \A i \in 1..m : Front(stack)[i] = stack[i]
    BY <1>1, <2>1, Zenon
  <2>6. Last(Front(stack)) = outer
    BY <1>1, <2>3, <2>4, <2>5, Zenon
  <2> QED BY <2>2, <2>5, <2>6, Zenon
<1>10. ASSUME NEW b \in DOMAIN bs, \A i \in 1..Len(shorter) : shorter[i] # b
       PROVE  put[b] = BlockText(bs[b], put)
  <2>1. b # outer
    <3>1. m \in 1..m /\ Len(shorter) = m /\ shorter[m] = stack[m]
      <4>1. m \in 1..m
        BY <1>1
      <4> QED BY <1>9, <4>1, Zenon
    <3> QED BY <1>1, <1>10, <3>1, Zenon
  <2>2. BlockText(bs[b], put) = BlockText(bs[b], text)
    BY <1>6, <2>1, Zenon
  <2>3. CASE b = here
    BY <1>4, <1>6, <2>2, <2>3, Zenon
  <2>4. CASE b # here
    <3>1. ASSUME NEW i \in 1..Len(stack)
          PROVE  stack[i] # b
      <4>1. i = Len(stack) \/ i \in 1..m
        BY <1>1
      <4>2. CASE i \in 1..m
        BY <1>9, <1>10, <4>2, Zenon
      <4> QED BY <1>1, <2>4, <4>1, <4>2, Zenon
    <3>2. text[b] = BlockText(bs[b], text)
      BY <1>3, <3>1, Zenon
    <3> QED BY <1>6, <2>2, <2>4, <3>2, Zenon
  <2> QED BY <2>3, <2>4
<1>11. ASSUME NEW i \in 1..(Len(shorter) - 1)
       PROVE  less[i] = HeadText(bs[shorter[i]], put) \o <<"START_BLOCK">>
  <2>1. i \in 1..(m - 1) /\ i \in 1..m /\ i \in 1..(Len(stack) - 1)
    <3>1. Len(shorter) = m /\ m = Len(stack) - 1 /\ m \in Nat
      BY <1>1, <1>9, Zenon
    <3>2. i \in 1..(m - 1)
      BY <3>1
    <3> QED BY <3>1, <3>2
  <2>2. less[i] = open[i] /\ shorter[i] = stack[i]
    BY <1>8, <1>9, <2>1, Zenon
  <2>3. open[i] = HeadText(bs[stack[i]], text) \o <<"START_BLOCK">>
    BY <1>3, <2>1, Zenon
  <2>4. stack[i] \in DOMAIN bs /\ bs[stack[i]] # <<>>
    <3>1. bs[stack[i]] # <<>>
      BY <2>1, Zenon DEF TreeShape
    <3>2. i \in 1..Len(stack)
      BY <1>1, <2>1
    <3>3. stack[i] \in DOMAIN bs
      BY <3>2, ShapeTop
    <3> QED BY <3>1, <3>3
  <2>5. HeadText(bs[stack[i]], put) = HeadText(bs[stack[i]], text)
    BY <1>6, <2>4, Zenon
  <2> QED BY <2>2, <2>3, <2>5, Zenon
<1>12. Len(less) = Len(shorter) - 1
  BY <1>8, <1>9, Zenon
<1>13. Append(toks, "END_BLOCK") = FlattenSeq(less) \o Current(bs[Last(shorter)], "END_BLOCK", put)
  <2>1. PICK stmts \in Seq(Statement), start \in Seq(TokenTypes), before \in Seq(TokenTypes) :
          /\ stmts = bs[outer] /\ stmts # <<>> /\ Last(stmts).child = here /\ here # 0
          /\ start = <<"START_BLOCK">> /\ before = FlattenSeq(less)
    <3>1. FlattenSeq(less) \in Seq(TokenTypes)
      BY FlattenType
    <3> QED BY <1>2, <3>1, TypesAlone, Zenon
  <2>2. Current(bs[Last(shorter)], "END_BLOCK", put) = BlockText(stmts, put)
    <3>1. "END_BLOCK" # "NORMAL"
      OBVIOUS
    <3> QED BY <1>9, <2>1, <3>1, Zenon DEF Current
  <2>3. beginning = HeadText(stmts, put) \o start
    <3>1. m \in 1..(Len(stack) - 1)
      BY <1>1
    <3>2. open[m] = HeadText(bs[stack[m]], text) \o <<"START_BLOCK">>
      BY <1>3, <3>1, Zenon
    <3>3. HeadText(bs[outer], put) = HeadText(bs[outer], text)
      BY <1>2, <1>6, Zenon
    <3> QED BY <1>1, <1>8, <2>1, <3>2, <3>3, Zenon
  <2>4. FlattenSeq(open) = before \o beginning
    <3>1. FlattenSeq(Append(less, beginning)) = FlattenSeq(less) \o beginning
      BY FlattenAppend
    <3> QED BY <1>8, <2>1, <3>1, Zenon
  <2>5. Append((before \o (HeadText(stmts, put) \o start)) \o closed, "END_BLOCK") = before \o BlockText(stmts, put)
    <3>1. put[Last(stmts).child] = closed /\ Last(stmts).child # 0
      BY <1>6, <2>1, Zenon
    <3>2. Encloses(stmts, put, closed, before, start)
      BY <2>1, <3>1, BracketsAround
    <3> QED BY <3>2, Zenon DEF Encloses
  <2> QED BY <1>5, <2>1, <2>2, <2>3, <2>4, <2>5, Zenon
<1>14. PrintedAs(bs, shorter, "END_BLOCK", Append(toks, "END_BLOCK"), put, less)
  BY <1>10, <1>11, <1>12, <1>13, Zenon DEF PrintedAs
<1> QED
  BY <1>9, <1>14, Zenon

\* Every block has a text, and its children come after it.
IsWhole(bs, text) ==
  /\ bs \in Seq(Seq(Statement)) /\ bs # <<>>
  /\ \A b \in DOMAIN bs : \A k \in DOMAIN bs[b] :
       bs[b][k].child # 0 => bs[b][k].child \in DOMAIN bs /\ b < bs[b][k].child
  /\ \A b \in DOMAIN bs : text[b] = BlockText(bs[b], text)

\* Two such texts are the same: the last block in which they differ has
\* children in which they do not.
LEMMA TextUnique ==
  ASSUME NEW bs, NEW text, NEW other, IsWhole(bs, text), IsWhole(bs, other)
  PROVE  \A b \in DOMAIN bs : text[b] = other[b]
<1> DEFINE Differ == {b \in DOMAIN bs : text[b] # other[b]}
<1>1. DOMAIN bs = 1..Len(bs) /\ Len(bs) \in Nat
  BY DEF IsWhole
<1>2. SUFFICES ASSUME Differ # {}
               PROVE  FALSE
  OBVIOUS
<1>3. Differ \in SUBSET (0..Len(bs))
  BY <1>1
<1>4. PICK b \in Differ : \A c \in Differ : c <= b
  BY <1>1, <1>2, <1>3, LargestExists
<1>5. b \in DOMAIN bs /\ text[b] # other[b] /\ \A c \in DOMAIN bs : b < c => text[c] = other[c]
  BY <1>1, <1>4
<1> HIDE DEF Differ
<1>6. \A k \in DOMAIN bs[b] : bs[b][k].child # 0 => text[bs[b][k].child] = other[bs[b][k].child]
  BY <1>5, Zenon DEF IsWhole
<1>7. BlockText(bs[b], text) = BlockText(bs[b], other)
  <2>1. bs[b] \in Seq(Statement)
    BY <1>5 DEF IsWhole
  <2> QED BY <1>6, <2>1, BlockTextLocal
<1> QED
  BY <1>5, <1>7, Zenon DEF IsWhole

\* ToString finds it.
LEMMA ToStringFinds ==
  ASSUME NEW text, IsWhole(blocks, text)
  PROVE  ConfigToString = text[1]
<1> DEFINE Solves(t) == t = [b \in DOMAIN blocks |-> BlockText(blocks[b], t)]
           found == CHOOSE t : Solves(t)
           mine == [b \in DOMAIN blocks |-> text[b]]
<1>1. blocks \in Seq(Seq(Statement)) /\ 1 \in DOMAIN blocks
  BY DEF IsWhole
<1>2. ASSUME NEW b \in DOMAIN blocks
      PROVE  BlockText(blocks[b], mine) = text[b]
  <2>1. \A k \in DOMAIN blocks[b] : blocks[b][k].child # 0 => text[blocks[b][k].child] = mine[blocks[b][k].child]
    BY Zenon DEF IsWhole
  <2>2. blocks[b] \in Seq(Statement)
    BY <1>1
  <2> HIDE DEF mine
  <2>3. BlockText(blocks[b], text) = BlockText(blocks[b], mine)
    BY <2>1, <2>2, BlockTextLocal
  <2> QED BY <2>3, Zenon DEF IsWhole
<1>3. mine = [b \in DOMAIN blocks |-> BlockText(blocks[b], mine)]
  BY <1>2, Zenon
<1>4. Solves(found)
  <2>1. \E t : Solves(t)
    BY <1>3, Zenon
  <2> HIDE DEF Solves
  <2> QED BY <2>1, Zenon
<1>5. ConfigToString = found[1]
  BY DEF ConfigToString, BlockText, StatementText, WordsText
<1> HIDE DEF found, mine
<1>6. \A b \in DOMAIN blocks : found[b] = BlockText(blocks[b], found)
  BY <1>4, Zenon
<1>7. IsWhole(blocks, found)
  BY <1>6, Zenon DEF IsWhole
<1>8. found[1] = text[1]
  BY <1>1, <1>7, TextUnique
<1> QED
  BY <1>5, <1>8, Zenon

\* At the end only the first block is on the stack.
LEMMA WholeAtEnd ==
  ASSUME NEW bs, NEW stack, TreeShape(bs, stack), Len(stack) = 1, NEW last, last # "NORMAL",
         NEW toks, NEW text \in BlockTexts, NEW open \in Seq(Seq(TokenTypes)),
         PrintedAs(bs, stack, last, toks, text, open)
  PROVE  \E put : IsWhole(bs, put) /\ put[1] = toks
<1>1. /\ bs \in Seq(Seq(Statement)) /\ 1 \in DOMAIN bs /\ DOMAIN bs = 1..Len(bs) /\ Len(bs) \in Nat
      /\ Last(stack) = 1 /\ \A i \in 1..Len(stack) : stack[i] = 1
  <2>1. stack[1] = 1 /\ bs \in Seq(Seq(Statement))
    BY DEF TreeShape
  <2>2. Last(stack) = stack[Len(stack)] /\ Last(stack) \in DOMAIN bs /\ DOMAIN bs = 1..Len(bs) /\ Len(bs) \in Nat
    BY ShapeTop
  <2>3. \A i \in 1..Len(stack) : i = 1
    OBVIOUS
  <2> QED BY <2>1, <2>2, <2>3, Zenon
<1>2. PICK whole \in Seq(TokenTypes) : whole = BlockText(bs[1], text)
  <2>1. bs[1] \in Seq(Statement)
    BY <1>1
  <2> QED BY <2>1, BlockTextType
<1>3. PICK put \in BlockTexts : put[1] = whole /\ \A b \in Nat : b # 1 => put[b] = text[b]
  <2>1. /\ [text EXCEPT ![1] = whole] \in BlockTexts /\ [text EXCEPT ![1] = whole][1] = whole
        /\ \A b \in Nat : b # 1 => [text EXCEPT ![1] = whole][b] = text[b]
    BY DEF BlockTexts
  <2> QED BY <2>1, Zenon
<1>4. ASSUME NEW b \in DOMAIN bs, NEW k \in DOMAIN bs[b], bs[b][k].child # 0
      PROVE  bs[b][k].child \in DOMAIN bs /\ b < bs[b][k].child /\ bs[b][k].child # 1 /\ bs[b][k].child \in Nat
  <2>1. bs[b][k].child \in (b + 1)..Len(bs) /\ b \in 1..Len(bs)
    BY <1>1, <1>4, Zenon DEF TreeShape
  <2> QED BY <1>1, <2>1
<1>5. ASSUME NEW b \in DOMAIN bs
      PROVE  put[b] = BlockText(bs[b], put)
  <2>1. \A k \in DOMAIN bs[b] : bs[b][k].child # 0 => text[bs[b][k].child] = put[bs[b][k].child]
    BY <1>3, <1>4, Zenon
  <2>2. BlockText(bs[b], text) = BlockText(bs[b], put)
    <3>1. bs[b] \in Seq(Statement)
      BY <1>1
    <3> QED BY <2>1, <3>1, BlockTextLocal
  <2>3. CASE b = 1
    BY <1>2, <1>3, <2>2, <2>3, Zenon
  <2>4. CASE b # 1
    <3>1. b \in Nat /\ \A i \in 1..Len(stack) : stack[i] # b
      BY <1>1, <2>4
    <3>2. text[b] = BlockText(bs[b], text)
      BY <3>1, Zenon DEF PrintedAs
    <3> QED BY <1>3, <2>2, <2>4, <3>1, <3>2, Zenon
  <2> QED BY <2>3, <2>4
<1>6. bs # <<>>
  BY <1>1
<1>7. IsWhole(bs, put)
  BY <1>1, <1>4, <1>5, <1>6, Zenon DEF IsWhole
<1>8. toks = whole
  <2>1. toks = FlattenSeq(open) \o Current(bs[Last(stack)], last, text) /\ Len(open) = Len(stack) - 1
    BY Zenon DEF PrintedAs
  <2>2. open = <<>>
    BY <2>1
  <2>3. toks = FlattenSeq(<<>>) \o whole
    BY <1>1, <1>2, <2>1, <2>2, Zenon DEF Current
  <2>4. FlattenSeq(<<>>) = <<>> /\ <<>> \o whole = whole
    BY FlattenEmpty, ConcatEmptySeq
  <2> QED BY <2>3, <2>4, Zenon
<1> QED
  BY <1>3, <1>7, <1>8, Zenon

-----------------------------------------------------------------------------
\* What Parse has built says what the tokens said

TellsTokens ==
  \E text \in BlockTexts, open \in Seq(Seq(TokenTypes)) :
    PrintedAs(blocks, config_stack, last_token_type, tokens, text, open)

TreeTells ==
  /\ TreeShape(blocks, config_stack)
  /\ WordPending(blocks[top], last_token_type)
  /\ TellsTokens

\* The block on top is new, and the tokens go on as its text does.
LEMMA TopChanged ==
  ASSUME TreeTells, NEW new \in Seq(Statement), NEW next, NEW type \in TokenTypes,
         \A k \in DOMAIN new : new[k].child # 0 => k \in DOMAIN blocks[top] /\ new[k].child = blocks[top][k].child,
         WordPending(new, next),
         \A text \in BlockTexts :
           /\ Current(blocks[top], last_token_type, text) \in Seq(TokenTypes)
           /\ Current(new, next, text) = Current(blocks[top], last_token_type, text) \o <<type>>,
         blocks' = [blocks EXCEPT ![top] = new], config_stack' = config_stack,
         last_token_type' = next, tokens' = Append(tokens, type)
  PROVE  TreeTells'
<1>1. TreeShape(blocks, config_stack) /\ top = Last(config_stack) /\ top' = top
  BY Zenon DEF TreeTells, top
<1>2. PICK text \in BlockTexts, open \in Seq(Seq(TokenTypes)) :
        PrintedAs(blocks, config_stack, last_token_type, tokens, text, open)
  BY Zenon DEF TreeTells, TellsTokens
<1>3. PICK before \in Seq(TokenTypes) :
        /\ before = Current(blocks[top], last_token_type, text)
        /\ Current(new, next, text) = before \o <<type>>
  BY Zenon
<1>4. tokens = FlattenSeq(open) \o before
  BY <1>1, <1>2, <1>3, Zenon DEF PrintedAs
<1>5. tokens' = FlattenSeq(open) \o Current(new, next, text)
  <2>1. Append(FlattenSeq(open) \o before, type) = FlattenSeq(open) \o Current(new, next, text)
    BY <1>3, TokensGrow, Zenon
  <2> QED BY <1>4, <2>1, Zenon
<1>6. TreeShape(blocks', config_stack')
  <2>1. TreeShape([blocks EXCEPT ![Last(config_stack)] = new], config_stack)
    <3>1. \A k \in DOMAIN new :
            new[k].child # 0 => /\ k \in DOMAIN blocks[Last(config_stack)]
                                /\ new[k].child = blocks[Last(config_stack)][k].child
      BY <1>1, Zenon
    <3> QED BY <1>1, <3>1, ShapeUpdate, Zenon
  <2> QED BY <1>1, <2>1, Zenon
<1>7. PrintedAs(blocks', config_stack', last_token_type', tokens', text, open)
  <2>1. PrintedAs([blocks EXCEPT ![Last(config_stack)] = new], config_stack, next, tokens', text, open)
    BY <1>1, <1>2, <1>5, PrintedUpdate, Zenon
  <2> QED BY <1>1, <2>1, Zenon
<1>8. blocks'[top] = new
  <2>1. top \in DOMAIN blocks
    BY <1>1, ShapeTop
  <2> QED BY <2>1
<1>9. WordPending(blocks'[top'], last_token_type')
  BY <1>1, <1>8, Zenon
<1>10. TellsTokens'
  BY <1>7, Zenon DEF TellsTokens
<1> QED
  BY <1>6, <1>9, <1>10, Zenon DEF TreeTells

LEMMA TopTyped ==
  ASSUME TreeTells
  PROVE  /\ blocks[top] \in Seq(Statement) /\ top \in DOMAIN blocks /\ top = Last(config_stack)
         /\ blocks \in Seq(Seq(Statement))
         /\ WordPending(blocks[top], last_token_type)
         /\ \A text \in BlockTexts : Current(blocks[top], last_token_type, text) \in Seq(TokenTypes)
<1>1. TreeShape(blocks, config_stack) /\ top = Last(config_stack) /\ WordPending(blocks[top], last_token_type)
  BY Zenon DEF TreeTells, top
<1>2. blocks[top] \in Seq(Statement) /\ top \in DOMAIN blocks
  BY <1>1, ShapeTop
<1>3. blocks \in Seq(Seq(Statement))
  BY <1>1 DEF TreeShape
<1>4. \A text \in BlockTexts : Current(blocks[top], last_token_type, text) \in Seq(TokenTypes)
  BY <1>1, <1>2, CurrentType
<1> QED
  BY <1>1, <1>2, <1>3, <1>4, Zenon

LEMMA WordTells ==
  ASSUME TreeTells, NEW word \in Seq(Chars), AddWord(word)
  PROVE  TreeTells'
<1>1. /\ blocks[top] \in Seq(Statement) /\ WordPending(blocks[top], last_token_type)
      /\ \A text \in BlockTexts : Current(blocks[top], last_token_type, text) \in Seq(TokenTypes)
  BY TopTyped, Zenon
<1>2. PICK new \in Seq(Statement) :
        /\ new = WithWord(blocks[top], last_token_type, word) /\ WordPending(new, "NORMAL")
        /\ \A k \in DOMAIN new : new[k].child # 0 => k \in DOMAIN blocks[top] /\ new[k].child = blocks[top][k].child
        /\ \A text \in BlockTexts :
             Current(new, "NORMAL", text) = Current(blocks[top], last_token_type, text) \o <<"NORMAL">>
  BY <1>1, WordCurrent, Zenon
<1>3. blocks' = [blocks EXCEPT ![top] = new]
  BY <1>2, Zenon DEF AddWord, WithWord
<1>4. config_stack' = config_stack /\ last_token_type' = "NORMAL" /\ tokens' = Append(tokens, "NORMAL")
  BY Zenon DEF AddWord, Accept
<1>5. PICK type \in TokenTypes : type = "NORMAL"
  BY DEF TokenTypes
<1>6. /\ last_token_type' = type /\ tokens' = Append(tokens, type) /\ WordPending(new, type)
      /\ \A text \in BlockTexts :
           /\ Current(blocks[top], last_token_type, text) \in Seq(TokenTypes)
           /\ Current(new, type, text) = Current(blocks[top], last_token_type, text) \o <<type>>
  BY <1>1, <1>2, <1>4, <1>5, Zenon
<1> HIDE DEF WordPending, Current, BlockTexts, TreeTells
<1> QED
  BY <1>2, <1>3, <1>4, <1>6, TopChanged, Zenon

LEMMA SemicolonTells ==
  ASSUME TreeTells, EndStatement, last_token_type = "NORMAL"
  PROVE  TreeTells'
<1>1. /\ blocks[top] \in Seq(Statement) /\ WordPending(blocks[top], "NORMAL") /\ blocks \in Seq(Seq(Statement))
      /\ \A text \in BlockTexts : Current(blocks[top], last_token_type, text) \in Seq(TokenTypes)
  BY TopTyped, Zenon
<1>2. PICK new \in Seq(Statement) : new = blocks[top]
  BY <1>1
<1>3. PICK type \in TokenTypes : type = "STATEMENT_END"
  BY DEF TokenTypes
<1>4. /\ config_stack' = config_stack /\ last_token_type' = type /\ tokens' = Append(tokens, type)
      /\ blocks' = blocks
  BY <1>3, Zenon DEF EndStatement, Accept
<1>5. blocks' = [blocks EXCEPT ![top] = new]
  <2>1. top \in DOMAIN blocks
    BY TopTyped
  <2> QED BY <1>1, <1>2, <1>4, <2>1
<1>6. \A k \in DOMAIN new : new[k].child # 0 => k \in DOMAIN blocks[top] /\ new[k].child = blocks[top][k].child
  BY <1>2
<1>7. WordPending(new, type)
  BY <1>3 DEF WordPending
<1>8. \A text \in BlockTexts :
        /\ Current(blocks[top], last_token_type, text) \in Seq(TokenTypes)
        /\ Current(new, type, text) = Current(blocks[top], last_token_type, text) \o <<type>>
  <2>1. \A text \in BlockTexts :
          Current(new, "STATEMENT_END", text) = Current(new, "NORMAL", text) \o <<"STATEMENT_END">>
    BY <1>1, <1>2, EndCurrent
  <2> QED BY <1>1, <1>2, <1>3, <2>1, Zenon
<1> HIDE DEF WordPending, Current, BlockTexts, TreeTells
<1> QED
  BY <1>4, <1>5, <1>6, <1>7, <1>8, TopChanged, Zenon

LEMMA StartTells ==
  ASSUME TreeTells, StartBlock, last_token_type = "NORMAL"
  PROVE  TreeTells'
<1>1. /\ TreeShape(blocks, config_stack) /\ top = Last(config_stack)
      /\ WordPending(blocks[Last(config_stack)], "NORMAL")
  BY Zenon DEF TreeTells, top
<1>2. PICK text \in BlockTexts, open \in Seq(Seq(TokenTypes)) :
        PrintedAs(blocks, config_stack, "NORMAL", tokens, text, open)
  BY Zenon DEF TreeTells, TellsTokens
<1>3. PICK cs \in Seq(Seq(Statement)) :
        /\ cs = Append([blocks EXCEPT ![Last(config_stack)][Len(blocks[Last(config_stack)])].child = Len(blocks) + 1], <<>>)
        /\ IsOpened(blocks, Last(config_stack), cs)
  BY <1>1, TreeOpened, Zenon
<1>4. /\ blocks' = cs /\ config_stack' = Append(config_stack, Len(blocks) + 1)
      /\ last_token_type' = "START_BLOCK" /\ tokens' = Append(tokens, "START_BLOCK")
  BY <1>3, Zenon DEF StartBlock, Accept, top
<1>5. TreeShape(cs, Append(config_stack, Len(blocks) + 1))
  BY <1>1, <1>3, ShapeOpened, Zenon
<1>6. PICK wider \in Seq(Seq(TokenTypes)) :
        PrintedAs(cs, Append(config_stack, Len(blocks) + 1), "START_BLOCK", Append(tokens, "START_BLOCK"), text, wider)
  BY <1>1, <1>2, <1>3, PrintedOpened, Zenon
<1>7. TreeShape(blocks', config_stack')
  BY <1>4, <1>5, Zenon
<1>8. PrintedAs(blocks', config_stack', last_token_type', tokens', text, wider)
  BY <1>4, <1>6, Zenon
<1>9. TellsTokens'
  BY <1>8, Zenon DEF TellsTokens
<1>10. WordPending(blocks'[top'], last_token_type')
  BY <1>4 DEF WordPending
<1> QED
  BY <1>7, <1>9, <1>10, Zenon DEF TreeTells

LEMMA EndTells ==
  ASSUME TreeTells, EndBlock, Len(config_stack) > 1, bracket_count > 0,
         last_token_type \in {"STATEMENT_END", "END_BLOCK", "START_BLOCK"}
  PROVE  TreeTells'
<1>1. TreeShape(blocks, config_stack) /\ last_token_type # "NORMAL"
  BY DEF TreeTells
<1>2. PICK text \in BlockTexts, open \in Seq(Seq(TokenTypes)) :
        PrintedAs(blocks, config_stack, last_token_type, tokens, text, open)
  BY Zenon DEF TreeTells, TellsTokens
<1>3. /\ blocks' = blocks /\ config_stack' = Front(config_stack)
      /\ last_token_type' = "END_BLOCK" /\ tokens' = Append(tokens, "END_BLOCK")
  BY Zenon DEF EndBlock, Accept
<1>4. TreeShape(blocks, Front(config_stack))
  BY <1>1, ShapeClosed, Zenon
<1>5. PICK put \in BlockTexts, less \in Seq(Seq(TokenTypes)) :
        PrintedAs(blocks, Front(config_stack), "END_BLOCK", Append(tokens, "END_BLOCK"), put, less)
  BY <1>1, <1>2, PrintedClosed, Zenon
<1>6. TreeShape(blocks', config_stack')
  BY <1>3, <1>4, Zenon
<1>7. PrintedAs(blocks', config_stack', last_token_type', tokens', put, less)
  BY <1>3, <1>5, Zenon
<1>8. TellsTokens'
  BY <1>7, Zenon DEF TellsTokens
<1>9. WordPending(blocks'[top'], last_token_type')
  BY <1>3 DEF WordPending
<1> QED
  BY <1>6, <1>8, <1>9, Zenon DEF TreeTells

LEMMA ParseTells ==
  ASSUME AccessesDefined, bracket_count \in Nat, TreeTells, NEW type \in TokenTypes, NEW text \in Seq(Chars), Parse(type, text),
         result' # "rejected"
  PROVE  TreeTells'
<1>1. CASE type = "NORMAL"
  <2>1. AddWord(text)
    BY <1>1 DEF Parse
  <2> QED BY <2>1, WordTells
<1>2. CASE type = "STATEMENT_END"
  <2>1. EndStatement
    BY <1>2 DEF Parse
  <2>2. last_token_type = "NORMAL"
    BY <2>1, Zenon DEF EndStatement, Reject
  <2> QED BY <2>1, <2>2, SemicolonTells
<1>3. CASE type = "START_BLOCK"
  <2>1. StartBlock
    BY <1>3 DEF Parse
  <2>2. last_token_type = "NORMAL"
    BY <2>1, Zenon DEF StartBlock, Reject
  <2> QED BY <2>1, <2>2, StartTells
<1>4. CASE type = "END_BLOCK"
  <2>1. EndBlock
    BY <1>4 DEF Parse
  <2>2. last_token_type \in {"STATEMENT_END", "END_BLOCK", "START_BLOCK"} /\ bracket_count > 0
    BY <2>1, Zenon DEF EndBlock, Reject
  <2>3. Len(config_stack) > 1
    <3>1. TreeShape(blocks, config_stack)
      BY Zenon DEF TreeTells
    <3>2. Len(config_stack) \in Nat
      BY <3>1, ShapeTop
    <3> QED BY <2>2, <3>2 DEF AccessesDefined
  <2> QED BY <2>1, <2>2, <2>3, EndTells
<1> QED
  BY <1>1, <1>2, <1>3, <1>4 DEF TokenTypes

LEMMA TellsInitially == ParserInit => TreeTells
<1> SUFFICES ASSUME ParserInit
             PROVE  TreeTells
  OBVIOUS
<1>1. blocks = << <<>> >> /\ config_stack = <<1>> /\ last_token_type = "START" /\ tokens = <<>>
  BY DEF ParserInit
<1>2. /\ blocks \in Seq(Seq(Statement)) /\ DOMAIN blocks = {1} /\ blocks[1] = <<>>
      /\ config_stack # <<>> /\ Len(config_stack) = 1 /\ config_stack[1] = 1 /\ Last(config_stack) = 1
  BY <1>1 DEF Last
<1>3. config_stack \in Seq(DOMAIN blocks)
  BY <1>1, <1>2
<1>4. OneParent(blocks) /\ \A b \in DOMAIN blocks : DOMAIN blocks[b] = {}
  BY <1>2 DEF OneParent
<1>5. TreeShape(blocks, config_stack)
  BY <1>2, <1>3, <1>4 DEF TreeShape
<1>6. WordPending(blocks[top], last_token_type)
  BY <1>1 DEF WordPending
<1>7. PICK text : text = [b \in Nat |-> <<>>]
  OBVIOUS
<1>8. text \in BlockTexts
  BY <1>7 DEF BlockTexts
<1>9. PICK open \in Seq(Seq(TokenTypes)) : open = <<>>
  <2>1. ASSUME NEW S
        PROVE  <<>> \in Seq(S)
    OBVIOUS
  <2> QED BY <2>1, Zenon
<1>10. PrintedAs(blocks, config_stack, last_token_type, tokens, text, open)
  <2>1. BlockText(blocks[Last(config_stack)], text) = <<>> /\ FlattenSeq(open) = <<>>
    BY <1>2, <1>9, BlockTextEmpty, FlattenEmpty
  <2>2. Current(blocks[Last(config_stack)], last_token_type, text) = <<>>
    BY <1>1, <2>1 DEF Current
  <2>3. tokens = FlattenSeq(open) \o Current(blocks[Last(config_stack)], last_token_type, text)
    BY <1>1, <2>1, <2>2
  <2>4. \A b \in DOMAIN blocks : (\A i \in 1..Len(config_stack) : config_stack[i] # b) => text[b] = BlockText(blocks[b], text)
    BY <1>2
  <2>5. Len(open) = Len(config_stack) - 1
    BY <1>2, <1>9
  <2>6. \A i \in 1..(Len(config_stack) - 1) : FALSE
    BY <1>2
  <2> QED BY <2>3, <2>4, <2>5, <2>6, Zenon DEF PrintedAs
<1>11. TellsTokens
  BY <1>8, <1>10, Zenon DEF TellsTokens
<1> QED
  BY <1>5, <1>6, <1>11, Zenon DEF TreeTells

-----------------------------------------------------------------------------
\* The words are words

StatementFits(st) == \A w \in ToSet(st.words) : WellFormed(w)

BlockFits(stmts) == \A k \in DOMAIN stmts : StatementFits(stmts[k])

WordsFit(bs) == \A b \in DOMAIN bs : BlockFits(bs[b])

LEMMA BlockFitsAppend ==
  ASSUME NEW stmts \in Seq(Statement), NEW st \in Statement, NEW front \in Seq(Statement),
         \A k \in DOMAIN front : k \in DOMAIN stmts /\ front[k] = stmts[k],
         BlockFits(stmts), StatementFits(st)
  PROVE  BlockFits(Append(front, st))
<1>1. PICK new \in Seq(Statement) :
        /\ new = Append(front, st) /\ Len(new) = Len(front) + 1 /\ new[Len(front) + 1] = st
        /\ \A k \in 1..Len(front) : new[k] = front[k]
  <2>1. /\ Append(front, st) \in Seq(Statement) /\ Len(Append(front, st)) = Len(front) + 1
        /\ Append(front, st)[Len(front) + 1] = st
        /\ \A k \in 1..Len(front) : Append(front, st)[k] = front[k]
    BY AppendProperties
  <2> QED BY <2>1, Zenon
<1>2. ASSUME NEW k \in DOMAIN new
      PROVE  StatementFits(new[k])
  <2>1. Len(new) = Len(front) + 1 /\ new[Len(front) + 1] = st /\ \A i \in 1..Len(front) : new[i] = front[i]
    BY <1>1, Zenon
  <2>2. DOMAIN new = 1..(Len(front) + 1) /\ DOMAIN front = 1..Len(front) /\ Len(front) \in Nat
    BY <2>1
  <2>3. k = Len(front) + 1 \/ k \in DOMAIN front
    BY <2>2
  <2>4. CASE k \in DOMAIN front
    <3>1. new[k] = front[k] /\ k \in DOMAIN stmts /\ front[k] = stmts[k]
      BY <2>1, <2>2, <2>4
    <3> QED BY <3>1, Zenon DEF BlockFits
  <2> QED BY <2>1, <2>3, <2>4, Zenon
<1> QED
  BY <1>1, <1>2, Zenon DEF BlockFits

LEMMA WordFits ==
  ASSUME NEW stmts \in Seq(Statement), NEW last, last = "NORMAL" => stmts # <<>>, BlockFits(stmts),
         NEW word \in Seq(Chars), WellFormed(word)
  PROVE  BlockFits(WithWord(stmts, last, word))
<1>1. CASE last # "NORMAL"
  <2>1. PICK one \in Seq(Seq(Chars)) : one = <<word>>
    <3>1. ASSUME NEW S, NEW x \in S
          PROVE  <<x>> \in Seq(S)
      OBVIOUS
    <3> QED BY <3>1, Zenon
  <2>2. PICK st \in Statement : st = [words |-> <<word>>, child |-> 0] /\ st.words = one
    BY <2>1, StatementParts
  <2>3. ToSet(one) = {word}
    BY <2>1 DEF ToSet
  <2>4. StatementFits(st)
    BY <2>2, <2>3 DEF StatementFits
  <2>5. \A k \in DOMAIN stmts : k \in DOMAIN stmts /\ stmts[k] = stmts[k]
    OBVIOUS
  <2>6. BlockFits(Append(stmts, st))
    BY <2>4, <2>5, BlockFitsAppend, Zenon
  <2> QED BY <1>1, <2>2, <2>6, Zenon DEF WithWord
<1>2. CASE last = "NORMAL"
  <2>1. /\ stmts # <<>> /\ Front(stmts) \in Seq(Statement) /\ Last(stmts) \in Statement
        /\ Last(stmts) = stmts[Len(stmts)] /\ Len(stmts) \in Nat \ {0}
        /\ Len(Front(stmts)) = Len(stmts) - 1
        /\ \A k \in 1..(Len(stmts) - 1) : Front(stmts)[k] = stmts[k]
    BY <1>2, LastApart
  <2>2. PICK front \in Seq(Statement), final \in Statement :
          /\ front = Front(stmts) /\ final = stmts[Len(stmts)]
          /\ Len(front) = Len(stmts) - 1 /\ \A k \in 1..(Len(stmts) - 1) : front[k] = stmts[k]
    BY <2>1, Zenon
  <2>3. final.words \in Seq(Seq(Chars))
    BY DEF Statement
  <2>4. PICK ws \in Seq(Seq(Chars)) : ws = Append(final.words, word)
    BY <2>3, AppendOne
  <2>5. PICK st \in Statement : st = [final EXCEPT !.words = ws] /\ st.words = ws
    BY <2>3, StatementParts
  <2>6. WithWord(stmts, last, word) = [stmts EXCEPT ![Len(stmts)] = st]
    BY <1>2, <2>2, <2>4, <2>5 DEF WithWord
  <2>7. DOMAIN front = 1..(Len(stmts) - 1) /\ DOMAIN stmts = 1..Len(stmts)
    BY <2>2
  <2>8. \A k \in DOMAIN front : k \in DOMAIN stmts /\ front[k] = stmts[k]
    BY <2>1, <2>2, <2>7
  <2>9. StatementFits(st)
    <3>1. StatementFits(final)
      <4>1. Len(stmts) \in DOMAIN stmts
        BY <2>1, <2>7
      <4> QED BY <2>2, <4>1, Zenon DEF BlockFits
    <3>2. ToSet(ws) \subseteq ToSet(final.words) \cup {word}
      <4>1. ASSUME NEW S, NEW s \in Seq(S), NEW x \in S
            PROVE  ToSet(Append(s, x)) \subseteq ToSet(s) \cup {x}
        BY DEF ToSet
      <4>2. word \in Seq(Chars)
        OBVIOUS
      <4>3. PICK old \in Seq(Seq(Chars)) : old = final.words
        BY <2>3
      <4>4. ToSet(Append(old, word)) \subseteq ToSet(old) \cup {word}
        BY <4>1
      <4> QED BY <2>4, <4>3, <4>4, Zenon
    <3> QED BY <2>5, <3>1, <3>2, Zenon DEF StatementFits
  <2>10. BlockFits(Append(front, st))
    BY <2>8, <2>9, BlockFitsAppend
  <2>11. [stmts EXCEPT ![Len(stmts)] = st] = Append(front, st)
    BY <2>1, <2>2, LastReplaced
  <2> QED BY <2>6, <2>10, <2>11, Zenon
<1> QED
  BY <1>1, <1>2

\* A new block takes the words of no other.
LEMMA OpenedFits ==
  ASSUME NEW bs, NEW stack, TreeShape(bs, stack), NEW cs, IsOpened(bs, Last(stack), cs), WordsFit(bs)
  PROVE  WordsFit(cs)
<1>1. PICK here \in DOMAIN bs, n \in Nat : here = Last(stack) /\ n = Len(bs) + 1
  <2>1. Len(bs) \in Nat /\ Last(stack) \in DOMAIN bs
    BY ShapeTop
  <2>2. Len(bs) + 1 \in Nat
    BY <2>1
  <2> QED BY <2>1, <2>2, Zenon
<1>2. /\ cs \in Seq(Seq(Statement)) /\ Len(cs) = n /\ cs[n] = <<>>
      /\ \A b \in DOMAIN bs : b # here => cs[b] = bs[b]
      /\ Len(cs[here]) = Len(bs[here]) /\ Len(cs[here]) \in Nat \ {0}
      /\ \A k \in 1..(Len(cs[here]) - 1) : cs[here][k] = bs[here][k]
      /\ Last(cs[here]).words = Last(bs[here]).words
  BY <1>1, Zenon DEF IsOpened
<1>3. DOMAIN bs = 1..Len(bs) /\ Len(bs) \in Nat /\ bs[here] \in Seq(Statement)
  BY <1>1, ShapeTop
<1>4. DOMAIN cs = 1..n /\ DOMAIN bs = 1..(n - 1)
  BY <1>1, <1>2, <1>3
<1>5. ASSUME NEW b \in DOMAIN cs
      PROVE  BlockFits(cs[b])
  <2>1. CASE b = n
    BY <1>2, <2>1 DEF BlockFits
  <2>2. CASE b \in DOMAIN bs /\ b # here
    BY <1>2, <2>2, Zenon DEF WordsFit
  <2>3. CASE b = here
    <3>1. ASSUME NEW k \in DOMAIN cs[here]
          PROVE  StatementFits(cs[here][k])
      <4>1. cs[here] \in Seq(Statement)
        BY <1>2, <1>4, <2>3
      <4>2. /\ DOMAIN cs[here] = 1..Len(cs[here]) /\ DOMAIN bs[here] = 1..Len(cs[here])
            /\ Last(cs[here]) = cs[here][Len(cs[here])] /\ Last(bs[here]) = bs[here][Len(cs[here])]
        BY <1>2, <1>3, <4>1 DEF Last
      <4>3. StatementFits(bs[here][k])
        BY <4>2, Zenon DEF WordsFit, BlockFits
      <4>4. CASE k = Len(cs[here])
        BY <1>2, <4>2, <4>3, <4>4, Zenon DEF StatementFits
      <4>5. CASE k # Len(cs[here])
        <5>1. k \in 1..(Len(cs[here]) - 1)
          BY <1>2, <4>2, <4>5
        <5> QED BY <1>2, <4>3, <5>1, Zenon
      <4> QED BY <4>4, <4>5
    <3> QED BY <2>3, <3>1, Zenon DEF BlockFits
  <2>4. b = n \/ b \in DOMAIN bs
    BY <1>1, <1>4
  <2> QED BY <2>1, <2>2, <2>3, <2>4
<1> QED
  BY <1>5, Zenon DEF WordsFit

LEMMA ParseFits ==
  ASSUME TreeTells, WordsFit(blocks),
         NEW type \in TokenTypes, NEW text \in Seq(Chars), type = "NORMAL" => WellFormed(text),
         Parse(type, text)
  PROVE  WordsFit(blocks)'
<1>1. CASE type = "NORMAL"
  <2>1. AddWord(text)
    BY <1>1 DEF Parse
  <2>2. PICK here \in DOMAIN blocks, stmts \in Seq(Statement) : here = top /\ stmts = blocks[here]
    <3>1. TreeShape(blocks, config_stack) /\ top = Last(config_stack)
      BY Zenon DEF TreeTells, top
    <3>2. top \in DOMAIN blocks /\ blocks[top] \in Seq(Statement)
      BY <3>1, ShapeTop, Zenon
    <3> QED BY <3>2, Zenon
  <2>3. PICK new : /\ new = WithWord(stmts, last_token_type, text)
                   /\ blocks' = [blocks EXCEPT ![here] = new]
    BY <2>1, <2>2, Zenon DEF AddWord, WithWord
  <2>4. last_token_type = "NORMAL" => stmts # <<>>
    BY <2>2, Zenon DEF TreeTells, WordPending
  <2>5. BlockFits(stmts)
    BY <2>2, Zenon DEF WordsFit
  <2>6. BlockFits(new)
    BY <1>1, <2>3, <2>4, <2>5, WordFits, Zenon
  <2>7. ASSUME NEW b \in DOMAIN blocks'
        PROVE  BlockFits(blocks'[b])
    <3>1. b \in DOMAIN blocks
      BY <2>3, Zenon
    <3>2. CASE b = here
      <4>1. blocks'[b] = new
        BY <2>3, <3>1, <3>2, Zenon
      <4> QED BY <2>6, <4>1, Zenon
    <3>3. CASE b # here
      <4>1. blocks'[b] = blocks[b]
        BY <2>3, <3>1, <3>3, Zenon
      <4> QED BY <3>1, <4>1, Zenon DEF WordsFit
    <3> QED BY <3>2, <3>3, Zenon
  <2> QED BY <2>7, Zenon DEF WordsFit
<1>2. CASE type = "STATEMENT_END"
  <2>1. EndStatement
    BY <1>2 DEF Parse
  <2>2. blocks' = blocks
    BY <2>1, Zenon DEF EndStatement, Reject
  <2> QED BY <2>2, Zenon DEF WordsFit
<1>3. CASE type = "START_BLOCK"
  <2>1. StartBlock
    BY <1>3 DEF Parse
  <2>2. CASE last_token_type # "NORMAL"
    <3>1. blocks' = blocks
      BY <2>1, <2>2, Zenon DEF StartBlock, Reject
    <3> QED BY <3>1, Zenon DEF WordsFit
  <2>3. CASE last_token_type = "NORMAL"
    <3>1. /\ TreeShape(blocks, config_stack) /\ top = Last(config_stack)
          /\ WordPending(blocks[Last(config_stack)], "NORMAL")
      BY <2>3, Zenon DEF TreeTells, top
    <3>2. PICK cs \in Seq(Seq(Statement)) :
            /\ cs = Append([blocks EXCEPT ![Last(config_stack)][Len(blocks[Last(config_stack)])].child = Len(blocks) + 1], <<>>)
            /\ IsOpened(blocks, Last(config_stack), cs)
      BY <3>1, TreeOpened, Zenon
    <3>3. blocks' = cs
      BY <2>1, <2>3, <3>2, Zenon DEF StartBlock, top
    <3>4. WordsFit(cs)
      BY <3>1, <3>2, OpenedFits, Zenon
    <3> QED BY <3>3, <3>4, Zenon DEF WordsFit
  <2> QED BY <2>2, <2>3
<1>4. CASE type = "END_BLOCK"
  <2>1. EndBlock
    BY <1>4 DEF Parse
  <2>2. blocks' = blocks
    BY <2>1, Zenon DEF EndBlock, Reject
  <2> QED BY <2>2, Zenon DEF WordsFit
<1> QED
  BY <1>1, <1>2, <1>3, <1>4, Zenon DEF TokenTypes

-----------------------------------------------------------------------------
\* The word that ParseToken has begun

Separators == {"space", "newline"} \cup DOMAIN Punctuation

\* A quoted word before its end.
Opens(w, q) == w # <<>> /\ w[1] = q /\ \A m \in 2..Len(w) : w[m] # q

\* A word without quotes.
Bare(w) == w # <<>> /\ w[1] = "a" /\ ToSet(w) \cap Separators = {}

WordBegun ==
  /\ state = "initial_whitespace" => value = <<>>
  /\ state = "single_quote" => Opens(value, "'")
  /\ state = "double_quote" => Opens(value, "\"")
  /\ state = "normal" => Bare(value)

LEMMA QuoteGoesOn ==
  ASSUME NEW w \in Seq(Chars), NEW c \in Chars, NEW q \in Quotes, Opens(w, q)
  PROVE  IF c = q THEN WellFormed(Append(w, c)) ELSE Opens(Append(w, c), q)
<1>1. PICK v \in Seq(Chars) :
        /\ v = Append(w, c) /\ Len(v) = Len(w) + 1 /\ v[Len(w) + 1] = c
        /\ \A k \in 1..Len(w) : v[k] = w[k]
  <2>1. /\ Append(w, c) \in Seq(Chars) /\ Len(Append(w, c)) = Len(w) + 1
        /\ Append(w, c)[Len(w) + 1] = c /\ \A k \in 1..Len(w) : Append(w, c)[k] = w[k]
    BY AppendProperties
  <2> QED BY <2>1, Zenon
<1>2. Len(w) \in Nat \ {0} /\ w[1] = q /\ \A m \in 2..Len(w) : w[m] # q
  BY DEF Opens
<1>3. /\ Len(v) = Len(w) + 1 /\ v[Len(w) + 1] = c /\ v[1] = q /\ v # <<>>
      /\ \A m \in 2..Len(w) : v[m] # q
  BY <1>1, <1>2
<1>4. CASE c = q
  <2>1. Last(v) = v[1] /\ Len(v) > 1 /\ \A m \in 2..(Len(v) - 1) : v[m] # v[1]
    BY <1>2, <1>3, <1>4 DEF Last
  <2>2. v[1] \in Quotes
    BY <1>3
  <2>3. WellFormed(v)
    BY <2>1, <2>2, Zenon DEF WellFormed
  <2> QED BY <1>1, <1>4, <2>3, Zenon
<1>5. CASE c # q
  <2>1. \A m \in 2..Len(v) : v[m] # q
    BY <1>2, <1>3, <1>5
  <2>2. Opens(v, q)
    BY <1>3, <2>1, Zenon DEF Opens
  <2> QED BY <1>1, <1>5, <2>2, Zenon
<1> QED BY <1>4, <1>5

LEMMA BareIsWellFormed ==
  ASSUME NEW w \in Seq(Chars), Bare(w)
  PROVE  WellFormed(w)
BY DEF Bare, WellFormed, Quotes, Separators

LEMMA BareGoesOn ==
  ASSUME NEW w \in Seq(Chars), NEW c \in Chars \ Separators, w = <<>> => c = "a", w # <<>> => Bare(w)
  PROVE  Bare(Append(w, c))
<1>1. /\ Append(w, c) \in Seq(Chars) /\ Len(Append(w, c)) = Len(w) + 1 /\ Append(w, c)[Len(w) + 1] = c
      /\ \A k \in 1..Len(w) : Append(w, c)[k] = w[k]
  BY AppendProperties
<1>2. Append(w, c)[1] = "a" /\ Append(w, c) # <<>>
  BY <1>1 DEF Bare
<1>3. ToSet(Append(w, c)) \subseteq ToSet(w) \cup {c}
  BY <1>1 DEF ToSet
<1>4. ToSet(w) \cap Separators = {}
  BY DEF Bare, ToSet
<1> QED
  BY <1>2, <1>3, <1>4, Zenon DEF Bare

-----------------------------------------------------------------------------
\* The round trip

RInv ==
  /\ result # "rejected" => TreeTells
  /\ WordsFit(blocks)
  /\ WordBegun

LEMMA ParseRoundTrip ==
  ASSUME PInv, RInv, result = "reading", NEW type \in TokenTypes, NEW text \in Seq(Chars), NEW back,
         type = "NORMAL" => WellFormed(text), Return(type, text, back)
  PROVE  RInv'
<1>1. Parse(type, text) /\ state' = "initial_whitespace" /\ value' = <<>>
  BY Zenon DEF Return
<1>2. AccessesDefined /\ bracket_count \in Nat
  BY DEF PInv, TreeInv, TreeOK
<1>3. TreeTells /\ WordsFit(blocks)
  BY DEF RInv
<1>4. WordsFit(blocks)'
  BY <1>1, <1>3, ParseFits, Zenon
<1>5. result' # "rejected" => TreeTells'
  BY <1>1, <1>2, <1>3, ParseTells, Zenon
<1>6. WordBegun'
  BY <1>1 DEF WordBegun
<1> QED
  BY <1>4, <1>5, <1>6, Zenon DEF RInv

LEMMA TreeKept ==
  ASSUME RInv, UNCHANGED tree, result = "rejected" => result' = "rejected", WordBegun'
  PROVE  RInv'
<1>1. UNCHANGED <<blocks, config_stack, last_token_type, tokens>>
  BY DEF tree
<1>2. blocks' = blocks /\ config_stack' = config_stack /\ last_token_type' = last_token_type /\ tokens' = tokens
  BY <1>1
<1>3. TreeTells => TreeTells'
  BY <1>2, Zenon DEF TreeTells, TellsTokens, top
<1> QED
  BY <1>2, <1>3, Zenon DEF RInv

LEMMA OpensAlone ==
  ASSUME NEW q
  PROVE  Opens(<<q>>, q)
BY DEF Opens

LEMMA RoundTripReadStep ==
  ASSUME PInv, RInv, NEW c \in Chars,
         InitialWhitespace(c) \/ Quoted(c) \/ Comment(c) \/ Normal(c)
  PROVE  RInv'
<1>1. /\ value \in Seq(Chars) /\ <<c>> \in Seq(Chars) /\ Append(value, c) \in Seq(Chars)
      /\ result = "reading" /\ WordBegun
  <2>1. value \in Seq(Chars) /\ <<c>> \in Seq(Chars) /\ Append(value, c) \in Seq(Chars)
    <3>1. value \in Seq(Chars)
      BY Zenon DEF PInv, LexerOK
    <3> QED BY <3>1
  <2>2. result = "reading" /\ WordBegun
    BY Zenon DEF InitialWhitespace, Quoted, Comment, Normal, Get, RInv
  <2> QED BY <2>1, <2>2
<1>2. ASSUME NEW next, NEW text, Continue(next, text),
             /\ next = "initial_whitespace" => text = <<>>
             /\ next = "single_quote" => Opens(text, "'")
             /\ next = "double_quote" => Opens(text, "\"")
             /\ next = "normal" => Bare(text)
      PROVE  RInv'
  <2>1. UNCHANGED tree /\ result' = result /\ state' = next /\ value' = text
    BY <1>2 DEF Continue
  <2>2. WordBegun'
    BY <1>2, <2>1, Zenon DEF WordBegun
  <2> QED BY <2>1, <2>2, TreeKept, Zenon
<1>3. ASSUME NEW type \in TokenTypes, NEW text \in Seq(Chars), NEW back,
             type = "NORMAL" => WellFormed(text), Return(type, text, back)
      PROVE  RInv'
  BY <1>1, <1>3, ParseRoundTrip, Zenon
<1>4. /\ DOMAIN Punctuation = {";", "{", "}"} /\ "NORMAL" \in TokenTypes
      /\ \A p \in DOMAIN Punctuation : Punctuation[p] \in TokenTypes /\ Punctuation[p] # "NORMAL"
  BY DEF Punctuation, TokenTypes
<1>5. CASE InitialWhitespace(c)
  <2>1. value = <<>>
    BY <1>1, <1>5 DEF InitialWhitespace, WordBegun
  <2>2. CASE c \in DOMAIN Punctuation /\ Return(Punctuation[c], <<c>>, NoChar)
    BY <1>1, <1>3, <1>4, <2>2, Zenon
  <2>3. CASE c = "#" /\ Continue("comment", <<c>>)
    BY <1>2, <2>3
  <2>4. CASE c = "\"" /\ Continue("double_quote", <<c>>)
    <3>1. Opens(<<c>>, "\"")
      BY <2>4, OpensAlone, Zenon
    <3> QED BY <1>2, <2>4, <3>1
  <2>5. CASE c = "'" /\ Continue("single_quote", <<c>>)
    <3>1. Opens(<<c>>, "'")
      BY <2>5, OpensAlone, Zenon
    <3> QED BY <1>2, <2>5, <3>1
  <2>6. CASE c \in Whitespace /\ Continue("initial_whitespace", value)
    BY <1>2, <2>1, <2>6
  <2>7. CASE c = "a" /\ Continue("normal", Append(value, c))
    <3>1. c \notin Separators
      BY <1>4, <2>7 DEF Separators
    <3>2. Bare(Append(value, c))
      BY <1>1, <2>1, <2>7, <3>1, BareGoesOn
    <3> QED BY <1>2, <2>7, <3>2
  <2> QED BY <1>5, <2>2, <2>3, <2>4, <2>5, <2>6, <2>7, Zenon DEF InitialWhitespace
<1>6. CASE Quoted(c)
  <2>1. PICK q \in Quotes : /\ q = IF state = "single_quote" THEN "'" ELSE "\""
                            /\ Opens(value, q)
    BY <1>1, <1>6 DEF Quoted, WordBegun, Quotes
  <2>2. IF c = q THEN WellFormed(Append(value, c)) ELSE Opens(Append(value, c), q)
    BY <1>1, <2>1, QuoteGoesOn, Zenon
  <2>3. CASE c = q
    <3>1. Return("NORMAL", Append(value, c), NoChar)
      BY <1>6, <2>1, <2>3, Zenon DEF Quoted
    <3> QED BY <1>1, <1>3, <1>4, <2>2, <2>3, <3>1, Zenon
  <2>4. CASE c # q
    <3>1. Continue(state, Append(value, c)) /\ state \in {"single_quote", "double_quote"}
      BY <1>6, <2>1, <2>4, Zenon DEF Quoted
    <3> QED BY <1>2, <2>1, <2>2, <2>4, <3>1
  <2> QED BY <2>3, <2>4
<1>7. CASE Comment(c)
  <2>1. CASE Continue("initial_whitespace", <<>>)
    BY <1>2, <2>1
  <2>2. CASE Continue("comment", Append(value, c))
    BY <1>2, <2>2
  <2> QED BY <1>7, <2>1, <2>2, Zenon DEF Comment
<1>8. CASE Normal(c)
  <2>1. Bare(value)
    BY <1>1, <1>8 DEF Normal, WordBegun
  <2>2. CASE c \in Separators
    <3>1. Return("NORMAL", value, c)
      BY <1>8, <2>2, Zenon DEF Normal, Separators
    <3>2. WellFormed(value)
      BY <1>1, <2>1, BareIsWellFormed, Zenon
    <3> QED BY <1>1, <1>3, <1>4, <3>1, <3>2, Zenon
  <2>3. CASE c \notin Separators
    <3>1. Continue("normal", Append(value, c))
      BY <1>8, <2>3, Zenon DEF Normal, Separators
    <3>2. Bare(Append(value, c))
      <4>1. value # <<>>
        BY <2>1 DEF Bare
      <4> QED BY <1>1, <2>1, <2>3, <4>1, BareGoesOn
    <3> QED BY <1>2, <3>1, <3>2
  <2> QED BY <2>2, <2>3
<1> QED
  BY <1>5, <1>6, <1>7, <1>8

LEMMA RoundTripInvariance == ParserSpec => []RInv
<1>1. ParserInit => RInv
  <2> SUFFICES ASSUME ParserInit
               PROVE  RInv
    OBVIOUS
  <2>1. TreeTells
    BY TellsInitially
  <2>2. blocks = << <<>> >> /\ state = "initial_whitespace" /\ value = <<>>
    BY DEF ParserInit
  <2>3. WordsFit(blocks)
    BY <2>2 DEF WordsFit, BlockFits
  <2>4. WordBegun
    BY <2>2 DEF WordBegun
  <2> QED BY <2>1, <2>3, <2>4, Zenon DEF RInv
<1>2. PInv /\ RInv /\ [ParserNext]_parserVars => RInv'
  <2> SUFFICES ASSUME PInv, RInv, [ParserNext]_parserVars
               PROVE  RInv'
    OBVIOUS
  <2>1. CASE \E c \in Chars : InitialWhitespace(c) \/ Quoted(c) \/ Comment(c) \/ Normal(c)
    BY <2>1, RoundTripReadStep
  <2>2. ASSUME UNCHANGED <<lexer, tree>>, result = "rejected" => result' = "rejected"
        PROVE  RInv'
    <3>1. UNCHANGED tree /\ state' = state /\ value' = value
      BY <2>2 DEF lexer
    <3>2. WordBegun'
      BY <3>1, Zenon DEF WordBegun, RInv
    <3> QED BY <2>2, <3>1, <3>2, TreeKept, Zenon
  <2>3. CASE OpenFile
    BY <2>2, <2>3 DEF OpenFile
  <2>4. CASE EndOfFile
    BY <2>2, <2>4 DEF EndOfFile
  <2>5. CASE ParserDone \/ UNCHANGED parserVars
    BY <2>2, <2>5 DEF ParserDone, parserVars
  <2> QED BY <2>1, <2>3, <2>4, <2>5, Zenon DEF ParserNext
<1> QED BY <1>1, <1>2, ParserInvariance, PTL DEF ParserSpec

\* Printing the tree of a file that Parse accepts (NginxConfig::ToString,
\* config_parser.cc:23-52) gives the tokens of the file back, and every word
\* in it is one that ParseToken cuts out whole (config_parser.cc:71-151),
\* however long the file is and however deep its blocks are.
THEOREM ParserRoundTrip == ParserSpec => []RoundTrip
<1>1. PInv /\ GInv /\ RInv => RoundTrip
  <2> SUFFICES ASSUME PInv, GInv, RInv, result = "accepted"
               PROVE  /\ ConfigToString = tokens
                      /\ \A b \in DOMAIN blocks : \A k \in DOMAIN blocks[b] :
                           \A w \in ToSet(blocks[b][k].words) : WellFormed(w)
    BY Zenon DEF RoundTrip
  <2>1. TreeTells /\ WordsFit(blocks) /\ MayStop
    BY DEF RInv, GInv
  <2>2. Len(config_stack) = 1 /\ last_token_type # "NORMAL"
    BY <2>1 DEF PInv, TreeInv, AccessesDefined, MayStop
  <2>3. PICK text \in BlockTexts, open \in Seq(Seq(TokenTypes)) :
          PrintedAs(blocks, config_stack, last_token_type, tokens, text, open)
    BY <2>1, Zenon DEF TreeTells, TellsTokens
  <2>4. PICK put : IsWhole(blocks, put) /\ put[1] = tokens
    BY <2>1, <2>2, <2>3, WholeAtEnd, Zenon DEF TreeTells
  <2>5. ConfigToString = tokens
    BY <2>4, ToStringFinds, Zenon
  <2>6. \A b \in DOMAIN blocks : \A k \in DOMAIN blocks[b] :
          \A w \in ToSet(blocks[b][k].words) : WellFormed(w)
    BY <2>1, Zenon DEF WordsFit, BlockFits, StatementFits
  <2> QED BY <2>5, <2>6
<1> QED
  BY <1>1, ParserInvariance, GrammarInvariance, RoundTripInvariance, PTL
=============================================================================
