---------------------------- MODULE ConfigParser ----------------------------
(***************************************************************************)
(* Class NginxConfigParser: ParseToken reads the characters of a config    *)
(* file and Parse builds the tree of statements from the tokens.  One step *)
(* is one iteration of the loop of ParseToken, with the iteration of the   *)
(* loop of Parse that a completed token sets off.                          *)
(*                                                                         *)
(* "a" stands for any character without a meaning of its own, "space" also *)
(* for a tab.  The NginxConfig objects are numbered in the order they are  *)
(* created; 1 is the config that the caller receives.                      *)
(***************************************************************************)
EXTENDS Naturals, Sequences, SequencesExt

CONSTANTS
  MaxInput,  \* the characters of a file (a bound)
  NoChar     \* no character has been put back

Chars == {"a", "space", "newline", "return", ";", "{", "}", "#", "\"", "'"}

ASSUME ParserAssumption == MaxInput \in Nat /\ NoChar \notin Chars

VARIABLES
  read,             \* the characters taken from the file
  unread,           \* the character that ParseToken has put back
  state,            \* ParseToken: state
  value,            \* ParseToken: the token read so far
  blocks,           \* the statements_ of each NginxConfig
  config_stack,     \* Parse: config_stack
  last_token_type,  \* Parse: last_token_type
  bracket_count,    \* Parse: bracket_count
  tokens,           \* history: the types of the tokens, a rejected one last,
                    \* comments left out
  result            \* of Parse, or how far it is

lexer == <<read, unread, state, value>>
tree == <<blocks, config_stack, last_token_type, bracket_count, tokens>>
parserVars == <<lexer, tree, result>>

Whitespace == {"space", "newline", "return"}
LineEnds == {"newline", "return"}
Quotes == {"\"", "'"}
Punctuation ==
  [c \in {";", "{", "}"} |->
     CASE c = ";" -> "STATEMENT_END" [] c = "{" -> "START_BLOCK" [] c = "}" -> "END_BLOCK"]
LexerStates == {"initial_whitespace", "single_quote", "double_quote", "comment", "normal"}
\* Parse returns TRUE for the first, FALSE for the others.
Results == {"accepted", "rejected", "incomplete", "unreadable"}
TokenTypes == {"NORMAL", "START_BLOCK", "END_BLOCK", "STATEMENT_END"}

\* A statement; child is the number of its child_block_, 0 for none.
Statement == [words : Seq(Seq(Chars)), child : Nat]

ParserInit ==
  /\ read = 0 /\ unread = NoChar
  /\ state = "initial_whitespace" /\ value = <<>>
  /\ blocks = << <<>> >> /\ config_stack = <<1>>
  /\ last_token_type = "START" /\ bracket_count = 0
  /\ tokens = <<>>
  /\ result = "closed"

\* Parse(file_name): the file may not open.
OpenFile ==
  /\ result = "closed"
  /\ result' \in {"reading", "unreadable"}
  /\ UNCHANGED <<lexer, tree>>

-----------------------------------------------------------------------------
\* Parse

top == Last(config_stack)

Reject(type) ==
  /\ result' = "rejected"
  /\ tokens' = Append(tokens, type)
  /\ UNCHANGED <<blocks, config_stack, last_token_type, bracket_count>>

Accept(type) ==
  /\ last_token_type' = type
  /\ tokens' = Append(tokens, type)
  /\ UNCHANGED result

\* Variant: every word starts a statement.
AddWord_Alone(word) ==
  /\ blocks' = [blocks EXCEPT ![top] = Append(@, [words |-> <<word>>, child |-> 0])]
  /\ Accept("NORMAL")
  /\ UNCHANGED <<config_stack, bracket_count>>

AddWord(word) ==
  LET statements == blocks[top]
      n == Len(statements)
  IN  /\ blocks' =
           [blocks EXCEPT ![top] =
              IF last_token_type # "NORMAL"
              THEN Append(statements, [words |-> <<word>>, child |-> 0])
              ELSE [statements EXCEPT ![n].words = Append(statements[n].words, word)]]
      /\ Accept("NORMAL")
      /\ UNCHANGED <<config_stack, bracket_count>>

EndStatement ==
  IF last_token_type = "NORMAL"
  THEN Accept("STATEMENT_END") /\ UNCHANGED <<blocks, config_stack, bracket_count>>
  ELSE Reject("STATEMENT_END")

\* Variant: any token may stand before the bracket.
StartBlock_Anywhere ==
  /\ blocks' = Append(IF blocks[top] = <<>> THEN blocks
                      ELSE [blocks EXCEPT ![top][Len(blocks[top])].child = Len(blocks) + 1],
                      <<>>)
  /\ config_stack' = Append(config_stack, Len(blocks) + 1)
  /\ bracket_count' = bracket_count + 1
  /\ Accept("START_BLOCK")

StartBlock ==
  IF last_token_type = "NORMAL"
  THEN /\ blocks' =
            Append([blocks EXCEPT ![top][Len(blocks[top])].child = Len(blocks) + 1], <<>>)
       /\ config_stack' = Append(config_stack, Len(blocks) + 1)
       /\ bracket_count' = bracket_count + 1
       /\ Accept("START_BLOCK")
  ELSE Reject("START_BLOCK")

\* Variant: a bracket without an open block is let through.
EndBlock_Unchecked ==
  IF last_token_type \in {"STATEMENT_END", "END_BLOCK", "START_BLOCK"}
  THEN /\ config_stack' = Front(config_stack)
       /\ bracket_count' = bracket_count - 1
       /\ Accept("END_BLOCK")
       /\ UNCHANGED blocks
  ELSE Reject("END_BLOCK")

\* Variant: the block is left only by the bracket count.
EndBlock_NoPop ==
  IF last_token_type \in {"STATEMENT_END", "END_BLOCK", "START_BLOCK"} /\ bracket_count > 0
  THEN /\ bracket_count' = bracket_count - 1
       /\ Accept("END_BLOCK")
       /\ UNCHANGED <<blocks, config_stack>>
  ELSE Reject("END_BLOCK")

EndBlock ==
  IF last_token_type \in {"STATEMENT_END", "END_BLOCK", "START_BLOCK"} /\ bracket_count > 0
  THEN /\ config_stack' = Front(config_stack)
       /\ bracket_count' = bracket_count - 1
       /\ Accept("END_BLOCK")
       /\ UNCHANGED blocks
  ELSE Reject("END_BLOCK")

Parse(type, text) ==
  CASE type = "NORMAL" -> AddWord(text)
    [] type = "STATEMENT_END" -> EndStatement
    [] type = "START_BLOCK" -> StartBlock
    [] type = "END_BLOCK" -> EndBlock

-----------------------------------------------------------------------------
\* ParseToken

Get(c) ==
  /\ result = "reading"
  /\ IF unread = NoChar
     THEN read < MaxInput /\ read' = read + 1
     ELSE c = unread /\ UNCHANGED read

\* The loop goes on.
Continue(next, text) ==
  /\ state' = next /\ value' = text
  /\ unread' = NoChar
  /\ UNCHANGED <<tree, result>>

\* ParseToken returns a token; back has been put back.
Return(type, text, back) ==
  /\ state' = "initial_whitespace" /\ value' = <<>>
  /\ unread' = back
  /\ Parse(type, text)

InitialWhitespace(c) ==
  /\ state = "initial_whitespace" /\ Get(c)
  /\ \/ c \in DOMAIN Punctuation /\ Return(Punctuation[c], <<c>>, NoChar)
     \/ c = "#" /\ Continue("comment", <<c>>)
     \/ c = "\"" /\ Continue("double_quote", <<c>>)
     \/ c = "'" /\ Continue("single_quote", <<c>>)
     \/ c \in Whitespace /\ Continue("initial_whitespace", value)
     \/ c = "a" /\ Continue("normal", Append(value, c))

Quoted(c) ==
  /\ state \in {"single_quote", "double_quote"} /\ Get(c)
  /\ IF c = (IF state = "single_quote" THEN "'" ELSE "\"")
     THEN Return("NORMAL", Append(value, c), NoChar)
     ELSE Continue(state, Append(value, c))

\* Parse skips the comment; the text of the next token starts afresh.
Comment(c) ==
  /\ state = "comment" /\ Get(c)
  /\ IF c \in LineEnds
     THEN Continue("initial_whitespace", <<>>)
     ELSE Continue("comment", Append(value, c))

\* A carriage return does not end a word.
Normal(c) ==
  /\ state = "normal" /\ Get(c)
  /\ IF c \in {"space", "newline"} \cup DOMAIN Punctuation
     THEN Return("NORMAL", value, c)
     ELSE Continue("normal", Append(value, c))

\* A quoted token without its end is an error.  A word or a comment that the
\* end of the file cuts off is dropped: the token is EOF.
EndOfFile ==
  /\ result = "reading" /\ unread = NoChar
  /\ result' = IF /\ state \notin {"single_quote", "double_quote"}
                  /\ last_token_type \in {"STATEMENT_END", "END_BLOCK"}
                  /\ bracket_count = 0
               THEN "accepted" ELSE "incomplete"
  /\ UNCHANGED <<lexer, tree>>

ParserDone == result \in Results /\ UNCHANGED parserVars

ParserNext ==
  \/ OpenFile
  \/ \E c \in Chars : InitialWhitespace(c) \/ Quoted(c) \/ Comment(c) \/ Normal(c)
  \/ EndOfFile
  \/ ParserDone

ParserSpec == ParserInit /\ [][ParserNext]_parserVars

-----------------------------------------------------------------------------
\* NginxConfig::ToString, a token list in the place of the text.  The blocks
\* inside a block have higher numbers, so the recursion ends.
ConfigToString ==
  LET StatementToString(st, block) ==
        [k \in DOMAIN st.words |-> "NORMAL"] \o
          IF st.child = 0 THEN <<"STATEMENT_END">>
          ELSE <<"START_BLOCK">> \o block[st.child] \o <<"END_BLOCK">>
      text[b \in DOMAIN blocks] ==
        FlattenSeq([k \in DOMAIN blocks[b] |-> StatementToString(blocks[b][k], text)])
  IN  text[1]

-----------------------------------------------------------------------------
\* The types of the locals of ParseToken and Parse, and of the tree.
ParserTypeOK ==
  /\ read \in 0..MaxInput
  /\ unread \in Chars \cup {NoChar}
  /\ state \in LexerStates
  /\ value \in Seq(Chars)
  /\ blocks \in Seq(Seq(Statement))
  /\ config_stack \in Seq(DOMAIN blocks)
  /\ last_token_type \in TokenTypes \cup {"START"}
  /\ bracket_count \in Nat
  /\ tokens \in Seq(TokenTypes)
  /\ result \in {"closed", "reading"} \cup Results

\* Parse never asks an empty stack for its top nor an empty list for its last
\* statement, both undefined behaviour: the bracket count that it checks and
\* the stack that it uses stay in step.
AccessesDefined ==
  /\ Len(config_stack) = bracket_count + 1
  /\ last_token_type = "NORMAL" => blocks[top] # <<>>

\* The grammar:  list ::= { word word* ( ";" | "{" list "}" ) }
\* ends[b] holds the places where a list that starts at b may end.
IsStatementList(s) ==
  LET ends[b \in 1..(Len(s) + 1)] ==
        {e \in b..(Len(s) + 1) :
           e = b \/ \E m \in b..(e - 2), n \in b..(e - 1) :
             /\ \A k \in b..m : s[k] = "NORMAL"
             /\ \/ n = m + 1 /\ s[n] = "STATEMENT_END"
                \/ /\ s[m + 1] = "START_BLOCK" /\ s[n] = "END_BLOCK"
                   /\ m + 1 < n /\ n \in ends[m + 2]
             /\ e \in ends[n + 1]}
  IN  Len(s) + 1 \in ends[1]

\* Some tokens more make a list of it.
Completable(s) ==
  \E d \in 0..Len(s) :
    LET close == [k \in 1..d |-> "END_BLOCK"]
    IN  IsStatementList(s \o close) \/ IsStatementList(s \o <<"STATEMENT_END">> \o close)

\* Parse accepts the token sequences of the grammar, except the empty one, and
\* no others, and gives up at a token only if nothing after it could make the
\* file valid (config_parser.h:55).
AcceptsGrammar ==
  /\ result = "accepted" => tokens # <<>> /\ IsStatementList(tokens)
  /\ result = "reading" => Completable(tokens)
  /\ result = "rejected" => ~ Completable(tokens)
  /\ result = "incomplete" =>
       \/ state \in {"single_quote", "double_quote"}
       \/ tokens = <<>> \/ ~ IsStatementList(tokens)

\* A word has no separator in it, and a quoted word ends at the first quote
\* of the kind that it starts with.
WellFormed(w) ==
  IF w[1] \in Quotes
  THEN /\ Len(w) > 1 /\ Last(w) = w[1]
       /\ \A m \in 2..(Len(w) - 1) : w[m] # w[1]
  ELSE w[1] = "a" /\ ToSet(w) \cap ({"space", "newline"} \cup DOMAIN Punctuation) = {}

\* The tree given to the caller says what the file said: its words are neither
\* torn nor run together, and printing it gives the tokens back
\* (config_parser.cc:107-139).
RoundTrip ==
  result = "accepted" =>
    /\ ConfigToString = tokens
    /\ \A b \in DOMAIN blocks : \A k \in DOMAIN blocks[b] :
         \A w \in ToSet(blocks[b][k].words) : WellFormed(w)
=============================================================================
