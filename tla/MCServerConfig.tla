--------------------------- MODULE MCServerConfig ---------------------------
(***************************************************************************)
(* Instances of ServerConfig: every config of up to MaxStatements          *)
(* statements out of some two dozen, good and bad.                         *)
(***************************************************************************)
EXTENDS ServerConfig

CONSTANTS AnyText, EndsInA, Unbalanced  \* ".*", "a$", "[a"

CONSTANT MaxStatements  \* the statements of a config (a bound)

SlashCode == 47
LetterA == 97

Root == <<SlashCode>>
RootA == <<SlashCode, LetterA>>

MCStrings == SeqOf({SlashCode, LetterA}, 4)
MCRegexes == {AnyText, EndsInA, Unbalanced}
MCSearch ==
  [r \in {AnyText, EndsInA} |->
     {s \in MCStrings : r = EndsInA => Len(s) > 0 /\ s[Len(s)] = LetterA}]

Number(key, v) == [key |-> key, value |-> v]
Default(type) == [key |-> "default", type |-> type]
Path(p, type) == [key |-> "path", prefix |-> p, type |-> type]
PathRegex(p, r, type) == [key |-> "path_regex", prefix |-> p, regex |-> r, type |-> type]

MCStatements ==
  {Number("port", v) : v \in {8080, 0, 65536, Word}}
    \cup {Number("threads", v) : v \in {0, 2, 129, -1, Word}}
    \cup {Default(t) : t \in {"EchoHandler", "StatusHandler", "NoSuchHandler"}}
    \cup {Path(RootA, t) : t \in Types}
    \cup {Path(p, "EchoHandler") : p \in {Root, RootA \o Root, RootA \o RootA}}
    \cup {PathRegex(RootA, AnyText, "StaticHandler"), PathRegex(RootA, EndsInA, "EchoHandler"),
          PathRegex(Root, EndsInA, "StatusHandler"),
          PathRegex(RootA, Unbalanced, "EchoHandler"), PathRegex(Root, AnyText, "NoSuchHandler")}
    \cup {[key |-> "other"]}

MCConfigs == SeqOf(MCStatements, MaxStatements)
=============================================================================
