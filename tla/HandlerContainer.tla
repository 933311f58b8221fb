-------------------------- MODULE HandlerContainer --------------------------
(***************************************************************************)
(* Class HandlerContainer: which handler answers which uri.                *)
(*                                                                         *)
(* A string is a sequence of character codes.  A regular expression is     *)
(* known by the set of strings in which boost::regex_search finds it; one  *)
(* outside the domain of Search does not compile.                          *)
(***************************************************************************)
EXTENDS Naturals, Sequences, SequencesExt, FiniteSetsExt

CONSTANTS
  Strings,     \* the prefixes and the uris
  Slash,       \* the character '/'
  Regexes,     \* the regular expressions a config may give
  Search,      \* for each that compiles, the strings it is found in
  Handlers,    \* RequestHandler objects
  NoHandler    \* nullptr

ASSUME StringsAssumption == Slash \in Nat /\ Strings \subseteq Seq(Nat)
ASSUME SearchAssumption == DOMAIN Search \subseteq Regexes
ASSUME NoHandlerAssumption == NoHandler \notin Handlers

VARIABLES
  paths_,        \* from each plain prefix to its handler
  regex_paths_   \* the regex entries, in the order they were added

container == <<paths_, regex_paths_>>

RegexEntry == [prefix : Strings, regex : Regexes, handler : Handlers]

EmptyContainer ==
  /\ paths_ = <<>>
  /\ regex_paths_ = <<>>

-----------------------------------------------------------------------------
\* Variant: operator[] in the place of insert.
AddPath_Overwrites(prefix, handler) ==
  /\ paths_' = [p \in DOMAIN paths_ \cup {prefix} |->
                  IF p = prefix THEN handler ELSE paths_[p]]
  /\ UNCHANGED regex_paths_

\* A duplicate prefix is refused; the map is left as it was.
AddPath(prefix, handler) ==
  /\ paths_' = [p \in DOMAIN paths_ \cup {prefix} |->
                  IF p \in DOMAIN paths_ THEN paths_[p] ELSE handler]
  /\ UNCHANGED regex_paths_

\* A regular expression that does not compile is refused.
AddRegexPath(prefix, regex, handler) ==
  /\ regex_paths_' =
       IF regex \in DOMAIN Search
       THEN Append(regex_paths_,
                   [prefix |-> prefix, regex |-> regex, handler |-> handler])
       ELSE regex_paths_
  /\ UNCHANGED paths_

-----------------------------------------------------------------------------
\* The longest of some prefixes of one string.
Longest(prefixes) == CHOOSE p \in prefixes : \A q \in prefixes : Len(q) <= Len(p)

\* Variant: path.find(s) compared with npos instead of 0.
RegexPrefixes_Anywhere(path) ==
  {p \in {e.prefix : e \in ToSet(regex_paths_)} :
     \E i \in 1..(Len(path) + 1) : IsPrefix(p, SubSeq(path, i, Len(path)))}

RegexPrefixes(path) ==
  {p \in {e.prefix : e \in ToSet(regex_paths_)} : IsPrefix(p, path)}

\* The entries that the second scan accepts.
RegexMatches(path) ==
  {i \in DOMAIN regex_paths_ :
     /\ regex_paths_[i].prefix \in RegexPrefixes(path)
     /\ regex_paths_[i].prefix = Longest(RegexPrefixes(path))
     /\ path \in Search[regex_paths_[i].regex]}

\* The uri up to its last slash, or all of it.
Directory(uri) ==
  LET slash == SelectLastInSeq(uri, LAMBDA c : c = Slash)
  IN  IF slash = 0 THEN uri ELSE SubSeq(uri, 1, slash - 1)

\* Variant: only a prefix that ends where the directory does.
Mounts_WholeDirectory(uri) == {p \in DOMAIN paths_ : p = Directory(uri)}

\* The registered prefixes that get_prefix compares.
Mounts(uri) == {p \in DOMAIN paths_ : IsPrefix(p, Directory(uri))}

get_prefix(uri) == IF Mounts(uri) = {} THEN <<>> ELSE Longest(Mounts(uri))

PlainAnswer(p) == [pref |-> <<p>>, handler |-> paths_[p]]
RegexAnswer(e) == [pref |-> <<e.prefix, e.regex>>, handler |-> e.handler]
NoAnswer == [pref |-> <<>>, handler |-> NoHandler]

Find(path) ==
  IF RegexMatches(path) # {}
  THEN RegexAnswer(regex_paths_[Min(RegexMatches(path))])
  ELSE IF path \in DOMAIN paths_ THEN PlainAnswer(path)
  ELSE IF get_prefix(path) \in DOMAIN paths_ THEN PlainAnswer(get_prefix(path))
  ELSE NoAnswer

\* The order of std::map on strings.
Before(s, t) ==
  \/ IsStrictPrefix(s, t)
  \/ \E i \in DOMAIN s \cap DOMAIN t :
       /\ s[i] < t[i]
       /\ SubSeq(s, 1, i - 1) = SubSeq(t, 1, i - 1)

\* The strings of a set as an std::map yields them.
InOrder(strings) ==
  CHOOSE s \in [1..Cardinality(strings) -> strings] :
    \A i, j \in DOMAIN s : i < j => Before(s[i], s[j])

\* Variant: only the map is listed.
GetList_PlainOnly ==
  LET plain == InOrder(DOMAIN paths_)
  IN  [i \in DOMAIN plain |-> <<plain[i]>>]

\* What the status page lists: the plain prefixes in order, then the entries
\* of the regex list as they come.
GetList ==
  LET plain == InOrder(DOMAIN paths_)
  IN  [i \in DOMAIN plain |-> <<plain[i]>>]
        \o [i \in DOMAIN regex_paths_ |->
              <<regex_paths_[i].prefix, regex_paths_[i].regex>>]

-----------------------------------------------------------------------------
\* The types of the map and of the list.
ContainerTypeOK ==
  /\ DOMAIN paths_ \subseteq Strings
  /\ \A p \in DOMAIN paths_ : paths_[p] \in Handlers
  /\ \A i \in DOMAIN regex_paths_ : regex_paths_[i] \in RegexEntry

\* A uri inside a registered directory is never answered for a shorter
\* prefix: the part of "longest matching prefix" that get_prefix keeps.
DirectoryReached ==
  \A p \in DOMAIN paths_, uri \in Strings :
    IsPrefix(Append(p, Slash), uri) \/ uri = p =>
      \/ RegexMatches(uri) # {}
      \/ Find(uri).handler # NoHandler /\ Len(Find(uri).pref[1]) >= Len(p)

\* The prefix that a registration has added.
AddedPrefixes ==
  (DOMAIN paths_' \ DOMAIN paths_)
    \cup {regex_paths_'[i].prefix : i \in DOMAIN regex_paths_' \ DOMAIN regex_paths_}

IsRegexAnswer(a) == Len(a.pref) = 2

\* A registration changes only what answers the uris that begin with its
\* prefix, and there it displaces only a shorter prefix, or a plain one by a
\* regex: whatever order a config lists its handlers in, the earlier of two
\* regexes of one prefix and any regex before any plain path keep their uris.
RegistrationIsolated ==
  [][\A uri \in Strings : Find(uri)' # Find(uri) =>
       \E p \in AddedPrefixes :
         /\ IsPrefix(p, uri)
         /\ IsRegexAnswer(Find(uri)) => regex_paths_' # regex_paths_
         /\ Find(uri).handler # NoHandler
              /\ (IsRegexAnswer(Find(uri)) \/ regex_paths_' = regex_paths_) =>
                Len(p) > Len(Find(uri).pref[1])]_container

\* request_handler.h:74 of Find: "longest matching prefix match".  No
\* registered plain prefix of the uri is longer than the one answered for.
LongestPrefixMatch ==
  \A uri \in Strings, p \in DOMAIN paths_ :
    IsPrefix(p, uri) =>
      \/ RegexMatches(uri) # {}
      \/ Find(uri).handler # NoHandler /\ Len(Find(uri).pref[1]) >= Len(p)
=============================================================================
