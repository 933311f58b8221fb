------------------------- MODULE ServerConfigProofs -------------------------
(***************************************************************************)
(* What start-up and HandlerContainer promise of every config and every    *)
(* uri: the prefix that a handler was given fits the uris it is asked for, *)
(* and a uri inside a mounted directory reaches a handler.                 *)
(***************************************************************************)
EXTENDS ServerConfig, SequenceLemmas, FiniteSetTheorems

-----------------------------------------------------------------------------
\* Prefixes

\* What it is for one string to be a prefix of another, character by character.
LEMMA PrefixElements ==
  ASSUME NEW s \in Seq(Nat), NEW t \in Seq(Nat)
  PROVE  IsPrefix(s, t) <=> /\ Len(s) <= Len(t)
                            /\ \A k \in 1..Len(s) : s[k] = t[k]
<1>1. Len(s) \in Nat /\ Len(t) \in Nat
  OBVIOUS
<1>2. CASE Len(s) <= Len(t)
  <2>1. /\ SubSeq(s, 1, Len(s)) \in Seq(Nat) /\ Len(SubSeq(s, 1, Len(s))) = Len(s)
        /\ \A k \in 1..Len(s) : SubSeq(s, 1, Len(s))[k] = s[k]
    BY <1>1
  <2>2. /\ SubSeq(t, 1, Len(s)) \in Seq(Nat) /\ Len(SubSeq(t, 1, Len(s))) = Len(s)
        /\ \A k \in 1..Len(s) : SubSeq(t, 1, Len(s))[k] = t[k]
    BY <1>1, <1>2
  <2>3. SubSeq(s, 1, Len(s)) = SubSeq(t, 1, Len(s))
          <=> \A k \in 1..Len(s) : SubSeq(s, 1, Len(s))[k] = SubSeq(t, 1, Len(s))[k]
    BY <2>1, <2>2, SeqEqual
  <2> QED
    BY <1>2, <2>1, <2>2, <2>3 DEF IsPrefix
<1>3. CASE ~ (Len(s) <= Len(t))
  BY <1>3 DEF IsPrefix
<1> QED
  BY <1>2, <1>3

LEMMA PrefixTransitive ==
  ASSUME NEW s \in Seq(Nat), NEW t \in Seq(Nat), NEW u \in Seq(Nat),
         IsPrefix(s, t), IsPrefix(t, u)
  PROVE  IsPrefix(s, u)
<1>1. /\ Len(s) <= Len(t) /\ Len(t) <= Len(u)
      /\ \A k \in 1..Len(s) : s[k] = t[k]
      /\ \A k \in 1..Len(t) : t[k] = u[k]
  BY PrefixElements
<1>2. Len(s) \in Nat /\ Len(t) \in Nat /\ Len(u) \in Nat
  OBVIOUS
<1>3. \A k \in 1..Len(s) : k \in 1..Len(t)
  BY <1>1, <1>2
<1>4. Len(s) <= Len(u) /\ \A k \in 1..Len(s) : s[k] = u[k]
  BY <1>1, <1>2, <1>3
<1> QED
  BY <1>4, PrefixElements

LEMMA EmptyIsPrefix ==
  ASSUME NEW t \in Seq(Nat)
  PROVE  IsPrefix(<<>>, t)
<1> DEFINE e == <<>>
<1>1. Len(e) = 0 /\ e \in Seq(Nat) /\ Len(t) \in Nat
  OBVIOUS
<1> HIDE DEF e
<1>2. Len(e) <= Len(t) /\ \A j \in 1..Len(e) : e[j] = t[j]
  BY <1>1
<1>3. IsPrefix(e, t)
  BY <1>1, <1>2, PrefixElements
<1> QED
  BY <1>3 DEF e

\* Prefixes of one string have a longest.
LEMMA LongestExists ==
  ASSUME NEW s \in Seq(Nat), NEW P \in SUBSET Seq(Nat), P # {},
         \A p \in P : IsPrefix(p, s)
  PROVE  Longest(P) \in P /\ \A q \in P : Len(q) <= Len(Longest(P))
<1> DEFINE Lengths == {Len(p) : p \in P}
<1>1. Lengths \in SUBSET (0..Len(s)) /\ Lengths # {} /\ Len(s) \in Nat
  <2>1. \A p \in P : Len(p) \in Nat /\ Len(p) <= Len(s)
    BY DEF IsPrefix
  <2>2. Len(s) \in Nat
    OBVIOUS
  <2>3. \A p \in P : Len(p) \in 0..Len(s)
    BY <2>1, <2>2
  <2>4. \A k \in Lengths : k \in 0..Len(s)
    BY <2>3
  <2>5. Lengths # {}
    OBVIOUS
  <2> HIDE DEF Lengths
  <2> QED
    BY <2>2, <2>4, <2>5
<1>2. PICK m \in Lengths : \A k \in Lengths : k <= m
  BY <1>1, LargestExists
<1>3. PICK p \in P : Len(p) = m
  BY <1>2
<1>4. \A q \in P : Len(q) <= Len(p)
  BY <1>2, <1>3
<1> QED
  BY <1>4 DEF Longest

\* A uri is cut before its last slash, so that whatever directory it is in is
\* in what remains.
LEMMA DirectoryOf ==
  ASSUME NEW uri \in Seq(Nat)
  PROVE  /\ Directory(uri) \in Seq(Nat)
         /\ IsPrefix(Directory(uri), uri)
         /\ \A p \in Seq(Nat) : IsPrefix(Append(p, Slash), uri) => IsPrefix(p, Directory(uri))
<1> DEFINE Slashes == {k \in 1..Len(uri) : uri[k] = Slash}
           last == IF Slashes # {} THEN Max(Slashes) ELSE 0
<1>1. Directory(uri) = IF last = 0 THEN uri ELSE SubSeq(uri, 1, last - 1)
  BY DEF Directory, SelectLastInSeq
<1>2. Len(uri) \in Nat
  OBVIOUS
<1>3. last \in 0..Len(uri) /\ \A k \in Slashes : k <= last
  <2>1. CASE Slashes = {}
    BY <1>2, <2>1
  <2>2. CASE Slashes # {}
    <3>1. Slashes \in SUBSET (0..Len(uri))
      BY <1>2
    <3>2. \E m \in Slashes : \A k \in Slashes : k <= m
      BY <1>2, <2>2, <3>1, LargestExists
    <3>3. \E m \in Slashes : \A k \in Slashes : m >= k
      BY <3>1, <3>2
    <3>4. Max(Slashes) \in Slashes /\ \A k \in Slashes : Max(Slashes) >= k
      BY <3>3 DEF Max
    <3> QED
      BY <1>2, <2>2, <3>1, <3>4
  <2> QED
    BY <2>1, <2>2
<1> HIDE DEF last
<1>4. /\ Directory(uri) \in Seq(Nat)
      /\ Len(Directory(uri)) = IF last = 0 THEN Len(uri) ELSE last - 1
      /\ \A k \in 1..Len(Directory(uri)) : Directory(uri)[k] = uri[k]
  BY <1>1, <1>2, <1>3
<1>5. IsPrefix(Directory(uri), uri)
  BY <1>2, <1>3, <1>4, PrefixElements
<1>6. ASSUME NEW p \in Seq(Nat), IsPrefix(Append(p, Slash), uri)
      PROVE  IsPrefix(p, Directory(uri))
  <2>1. /\ Append(p, Slash) \in Seq(Nat) /\ Len(Append(p, Slash)) = Len(p) + 1 /\ Len(p) \in Nat
        /\ \A k \in 1..Len(p) : Append(p, Slash)[k] = p[k]
        /\ Append(p, Slash)[Len(p) + 1] = Slash
    BY StringsAssumption
  <2>2. Len(p) + 1 <= Len(uri) /\ \A k \in 1..(Len(p) + 1) : Append(p, Slash)[k] = uri[k]
    <3> DEFINE mount == Append(p, Slash)
    <3>1. mount \in Seq(Nat) /\ Len(mount) = Len(p) + 1
      BY <2>1
    <3>2. IsPrefix(mount, uri)
      BY <1>6
    <3> HIDE DEF mount
    <3>3. Len(mount) <= Len(uri) /\ \A k \in 1..Len(mount) : mount[k] = uri[k]
      BY <3>1, <3>2, PrefixElements, Zenon
    <3> QED
      BY <3>1, <3>3 DEF mount
  <2>3. Len(p) + 1 \in Slashes
    <3>1. Len(p) + 1 \in 1..Len(uri) /\ Len(p) + 1 \in 1..(Len(p) + 1)
      BY <1>2, <2>1, <2>2
    <3>2. uri[Len(p) + 1] = Slash
      BY <2>1, <2>2, <3>1, Zenon
    <3> QED
      BY <3>1, <3>2, Zenon
  <2>4. Len(p) <= Len(Directory(uri))
    BY <1>2, <1>3, <1>4, <2>1, <2>3
  <2>5. ASSUME NEW k \in 1..Len(p)
        PROVE  p[k] = Directory(uri)[k]
    <3>1. k \in 1..(Len(p) + 1) /\ k \in 1..Len(Directory(uri))
      BY <1>4, <2>1, <2>4
    <3> QED
      BY <1>4, <2>1, <2>2, <3>1
  <2> QED
    BY <1>4, <2>4, <2>5, PrefixElements
<1> QED
  BY <1>4, <1>5, <1>6
-----------------------------------------------------------------------------
\* Start-up

\* The containers and what it holds: each handler is under the prefix that its
\* Init was told.
HandlersPlaced ==
  /\ \A p \in DOMAIN paths_ : paths_[p].prefix_ = p
  /\ \A k \in DOMAIN regex_paths_ : regex_paths_[k].handler.prefix_ = regex_paths_[k].prefix

StartIInv ==
  /\ ConfigTypeOK
  /\ config \in Configs
  /\ regex_paths_ \in Seq(RegexEntry)
  /\ HandlersPlaced

LEMMA StartInit == ConfigInit => StartIInv
<1> SUFFICES ASSUME ConfigInit PROVE StartIInv
  OBVIOUS
<1>1. /\ paths_ = <<>> /\ regex_paths_ = <<>> /\ config \in Configs
      /\ at = 1 /\ port = 0 /\ initFailed = FALSE /\ phase = "parsing"
      /\ max_threads = 1 /\ numThreads = 0
  BY DEF ConfigInit, EmptyContainer
<1>2. Len(config) \in Nat
  BY <1>1, ConfigsAssumption
<1>3. DOMAIN paths_ = {} /\ DOMAIN regex_paths_ = {} /\ regex_paths_ \in Seq(RegexEntry)
  BY <1>1
<1>4. ContainerTypeOK /\ HandlersPlaced
  BY <1>3 DEF ContainerTypeOK, HandlersPlaced
<1>5. at \in 1..(Len(config) + 1)
  BY <1>1, <1>2
<1>6. /\ port \in Ports \cup {0} /\ initFailed \in BOOLEAN
      /\ phase \in Ended \cup {"parsing", "parsed", "constructed", "starting", "serving"}
      /\ max_threads \in Int /\ numThreads \in Nat
  <2>1. port \in Ports \cup {0} /\ initFailed \in BOOLEAN
    BY <1>1
  <2>2. phase \in Ended \cup {"parsing", "parsed", "constructed", "starting", "serving"}
    BY <1>1
  <2>3. max_threads \in Int /\ numThreads \in Nat
    BY <1>1
  <2> QED
    BY <2>1, <2>2, <2>3
<1> QED
  BY <1>1, <1>3, <1>4, <1>5, <1>6 DEF StartIInv, ConfigTypeOK

\* A handler that is mounted, or refused as a duplicate.
LEMMA PathMounted ==
  ASSUME StartIInv, NEW type \in Created, NEW prefix \in Strings, NEW hasStatus \in BOOLEAN,
         AddPath(prefix, MountedHandler(type, prefix, hasStatus))
  PROVE  ContainerTypeOK' /\ HandlersPlaced' /\ (regex_paths_ \in Seq(RegexEntry))'
<1> DEFINE h == MountedHandler(type, prefix, hasStatus)
<1>1. h \in Handlers /\ h.prefix_ = prefix
  BY HandlersAssumption DEF HandlerObjects, MountedHandler
<1> HIDE DEF h
<1>2. /\ paths_' = [p \in DOMAIN paths_ \cup {prefix} |->
                      IF p \in DOMAIN paths_ THEN paths_[p] ELSE h]
      /\ UNCHANGED regex_paths_
  BY DEF AddPath, h
<1>3. /\ DOMAIN paths_' = DOMAIN paths_ \cup {prefix}
      /\ \A p \in DOMAIN paths_' : paths_'[p] = IF p \in DOMAIN paths_ THEN paths_[p] ELSE h
  BY <1>2
<1>4. ContainerTypeOK /\ HandlersPlaced /\ regex_paths_ \in Seq(RegexEntry)
  BY DEF StartIInv, ConfigTypeOK
<1>5. ContainerTypeOK'
  BY <1>1, <1>2, <1>3, <1>4 DEF ContainerTypeOK
<1>6. HandlersPlaced'
  BY <1>1, <1>2, <1>3, <1>4 DEF HandlersPlaced
<1> QED
  BY <1>2, <1>4, <1>5, <1>6

\* A regular expression that is added, or does not compile.
LEMMA RegexMounted ==
  ASSUME StartIInv, NEW type \in Created, NEW prefix \in Strings, NEW regex \in Regexes,
         NEW hasStatus \in BOOLEAN,
         AddRegexPath(prefix, regex, MountedHandler(type, prefix, hasStatus))
  PROVE  ContainerTypeOK' /\ HandlersPlaced' /\ (regex_paths_ \in Seq(RegexEntry))'
<1> DEFINE h == MountedHandler(type, prefix, hasStatus)
           e == [prefix |-> prefix, regex |-> regex, handler |-> h]
<1>1. h \in Handlers /\ h.prefix_ = prefix
  BY HandlersAssumption DEF HandlerObjects, MountedHandler
<1> HIDE DEF h
<1>2. e \in RegexEntry /\ e.handler.prefix_ = e.prefix
  BY <1>1 DEF RegexEntry
<1>3. /\ regex_paths_' = IF regex \in DOMAIN Search THEN Append(regex_paths_, e) ELSE regex_paths_
      /\ UNCHANGED paths_
  BY DEF AddRegexPath, h
<1> HIDE DEF e
<1>4. ContainerTypeOK /\ HandlersPlaced /\ regex_paths_ \in Seq(RegexEntry)
  BY DEF StartIInv, ConfigTypeOK
<1>5. CASE regex_paths_' = regex_paths_
  BY <1>3, <1>4, <1>5 DEF ContainerTypeOK, HandlersPlaced
<1>6. CASE regex_paths_' = Append(regex_paths_, e)
  <2>1. /\ regex_paths_' \in Seq(RegexEntry)
        /\ DOMAIN regex_paths_ = 1..Len(regex_paths_) /\ Len(regex_paths_) \in Nat
        /\ DOMAIN regex_paths_' = 1..(Len(regex_paths_) + 1)
    BY <1>2, <1>4, <1>6
  <2>2. \A k \in DOMAIN regex_paths_' :
          regex_paths_'[k] = IF k = Len(regex_paths_) + 1 THEN e ELSE regex_paths_[k]
    BY <1>2, <1>4, <1>6, <2>1
  <2>3. \A k \in DOMAIN regex_paths_' : k # Len(regex_paths_) + 1 => k \in DOMAIN regex_paths_
    BY <2>1
  <2>4. ContainerTypeOK'
    BY <1>2, <1>3, <1>4, <2>2, <2>3 DEF ContainerTypeOK
  <2>5. HandlersPlaced'
    BY <1>2, <1>3, <1>4, <2>2, <2>3 DEF HandlersPlaced
  <2> QED
    BY <2>1, <2>4, <2>5
<1> QED
  BY <1>3, <1>5, <1>6

\* A statement and its operands.
LEMMA StatementRead ==
  ASSUME StartIInv, NEW key, Parsing(key)
  PROVE  /\ at + 1 \in 1..(Len(config) + 1)
         /\ config[at].key = key
         /\ key \in {"path", "path_regex"} => config[at].prefix \in Strings
         /\ key = "path_regex" => config[at].regex \in Regexes
<1>1. config \in Seq(ToSet(config)) /\ at \in DOMAIN config /\ config[at].key = key
  BY ConfigsAssumption DEF StartIInv, Parsing
<1>2. config[at] \in ToSet(config) /\ at + 1 \in 1..(Len(config) + 1)
  BY <1>1 DEF ToSet
<1> QED
  BY <1>1, <1>2, ConfigsAssumption DEF StartIInv

\* What the container holds after a step.
LEMMA ContainerStep ==
  ASSUME StartIInv, [ConfigNext]_configVars
  PROVE  ContainerTypeOK' /\ HandlersPlaced' /\ (regex_paths_ \in Seq(RegexEntry))'
<1>1. CASE UNCHANGED container
  BY <1>1 DEF container, StartIInv, ConfigTypeOK, ContainerTypeOK, HandlersPlaced
<1>2. ASSUME NEW prefix \in Strings, NEW hasStatus \in BOOLEAN, MountPath(prefix, hasStatus)
      PROVE  ContainerTypeOK' /\ HandlersPlaced' /\ (regex_paths_ \in Seq(RegexEntry))'
  BY <1>2, PathMounted DEF MountPath
<1>3. ASSUME NEW prefix \in Strings, NEW regex \in Regexes, NEW hasStatus \in BOOLEAN,
             MountRegex(prefix, regex, hasStatus)
      PROVE  ContainerTypeOK' /\ HandlersPlaced' /\ (regex_paths_ \in Seq(RegexEntry))'
  BY <1>3, RegexMounted DEF MountRegex
<1>4. IsStatusHandler \in BOOLEAN
  BY DEF IsStatusHandler
<1>5. CASE ParseDefault
  <2>1. UNCHANGED container \/ MountPath(<<>>, FALSE)
    BY <1>5 DEF ParseDefault, UnknownType, InitFails
  <2> QED
    BY <1>1, <1>2, <2>1, ConfigsAssumption
<1>6. CASE ParsePath
  <2>1. UNCHANGED container \/ MountPath(config[at].prefix, IsStatusHandler)
    BY <1>6 DEF ParsePath, UnknownType, InitFails
  <2>2. config[at].prefix \in Strings
    BY <1>6, StatementRead DEF ParsePath
  <2> QED
    BY <1>1, <1>2, <1>4, <2>1, <2>2
<1>7. CASE ParsePathRegex
  <2>1. UNCHANGED container \/ MountRegex(config[at].prefix, config[at].regex, IsStatusHandler)
    BY <1>7 DEF ParsePathRegex, UnknownType, InitFails
  <2>2. config[at].prefix \in Strings /\ config[at].regex \in Regexes
    BY <1>7, StatementRead DEF ParsePathRegex
  <2> QED
    BY <1>1, <1>3, <1>4, <2>1, <2>2
<1>8. CASE \/ ParsePort \/ SkipStatement \/ ConfigRead \/ ConstructServer \/ ReadThreads
           \/ StartThreads \/ Done \/ UNCHANGED configVars
  BY <1>1, <1>8 DEF ParsePort, SkipStatement, ConfigRead, ConstructServer, ReadThreads,
                    StartThreads, Done, configVars
<1> QED
  BY <1>5, <1>6, <1>7, <1>8 DEF ConfigNext

\* The number of threads asked for is a number.
LEMMA ThreadsAreNumber ==
  ASSUME StartIInv
  PROVE  ThreadsConfigured \in Int
<1>1. CASE ThreadsStatements = {}
  BY <1>1 DEF ThreadsConfigured
<1>2. CASE ThreadsStatements # {}
  <2>1. config \in Seq(ToSet(config))
    BY ConfigsAssumption DEF StartIInv
  <2>2. ThreadsStatements \in SUBSET Nat
    BY <2>1 DEF ThreadsStatements
  <2>3. Min(ThreadsStatements) \in ThreadsStatements
    BY <1>2, <2>2, MinIsLeast
  <2>4. /\ config[Min(ThreadsStatements)] \in ToSet(config)
        /\ config[Min(ThreadsStatements)].key = "threads"
    BY <2>3 DEF ThreadsStatements, ToSet
  <2> QED
    BY <2>4, ConfigsAssumption DEF StartIInv, ThreadsConfigured
<1> QED
  BY <1>1, <1>2

\* What a statement does to the position and the port.
Rest ==
  /\ config \in Configs
  /\ at \in 1..(Len(config) + 1)
  /\ port \in Ports \cup {0}
  /\ initFailed \in BOOLEAN
  /\ phase \in Ended \cup {"parsing", "parsed", "constructed", "starting", "serving"}
  /\ max_threads \in Int /\ numThreads \in Nat

LEMMA RestStep ==
  ASSUME StartIInv, [ConfigNext]_configVars
  PROVE  Rest'
<1> USE DEF Ended
<1>1. Rest
  BY DEF StartIInv, ConfigTypeOK, Rest
<1>2. ASSUME NEW key, Parsing(key), Continue \/ \E how \in Ended : Stop(how),
             port' \in Ports \cup {0}, initFailed' \in BOOLEAN
      PROVE  Rest'
  <2>1. at + 1 \in 1..(Len(config) + 1)
    BY <1>2, StatementRead
  <2>2. UNCHANGED <<config, max_threads, numThreads>>
    BY <1>2 DEF Parsing
  <2>3. CASE Continue
    BY <1>1, <1>2, <2>1, <2>2, <2>3 DEF Rest, Continue
  <2>4. CASE \E how \in Ended : Stop(how)
    BY <1>1, <1>2, <2>2, <2>4 DEF Rest, Stop
  <2> QED
    BY <1>2, <2>3, <2>4
<1>3. CASE ParsePort
  <2>1. ValidPort(config[at].value) => config[at].value \in Ports
    BY DEF ValidPort
  <2> QED
    BY <1>1, <1>2, <1>3, <2>1 DEF ParsePort, Rest
<1>4. ASSUME UnknownType \/ InitFails \/ (\E p, s : MountPath(p, s)) \/ (\E p, r, s : MountRegex(p, r, s))
      PROVE  /\ Continue \/ \E how \in Ended : Stop(how)
             /\ port' \in Ports \cup {0} /\ initFailed' \in BOOLEAN
  <2>1. port \in Ports \cup {0} /\ initFailed \in BOOLEAN
    BY <1>1 DEF Rest
  <2>2. CASE UnknownType \/ InitFails
    BY <2>1, <2>2 DEF UnknownType, InitFails
  <2>3. CASE (\E p, s : MountPath(p, s)) \/ (\E p, r, s : MountRegex(p, r, s))
    BY <2>1, <2>3 DEF MountPath, MountRegex
  <2> QED
    BY <1>4, <2>2, <2>3
<1>5. CASE ParseDefault \/ ParsePath \/ ParsePathRegex
  BY <1>2, <1>4, <1>5 DEF ParseDefault, ParsePath, ParsePathRegex
<1>6. CASE SkipStatement
  BY <1>1, <1>2, <1>6 DEF SkipStatement, Rest
<1>7. CASE ConfigRead \/ ConstructServer
  BY <1>1, <1>7 DEF ConfigRead, ConstructServer, Rest
<1>8. CASE ReadThreads
  BY <1>1, <1>8, ThreadsAreNumber DEF ReadThreads, Rest
<1>9. CASE StartThreads
  BY <1>1, <1>9 DEF StartThreads, Rest
<1>10. CASE Done \/ UNCHANGED configVars
  BY <1>1, <1>10 DEF Done, configVars, server, Rest
<1> QED
  BY <1>3, <1>5, <1>6, <1>7, <1>8, <1>9, <1>10 DEF ConfigNext

LEMMA StartInvariance == ConfigSpec => []StartIInv
<1>1. StartIInv /\ [ConfigNext]_configVars => StartIInv'
  <2> SUFFICES ASSUME StartIInv, [ConfigNext]_configVars PROVE StartIInv'
    OBVIOUS
  <2>1. ContainerTypeOK' /\ HandlersPlaced' /\ (regex_paths_ \in Seq(RegexEntry))'
    BY ContainerStep
  <2>2. Rest'
    BY RestStep
  <2> QED
    BY <2>1, <2>2 DEF StartIInv, ConfigTypeOK, Rest
<1> QED
  BY StartInit, <1>1, PTL DEF ConfigSpec

-----------------------------------------------------------------------------
\* Validity

Plain == {"default", "path"}
Mounting == {"default", "path", "path_regex"}

\* What parse_config asks of one statement.
Valid(st) ==
  /\ st.key = "port" => ValidPort(st.value)
  /\ st.key \in Mounting => st.type \in Created
  /\ st.key = "path_regex" => st.regex \in DOMAIN Search

\* As long as parse_config goes on, what it has read is valid, has given the
\* prefixes in the map, each once, and a port if it has one.
ReadSoFar ==
  /\ \A k \in DOMAIN config : k < at => Valid(config[k])
  /\ \A k \in At(Plain) : k < at => PrefixOf(config[k]) \in DOMAIN paths_
  /\ \A p \in DOMAIN paths_ : \E k \in At(Plain) : k < at /\ PrefixOf(config[k]) = p
  /\ \A j, k \in At(Plain) : j < at /\ k < at /\ PrefixOf(config[j]) = PrefixOf(config[k]) => j = k
  /\ port # 0 <=> \E k \in At({"port"}) : k < at

Judged ==
  /\ phase = "parsing" => ReadSoFar
  /\ AcceptsExactlyValid

LEMMA NoPortZero == 0 \notin Ports
BY DEF Ports

LEMMA ValidityMeans ==
  ValidConfig <=>
    /\ \E k \in DOMAIN config : config[k].key = "port"
    /\ \A k \in DOMAIN config : Valid(config[k])
    /\ \A j, k \in At(Plain) : PrefixOf(config[j]) = PrefixOf(config[k]) => j = k
BY DEF ValidConfig, Valid, ValidPort, At, Plain, Mounting

LEMMA JudgedInit == ConfigInit => Judged
<1> SUFFICES ASSUME ConfigInit PROVE Judged
  OBVIOUS
<1>1. /\ DOMAIN paths_ = {} /\ config \in Configs /\ at = 1 /\ port = 0 /\ phase = "parsing"
  BY DEF ConfigInit, EmptyContainer
<1>2. DOMAIN config = 1..Len(config) /\ Len(config) \in Nat
  BY <1>1, ConfigsAssumption
<1>3. \A k \in DOMAIN config : ~ (k < at)
  BY <1>1, <1>2
<1>4. ReadSoFar
  BY <1>1, <1>3 DEF ReadSoFar, At
<1>5. ~ Accepted /\ phase # "failed"
  BY <1>1 DEF Accepted
<1> QED
  BY <1>4, <1>5 DEF Judged, AcceptsExactlyValid

\* The positions in a config.
LEMMA Positions ==
  ASSUME StartIInv
  PROVE  /\ DOMAIN config = 1..Len(config) /\ Len(config) \in Nat /\ at \in Nat
         /\ \A k \in DOMAIN config : k < at + 1 <=> k < at \/ k = at
         /\ \A k \in DOMAIN config : ~ (k < k)
BY ConfigsAssumption DEF StartIInv, ConfigTypeOK

\* The statement at hand is read and is valid: what ReadSoFar says of the map and
\* the port has to hold with it.
LEMMA GoesOn ==
  ASSUME StartIInv, ReadSoFar, phase = "parsing", at \in DOMAIN config, UNCHANGED config,
         Continue, Valid(config[at]),
         config[at].key \in Plain =>
           /\ PrefixOf(config[at]) \notin DOMAIN paths_
           /\ DOMAIN paths_' = DOMAIN paths_ \cup {PrefixOf(config[at])},
         config[at].key \notin Plain => DOMAIN paths_' = DOMAIN paths_,
         IF config[at].key = "port" THEN port' # 0 ELSE port' = port
  PROVE  Judged'
<1>1. /\ DOMAIN config' = DOMAIN config /\ at' = at + 1 /\ phase' = "parsing"
      /\ \A keys : At(keys)' = At(keys)
      /\ \A k \in DOMAIN config : config'[k] = config[k]
  BY DEF Continue, At
<1>2. \A k \in DOMAIN config : k < at' <=> k < at \/ k = at
  BY <1>1, Positions
<1>3. \A k \in DOMAIN config : Valid(config[k])' = Valid(config[k])
  BY <1>1 DEF Valid, ValidPort
<1>4. \A k \in DOMAIN config : PrefixOf(config[k])' = PrefixOf(config[k])
  BY <1>1 DEF PrefixOf
<1>5. \A k \in DOMAIN config : k < at' => Valid(config[k])'
  BY <1>2, <1>3 DEF ReadSoFar
<1>6. \A keys : \A k : k \in At(keys) <=> k \in DOMAIN config /\ config[k].key \in keys
  BY DEF At
<1>7. \A k \in At(Plain) : k < at' => PrefixOf(config[k]) \in DOMAIN paths_'
  BY <1>2, <1>6 DEF ReadSoFar
<1>8. \A p \in DOMAIN paths_' : \E k \in At(Plain) : k < at' /\ PrefixOf(config[k]) = p
  BY <1>2, <1>6 DEF ReadSoFar
<1>9. \A j, k \in At(Plain) :
        j < at' /\ k < at' /\ PrefixOf(config[j]) = PrefixOf(config[k]) => j = k
  BY <1>2, <1>6 DEF ReadSoFar
<1>10. port' # 0 <=> \E k \in At({"port"}) : k < at'
  BY <1>2, <1>6 DEF ReadSoFar
<1>11. ReadSoFar'
  BY <1>1, <1>4, <1>5, <1>6, <1>7, <1>8, <1>9, <1>10 DEF ReadSoFar
<1>12. ~ Accepted' /\ phase' # "failed"
  BY <1>1 DEF Accepted
<1> QED
  BY <1>11, <1>12 DEF Judged, AcceptsExactlyValid

\* parse_config gives up, and the config is not valid.
LEMMA GivesUp ==
  ASSUME phase' \in Ended, UNCHANGED config, phase' = "failed" => ~ ValidConfig \/ initFailed'
  PROVE  Judged'
<1>1. ValidConfig' = ValidConfig
  BY DEF ValidConfig, At, PrefixOf
<1>2. phase' # "parsing" /\ ~ Accepted'
  BY DEF Ended, Accepted
<1> QED
  BY <1>1, <1>2 DEF Judged, AcceptsExactlyValid

LEMMA JudgedStep ==
  ASSUME StartIInv, Judged, [ConfigNext]_configVars
  PROVE  Judged'
<1>1. ASSUME NEW key, Parsing(key)
      PROVE  /\ phase = "parsing" /\ ReadSoFar /\ UNCHANGED config
             /\ at \in DOMAIN config /\ config[at].key = key
  BY <1>1 DEF Parsing, Judged
<1>2. ASSUME NEW key, Parsing(key), ~ Valid(config[at]), Stop("failed") \/ Stop("crashed")
      PROVE  Judged'
  <2>1. ~ ValidConfig
    BY <1>1, <1>2, ValidityMeans
  <2> QED
    BY <1>1, <1>2, <2>1, GivesUp DEF Stop, Ended
<1>3. ASSUME NEW key \in Mounting, Parsing(key), UnknownType \/ InitFails
      PROVE  Judged'
  <2>1. CASE UnknownType
    BY <1>1, <1>2, <1>3, <2>1 DEF UnknownType, Valid
  <2>2. CASE InitFails
    BY <1>1, <1>3, <2>2, GivesUp DEF InitFails, Stop, Ended
  <2> QED
    BY <1>3, <2>1, <2>2
<1>4. ASSUME NEW key \in Plain, Parsing(key), NEW s, MountPath(PrefixOf(config[at]), s)
      PROVE  Judged'
  <2>1. config[at].type \in Created /\ UNCHANGED port
    BY <1>4 DEF MountPath
  <2>2. /\ phase = "parsing" /\ ReadSoFar /\ UNCHANGED config
        /\ at \in DOMAIN config /\ config[at].key = key
    BY <1>1, <1>4
  <2>3. Valid(config[at])
    BY <1>4, <2>1, <2>2 DEF Valid, Plain
  <2>4. CASE PrefixOf(config[at]) \in DOMAIN paths_
    <3>1. PICK k \in At(Plain) : k < at /\ PrefixOf(config[k]) = PrefixOf(config[at])
      BY <2>2, <2>4 DEF ReadSoFar
    <3>2. at \in At(Plain) /\ k # at
      BY <1>4, <2>2, <3>1, Positions DEF At
    <3>3. ~ ValidConfig
      BY <3>1, <3>2, ValidityMeans
    <3>4. Stop("failed")
      BY <1>4, <2>4 DEF MountPath
    <3> QED
      BY <2>2, <3>3, <3>4, GivesUp DEF Stop, Ended
  <2>5. CASE PrefixOf(config[at]) \notin DOMAIN paths_
    <3>1. /\ Continue
          /\ DOMAIN paths_' = DOMAIN paths_ \cup {PrefixOf(config[at])}
      BY <1>4, <2>5 DEF MountPath, AddPath
    <3>2. key # "port" /\ key \in Plain
      BY <1>4 DEF Plain
    <3> QED
      BY <2>1, <2>2, <2>3, <2>5, <3>1, <3>2, GoesOn
  <2> QED
    BY <2>4, <2>5
<1>5. CASE ParseDefault
  <2>1. Parsing("default") /\ "default" \in Plain /\ "default" \in Mounting
    BY <1>5 DEF ParseDefault, Plain, Mounting
  <2>2. PrefixOf(config[at]) = <<>>
    BY <2>1, <1>1 DEF PrefixOf
  <2>3. (UnknownType \/ InitFails) \/ MountPath(PrefixOf(config[at]), FALSE)
    BY <1>5, <2>2 DEF ParseDefault
  <2> QED
    BY <1>3, <1>4, <2>1, <2>3
<1>6. CASE ParsePath
  <2>1. Parsing("path") /\ "path" \in Plain /\ "path" \in Mounting
    BY <1>6 DEF ParsePath, Plain, Mounting
  <2>2. PrefixOf(config[at]) = config[at].prefix
    BY <2>1, <1>1 DEF PrefixOf
  <2>3. (UnknownType \/ InitFails) \/ MountPath(PrefixOf(config[at]), IsStatusHandler)
    BY <1>6, <2>2 DEF ParsePath
  <2> QED
    BY <1>3, <1>4, <2>1, <2>3
<1>7. CASE ParsePathRegex
  <2>1. Parsing("path_regex") /\ "path_regex" \in Mounting
    BY <1>7 DEF ParsePathRegex, Mounting
  <2>2. CASE UnknownType \/ InitFails
    BY <1>3, <2>1, <2>2
  <2>3. CASE MountRegex(config[at].prefix, config[at].regex, IsStatusHandler)
    <3>1. /\ phase = "parsing" /\ ReadSoFar /\ UNCHANGED config
          /\ at \in DOMAIN config /\ config[at].key = "path_regex"
      BY <1>1, <2>1
    <3>2. UNCHANGED <<paths_, port>> /\ config[at].type \in Created
      BY <2>3 DEF MountRegex, AddRegexPath
    <3>3. CASE config[at].regex \in DOMAIN Search
      <4>1. Continue /\ Valid(config[at])
        BY <2>3, <3>1, <3>2, <3>3 DEF MountRegex, Valid
      <4>2. "path_regex" \notin Plain
        BY DEF Plain
      <4> QED
        BY <3>1, <3>2, <4>1, <4>2, GoesOn
    <3>4. CASE config[at].regex \notin DOMAIN Search
      <4>1. Stop("failed") /\ ~ Valid(config[at])
        BY <2>3, <3>1, <3>4 DEF MountRegex, Valid
      <4> QED
        BY <1>2, <2>1, <4>1
    <3> QED
      BY <3>3, <3>4
  <2> QED
    BY <1>7, <2>2, <2>3 DEF ParsePathRegex
<1>8. CASE ParsePort
  <2>1. /\ phase = "parsing" /\ ReadSoFar /\ UNCHANGED config /\ UNCHANGED paths_
        /\ at \in DOMAIN config /\ config[at].key = "port" /\ Parsing("port")
    BY <1>1, <1>8 DEF ParsePort, container
  <2>2. CASE ValidPort(config[at].value)
    <3>1. Continue /\ port' # 0
      BY <1>8, <2>2, NoPortZero DEF ParsePort, ValidPort
    <3>2. Valid(config[at]) /\ "port" \notin Plain
      BY <2>1, <2>2 DEF Valid, Mounting, Plain
    <3> QED
      BY <2>1, <3>1, <3>2, GoesOn
  <2>3. CASE ~ ValidPort(config[at].value)
    BY <1>2, <1>8, <2>1, <2>3 DEF ParsePort, Valid
  <2> QED
    BY <2>2, <2>3
<1>9. CASE SkipStatement
  <2>1. PICK key \in {"threads", "other"} : Parsing(key)
    BY <1>9 DEF SkipStatement
  <2>2. /\ phase = "parsing" /\ ReadSoFar /\ UNCHANGED <<config, paths_, port>> /\ Continue
        /\ at \in DOMAIN config /\ config[at].key = key
    BY <1>1, <1>9, <2>1 DEF SkipStatement, container
  <2>3. Valid(config[at]) /\ key \notin Plain /\ key # "port"
    BY <2>1, <2>2 DEF Valid, Mounting, Plain
  <2> QED
    BY <2>2, <2>3, GoesOn
<1>10. CASE ConfigRead
  <2>1. /\ phase = "parsing" /\ ReadSoFar /\ UNCHANGED <<config, paths_, port>>
        /\ at = Len(config) + 1 /\ phase' = IF port = 0 THEN "failed" ELSE "parsed"
    BY <1>10 DEF ConfigRead, container, Judged
  <2>2. \A k \in DOMAIN config : k < at
    BY <2>1, Positions
  <2>3. ValidConfig <=> port # 0
    BY <2>1, <2>2, ValidityMeans DEF ReadSoFar, At
  <2>4. ValidConfig' = ValidConfig
    BY <2>1 DEF ValidConfig, At, PrefixOf
  <2> QED
    BY <2>1, <2>3, <2>4 DEF Judged, AcceptsExactlyValid, Accepted
<1>11. CASE ConstructServer \/ ReadThreads \/ StartThreads
  <2>1. /\ UNCHANGED config /\ Accepted /\ phase' \in {"constructed", "exited", "starting", "serving"}
    BY <1>11 DEF ConstructServer, ReadThreads, StartThreads, Accepted
  <2>2. ValidConfig' = ValidConfig
    BY <2>1 DEF ValidConfig, At, PrefixOf
  <2> QED
    BY <2>1, <2>2 DEF Judged, AcceptsExactlyValid
<1>12. CASE Done \/ UNCHANGED configVars
  <2>1. UNCHANGED <<config, paths_, at, port, phase, initFailed>>
    BY <1>12 DEF Done, configVars, server, container
  <2>2. ValidConfig' = ValidConfig
    BY <2>1 DEF ValidConfig, At, PrefixOf
  <2>3. ReadSoFar' = ReadSoFar
    BY <2>1 DEF ReadSoFar, At, PrefixOf, Valid, ValidPort
  <2> QED
    BY <2>1, <2>2, <2>3 DEF Judged, AcceptsExactlyValid, Accepted
<1> QED
  BY <1>5, <1>6, <1>7, <1>8, <1>9, <1>10, <1>11, <1>12 DEF ConfigNext

-----------------------------------------------------------------------------
\* Find

\* Among the registered prefixes of a directory get_prefix finds a longest.
LEMMA PrefixFound ==
  ASSUME StartIInv, NEW uri \in Strings, Mounts(uri) # {}
  PROVE  /\ get_prefix(uri) \in DOMAIN paths_
         /\ IsPrefix(get_prefix(uri), Directory(uri))
         /\ \A p \in Mounts(uri) : Len(p) <= Len(get_prefix(uri))
<1>1. uri \in Seq(Nat) /\ DOMAIN paths_ \in SUBSET Seq(Nat)
  BY StringsAssumption DEF StartIInv, ConfigTypeOK, ContainerTypeOK
<1>2. Directory(uri) \in Seq(Nat)
  BY <1>1, DirectoryOf
<1>3. /\ Mounts(uri) \in SUBSET Seq(Nat) /\ Mounts(uri) \subseteq DOMAIN paths_
      /\ \A p \in Mounts(uri) : IsPrefix(p, Directory(uri))
  BY <1>1 DEF Mounts
<1>4. /\ Longest(Mounts(uri)) \in Mounts(uri)
      /\ \A p \in Mounts(uri) : Len(p) <= Len(Longest(Mounts(uri)))
  BY <1>2, <1>3, LongestExists
<1> QED
  BY <1>3, <1>4 DEF get_prefix

\* Whatever the container holds, the prefix of the handler found begins the uri.
LEMMA FoundFits ==
  ASSUME StartIInv, NEW uri \in Strings, Find(uri).handler # NoHandler
  PROVE  IsPrefix(Find(uri).handler.prefix_, uri)
<1>1. uri \in Seq(Nat) /\ DOMAIN paths_ \in SUBSET Seq(Nat)
  BY StringsAssumption DEF StartIInv, ConfigTypeOK, ContainerTypeOK
<1>2. CASE RegexMatches(uri) # {}
  <2> DEFINE k == Min(RegexMatches(uri))
  <2>1. RegexMatches(uri) \in SUBSET Nat
    BY DEF RegexMatches, StartIInv
  <2>2. k \in RegexMatches(uri)
    BY <1>2, <2>1, MinIsLeast
  <2> HIDE DEF k
  <2>3. k \in DOMAIN regex_paths_ /\ IsPrefix(regex_paths_[k].prefix, uri)
    BY <2>2 DEF RegexMatches, RegexPrefixes
  <2>4. Find(uri).handler = regex_paths_[k].handler
    BY <1>2 DEF Find, RegexAnswer, k
  <2> QED
    BY <2>3, <2>4 DEF StartIInv, HandlersPlaced
<1>3. CASE RegexMatches(uri) = {} /\ uri \in DOMAIN paths_
  <2>1. Find(uri).handler.prefix_ = uri
    BY <1>3 DEF Find, PlainAnswer, StartIInv, HandlersPlaced
  <2> QED
    BY <1>1, <2>1, PrefixElements
<1>4. CASE RegexMatches(uri) = {} /\ uri \notin DOMAIN paths_
  <2>1. get_prefix(uri) \in DOMAIN paths_ /\ Find(uri) = PlainAnswer(get_prefix(uri))
    BY <1>4 DEF Find, NoAnswer
  <2>2. Find(uri).handler.prefix_ = get_prefix(uri)
    BY <2>1 DEF PlainAnswer, StartIInv, HandlersPlaced
  <2>3. /\ Directory(uri) \in Seq(Nat) /\ IsPrefix(Directory(uri), uri)
        /\ get_prefix(uri) \in Seq(Nat)
    BY <1>1, <2>1, DirectoryOf
  <2>4. IsPrefix(get_prefix(uri), Directory(uri))
    <3>1. CASE Mounts(uri) = {}
      BY <2>3, <3>1, EmptyIsPrefix DEF get_prefix
    <3>2. CASE Mounts(uri) # {}
      BY <3>2, PrefixFound
    <3> QED
      BY <3>1, <3>2
  <2>5. IsPrefix(get_prefix(uri), uri)
    BY <1>1, <2>3, <2>4, PrefixTransitive
  <2> QED
    BY <2>2, <2>5
<1> QED
  BY <1>2, <1>3, <1>4

\* A uri inside a registered directory, or the directory itself, reaches a
\* handler, and one whose prefix is no shorter.
LEMMA InsideFound ==
  ASSUME StartIInv, NEW p \in DOMAIN paths_, NEW uri \in Strings,
         IsPrefix(Append(p, Slash), uri) \/ uri = p, RegexMatches(uri) = {}
  PROVE  Find(uri).handler # NoHandler /\ Len(Find(uri).pref[1]) >= Len(p)
<1>1. /\ uri \in Seq(Nat) /\ DOMAIN paths_ \in SUBSET Seq(Nat)
      /\ \A q \in DOMAIN paths_ : paths_[q] # NoHandler
  BY StringsAssumption, NoHandlerAssumption DEF StartIInv, ConfigTypeOK, ContainerTypeOK
<1>2. \A q \in DOMAIN paths_ : PlainAnswer(q).handler # NoHandler /\ PlainAnswer(q).pref[1] = q
  BY <1>1 DEF PlainAnswer
<1>3. Len(p) \in Nat /\ Len(uri) \in Nat
  BY <1>1
<1>4. Len(p) <= Len(uri)
  <2>1. CASE uri = p
    BY <1>3, <2>1
  <2>2. CASE IsPrefix(Append(p, Slash), uri)
    <3>1. Len(Append(p, Slash)) = Len(p) + 1
      BY <1>1, StringsAssumption
    <3> QED
      BY <1>3, <2>2, <3>1 DEF IsPrefix
  <2> QED
    BY <2>1, <2>2
<1>5. CASE uri \in DOMAIN paths_
  <2>1. Find(uri) = PlainAnswer(uri)
    BY <1>5 DEF Find
  <2> QED
    BY <1>2, <1>3, <1>4, <1>5, <2>1
<1>6. CASE uri \notin DOMAIN paths_
  <2>1. IsPrefix(p, Directory(uri))
    BY <1>1, <1>6, DirectoryOf
  <2>2. p \in Mounts(uri)
    BY <2>1 DEF Mounts
  <2>3. /\ get_prefix(uri) \in DOMAIN paths_
        /\ Len(p) <= Len(get_prefix(uri))
    BY <2>2, PrefixFound
  <2>4. Find(uri) = PlainAnswer(get_prefix(uri))
    BY <1>6, <2>3 DEF Find
  <2>5. Len(get_prefix(uri)) \in Nat
    BY <1>1, <2>3
  <2> QED
    BY <1>2, <1>3, <2>3, <2>4, <2>5
<1> QED
  BY <1>5, <1>6

-----------------------------------------------------------------------------
\* Registrations

\* Of two prefixes of one string that are equally long there is only one.
LEMMA PrefixUnique ==
  ASSUME NEW u \in Seq(Nat), NEW s \in Seq(Nat), NEW t \in Seq(Nat),
         IsPrefix(s, u), IsPrefix(t, u), Len(s) = Len(t)
  PROVE  s = t
<1>1. /\ \A k \in 1..Len(s) : s[k] = u[k]
      /\ \A k \in 1..Len(t) : t[k] = u[k]
  BY PrefixElements
<1>2. \A k \in 1..Len(s) : s[k] = t[k]
  BY <1>1
<1> QED
  BY <1>2, SeqEqual

LEMMA LongestUnique ==
  ASSUME NEW u \in Seq(Nat), NEW P \in SUBSET Seq(Nat), \A q \in P : IsPrefix(q, u),
         NEW p \in P, \A q \in P : Len(q) <= Len(p)
  PROVE  Longest(P) = p
<1>1. /\ Longest(P) \in P /\ \A q \in P : Len(q) <= Len(Longest(P))
  BY LongestExists
<1>2. Len(Longest(P)) \in Nat /\ Len(p) \in Nat
  BY <1>1
<1>3. Len(Longest(P)) = Len(p)
  BY <1>1, <1>2
<1> QED
  BY <1>1, <1>3, PrefixUnique

\* What RegistrationIsolated asks of the prefix p of a registration that has
\* changed the answer for a uri.
Displaces(p, uri) ==
  /\ p \in AddedPrefixes
  /\ IsPrefix(p, uri)
  /\ IsRegexAnswer(Find(uri)) => regex_paths_' # regex_paths_
  /\ Find(uri).handler # NoHandler
       /\ (IsRegexAnswer(Find(uri)) \/ regex_paths_' = regex_paths_) =>
         Len(p) > Len(Find(uri).pref[1])

\* How many names the answer has.
LEMMA AnswerKinds ==
  ASSUME NEW uri
  PROVE  IsRegexAnswer(Find(uri)) <=> RegexMatches(uri) # {}
<1>1. \A e : Len(RegexAnswer(e).pref) = 2
  BY DEF RegexAnswer
<1>2. \A p : Len(PlainAnswer(p).pref) = 1
  BY DEF PlainAnswer
<1>3. Len(NoAnswer.pref) = 0
  BY DEF NoAnswer
<1> QED
  BY <1>1, <1>2, <1>3 DEF Find, IsRegexAnswer

\* AddPath adds a prefix that is new, and so changes only uris below it that
\* had a shorter one.
LEMMA PathIsolated ==
  ASSUME StartIInv, NEW prefix \in Strings, NEW h, AddPath(prefix, h),
         NEW uri \in Strings, Find(uri)' # Find(uri)
  PROVE  Displaces(prefix, uri)
<1>1. /\ uri \in Seq(Nat) /\ prefix \in Seq(Nat)
      /\ DOMAIN paths_ \in SUBSET Seq(Nat)
  BY StringsAssumption DEF StartIInv, ConfigTypeOK, ContainerTypeOK
<1>2. /\ DOMAIN paths_' = DOMAIN paths_ \cup {prefix}
      /\ \A p \in DOMAIN paths_ : paths_'[p] = paths_[p]
      /\ UNCHANGED regex_paths_
  BY DEF AddPath
<1>3. RegexMatches(uri)' = RegexMatches(uri)
  BY <1>2 DEF RegexMatches, RegexPrefixes
<1>4. \A p \in DOMAIN paths_ : PlainAnswer(p)' = PlainAnswer(p)
  BY <1>2 DEF PlainAnswer
<1>5. RegexMatches(uri) = {}
  BY <1>2, <1>3 DEF Find
<1>6. uri \notin DOMAIN paths_
  BY <1>2, <1>3, <1>4, <1>5 DEF Find
<1>7. Mounts(uri)' = Mounts(uri) \cup ({prefix} \cap Mounts(uri)')
  BY <1>2 DEF Mounts
<1>8. /\ Directory(uri) \in Seq(Nat) /\ IsPrefix(Directory(uri), uri)
      /\ Len(Directory(uri)) \in Nat /\ Len(uri) \in Nat /\ Len(Directory(uri)) <= Len(uri)
  BY <1>1, DirectoryOf DEF IsPrefix
<1>9. Directory(uri)' = Directory(uri)
  BY DEF Directory, SelectLastInSeq, Max
<1>10. /\ Mounts(uri) \in SUBSET Seq(Nat) /\ Mounts(uri)' \in SUBSET Seq(Nat)
       /\ \A p \in Mounts(uri) : IsPrefix(p, Directory(uri))
       /\ \A p \in Mounts(uri)' : IsPrefix(p, Directory(uri))
  BY <1>1, <1>2, <1>9 DEF Mounts
<1>11. prefix \notin DOMAIN paths_
  <2> SUFFICES ASSUME prefix \in DOMAIN paths_ PROVE FALSE
    OBVIOUS
  <2>1. Mounts(uri)' = Mounts(uri)
    BY <1>2 DEF Mounts
  <2>2. get_prefix(uri)' = get_prefix(uri)
    BY <2>1 DEF get_prefix
  <2> QED
    BY <1>2, <1>3, <1>4, <1>5, <1>6, <2>2 DEF Find, NoAnswer
<1>12. prefix \in AddedPrefixes
  BY <1>2, <1>11 DEF AddedPrefixes
<1>13. Find(uri).handler # NoHandler =>
         /\ Mounts(uri) # {} /\ get_prefix(uri) \in DOMAIN paths_
         /\ Find(uri) = PlainAnswer(get_prefix(uri))
         /\ Find(uri).pref[1] = get_prefix(uri)
         /\ IsPrefix(get_prefix(uri), Directory(uri))
         /\ \A p \in Mounts(uri) : Len(p) <= Len(get_prefix(uri))
  <2> SUFFICES ASSUME Find(uri).handler # NoHandler
               PROVE  Mounts(uri) # {} /\ get_prefix(uri) \in DOMAIN paths_
                        /\ Find(uri) = PlainAnswer(get_prefix(uri))
    BY PrefixFound DEF PlainAnswer
  <2>1. get_prefix(uri) \in DOMAIN paths_ /\ Find(uri) = PlainAnswer(get_prefix(uri))
    BY <1>5, <1>6 DEF Find, NoAnswer
  <2>2. ASSUME Mounts(uri) = {}
        PROVE  FALSE
    <3>1. get_prefix(uri) = <<>> /\ IsPrefix(get_prefix(uri), Directory(uri))
      BY <1>8, <2>2, EmptyIsPrefix DEF get_prefix
    <3> QED
      BY <2>1, <2>2, <3>1 DEF Mounts
  <2> QED
    BY <2>1, <2>2
<1>14. CASE uri = prefix
  <2>1. IsPrefix(prefix, uri)
    BY <1>1, <1>14, PrefixElements
  <2>2. ASSUME Find(uri).handler # NoHandler
        PROVE  Len(prefix) > Len(get_prefix(uri))
    <3>1. /\ get_prefix(uri) \in Seq(Nat) /\ get_prefix(uri) # uri
          /\ IsPrefix(get_prefix(uri), Directory(uri))
      BY <1>1, <1>6, <1>13, <2>2
    <3>2. Len(get_prefix(uri)) <= Len(Directory(uri)) /\ Len(get_prefix(uri)) \in Nat
      BY <3>1 DEF IsPrefix
    <3>3. IsPrefix(get_prefix(uri), uri)
      BY <1>1, <1>8, <3>1, PrefixTransitive
    <3>4. Len(get_prefix(uri)) # Len(uri)
      BY <1>1, <1>14, <2>1, <3>1, <3>3, PrefixUnique
    <3> QED
      BY <1>8, <1>14, <3>2, <3>4
  <2> QED
    BY <1>5, <1>12, <1>13, <2>1, <2>2, AnswerKinds DEF Displaces
<1>15. CASE uri # prefix
  <2>1. uri \notin DOMAIN paths_'
    BY <1>2, <1>6, <1>15
  <2>2. prefix \in Mounts(uri)'
    <3> SUFFICES ASSUME prefix \notin Mounts(uri)' PROVE FALSE
      OBVIOUS
    <3>1. Mounts(uri)' = Mounts(uri)
      BY <1>7
    <3>2. get_prefix(uri)' = get_prefix(uri)
      BY <3>1 DEF get_prefix
    <3>3. get_prefix(uri) = prefix => IsPrefix(prefix, Directory(uri))
      <4> SUFFICES ASSUME get_prefix(uri) = prefix PROVE IsPrefix(prefix, Directory(uri))
        OBVIOUS
      <4>1. Mounts(uri) = {}
        BY <1>11, PrefixFound
      <4> QED
        BY <1>8, <4>1, EmptyIsPrefix DEF get_prefix
    <3>4. get_prefix(uri) # prefix
      BY <1>2, <1>9, <3>3 DEF Mounts
    <3> QED
      BY <1>2, <1>3, <1>4, <1>5, <1>6, <2>1, <3>2, <3>4 DEF Find, NoAnswer
  <2>3. IsPrefix(prefix, Directory(uri))
    BY <1>10, <2>2
  <2>4. IsPrefix(prefix, uri)
    BY <1>1, <1>8, <2>3, PrefixTransitive
  <2>5. ASSUME Find(uri).handler # NoHandler
        PROVE  Len(prefix) > Len(get_prefix(uri))
    <3> DEFINE g == get_prefix(uri)
    <3>1. /\ g \in Seq(Nat) /\ Len(g) \in Nat /\ Len(prefix) \in Nat
          /\ g \in DOMAIN paths_ /\ IsPrefix(g, Directory(uri)) /\ Find(uri) = PlainAnswer(g)
          /\ \A p \in Mounts(uri) : Len(p) <= Len(g)
      BY <1>1, <1>13, <2>5
    <3> HIDE DEF g
    <3>2. g \in Mounts(uri)'
      BY <1>2, <1>9, <3>1 DEF Mounts
    <3>3. ASSUME Len(prefix) <= Len(g)
          PROVE  FALSE
      <4>1. \A p \in Mounts(uri)' : Len(p) <= Len(g)
        BY <1>7, <3>1, <3>3
      <4>2. Longest(Mounts(uri)') = g
        BY <1>8, <1>10, <3>2, <4>1, LongestUnique
      <4>3. get_prefix(uri)' = g
        BY <3>2, <4>2 DEF get_prefix, Longest
      <4> QED
        BY <1>2, <1>3, <1>4, <1>5, <2>1, <3>1, <4>3 DEF Find
    <3> QED
      BY <3>1, <3>3 DEF g
  <2> QED
    BY <1>5, <1>12, <1>13, <2>4, <2>5, AnswerKinds DEF Displaces
<1> QED
  BY <1>14, <1>15

\* AddRegexPath adds an entry at the end, and so displaces no regex answer but
\* that of a shorter prefix.
LEMMA RegexIsolated ==
  ASSUME StartIInv, NEW prefix \in Strings, NEW regex \in Regexes, NEW h \in Handlers,
         AddRegexPath(prefix, regex, h), NEW uri \in Strings, Find(uri)' # Find(uri)
  PROVE  Displaces(prefix, uri)
<1> DEFINE e == [prefix |-> prefix, regex |-> regex, handler |-> h]
           n == Len(regex_paths_)
<1>1. /\ uri \in Seq(Nat) /\ prefix \in Seq(Nat) /\ Strings \in SUBSET Seq(Nat)
      /\ regex_paths_ \in Seq(RegexEntry) /\ n \in Nat /\ DOMAIN regex_paths_ = 1..n
  BY StringsAssumption DEF StartIInv
<1>2. e \in RegexEntry /\ e.prefix = prefix
  BY DEF RegexEntry
<1>3. /\ UNCHANGED paths_
      /\ regex_paths_' = IF regex \in DOMAIN Search THEN Append(regex_paths_, e) ELSE regex_paths_
  BY DEF AddRegexPath
<1> HIDE DEF e
<1>4. \A p : PlainAnswer(p)' = PlainAnswer(p)
  BY <1>3 DEF PlainAnswer
<1>5. get_prefix(uri)' = get_prefix(uri)
  <2>1. Directory(uri)' = Directory(uri)
    BY DEF Directory, SelectLastInSeq, Max
  <2>2. Mounts(uri)' = Mounts(uri)
    BY <1>3, <2>1 DEF Mounts
  <2> QED
    BY <2>2 DEF get_prefix
<1>6. regex_paths_' = Append(regex_paths_, e)
  <2> SUFFICES ASSUME UNCHANGED regex_paths_ PROVE FALSE
    BY <1>3
  <2>1. RegexMatches(uri)' = RegexMatches(uri)
    BY DEF RegexMatches, RegexPrefixes
  <2> QED
    BY <1>3, <1>4, <1>5, <2>1 DEF Find, NoAnswer
<1>7. /\ DOMAIN regex_paths_' = 1..(n + 1)
      /\ regex_paths_'[n + 1] = e
      /\ \A k \in 1..n : regex_paths_'[k] = regex_paths_[k]
  BY <1>1, <1>2, <1>6
<1> HIDE DEF n
<1>8. /\ 1..(n + 1) = 1..n \cup {n + 1} /\ n + 1 \notin 1..n
  BY <1>1
<1>9. prefix \in AddedPrefixes /\ regex_paths_' # regex_paths_
  BY <1>1, <1>2, <1>7, <1>8 DEF AddedPrefixes
<1>10. /\ RegexPrefixes(uri) = {p \in {regex_paths_[k].prefix : k \in 1..n} : IsPrefix(p, uri)}
       /\ RegexPrefixes(uri)' = {p \in {regex_paths_'[k].prefix : k \in 1..(n + 1)} : IsPrefix(p, uri)}
  BY <1>1, <1>7 DEF RegexPrefixes, ToSet
<1>11. RegexPrefixes(uri)' = RegexPrefixes(uri) \cup {p \in {prefix} : IsPrefix(p, uri)}
  BY <1>2, <1>7, <1>8, <1>10
<1>12. RegexMatches(uri) \in SUBSET (1..n) /\ RegexMatches(uri)' \in SUBSET (1..(n + 1))
  BY <1>1, <1>7 DEF RegexMatches
<1>13. ASSUME Longest(RegexPrefixes(uri)') = Longest(RegexPrefixes(uri))
       PROVE  \A k \in 1..n : k \in RegexMatches(uri)' <=> k \in RegexMatches(uri)
  <2> SUFFICES ASSUME NEW k \in 1..n
               PROVE  k \in RegexMatches(uri)' <=> k \in RegexMatches(uri)
    OBVIOUS
  <2>1. k \in DOMAIN regex_paths_ /\ k \in DOMAIN regex_paths_' /\ regex_paths_'[k] = regex_paths_[k]
    BY <1>1, <1>7, <1>8
  <2>2. regex_paths_[k].prefix \in RegexPrefixes(uri)' <=> regex_paths_[k].prefix \in RegexPrefixes(uri)
    BY <1>10, <1>11
  <2> QED
    BY <1>13, <2>1, <2>2 DEF RegexMatches, Longest
<1>14. IsPrefix(prefix, uri)
  <2> SUFFICES ASSUME ~ IsPrefix(prefix, uri) PROVE FALSE
    OBVIOUS
  <2>1. RegexPrefixes(uri)' = RegexPrefixes(uri)
    BY <1>11
  <2>2. n + 1 \notin RegexMatches(uri)'
    BY <1>2, <1>7, <1>10 DEF RegexMatches
  <2>3. RegexMatches(uri)' = RegexMatches(uri)
    BY <1>8, <1>12, <1>13, <2>1, <2>2
  <2>4. ASSUME RegexMatches(uri) # {}
        PROVE  FALSE
    <3>1. Min(RegexMatches(uri)) \in 1..n
      <4>1. RegexMatches(uri) \in SUBSET Nat
        BY <1>1, <1>12
      <4> QED
        BY <1>12, <2>4, <4>1, MinIsLeast
    <3>2. regex_paths_'[Min(RegexMatches(uri))] = regex_paths_[Min(RegexMatches(uri))]
      BY <1>7, <3>1
    <3> QED
      BY <2>3, <2>4, <3>2 DEF Find, RegexAnswer
  <2> QED
    BY <1>3, <1>4, <1>5, <2>3, <2>4 DEF Find, NoAnswer
<1>15. ASSUME RegexMatches(uri) # {}
       PROVE  Len(prefix) > Len(Find(uri).pref[1])
  <2> DEFINE k == Min(RegexMatches(uri))
             L == Longest(RegexPrefixes(uri))
  <2>1. k \in RegexMatches(uri) /\ k \in 1..n /\ \A j \in RegexMatches(uri) : k <= j
    <3>1. RegexMatches(uri) \in SUBSET Nat
      BY <1>1, <1>12
    <3> QED
      BY <1>12, <1>15, <3>1, MinIsLeast
  <2> HIDE DEF k
  <2>2. L \in RegexPrefixes(uri) /\ regex_paths_[k].prefix = L
    BY <2>1 DEF RegexMatches
  <2>3. Find(uri).pref[1] = L /\ Find(uri) = RegexAnswer(regex_paths_[k])
    BY <1>15, <2>2 DEF Find, RegexAnswer, k
  <2>4. RegexPrefixes(uri) \in SUBSET Seq(Nat) /\ \A p \in RegexPrefixes(uri) : IsPrefix(p, uri)
    <3>1. \A j \in 1..n : regex_paths_[j].prefix \in Seq(Nat)
      <4>1. \A j \in 1..n : regex_paths_[j] \in RegexEntry
        BY <1>1
      <4>2. \A r \in RegexEntry : r.prefix \in Seq(Nat)
        BY <1>1 DEF RegexEntry
      <4> QED
        BY <4>1, <4>2
    <3> QED
      BY <1>10, <3>1
  <2>5. \A p \in RegexPrefixes(uri) : Len(p) <= Len(L)
    BY <1>1, <2>2, <2>4, LongestExists
  <2>6. Len(L) \in Nat /\ Len(prefix) \in Nat
    BY <1>1, <2>2, <2>4
  <2>7. ASSUME Len(prefix) <= Len(L)
        PROVE  FALSE
    <3>1. /\ RegexPrefixes(uri)' \in SUBSET Seq(Nat) /\ L \in RegexPrefixes(uri)'
          /\ \A p \in RegexPrefixes(uri)' : IsPrefix(p, uri) /\ Len(p) <= Len(L)
      <4> HIDE DEF L
      <4> QED
        BY <1>1, <1>11, <2>2, <2>4, <2>5, <2>7
    <3>2. Longest(RegexPrefixes(uri)') = L
      <4> HIDE DEF L
      <4> QED
        BY <1>1, <3>1, LongestUnique
    <3>3. k \in RegexMatches(uri)'
      BY <1>13, <2>1, <3>2
    <3>4. \A j \in RegexMatches(uri)' : k <= j
      <4> SUFFICES ASSUME NEW j \in RegexMatches(uri)' PROVE k <= j
        OBVIOUS
      <4>1. CASE j \in 1..n
        BY <1>13, <2>1, <3>2, <4>1
      <4>2. CASE j = n + 1
        BY <1>1, <2>1, <4>2
      <4> QED
        BY <1>8, <1>12, <4>1, <4>2
    <3>5. Min(RegexMatches(uri)') = k
      <4>1. RegexMatches(uri)' \in SUBSET Nat
        BY <1>1, <1>12
      <4>2. /\ Min(RegexMatches(uri)') \in RegexMatches(uri)'
            /\ \A j \in RegexMatches(uri)' : Min(RegexMatches(uri)') <= j
        BY <3>3, <4>1, MinIsLeast
      <4>3. k \in Nat /\ Min(RegexMatches(uri)') \in Nat
        BY <3>3, <4>1, <4>2
      <4>4. k <= Min(RegexMatches(uri)') /\ Min(RegexMatches(uri)') <= k
        BY <3>3, <3>4, <4>2
      <4> QED
        BY <4>3, <4>4
    <3>6. Find(uri)' = RegexAnswer(regex_paths_'[k])
      BY <3>3, <3>5 DEF Find, RegexAnswer, Min
    <3> QED
      BY <1>7, <2>1, <2>3, <3>6 DEF RegexAnswer
  <2> QED
    BY <2>3, <2>6, <2>7
<1> QED
  BY <1>9, <1>14, <1>15, AnswerKinds DEF Displaces

\* For every config, the prefix_ of a handler (static_handler.cc:79) begins
\* every uri that Find gives it.
THEOREM PrefixesFit == ConfigSpec => []InitPrefixFits
<1>1. StartIInv => InitPrefixFits
  BY FoundFits DEF InitPrefixFits
<1> QED
  BY StartInvariance, <1>1, PTL

\* For every config, no uri inside a mounted directory is left to NotFoundHandler
\* or to a handler mounted above (request_handler.cc:105).
THEOREM DirectoriesReached == ConfigSpec => []DirectoryReached
<1>1. StartIInv => DirectoryReached
  BY InsideFound DEF DirectoryReached
<1> QED
  BY StartInvariance, <1>1, PTL

\* parse_config (server.cc:86) accepts a config only if it is valid and refuses it
\* only if it is not, or a handler's Init objects; whatever the order and the
\* number of its statements.
THEOREM ValidAccepted == ConfigSpec => []AcceptsExactlyValid
<1>1. StartIInv /\ Judged /\ [ConfigNext]_configVars => Judged'
  BY JudgedStep
<1>2. Judged => AcceptsExactlyValid
  BY DEF Judged
<1> QED
  BY JudgedInit, StartInvariance, <1>1, <1>2, PTL DEF ConfigSpec

\* Whatever order a config lists its handlers in, a registration
\* (request_handler.cc:49) takes no uri from a longer prefix, and none from an
\* earlier regex of its own prefix.
THEOREM RegistrationsIsolated == ConfigSpec => RegistrationIsolated
<1> DEFINE Isolated ==
      \A uri \in Strings : Find(uri)' # Find(uri) => \E p \in AddedPrefixes : Displaces(p, uri)
<1>1. ASSUME StartIInv, [ConfigNext]_configVars
      PROVE  [Isolated]_container
  <2>1. CASE UNCHANGED container
    BY <2>1
  <2>2. ASSUME NEW prefix \in Strings, NEW hasStatus, MountPath(prefix, hasStatus)
        PROVE  Isolated
    BY <1>1, <2>2, PathIsolated DEF MountPath, Displaces
  <2>3. ASSUME NEW prefix \in Strings, NEW regex \in Regexes, NEW hasStatus \in BOOLEAN,
               MountRegex(prefix, regex, hasStatus)
        PROVE  Isolated
    <3>1. MountedHandler(config[at].type, prefix, hasStatus) \in Handlers
      BY <2>3, HandlersAssumption DEF MountRegex, HandlerObjects
    <3> QED
      BY <1>1, <2>3, <3>1, RegexIsolated DEF MountRegex, Displaces
  <2>4. CASE ParseDefault
    <3>1. UNCHANGED container \/ MountPath(<<>>, FALSE)
      BY <2>4 DEF ParseDefault, UnknownType, InitFails
    <3> QED
      BY <2>1, <2>2, <3>1, ConfigsAssumption
  <2>5. CASE ParsePath
    <3>1. UNCHANGED container \/ MountPath(config[at].prefix, IsStatusHandler)
      BY <2>5 DEF ParsePath, UnknownType, InitFails
    <3>2. config[at].prefix \in Strings
      BY <1>1, <2>5, StatementRead DEF ParsePath
    <3> QED
      BY <2>1, <2>2, <3>1, <3>2
  <2>6. CASE ParsePathRegex
    <3>1. UNCHANGED container \/ MountRegex(config[at].prefix, config[at].regex, IsStatusHandler)
      BY <2>6 DEF ParsePathRegex, UnknownType, InitFails
    <3>2. config[at].prefix \in Strings /\ config[at].regex \in Regexes
      BY <1>1, <2>6, StatementRead DEF ParsePathRegex
    <3>3. IsStatusHandler \in BOOLEAN
      BY DEF IsStatusHandler
    <3> QED
      BY <2>1, <2>3, <3>1, <3>2, <3>3
  <2>7. CASE \/ ParsePort \/ SkipStatement \/ ConfigRead \/ ConstructServer \/ ReadThreads
             \/ StartThreads \/ Done \/ UNCHANGED configVars
    <3>1. UNCHANGED container
      BY <2>7 DEF ParsePort, SkipStatement, ConfigRead, ConstructServer, ReadThreads,
                  StartThreads, Done, configVars
    <3> QED
      BY <2>1, <3>1
  <2> QED
    BY <1>1, <2>4, <2>5, <2>6, <2>7 DEF ConfigNext
<1>2. StartIInv /\ [ConfigNext]_configVars =>
        [\A uri \in Strings : Find(uri)' # Find(uri) =>
           \E p \in AddedPrefixes :
             /\ IsPrefix(p, uri)
             /\ IsRegexAnswer(Find(uri)) => regex_paths_' # regex_paths_
             /\ Find(uri).handler # NoHandler
                  /\ (IsRegexAnswer(Find(uri)) \/ regex_paths_' = regex_paths_) =>
                    Len(p) > Len(Find(uri).pref[1])]_container
  BY <1>1 DEF Displaces
<1> QED
  BY StartInvariance, <1>2, PTL DEF ConfigSpec, RegistrationIsolated

\* The port found is one, and the number of threads a number, whatever the
\* operands of the config are (server.cc:93-160, main.cc:55-70).
THEOREM StartTypes == ConfigSpec => []ConfigTypeOK
<1>1. StartIInv => ConfigTypeOK
  BY DEF StartIInv
<1> QED
  BY StartInvariance, <1>1, PTL

-----------------------------------------------------------------------------
\* What has been mounted

\* The statements before at, and all of them in the end.
Placed ==
  /\ phase = "parsing" => Mounted(at - 1)
  /\ Accepted => Mounted(Len(config))

\* Among the first n statements there are finitely many of any kind.
LEMMA FinitelyMany ==
  ASSUME StartIInv, NEW keys, NEW n \in Nat
  PROVE  IsFiniteSet({k \in At(keys) : k <= n})
<1>1. 1..Len(config) = DOMAIN config /\ Len(config) \in Nat
  BY Positions
<1>2. IsFiniteSet(1..Len(config))
  BY <1>1, FS_Interval
<1>3. {k \in At(keys) : k <= n} \in SUBSET (1..Len(config))
  BY <1>1 DEF At
<1> QED
  BY <1>2, <1>3, FS_Subset

\* The statement at hand is one more.
LEMMA OneMore ==
  ASSUME StartIInv, at \in DOMAIN config, NEW keys
  PROVE  /\ at - 1 \in Nat
         /\ {k \in At(keys) : k <= at} =
              {k \in At(keys) : k <= at - 1} \cup (IF config[at].key \in keys THEN {at} ELSE {})
         /\ at \notin {k \in At(keys) : k <= at - 1}
<1>1. DOMAIN config = 1..Len(config) /\ Len(config) \in Nat /\ at \in Nat
  BY Positions
<1>2. at - 1 \in Nat /\ ~ (at <= at - 1) /\ at <= at
  BY <1>1
<1>3. \A k \in DOMAIN config : k <= at <=> k <= at - 1 \/ k = at
  BY <1>1
<1> QED
  BY <1>2, <1>3 DEF At

LEMMA PlacedInit == ConfigInit => Placed
<1> SUFFICES ASSUME ConfigInit PROVE Placed
  OBVIOUS
<1>1. /\ paths_ = <<>> /\ regex_paths_ = <<>> /\ at = 1 /\ phase = "parsing"
  BY DEF ConfigInit, EmptyContainer
<1>2. StartIInv
  BY StartInit
<1>3. DOMAIN config = 1..Len(config) /\ Len(config) \in Nat
  BY <1>2, Positions
<1>4. \A k \in DOMAIN config : ~ (k <= 0)
  BY <1>3
<1>5. \A keys : {k \in At(keys) : k <= 0} = {}
  BY <1>4 DEF At
<1>6. DOMAIN paths_ = {} /\ Len(regex_paths_) = Cardinality({})
  BY <1>1, FS_EmptySet
<1>7. Mounted(0)
  BY <1>5, <1>6, Zenon DEF Mounted
<1>8. at - 1 = 0 /\ ~ Accepted
  BY <1>1 DEF Accepted
<1> QED
  BY <1>7, <1>8 DEF Placed

\* The container after a step.
LEMMA MountedNext ==
  ASSUME NEW m, config' = config,
         DOMAIN paths_' = {PrefixOf(config[k]) : k \in {j \in At(Plain) : j <= m}},
         \A k \in {j \in At(Plain) : j <= m} : Meant(paths_'[PrefixOf(config[k])], config[k]),
         Len(regex_paths_') = Cardinality({k \in At({"path_regex"}) : k <= m}),
         \A k \in {j \in At({"path_regex"}) : j <= m} :
           /\ regex_paths_'[Place(k)].prefix = config[k].prefix
           /\ regex_paths_'[Place(k)].regex = config[k].regex
           /\ Meant(regex_paths_'[Place(k)].handler, config[k])
  PROVE  Mounted(m)'
<1>1. \A keys : At(keys)' = At(keys)
  BY DEF At
<1>2. \A k : Place(k)' = Place(k)
  BY <1>1 DEF Place
<1>3. DOMAIN paths_' = {PrefixOf(config'[k]) : k \in {j \in At({"default", "path"})' : j <= m}}
  BY <1>1, Zenon DEF Plain
<1>4. \A k \in {j \in At({"default", "path"})' : j <= m} : Meant(paths_'[PrefixOf(config'[k])], config'[k])
  BY <1>1, Zenon DEF Plain
<1>5. Len(regex_paths_') = Cardinality({k \in At({"path_regex"})' : k <= m})
  BY <1>1
<1>6. \A k \in {j \in At({"path_regex"})' : j <= m} :
           /\ regex_paths_'[Place(k)'].prefix = config'[k].prefix
           /\ regex_paths_'[Place(k)'].regex = config'[k].regex
           /\ Meant(regex_paths_'[Place(k)'].handler, config'[k])
  BY <1>1, <1>2
<1> QED
  BY <1>3, <1>4, <1>5, <1>6, Zenon DEF Mounted

\* What holds before it.
LEMMA MountedMeans ==
  ASSUME NEW m, Mounted(m)
  PROVE  /\ DOMAIN paths_ = {PrefixOf(config[k]) : k \in {j \in At(Plain) : j <= m}}
         /\ \A k \in {j \in At(Plain) : j <= m} : Meant(paths_[PrefixOf(config[k])], config[k])
         /\ Len(regex_paths_) = Cardinality({k \in At({"path_regex"}) : k <= m})
         /\ \A k \in {j \in At({"path_regex"}) : j <= m} :
              /\ regex_paths_[Place(k)].prefix = config[k].prefix
              /\ regex_paths_[Place(k)].regex = config[k].regex
              /\ Meant(regex_paths_[Place(k)].handler, config[k])
BY Zenon DEF Mounted, Plain

\* A statement that mounts nothing.
LEMMA MountedAlready ==
  ASSUME NEW n, NEW m, Mounted(n), UNCHANGED <<container, config>>,
         \A k \in At(Mounting) : k <= n <=> k <= m
  PROVE  Mounted(m)'
<1>1. At(Plain) \subseteq At(Mounting) /\ At({"path_regex"}) \subseteq At(Mounting)
  BY DEF At, Plain, Mounting
<1>2. /\ {k \in At(Plain) : k <= n} = {k \in At(Plain) : k <= m}
      /\ {k \in At({"path_regex"}) : k <= n} = {k \in At({"path_regex"}) : k <= m}
  BY <1>1
<1>3. paths_' = paths_ /\ regex_paths_' = regex_paths_ /\ config' = config
  BY DEF container
<1>4. /\ DOMAIN paths_ = {PrefixOf(config[k]) : k \in {j \in At(Plain) : j <= m}}
      /\ \A k \in {j \in At(Plain) : j <= m} : Meant(paths_[PrefixOf(config[k])], config[k])
      /\ Len(regex_paths_) = Cardinality({k \in At({"path_regex"}) : k <= m})
      /\ \A k \in {j \in At({"path_regex"}) : j <= m} :
              /\ regex_paths_[Place(k)].prefix = config[k].prefix
              /\ regex_paths_[Place(k)].regex = config[k].regex
              /\ Meant(regex_paths_[Place(k)].handler, config[k])
  BY <1>2, MountedMeans, Zenon
<1> QED
  BY <1>3, <1>4, MountedNext, Zenon

\* A plain path.
LEMMA PathPlaced ==
  ASSUME StartIInv, Mounted(at - 1), at \in DOMAIN config, UNCHANGED config,
         config[at].key \in Plain, NEW s, s = Initialized(config[at]),
         PrefixOf(config[at]) \notin DOMAIN paths_,
         AddPath(PrefixOf(config[at]), MountedHandler(config[at].type, PrefixOf(config[at]), s)),
         NEW m, m = at
  PROVE  Mounted(m)'
<1> DEFINE here == PrefixOf(config[at])
           h == MountedHandler(config[at].type, here, s)
           plain == {k \in At(Plain) : k <= at - 1}
           regex == {k \in At({"path_regex"}) : k <= at - 1}
<1>1. /\ DOMAIN paths_' = DOMAIN paths_ \cup {here}
      /\ \A p \in DOMAIN paths_ : paths_'[p] = paths_[p]
      /\ paths_'[here] = h
      /\ regex_paths_' = regex_paths_
  BY DEF AddPath
<1>2. Meant(h, config[at])
  BY DEF Meant, MountedHandler
<1> HIDE DEF h
<1>3. /\ {k \in At(Plain) : k <= m} = plain \cup {at}
      /\ {k \in At({"path_regex"}) : k <= m} = regex
  BY OneMore DEF Plain
<1>4. /\ DOMAIN paths_ = {PrefixOf(config[k]) : k \in plain}
      /\ \A k \in plain : Meant(paths_[PrefixOf(config[k])], config[k])
      /\ Len(regex_paths_) = Cardinality(regex)
      /\ \A k \in regex :
           /\ regex_paths_[Place(k)].prefix = config[k].prefix
           /\ regex_paths_[Place(k)].regex = config[k].regex
           /\ Meant(regex_paths_[Place(k)].handler, config[k])
  BY MountedMeans, Zenon
<1> HIDE DEF plain, regex
<1>5. /\ DOMAIN paths_' = {PrefixOf(config[k]) : k \in plain \cup {at}}
      /\ \A k \in plain \cup {at} : Meant(paths_'[PrefixOf(config[k])], config[k])
  BY <1>1, <1>2, <1>4
<1> QED
  BY <1>1, <1>3, <1>4, <1>5, MountedNext, Zenon

\* A regular expression.
LEMMA RegexPlaced ==
  ASSUME StartIInv, Mounted(at - 1), at \in DOMAIN config, UNCHANGED config,
         config[at].key = "path_regex", NEW s, s = Initialized(config[at]),
         config[at].regex \in DOMAIN Search,
         AddRegexPath(config[at].prefix, config[at].regex,
                      MountedHandler(config[at].type, config[at].prefix, s)),
         NEW m, m = at
  PROVE  Mounted(m)'
<1> DEFINE e == [prefix |-> config[at].prefix, regex |-> config[at].regex,
                 handler |-> MountedHandler(config[at].type, config[at].prefix, s)]
           plain == {k \in At(Plain) : k <= at - 1}
           regex == {k \in At({"path_regex"}) : k <= at - 1}
<1>1. paths_' = paths_ /\ regex_paths_' = Append(regex_paths_, e)
  BY Zenon DEF AddRegexPath
<1>2. e.prefix = config[at].prefix /\ e.regex = config[at].regex /\ Meant(e.handler, config[at])
  BY DEF Meant, MountedHandler
<1> HIDE DEF e
<1>3. /\ {k \in At(Plain) : k <= m} = plain
      /\ {k \in At({"path_regex"}) : k <= m} = regex \cup {at}
      /\ at \notin regex
      /\ at - 1 \in Nat
  <2>1. config[at].key \notin Plain /\ config[at].key \in {"path_regex"}
    BY DEF Plain
  <2> QED BY <2>1, OneMore, Zenon
<1>4. /\ DOMAIN paths_ = {PrefixOf(config[k]) : k \in plain}
      /\ \A k \in plain : Meant(paths_[PrefixOf(config[k])], config[k])
      /\ Len(regex_paths_) = Cardinality(regex)
      /\ \A k \in regex :
           /\ regex_paths_[Place(k)].prefix = config[k].prefix
           /\ regex_paths_[Place(k)].regex = config[k].regex
           /\ Meant(regex_paths_[Place(k)].handler, config[k])
  BY MountedMeans, Zenon
<1>5. IsFiniteSet(regex) /\ Cardinality(regex) \in Nat
  BY <1>3, FinitelyMany, FS_CardinalityType
<1>6. Cardinality(regex \cup {at}) = Cardinality(regex) + 1
  BY <1>3, <1>5, FS_AddElement
<1>7. Place(at) = Cardinality(regex) + 1
  BY <1>3, <1>6, Zenon DEF Place
<1>8. ASSUME NEW k \in regex
      PROVE  Place(k) \in 1..Len(regex_paths_)
  <2>1. k \in At({"path_regex"}) /\ k <= at - 1
    BY <1>8
  <2>2. k \in Nat /\ at \in Nat
    BY <2>1, Positions DEF At
  <2>3. {j \in At({"path_regex"}) : j <= k} \in SUBSET regex
    <3>1. \A j \in At({"path_regex"}) : j \in Nat
      BY Positions DEF At
    <3>2. \A j \in Nat : j <= k => j <= at - 1
      BY <2>1, <2>2
    <3> QED BY <3>1, <3>2
  <2>4. k \in {j \in At({"path_regex"}) : j <= k}
    BY <2>1, <2>2
  <2> DEFINE those == {j \in At({"path_regex"}) : j <= k}
  <2>5. Place(k) = Cardinality(those) /\ those \in SUBSET regex /\ those # {}
    BY <2>3, <2>4 DEF Place
  <2> HIDE DEF those
  <2>6. IsFiniteSet(those) /\ Cardinality(those) <= Cardinality(regex)
    BY <1>5, <2>5, FS_Subset
  <2>7. Cardinality(those) \in Nat /\ Cardinality(those) # 0
    BY <2>5, <2>6, FS_CardinalityType, FS_EmptySet
  <2> QED BY <1>4, <1>5, <2>5, <2>6, <2>7
<1>9. /\ regex_paths_ \in Seq(RegexEntry)
      /\ Len(regex_paths_') = Len(regex_paths_) + 1
      /\ \A j \in 1..Len(regex_paths_) : regex_paths_'[j] = regex_paths_[j]
      /\ regex_paths_'[Len(regex_paths_) + 1] = e
  <2>1. regex_paths_ \in Seq(RegexEntry)
    BY DEF StartIInv
  <2> QED BY <1>1, <2>1
<1> HIDE DEF plain, regex
<1>10. Len(regex_paths_') = Cardinality({k \in At({"path_regex"}) : k <= m})
  BY <1>3, <1>4, <1>6, <1>9
<1>11. \A k \in regex \cup {at} :
              /\ regex_paths_'[Place(k)].prefix = config[k].prefix
              /\ regex_paths_'[Place(k)].regex = config[k].regex
              /\ Meant(regex_paths_'[Place(k)].handler, config[k])
  <2>1. regex_paths_'[Place(at)] = e
    BY <1>4, <1>7, <1>9
  <2>2. \A k \in regex : regex_paths_'[Place(k)] = regex_paths_[Place(k)]
    BY <1>8, <1>9
  <2> QED BY <1>2, <1>4, <2>1, <2>2
<1> QED
  BY <1>1, <1>3, <1>4, <1>10, <1>11, MountedNext, Zenon

LEMMA PlacedStep ==
  ASSUME StartIInv, Judged, Placed, [ConfigNext]_configVars
  PROVE  Placed'
<1>1. ASSUME NEW key, Parsing(key)
      PROVE  /\ phase = "parsing" /\ ReadSoFar /\ UNCHANGED config /\ Mounted(at - 1)
             /\ at \in DOMAIN config /\ config[at].key = key
  BY <1>1 DEF Parsing, Judged, Placed
<1>2. ASSUME phase' \in Ended
      PROVE  Placed'
  BY <1>2 DEF Placed, Ended, Accepted
<1>3. ASSUME NEW key, Parsing(key), Continue, \A m : m = at => Mounted(m)'
      PROVE  Placed'
  <2>1. phase' = "parsing" /\ at' = at + 1 /\ at \in Nat
    BY <1>1, <1>3, Positions DEF Continue
  <2>2. at' - 1 = at /\ ~ Accepted'
    BY <2>1 DEF Accepted
  <2>3. PICK m : m = at
    OBVIOUS
  <2>4. m = at' - 1 /\ Mounted(m)'
    BY <1>3, <2>2, <2>3
  <2>5. Mounted(at - 1)'
    BY <2>4 DEF Mounted
  <2> QED BY <2>2, <2>5 DEF Placed
<1>4. ASSUME NEW key \in {"port", "threads", "other"}, Parsing(key), Continue, UNCHANGED container
      PROVE  Placed'
  <2>1. \A k \in At(Mounting) : k <= at - 1 <=> k <= at
    <3>1. at \notin At(Mounting)
      BY <1>1, <1>4 DEF At, Mounting
    <3>2. \A k \in DOMAIN config : k # at => (k <= at - 1 <=> k <= at)
      BY Positions
    <3> QED BY <3>1, <3>2 DEF At
  <2> QED BY <1>1, <1>3, <1>4, <2>1, MountedAlready
<1>5. ASSUME UnknownType \/ InitFails
      PROVE  phase' \in Ended
  BY <1>5 DEF UnknownType, InitFails, Stop, Ended
<1>6. ASSUME NEW key \in Plain, Parsing(key), NEW s, s = Initialized(config[at]),
             MountPath(PrefixOf(config[at]), s)
      PROVE  Placed'
  <2>1. CASE PrefixOf(config[at]) \in DOMAIN paths_
    BY <1>2, <1>6, <2>1 DEF MountPath, Stop, Ended
  <2>2. CASE PrefixOf(config[at]) \notin DOMAIN paths_
    <3>1. Continue /\ AddPath(PrefixOf(config[at]), MountedHandler(config[at].type, PrefixOf(config[at]), s))
      BY <1>6, <2>2 DEF MountPath
    <3>2. \A m : m = at => Mounted(m)'
      BY <1>1, <1>6, <2>2, <3>1, PathPlaced
    <3> QED BY <1>3, <1>6, <3>1, <3>2
  <2> QED BY <2>1, <2>2
<1>7. CASE ParseDefault
  <2>1. Parsing("default") /\ "default" \in Plain
    BY <1>7 DEF ParseDefault, Plain
  <2>2. PrefixOf(config[at]) = <<>> /\ Initialized(config[at]) = FALSE
    BY <2>1, <1>1 DEF PrefixOf, Initialized
  <2>3. (UnknownType \/ InitFails) \/ MountPath(PrefixOf(config[at]), FALSE)
    BY <1>7, <2>2 DEF ParseDefault
  <2> QED BY <1>2, <1>5, <1>6, <2>1, <2>2, <2>3
<1>8. CASE ParsePath
  <2>1. Parsing("path") /\ "path" \in Plain
    BY <1>8 DEF ParsePath, Plain
  <2>2. PrefixOf(config[at]) = config[at].prefix /\ Initialized(config[at]) = IsStatusHandler
    BY <2>1, <1>1 DEF PrefixOf, Initialized, IsStatusHandler
  <2>3. (UnknownType \/ InitFails) \/ MountPath(PrefixOf(config[at]), IsStatusHandler)
    BY <1>8, <2>2 DEF ParsePath
  <2> QED BY <1>2, <1>5, <1>6, <2>1, <2>2, <2>3
<1>9. CASE ParsePathRegex
  <2>1. Parsing("path_regex")
    BY <1>9 DEF ParsePathRegex
  <2>2. CASE UnknownType \/ InitFails
    BY <1>2, <1>5, <2>2
  <2>3. CASE MountRegex(config[at].prefix, config[at].regex, IsStatusHandler)
    <3>1. CASE config[at].regex \notin DOMAIN Search
      BY <1>2, <2>3, <3>1 DEF MountRegex, Stop, Ended
    <3>2. CASE config[at].regex \in DOMAIN Search
      <4>1. /\ Continue
            /\ AddRegexPath(config[at].prefix, config[at].regex,
                            MountedHandler(config[at].type, config[at].prefix, IsStatusHandler))
        BY <2>3, <3>2 DEF MountRegex
      <4>2. Initialized(config[at]) = IsStatusHandler
        BY <2>1, <1>1 DEF Initialized, IsStatusHandler
      <4>3. \A m : m = at => Mounted(m)'
        BY <1>1, <2>1, <3>2, <4>1, <4>2, RegexPlaced
      <4> QED BY <1>3, <2>1, <4>1, <4>3
    <3> QED BY <3>1, <3>2
  <2> QED BY <1>9, <2>2, <2>3 DEF ParsePathRegex
<1>10. CASE ParsePort
  <2>1. Parsing("port") /\ UNCHANGED container
    BY <1>10 DEF ParsePort
  <2>2. Continue \/ Stop("failed")
    BY <1>10 DEF ParsePort
  <2> QED BY <1>2, <1>4, <2>1, <2>2 DEF Stop, Ended
<1>11. CASE SkipStatement
  BY <1>4, <1>11 DEF SkipStatement
<1>12. CASE ConfigRead
  <2>1. /\ phase = "parsing" /\ UNCHANGED <<container, config>>
        /\ at = Len(config) + 1 /\ phase' \in {"failed", "parsed"}
    BY <1>12 DEF ConfigRead
  <2>2. at - 1 = Len(config) /\ Mounted(at - 1)
    BY <2>1, Positions DEF Placed
  <2>3. PICK m : m = Len(config)
    OBVIOUS
  <2>4. Mounted(m)'
    BY <2>1, <2>2, <2>3, MountedAlready
  <2>5. m = Len(config')
    BY <2>1, <2>3
  <2>6. Mounted(Len(config))'
    BY <2>4, <2>5 DEF Mounted
  <2> QED BY <2>1, <2>6 DEF Placed
<1>13. CASE ConstructServer \/ ReadThreads \/ StartThreads
  <2>1. UNCHANGED <<container, config>> /\ Accepted /\ phase' # "parsing"
    BY <1>13 DEF ConstructServer, ReadThreads, StartThreads, Accepted
  <2>2. PICK m : m = Len(config)
    OBVIOUS
  <2>3. Mounted(m)'
    BY <2>1, <2>2, MountedAlready DEF Placed
  <2>4. Mounted(Len(config))'
    BY <2>1, <2>2, <2>3 DEF Mounted
  <2> QED BY <2>1, <2>4 DEF Placed
<1>14. CASE Done \/ UNCHANGED configVars
  <2>1. UNCHANGED <<container, config, at, phase>>
    BY <1>14 DEF Done, configVars, server
  <2>2. PICK m, n : m = Len(config) /\ n = at - 1
    OBVIOUS
  <2>3. (phase = "parsing" => Mounted(n)') /\ (Accepted => Mounted(m)')
    BY <2>1, <2>2, MountedAlready DEF Placed
  <2>4. m = Len(config') /\ n = at' - 1
    BY <2>1, <2>2
  <2>5. (phase' = "parsing" => Mounted(at - 1)') /\ (Accepted' => Mounted(Len(config))')
    BY <2>1, <2>3, <2>4 DEF Mounted, Accepted
  <2> QED BY <2>5 DEF Placed
<1> QED
  BY <1>7, <1>8, <1>9, <1>10, <1>11, <1>12, <1>13, <1>14 DEF ConfigNext

\* An accepted config has every one of its handlers mounted where it says, with
\* the type and the ServerStatus it is to have, the regexes in their order
\* (server.cc:100-200), however many statements it has.
THEOREM AllMounted == ConfigSpec => []MountsAsConfigured
<1>1. StartIInv /\ Judged /\ [ConfigNext]_configVars => Judged'
  BY JudgedStep
<1>2. StartIInv /\ Judged /\ Placed /\ [ConfigNext]_configVars => Placed'
  BY PlacedStep
<1>3. Placed => MountsAsConfigured
  BY DEF Placed, MountsAsConfigured
<1> QED
  BY JudgedInit, PlacedInit, StartInvariance, <1>1, <1>2, <1>3, PTL DEF ConfigSpec

-----------------------------------------------------------------------------
\* What the status page lists

LEMMA PartsAgree ==
  ASSUME NEW s \in Seq(Nat), NEW t \in Seq(Nat), NEW k \in Nat, k <= Len(s), k <= Len(t)
  PROVE  SubSeq(s, 1, k) = SubSeq(t, 1, k) <=> \A j \in 1..k : s[j] = t[j]
<1>1. /\ SubSeq(s, 1, k) \in Seq(Nat) /\ Len(SubSeq(s, 1, k)) = k
      /\ \A j \in 1..k : SubSeq(s, 1, k)[j] = s[j]
  OBVIOUS
<1>2. /\ SubSeq(t, 1, k) \in Seq(Nat) /\ Len(SubSeq(t, 1, k)) = k
      /\ \A j \in 1..k : SubSeq(t, 1, k)[j] = t[j]
  OBVIOUS
<1>3. PICK a \in Seq(Nat) : a = SubSeq(s, 1, k)
  BY <1>1
<1>4. PICK b \in Seq(Nat) : b = SubSeq(t, 1, k)
  BY <1>2
<1>5. a = b <=> \A j \in 1..k : a[j] = b[j]
  BY <1>1, <1>2, <1>3, <1>4
<1> QED
  BY <1>1, <1>2, <1>3, <1>4, <1>5

\* Two strings agree in their first k characters, and the first of them ends there
\* or has the lesser character next.
PartAt(s, t, k) ==
  /\ k <= Len(s) /\ k < Len(t)
  /\ \A j \in 1..k : s[j] = t[j]
  /\ k = Len(s) \/ s[k + 1] < t[k + 1]

LEMMA BeforeMeans ==
  ASSUME NEW s \in Seq(Nat), NEW t \in Seq(Nat)
  PROVE  Before(s, t) <=> \E k \in Nat : PartAt(s, t, k)
<1>1. Len(s) \in Nat /\ Len(t) \in Nat
  OBVIOUS
<1>2. DOMAIN s = 1..Len(s) /\ DOMAIN t = 1..Len(t)
  OBVIOUS
<1>3. ASSUME NEW k \in Nat, PartAt(s, t, k)
      PROVE  Before(s, t)
  <2>1. CASE k = Len(s)
    <3>1. IsPrefix(s, t)
      BY <1>1, <1>3, <2>1, PrefixElements DEF PartAt
    <3>2. s # t
      BY <1>1, <1>3, <2>1 DEF PartAt
    <3> QED BY <3>1, <3>2 DEF Before, IsStrictPrefix
  <2>2. CASE k # Len(s)
    <3>1. k <= Len(s) /\ k < Len(t)
      BY <1>3, Zenon DEF PartAt
    <3>2. k + 1 \in 1..Len(s) /\ k + 1 \in 1..Len(t) /\ (k + 1) - 1 = k
      BY <1>1, <2>2, <3>1
    <3>3. s[k + 1] < t[k + 1]
      BY <1>3, <2>2 DEF PartAt
    <3>4. SubSeq(s, 1, k) = SubSeq(t, 1, k)
      BY <1>1, <1>3, PartsAgree DEF PartAt
    <3>5. PICK i : i = k + 1
      OBVIOUS
    <3>6. i \in DOMAIN s \cap DOMAIN t /\ s[i] < t[i] /\ SubSeq(s, 1, i - 1) = SubSeq(t, 1, i - 1)
      BY <1>2, <3>2, <3>3, <3>4, <3>5
    <3> QED BY <3>6, Zenon DEF Before
  <2> QED BY <2>1, <2>2
<1>4. ASSUME IsStrictPrefix(s, t)
      PROVE  \E k \in Nat : PartAt(s, t, k)
  <2>1. Len(s) <= Len(t) /\ \A k \in 1..Len(s) : s[k] = t[k]
    BY <1>4, PrefixElements DEF IsStrictPrefix
  <2>2. Len(s) # Len(t)
    <3> SUFFICES ASSUME Len(s) = Len(t) PROVE FALSE
      OBVIOUS
    <3>1. s = t
      BY <2>1
    <3> QED BY <1>4, <3>1 DEF IsStrictPrefix
  <2>3. PICK m \in Nat : m = Len(s)
    BY <1>1
  <2>4. m <= Len(s) /\ m < Len(t) /\ m = Len(s)
    BY <1>1, <2>1, <2>2, <2>3
  <2>5. PartAt(s, t, m)
    BY <2>1, <2>3, <2>4, Zenon DEF PartAt
  <2> QED BY <2>5
<1>5. ASSUME NEW i \in DOMAIN s \cap DOMAIN t, s[i] < t[i], SubSeq(s, 1, i - 1) = SubSeq(t, 1, i - 1)
      PROVE  \E k \in Nat : PartAt(s, t, k)
  <2>1. i \in 1..Len(s) /\ i \in 1..Len(t)
    BY <1>2
  <2>2. i - 1 \in Nat /\ i = (i - 1) + 1 /\ i - 1 < Len(s) /\ i - 1 < Len(t)
    BY <1>1, <2>1
  <2>3. PICK k \in Nat : k = i - 1 /\ i = k + 1 /\ k < Len(s) /\ k < Len(t)
    BY <2>2
  <2>4. \A j \in 1..k : s[j] = t[j]
    BY <1>1, <1>5, <2>3, PartsAgree
  <2>5. PartAt(s, t, k)
    BY <1>1, <1>5, <2>3, <2>4 DEF PartAt
  <2> QED BY <2>5
<1> QED
  BY <1>1, <1>3, <1>4, <1>5 DEF Before

\* The order of strings is a strict one,
LEMMA BeforeIsStrict ==
  ASSUME NEW s \in Seq(Nat)
  PROVE  ~ Before(s, s)
BY BeforeMeans DEF PartAt

\* a transitive one,
LEMMA BeforeIsTransitive ==
  ASSUME NEW s \in Seq(Nat), NEW t \in Seq(Nat), NEW u \in Seq(Nat), Before(s, t), Before(t, u)
  PROVE  Before(s, u)
<1>1. PICK k \in Nat : PartAt(s, t, k)
  BY BeforeMeans
<1>2. PICK m \in Nat : PartAt(t, u, m)
  BY BeforeMeans
<1>3. Len(s) \in Nat /\ Len(t) \in Nat /\ Len(u) \in Nat
  OBVIOUS
<1>4. CASE k < m
  <2>1. \A j \in 1..k : s[j] = t[j] /\ t[j] = u[j]
    BY <1>1, <1>2, <1>4 DEF PartAt
  <2>2. k <= Len(s) /\ k < Len(u) /\ t[k + 1] = u[k + 1]
    BY <1>1, <1>2, <1>3, <1>4 DEF PartAt
  <2>3. PartAt(s, u, k)
    BY <1>1, <2>1, <2>2 DEF PartAt
  <2> QED BY <2>3, BeforeMeans
<1>5. CASE m < k
  <2>1. \A j \in 1..m : s[j] = t[j] /\ t[j] = u[j]
    BY <1>1, <1>2, <1>5 DEF PartAt
  <2>2. m < Len(s) /\ m < Len(u) /\ s[m + 1] = t[m + 1] /\ m # Len(t)
    BY <1>1, <1>2, <1>3, <1>5 DEF PartAt
  <2>3. PartAt(s, u, m)
    BY <1>2, <2>1, <2>2 DEF PartAt
  <2> QED BY <2>3, BeforeMeans
<1>6. CASE m = k
  <2>1. \A j \in 1..k : s[j] = t[j] /\ t[j] = u[j]
    BY <1>1, <1>2, <1>6 DEF PartAt
  <2>2. k <= Len(s) /\ k < Len(u) /\ k < Len(t) /\ k # Len(t)
    BY <1>1, <1>2, <1>3, <1>6 DEF PartAt
  <2>3. k = Len(s) \/ s[k + 1] < u[k + 1]
    <3> SUFFICES ASSUME k # Len(s) PROVE s[k + 1] < u[k + 1]
      OBVIOUS
    <3>1. k + 1 \in 1..Len(s) /\ k + 1 \in 1..Len(t) /\ k + 1 \in 1..Len(u)
      BY <1>3, <2>2
    <3>2. s[k + 1] \in Nat /\ t[k + 1] \in Nat /\ u[k + 1] \in Nat
      BY <3>1
    <3>3. s[k + 1] < t[k + 1] /\ t[k + 1] < u[k + 1]
      BY <1>1, <1>2, <1>6, <2>2 DEF PartAt
    <3> QED BY <3>2, <3>3
  <2>4. PartAt(s, u, k)
    BY <2>1, <2>2, <2>3 DEF PartAt
  <2> QED BY <2>4, BeforeMeans
<1> QED
  BY <1>4, <1>5, <1>6

\* and a total one.
LEMMA BeforeIsTotal ==
  ASSUME NEW s \in Seq(Nat), NEW t \in Seq(Nat), s # t
  PROVE  Before(s, t) \/ Before(t, s)
<1> DEFINE Agreed == {k \in 0..Len(s) : k <= Len(t) /\ \A j \in 1..k : s[j] = t[j]}
<1>1. Len(s) \in Nat /\ Len(t) \in Nat
  OBVIOUS
<1>2. Agreed \in SUBSET (0..Len(s)) /\ 0 \in Agreed
  BY <1>1
<1>3. PICK m \in Agreed : \A k \in Agreed : k <= m
  BY <1>1, <1>2, LargestExists
<1>4. m \in Nat /\ m <= Len(s) /\ m <= Len(t) /\ \A j \in 1..m : s[j] = t[j]
  BY <1>3
<1>5. CASE m = Len(s) /\ m = Len(t)
  <2>1. s = t
    <3>1. \A j \in 1..Len(s) : s[j] = t[j]
      BY <1>4, <1>5, Zenon
    <3>2. Len(s) = Len(t)
      BY <1>5
    <3> QED BY <3>1, <3>2
  <2> QED BY <2>1
<1>6. CASE m = Len(s) /\ m # Len(t)
  <2>1. PartAt(s, t, m)
    BY <1>1, <1>4, <1>6 DEF PartAt
  <2> QED BY <1>4, <2>1, BeforeMeans
<1>7. CASE m # Len(s) /\ m = Len(t)
  <2>1. PartAt(t, s, m)
    BY <1>1, <1>4, <1>7 DEF PartAt
  <2> QED BY <1>4, <2>1, BeforeMeans
<1>8. CASE m # Len(s) /\ m # Len(t)
  <2>1. m + 1 \in 1..Len(s) /\ m + 1 \in 1..Len(t) /\ ~ (m + 1 <= m)
    BY <1>1, <1>4, <1>8
  <2>2. m + 1 \notin Agreed
    BY <1>3, <2>1
  <2>3. s[m + 1] # t[m + 1]
    BY <1>4, <2>1, <2>2
  <2>4. s[m + 1] \in Nat /\ t[m + 1] \in Nat
    BY <2>1
  <2>5. PartAt(s, t, m) \/ PartAt(t, s, m)
    BY <1>1, <1>4, <1>8, <2>3, <2>4 DEF PartAt
  <2> QED BY <1>4, <2>5, BeforeMeans
<1> QED
  BY <1>5, <1>6, <1>7, <1>8

-----------------------------------------------------------------------------
\* How many strings of a set come before one of them.
Below(S, s) == {t \in S : Before(t, s)}

LEMMA RankType ==
  ASSUME NEW S \in SUBSET Seq(Nat), IsFiniteSet(S), NEW s \in S
  PROVE  IsFiniteSet(Below(S, s)) /\ Cardinality(Below(S, s)) \in 0..(Cardinality(S) - 1)
<1>1. Below(S, s) \in SUBSET (S \ {s})
  BY BeforeIsStrict DEF Below
<1>2. IsFiniteSet(S \ {s}) /\ Cardinality(S \ {s}) = Cardinality(S) - 1
  BY FS_RemoveElement
<1>3. IsFiniteSet(Below(S, s)) /\ Cardinality(Below(S, s)) <= Cardinality(S \ {s})
  BY <1>1, <1>2, FS_Subset
<1>4. Cardinality(Below(S, s)) \in Nat /\ Cardinality(S) \in Nat
  BY <1>3, FS_CardinalityType
<1> QED
  BY <1>2, <1>3, <1>4

LEMMA RankGrows ==
  ASSUME NEW S \in SUBSET Seq(Nat), IsFiniteSet(S), NEW s \in S, NEW t \in S, Before(s, t)
  PROVE  Cardinality(Below(S, s)) < Cardinality(Below(S, t))
<1>1. Below(S, s) \cup {s} \in SUBSET Below(S, t)
  BY BeforeIsTransitive DEF Below
<1>2. s \notin Below(S, s)
  BY BeforeIsStrict DEF Below
<1>3. IsFiniteSet(Below(S, s)) /\ IsFiniteSet(Below(S, t))
  BY RankType
<1>4. Cardinality(Below(S, s) \cup {s}) = Cardinality(Below(S, s)) + 1
  BY <1>2, <1>3, FS_AddElement
<1>5. Cardinality(Below(S, s) \cup {s}) <= Cardinality(Below(S, t))
  BY <1>1, <1>3, FS_Subset
<1>6. Cardinality(Below(S, s)) \in Nat /\ Cardinality(Below(S, t)) \in Nat
  BY <1>3, FS_CardinalityType
<1> QED
  BY <1>4, <1>5, <1>6

\* Every finite set of strings can be put in order,
LEMMA OrderExists ==
  ASSUME NEW S \in SUBSET Seq(Nat), IsFiniteSet(S)
  PROVE  \E f \in [1..Cardinality(S) -> S] : \A i, j \in DOMAIN f : i < j => Before(f[i], f[j])
<1>1. PICK n \in Nat : n = Cardinality(S)
  BY FS_CardinalityType
<1>2. PICK rank : rank = [s \in S |-> Cardinality(Below(S, s)) + 1]
  OBVIOUS
<1>3. \A s \in S : rank[s] \in 1..n
  BY <1>1, <1>2, RankType
<1>4. \A s, t \in S : Before(s, t) => rank[s] < rank[t]
  <2> SUFFICES ASSUME NEW s \in S, NEW t \in S, Before(s, t)
               PROVE  rank[s] < rank[t]
    OBVIOUS
  <2>1. Cardinality(Below(S, s)) < Cardinality(Below(S, t))
    BY RankGrows
  <2>2. Cardinality(Below(S, s)) \in Nat /\ Cardinality(Below(S, t)) \in Nat
    BY RankType, FS_CardinalityType
  <2> QED BY <1>2, <2>1, <2>2
<1>5. \A s, t \in S : rank[s] = rank[t] => s = t
  <2> SUFFICES ASSUME NEW s \in S, NEW t \in S, rank[s] = rank[t], s # t
               PROVE  FALSE
    OBVIOUS
  <2>1. s \in Seq(Nat) /\ t \in Seq(Nat)
    OBVIOUS
  <2>2. Before(s, t) \/ Before(t, s)
    BY <2>1, BeforeIsTotal
  <2>3. rank[s] \in Nat /\ rank[t] \in Nat
    BY <1>3
  <2> QED BY <1>4, <2>2, <2>3
<1>6. rank \in Injection(S, 1..n)
  <2>1. rank \in [S -> 1..n]
    BY <1>2, <1>3
  <2> QED BY <1>5, <2>1 DEF Injection, IsInjective
<1>7. IsFiniteSet(1..n) /\ Cardinality(1..n) = n
  BY FS_Interval
<1>8. rank \in Surjection(S, 1..n)
  BY <1>1, <1>6, <1>7, FS_Injection
<1>9. \A k \in 1..n : \E s \in S : rank[s] = k
  BY <1>8 DEF Surjection
<1> DEFINE f == [k \in 1..n |-> CHOOSE s \in S : rank[s] = k]
<1>10. f \in [1..n -> S] /\ \A k \in 1..n : f[k] \in S /\ rank[f[k]] = k
  BY <1>9
<1> HIDE DEF f
<1>11. ASSUME NEW i \in 1..n, NEW j \in 1..n, i < j
       PROVE  Before(f[i], f[j])
  <2>1. f[i] \in S /\ f[j] \in S /\ rank[f[i]] = i /\ rank[f[j]] = j
    BY <1>10
  <2>2. f[i] # f[j] /\ ~ (rank[f[j]] < rank[f[i]])
    BY <1>11, <2>1
  <2>3. f[i] \in Seq(Nat) /\ f[j] \in Seq(Nat)
    BY <2>1
  <2> QED BY <1>4, <2>1, <2>2, <2>3, BeforeIsTotal
<1>12. f \in [1..Cardinality(S) -> S] /\ \A i, j \in DOMAIN f : i < j => Before(f[i], f[j])
  BY <1>1, <1>10, <1>11
<1> QED
  BY <1>12

\* and InOrder leaves none of them out.
LEMMA AllInOrder ==
  ASSUME NEW S \in SUBSET Seq(Nat), IsFiniteSet(S)
  PROVE  /\ DOMAIN InOrder(S) = 1..Cardinality(S) /\ Cardinality(S) \in Nat
         /\ \A s \in S : \E k \in 1..Cardinality(S) : InOrder(S)[k] = s
<1>1. PICK f : /\ f = InOrder(S) /\ f \in [1..Cardinality(S) -> S]
               /\ \A i, j \in DOMAIN f : i < j => Before(f[i], f[j])
  BY OrderExists DEF InOrder
<1>2. PICK n \in Nat : n = Cardinality(S)
  BY FS_CardinalityType
<1>3. f \in [1..n -> S] /\ DOMAIN f = 1..n
  BY <1>1, <1>2
<1>4. \A i, j \in 1..n : f[i] = f[j] => i = j
  <2> SUFFICES ASSUME NEW i \in 1..n, NEW j \in 1..n, f[i] = f[j], i < j
               PROVE  FALSE
    OBVIOUS
  <2>1. Before(f[i], f[j]) /\ f[i] \in Seq(Nat)
    BY <1>1, <1>3
  <2> QED BY <2>1, BeforeIsStrict
<1>5. f \in Injection(1..n, S)
  BY <1>3, <1>4 DEF Injection, IsInjective
<1>6. IsFiniteSet(1..n) /\ Cardinality(1..n) = n
  BY FS_Interval
<1>7. f \in Surjection(1..n, S)
  BY <1>2, <1>5, <1>6, FS_Injection
<1>8. \A s \in S : \E k \in 1..n : f[k] = s
  BY <1>7 DEF Surjection
<1> QED
  BY <1>1, <1>2, <1>3, <1>8

-----------------------------------------------------------------------------
LEMMA FoundListed ==
  ASSUME StartIInv, IsFiniteSet(DOMAIN paths_), NEW uri \in Strings, Find(uri).handler # NoHandler
  PROVE  Find(uri).pref \in ToSet(GetList)
<1> DEFINE plain == [k \in DOMAIN InOrder(DOMAIN paths_) |-> <<InOrder(DOMAIN paths_)[k]>>]
           regex == [k \in DOMAIN regex_paths_ |-> <<regex_paths_[k].prefix, regex_paths_[k].regex>>]
<1>1. DOMAIN paths_ \in SUBSET Seq(Nat) /\ DOMAIN paths_ \in SUBSET Strings
  BY StringsAssumption DEF StartIInv, ConfigTypeOK, ContainerTypeOK
<1>2. PICK n \in Nat : /\ DOMAIN InOrder(DOMAIN paths_) = 1..n
                       /\ \A p \in DOMAIN paths_ : \E k \in 1..n : InOrder(DOMAIN paths_)[k] = p
  BY <1>1, AllInOrder
<1>3. PICK m \in Nat : m = Len(regex_paths_) /\ DOMAIN regex_paths_ = 1..m
  BY DEF StartIInv
<1>4. PICK order : order = InOrder(DOMAIN paths_)
  OBVIOUS
<1>5. PICK p : p = plain
  OBVIOUS
<1>6. p = [k \in DOMAIN order |-> <<order[k]>>] /\ DOMAIN order = 1..n
  BY <1>2, <1>4, <1>5
<1>7. PICK r : r = regex
  OBVIOUS
<1> DEFINE W == {p[k] : k \in 1..n} \cup {r[k] : k \in 1..m}
<1>8. /\ p \in Seq(W) /\ Len(p) = n
      /\ \A k \in 1..n : p[k] = <<order[k]>>
  BY <1>6
<1>9. /\ r \in Seq(W) /\ Len(r) = m
      /\ \A k \in 1..m : r[k] = <<regex_paths_[k].prefix, regex_paths_[k].regex>>
  BY <1>3, <1>7
<1>10. GetList = p \o r
  BY <1>5, <1>7, Zenon DEF GetList
<1> HIDE DEF W
<1>11. PICK list : list = p \o r
  OBVIOUS
<1>12. /\ list \in Seq(W) /\ Len(list) = n + m
       /\ \A k \in 1..n : list[k] = p[k]
       /\ \A k \in 1..m : list[n + k] = r[k]
  <2>1. p \in Seq(W) /\ r \in Seq(W)
    BY <1>8, <1>9
  <2>2. /\ p \o r \in Seq(W) /\ Len(p \o r) = Len(p) + Len(r)
        /\ \A k \in 1..Len(p) : (p \o r)[k] = p[k]
        /\ \A k \in 1..Len(r) : (p \o r)[Len(p) + k] = r[k]
    BY <2>1, ConcatElements
  <2>3. /\ list \in Seq(W) /\ Len(list) = Len(p) + Len(r)
        /\ \A k \in 1..Len(p) : list[k] = p[k]
        /\ \A k \in 1..Len(r) : list[Len(p) + k] = r[k]
    BY <1>11, <2>2, Zenon
  <2> QED BY <1>8, <1>9, <2>3, Zenon
<1>13. \A k \in 1..(n + m) : list[k] \in ToSet(list)
  BY <1>12 DEF ToSet
<1>14. CASE RegexMatches(uri) # {}
  <2>1. PICK k \in 1..m : Find(uri) = RegexAnswer(regex_paths_[k])
    <3>1. RegexMatches(uri) \in SUBSET (1..m) /\ 1..m \in SUBSET Nat
      BY <1>3 DEF RegexMatches
    <3>2. Min(RegexMatches(uri)) \in RegexMatches(uri)
      BY <1>14, <3>1, MinIsLeast
    <3> QED BY <1>14, <3>1, <3>2 DEF Find
  <2>2. Find(uri).pref = list[n + k] /\ n + k \in 1..(n + m)
    BY <1>9, <1>12, <2>1 DEF RegexAnswer
  <2> QED BY <1>10, <1>11, <1>13, <2>2
<1>15. CASE RegexMatches(uri) = {}
  <2>1. PICK q \in DOMAIN paths_ : Find(uri) = PlainAnswer(q)
    BY <1>15 DEF Find, NoAnswer
  <2>2. PICK k \in 1..n : order[k] = q
    BY <1>2, <1>4
  <2>3. Find(uri).pref = list[k] /\ k \in 1..(n + m)
    BY <1>8, <1>12, <2>1, <2>2 DEF PlainAnswer
  <2> QED BY <1>10, <1>11, <1>13, <2>3
<1> QED
  BY <1>14, <1>15

\* The map is finite, and listed is what the container holds.
Listed ==
  /\ IsFiniteSet(DOMAIN paths_)
  /\ phase \in {"constructed", "starting", "serving"} => listed = GetList

LEMMA ParsingGoesOn ==
  ASSUME phase = "parsing", [ConfigNext]_configVars
  PROVE  phase' \in Ended \cup {"parsing", "parsed"}
<1>1. CASE ParsePort \/ ParseDefault \/ ParsePath \/ ParsePathRegex \/ SkipStatement
  BY <1>1 DEF ParsePort, ParseDefault, ParsePath, ParsePathRegex, SkipStatement, UnknownType, InitFails,
     MountPath, MountRegex, Continue, Stop, Ended
<1>2. CASE ConfigRead \/ ConstructServer \/ ReadThreads \/ StartThreads \/ Done \/ UNCHANGED configVars
  BY <1>2 DEF ConfigRead, ConstructServer, ReadThreads, StartThreads, Done, configVars, server, Ended
<1> QED
  BY <1>1, <1>2 DEF ConfigNext

LEMMA ListedStep ==
  ASSUME Listed, [ConfigNext]_configVars
  PROVE  Listed'
<1>1. CASE UNCHANGED container
  <2>1. GetList' = GetList
    BY <1>1 DEF container, GetList, InOrder
  <2>2. IsFiniteSet(DOMAIN paths_)'
    BY <1>1 DEF container, Listed
  <2>3. ASSUME phase' \in {"constructed", "starting", "serving"}
        PROVE  listed' = GetList
    <3>1. CASE UNCHANGED <<phase, listed>>
      BY <2>3, <3>1 DEF Listed
    <3>2. CASE phase = "parsing"
      BY <2>3, <3>2, ParsingGoesOn DEF Ended
    <3>3. CASE phase # "parsing" /\ ~ UNCHANGED <<phase, listed>>
      BY <2>3, <3>3 DEF Listed, ConfigNext, configVars, server, Parsing, ParsePort, ParseDefault, ParsePath,
         ParsePathRegex, SkipStatement, ConfigRead, ConstructServer, ReadThreads, StartThreads, Done
    <3> QED BY <3>1, <3>2, <3>3
  <2> QED BY <2>1, <2>2, <2>3 DEF Listed
<1>2. ASSUME NEW prefix, NEW hasStatus, MountPath(prefix, hasStatus)
      PROVE  IsFiniteSet(DOMAIN paths_)'
  <2>1. DOMAIN paths_' = DOMAIN paths_ \cup {prefix}
    BY <1>2 DEF MountPath, AddPath
  <2> QED BY <2>1, FS_AddElement DEF Listed
<1>3. ASSUME NEW prefix, NEW regex, NEW hasStatus, MountRegex(prefix, regex, hasStatus)
      PROVE  IsFiniteSet(DOMAIN paths_)'
  BY <1>3 DEF MountRegex, AddRegexPath, Listed
<1>4. CASE ~ UNCHANGED container
  <2>1. phase = "parsing"
    BY <1>4 DEF ConfigNext, Parsing, ParsePort, ParseDefault, ParsePath, ParsePathRegex, SkipStatement,
       ConfigRead, ConstructServer, ReadThreads, StartThreads, Done, configVars
  <2>2. IsFiniteSet(DOMAIN paths_)'
    BY <1>2, <1>3, <1>4 DEF ConfigNext, ParsePort, ParseDefault, ParsePath, ParsePathRegex, SkipStatement,
       UnknownType, InitFails, ConfigRead, ConstructServer, ReadThreads, StartThreads, Done, configVars
  <2> QED BY <2>1, <2>2, ParsingGoesOn DEF Listed, Ended
<1> QED
  BY <1>1, <1>4

\* Every handler that requests can be counted under (server.cc:51) is on the
\* status page, in whatever order the config lists them.
THEOREM AllListed == ConfigSpec => []AnswersListed
<1>1. ConfigInit => Listed
  BY FS_EmptySet DEF ConfigInit, EmptyContainer, Listed
<1>2. StartIInv /\ Listed => AnswersListed
  BY FoundListed DEF Listed, AnswersListed
<1>3. Listed /\ [ConfigNext]_configVars => Listed'
  BY ListedStep
<1> QED
  BY StartInvariance, <1>1, <1>2, <1>3, PTL DEF ConfigSpec
=============================================================================
