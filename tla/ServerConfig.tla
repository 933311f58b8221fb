---------------------------- MODULE ServerConfig ----------------------------
(***************************************************************************)
(* Start-up: Server::MakeServer reads the statements of the parsed config  *)
(* in order, mounts the handlers in the HandlerContainer and builds the    *)
(* Server; main() then starts the threads.                                 *)
(*                                                                         *)
(* A statement is known by its keyword and operands.  Only the forms that  *)
(* parse_config or main() look for are told apart; any other ("path"       *)
(* without a block, three operands, an unknown keyword) is "other".        *)
(***************************************************************************)
EXTENDS HandlerContainer, Integers, FiniteSets

CONSTANTS
  Configs,      \* the configs to start from
  Word,         \* an operand that does not convert to a number
  MaxReserve    \* the largest vector::reserve that succeeds

ASSUME MaxReserveAssumption == MaxReserve \in Nat

VARIABLES
  config,       \* NginxConfig::statements_
  at,           \* the statement parse_config is at
  port,         \* the port found, 0 before
  initFailed,   \* an Init has returned ERROR or has thrown
  phase,        \* where start-up is
  listed,       \* sharedState_.requestHandlers_
  max_threads,  \* as read from the config
  numThreads    \* the threads running io_service.run()

server == <<port, initFailed, phase, listed, max_threads, numThreads>>
configVars == <<container, config, at, server>>

Ended == {"failed", "exited", "crashed"}

\* The types that register themselves with REGISTER_REQUEST_HANDLER (Echo
\* stands for those that take no configuration), and one that does not exist.
Types == {"EchoHandler", "StaticHandler", "StatusHandler", "NoSuchHandler"}
Created == Types \ {"NoSuchHandler"}

\* What Init may do.  StaticHandler: no root, a bad authentication_list, or
\* std::stoi throwing on the timeout.
InitOutcomes(type) ==
  IF type = "StaticHandler" THEN {"ok", "error", "throws"} ELSE {"ok"}

\* A RequestHandler, and whether its serverStatus_ points to the ServerStatus.
MountedHandler(type, prefix, hasStatus) ==
  [type |-> type, prefix_ |-> prefix, serverStatus |-> hasStatus]

HandlerObjects ==
  {MountedHandler(t, p, s) : t \in Created, p \in Strings, s \in BOOLEAN}

ASSUME HandlersAssumption == HandlerObjects \subseteq Handlers

\* The operands of each keyword; the empty string is one of the prefixes.
ASSUME ConfigsAssumption ==
  /\ <<>> \in Strings
  /\ \A c \in Configs :
       /\ c \in Seq(ToSet(c))
       /\ \A st \in ToSet(c) :
            /\ st.key \in {"path", "path_regex"} => st.prefix \in Strings
            /\ st.key = "path_regex" => st.regex \in Regexes
            /\ st.key = "threads" => st.value = Word \/ st.value \in Int

ConfigInit ==
  /\ EmptyContainer
  /\ config \in Configs
  /\ at = 1
  /\ port = 0
  /\ initFailed = FALSE
  /\ phase = "parsing"
  /\ listed = <<>>
  /\ max_threads = 1 /\ numThreads = 0

-----------------------------------------------------------------------------
\* Server::parse_config, one statement a step

Parsing(key) ==
  /\ phase = "parsing"
  /\ at \in DOMAIN config /\ config[at].key = key
  /\ UNCHANGED <<config, listed, max_threads, numThreads>>

Continue ==
  /\ at' = at + 1
  /\ UNCHANGED phase

Stop(how) ==
  /\ phase' = how
  /\ UNCHANGED at

\* Variant: the upper bound is forgotten.
ValidPort_Unbounded(v) == v # Word /\ v > 0

\* The range that parse_config checks for.
Ports == {v \in Int : 0 < v /\ v <= 65535}

ValidPort(v) == v # Word /\ v \in Ports

\* Port numbers that do not convert and those out of range end in an error;
\* the last of several wins.
ParsePort ==
  /\ Parsing("port")
  /\ IF ValidPort(config[at].value)
     THEN port' = config[at].value /\ Continue
     ELSE UNCHANGED port /\ Stop("failed")
  /\ UNCHANGED <<container, initFailed>>

\* CreateByName finds no such type.  For "default" and "path" the message then
\* reads tokens_[3], beyond the end of the vector: the process may not survive.
UnknownType ==
  /\ config[at].type \notin Created
  /\ \/ Stop("failed")
     \/ config[at].key \in {"default", "path"} /\ Stop("crashed")
  /\ UNCHANGED <<container, port, initFailed>>

\* Init returns ERROR, or throws: the exception ends in main's catch.
InitFails ==
  /\ config[at].type \in Created
  /\ \/ "error" \in InitOutcomes(config[at].type) /\ Stop("failed")
     \/ "throws" \in InitOutcomes(config[at].type) /\ Stop("exited")
  /\ initFailed' = TRUE
  /\ UNCHANGED <<container, port>>

\* Variant: a duplicate is dropped without an error.
MountPath_DuplicateDropped(prefix, hasStatus) ==
  /\ config[at].type \in Created
  /\ AddPath(prefix, MountedHandler(config[at].type, prefix, hasStatus))
  /\ Continue
  /\ UNCHANGED <<port, initFailed>>

\* Variant: a duplicate takes the place of the first.
MountPath_Replaces(prefix, hasStatus) ==
  /\ config[at].type \in Created
  /\ AddPath_Overwrites(prefix, MountedHandler(config[at].type, prefix, hasStatus))
  /\ Continue
  /\ UNCHANGED <<port, initFailed>>

\* Create, Init and AddPath all succeed, or AddPath finds a duplicate.
MountPath(prefix, hasStatus) ==
  /\ config[at].type \in Created
  /\ AddPath(prefix, MountedHandler(config[at].type, prefix, hasStatus))
  /\ IF prefix \in DOMAIN paths_ THEN Stop("failed") ELSE Continue
  /\ UNCHANGED <<port, initFailed>>

MountRegex(prefix, regex, hasStatus) ==
  /\ config[at].type \in Created
  /\ AddRegexPath(prefix, regex, MountedHandler(config[at].type, prefix, hasStatus))
  /\ IF regex \in DOMAIN Search THEN Continue ELSE Stop("failed")
  /\ UNCHANGED <<port, initFailed>>

\* The default handler is mounted under the empty prefix, with no check for
\* a StatusHandler.
ParseDefault ==
  /\ Parsing("default")
  /\ UnknownType \/ InitFails \/ MountPath(<<>>, FALSE)

IsStatusHandler == config[at].type = "StatusHandler"

ParsePath ==
  /\ Parsing("path")
  /\ UnknownType \/ InitFails \/ MountPath(config[at].prefix, IsStatusHandler)

ParsePathRegex ==
  /\ Parsing("path_regex")
  /\ \/ UnknownType \/ InitFails
     \/ MountRegex(config[at].prefix, config[at].regex, IsStatusHandler)

\* "threads" is left to main(); anything else is ignored.
SkipStatement ==
  /\ Parsing("threads") \/ Parsing("other")
  /\ Continue
  /\ UNCHANGED <<container, port, initFailed>>

\* The end of parse_config; port_found is port # 0.
ConfigRead ==
  /\ phase = "parsing"
  /\ at = Len(config) + 1
  /\ phase' = IF port = 0 THEN "failed" ELSE "parsed"
  /\ UNCHANGED <<container, config, at, port, initFailed, listed, max_threads, numThreads>>

-----------------------------------------------------------------------------
\* Server::Server, and main()

\* open, bind or listen throw when the port is not to be had.
ConstructServer ==
  /\ phase = "parsed"
  /\ \/ phase' = "constructed" /\ listed' = GetList
     \/ phase' = "exited" /\ UNCHANGED listed
  /\ UNCHANGED <<container, config, at, port, initFailed, max_threads, numThreads>>

\* The first "threads" statement that NginxConfig::Find comes to decides, even
\* when it does not convert.
ThreadsStatements == {k \in DOMAIN config : config[k].key = "threads"}

ThreadsConfigured ==
  IF ThreadsStatements = {} \/ config[Min(ThreadsStatements)].value = Word
  THEN 1
  ELSE config[Min(ThreadsStatements)].value

\* A negative number wraps to a huge size_t, which reserve() refuses by an
\* exception.  Above 128 there is a message and nothing else.
ReadThreads ==
  /\ phase = "constructed"
  /\ max_threads' = ThreadsConfigured
  /\ phase' = IF ThreadsConfigured \in 0..MaxReserve THEN "starting" ELSE "exited"
  /\ UNCHANGED <<container, config, at, port, initFailed, listed, numThreads>>

\* A thread that cannot be created ends the loop; with none running, main()
\* has nothing to join and returns.
StartThreads ==
  /\ phase = "starting"
  /\ numThreads' \in 0..max_threads
  /\ phase' = IF numThreads' = 0 THEN "exited" ELSE "serving"
  /\ UNCHANGED <<container, config, at, port, initFailed, listed, max_threads>>

Done ==
  /\ phase \in Ended \cup {"serving"}
  /\ UNCHANGED configVars

ConfigNext ==
  \/ ParsePort \/ ParseDefault \/ ParsePath \/ ParsePathRegex \/ SkipStatement
  \/ ConfigRead \/ ConstructServer \/ ReadThreads \/ StartThreads
  \/ Done

ConfigSpec == ConfigInit /\ [][ConfigNext]_configVars

-----------------------------------------------------------------------------
Accepted == phase \in {"parsed", "constructed", "starting", "serving"}

At(keys) == {k \in DOMAIN config : config[k].key \in keys}
PrefixOf(st) == IF st.key = "default" THEN <<>> ELSE st.prefix
Initialized(st) == st.type = "StatusHandler" /\ st.key # "default"

\* A handler is the one that a statement asks for.
Meant(handler, st) == handler.type = st.type /\ handler.serverStatus = Initialized(st)

\* Where the list has the handler of the path_regex statement at k.
Place(k) == Cardinality({j \in At({"path_regex"}) : j <= k})

\* The container holds what the first n statements ask for and nothing else.
Mounted(n) ==
  LET plain == {k \in At({"default", "path"}) : k <= n}
      regex == {k \in At({"path_regex"}) : k <= n}
  IN  /\ DOMAIN paths_ = {PrefixOf(config[k]) : k \in plain}
      /\ \A k \in plain : Meant(paths_[PrefixOf(config[k])], config[k])
      /\ Len(regex_paths_) = Cardinality(regex)
      /\ \A k \in regex :
           LET entry == regex_paths_[Place(k)]
           IN  /\ entry.prefix = config[k].prefix /\ entry.regex = config[k].regex
               /\ Meant(entry.handler, config[k])

\* The types of what start-up builds and reads.
ConfigTypeOK ==
  /\ ContainerTypeOK
  /\ at \in 1..(Len(config) + 1)
  /\ port \in Ports \cup {0}
  /\ initFailed \in BOOLEAN
  /\ phase \in Ended \cup {"parsing", "parsed", "constructed", "starting", "serving"}
  /\ max_threads \in Int /\ numThreads \in Nat

\* What the messages of parse_config ask of a config, whatever the order of
\* its statements: a port, every port in range, existing types, no prefix
\* twice, expressions that compile.
ValidConfig ==
  /\ At({"port"}) # {}
  /\ \A k \in At({"port"}) : config[k].value # Word /\ config[k].value \in Ports
  /\ \A k \in At({"default", "path", "path_regex"}) : config[k].type \in Created
  /\ \A j, k \in At({"default", "path"}) : PrefixOf(config[j]) = PrefixOf(config[k]) => j = k
  /\ \A k \in At({"path_regex"}) : config[k].regex \in DOMAIN Search

\* A config gets past parse_config only if it is valid, and is refused (the
\* process ends with status 1) only if it is not or a handler's Init objected.
AcceptsExactlyValid ==
  /\ Accepted => ValidConfig
  /\ phase = "failed" => ~ ValidConfig \/ initFailed

\* An accepted config has every one of its handlers mounted, where and in the
\* order it says, and no other; and of the StatusHandlers all have been given
\* the ServerStatus, except one mounted by "default": its branch has no
\* InitStatusHandler (server.cc:132), so that serving a request with it reads a
\* pointer that was never set.
MountsAsConfigured == Accepted => Mounted(Len(config))

\* The prefix_ that Init has left in a handler is a prefix of every uri that
\* Find gives it, so that substr(prefix_.length()) never throws
\* (static_handler.cc:79, reverse_proxy_handler.cc:149).
InitPrefixFits ==
  Accepted =>
    \A uri \in Strings :
      Find(uri).handler # NoHandler => IsPrefix(Find(uri).handler.prefix_, uri)

\* The status page names every handler that requests can be counted under.
AnswersListed ==
  phase = "serving" =>
    \A uri \in Strings :
      Find(uri).handler # NoHandler => Find(uri).pref \in ToSet(listed)
=============================================================================
