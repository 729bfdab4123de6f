------------------------------ MODULE Registry ------------------------------
(***************************************************************************)
(* The handler registry and the router's selection (registry.go,           *)
(* router.go): handlers are registered one by one at start-up, in any      *)
(* order, with or without a version and AsDefault, and the router looks    *)
(* messages up in what has been accepted.                                  *)
(***************************************************************************)
EXTENDS Integers

CONSTANTS
  Id,        \* topic ids, the reserved PingTopic among them
  PingTopic,
  Version,   \* versions that messages and handlers may name
  NoVersion, \* the empty version
  NoId       \* the empty topic id

ASSUME RegistryAssumption ==
  /\ PingTopic \in Id
  /\ NoVersion \notin Version
  /\ NoId \notin Id

Versions == Version \union {NoVersion}
Topic == Id \X Versions

VARIABLES
  handlers,  \* Registry.handlers: the topics that have a handler
  versions,  \* Registry.versions: registrations per topic id
  defaults,  \* Registry.defaults: per topic id the declared version, or NoVersion
  declared   \* history: topics accepted with AsDefault

vars == <<handlers, versions, defaults, declared>>

Init ==
  /\ handlers = {}
  /\ versions = [i \in Id |-> 0]
  /\ defaults = [i \in Id |-> NoVersion]
  /\ declared = {}

\* Whether a Register call declares a default: an unversioned handler is one anyway.
DeclaresDefault(topic, asDefault) == asDefault /\ topic[2] # NoVersion

\* Wrong variant: the default is declared before the duplicate is refused.
RegisterDefaultFirst(topic, asDefault) ==
  /\ defaults' = IF DeclaresDefault(topic, asDefault) /\ defaults[topic[1]] = NoVersion
                 THEN [defaults EXCEPT ![topic[1]] = topic[2]] ELSE defaults
  /\ topic \notin handlers
  /\ handlers' = handlers \union {topic}
  /\ versions' = [versions EXCEPT ![topic[1]] = @ + 1]
  /\ declared' = IF DeclaresDefault(topic, asDefault) THEN declared \union {topic} ELSE declared

\* Wrong variant: only an unversioned handler is counted.
RegisterCountsUnversioned(topic, asDefault) ==
  /\ topic \notin handlers
  /\ DeclaresDefault(topic, asDefault) => defaults[topic[1]] = NoVersion
  /\ handlers' = handlers \union {topic}
  /\ versions' = IF topic[2] = NoVersion THEN [versions EXCEPT ![topic[1]] = @ + 1] ELSE versions
  /\ IF DeclaresDefault(topic, asDefault)
     THEN /\ defaults' = [defaults EXCEPT ![topic[1]] = topic[2]]
          /\ declared' = declared \union {topic}
     ELSE UNCHANGED <<defaults, declared>>

\* Register is accepted.
Register(topic, asDefault) ==
  /\ topic \notin handlers
  /\ DeclaresDefault(topic, asDefault) => defaults[topic[1]] = NoVersion
  /\ handlers' = handlers \union {topic}
  /\ versions' = [versions EXCEPT ![topic[1]] = @ + 1]
  /\ IF DeclaresDefault(topic, asDefault)
     THEN /\ defaults' = [defaults EXCEPT ![topic[1]] = topic[2]]
          /\ declared' = declared \union {topic}
     ELSE UNCHANGED <<defaults, declared>>

\* Wrong variant: the second default is refused, but has replaced the first.
RejectAfterDeclaring(topic, asDefault) ==
  /\ topic \in handlers \/ (DeclaresDefault(topic, asDefault) /\ defaults[topic[1]] # NoVersion)
  /\ defaults' = IF DeclaresDefault(topic, asDefault)
                 THEN [defaults EXCEPT ![topic[1]] = topic[2]] ELSE defaults
  /\ UNCHANGED <<handlers, versions, declared>>

\* Register returns an error: the topic has a handler, or its id has a default.
Reject(topic, asDefault) ==
  /\ topic \in handlers \/ (DeclaresDefault(topic, asDefault) /\ defaults[topic[1]] # NoVersion)
  /\ UNCHANGED vars

Next ==
  \E topic \in Topic, asDefault \in BOOLEAN :
    Register(topic, asDefault) \/ Reject(topic, asDefault)

Spec == Init /\ [][Next]_vars

-----------------------------------------------------------------------------
\* The outcomes of a lookup: the topic whose handler is selected, or why none is.
Selected(topic) == [found |-> "selected", handler |-> topic]
Unselected(why) == [found |-> why, handler |-> <<>>]

\* Wrong variant: an unknown version goes to the topic's default handler.
LookupFallsBack(topic) ==
  LET default == <<topic[1], defaults[topic[1]]>> IN
  CASE topic \in handlers -> Selected(topic)
    [] topic \notin handlers /\ versions[topic[1]] = 0 -> Unselected("unknownTopic")
    [] topic \notin handlers /\ versions[topic[1]] # 0 /\ default[2] # NoVersion -> Selected(default)
    [] OTHER -> Unselected("noDefault")

\* Registry.lookup.
Lookup(topic) ==
  LET default == <<topic[1], defaults[topic[1]]>>
      absent == topic \notin handlers
      known == versions[topic[1]] # 0
  IN
  CASE ~absent -> Selected(topic)
    [] absent /\ ~known -> Unselected("unknownTopic")
    [] absent /\ known /\ topic[2] # NoVersion -> Unselected("unknownVersion")
    [] absent /\ known /\ topic[2] = NoVersion /\ default[2] # NoVersion -> Selected(default)
    [] OTHER -> Unselected("noDefault")

\* Wrong variant: an unversioned handler is not looked for.
DefaultVersionDeclared(id) == IF defaults[id] # NoVersion THEN {defaults[id]} ELSE {}

\* Registry.DefaultVersion: the version a message without one is routed to, as
\* a set that is empty when there is none.
DefaultVersion(id) ==
  IF <<id, NoVersion>> \in handlers THEN {NoVersion}
  ELSE IF defaults[id] # NoVersion THEN {defaults[id]} ELSE {}

\* Registry.TopicsWithoutDefault, which RouterMiddleware warns about.
TopicsWithoutDefault == {id \in Id : versions[id] # 0 /\ DefaultVersion(id) = {}}

\* A message as a binding hands it over: the topic id, the version the binding
\* resolved itself and the one in the version header.
Msg == [id : Id \union {NoId}, bound : Versions, header : Versions]

\* The topic the router looks up: a version the binding resolved wins.
TopicOf(msg) == <<msg.id, IF msg.bound = NoVersion THEN msg.header ELSE msg.bound>>

\* RouterMiddleware: what answers a message.
Route(msg) ==
  IF msg.id = NoId THEN "validation-error"
  ELSE LET found == Lookup(TopicOf(msg)).found IN
       CASE found = "selected" -> "handler"
         [] found = "unknownTopic" -> IF msg.id = PingTopic THEN "ok" ELSE "unmatched"
         [] OTHER -> "not-found"

-----------------------------------------------------------------------------
\* The values each variable can hold.
TypeOK ==
  /\ handlers \subseteq Topic
  /\ versions \in [Id -> Nat]
  /\ defaults \in [Id -> Versions]
  /\ declared \subseteq Topic

Served(id) == {t \in handlers : t[1] = id}

\* A lookup that reports "selected" names a handler that exists: the declared
\* default was itself registered, and nothing declares it without.
SelectedExists ==
  \A topic \in Topic : Lookup(topic).found = "selected" => Lookup(topic).handler \in handlers

\* "Declaring two versions of one topic default is a registration error", in
\* whatever order: at most one declaration is accepted, it is the one used, and
\* an unversioned handler goes before it.
OneDefault ==
  \A id \in Id :
    /\ \A s, t \in declared : s[1] = id /\ t[1] = id => s = t
    /\ Lookup(<<id, NoVersion>>).found = "selected" =>
         \/ Lookup(<<id, NoVersion>>).handler = <<id, NoVersion>>
         \/ <<id, NoVersion>> \notin handlers /\ Lookup(<<id, NoVersion>>).handler \in declared

\* The start-up warning names exactly the topics whose unversioned messages
\* would be not-found.
WarnsExactly ==
  TopicsWithoutDefault =
    {id \in Id : Route([id |-> id, bound |-> NoVersion, header |-> NoVersion]) = "not-found"}

\* The marker that lets a binding acknowledge a message is put on topics nobody
\* serves at any version, never on a version nobody serves nor on a ping.
UnmatchedMeansNobody ==
  \A msg \in Msg :
    Route(msg) = "unmatched" <=> msg.id \in Id \ {PingTopic} /\ Served(msg.id) = {}

\* A lookup neither hands out a handler that is not there nor calls a topic
\* nobody's that somebody serves.
SelectionIsSafe == SelectedExists /\ UnmatchedMeansNobody

\* "there is never a nearest or highest available fallback": a message that
\* finds a handler keeps it through every later registration, except that an
\* unversioned message moves to an unversioned handler when one is added.
SelectionStable ==
  [][\A topic \in Topic :
       Lookup(topic).found = "selected" =>
         \/ Lookup(topic)' = Lookup(topic)
         \/ topic[2] = NoVersion /\ Lookup(topic)' = Selected(topic)]_vars
=============================================================================
