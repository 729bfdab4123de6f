-------------------------- MODULE ApplicationProofs -------------------------
(***************************************************************************)
(* Proofs about what every application is built on, for any sets of topic  *)
(* ids, services, scopes, goroutines and keys.                             *)
(*                                                                         *)
(* The registry's invariant ties its three maps together: the count is     *)
(* zero exactly for an id nobody serves, and a declared default is a       *)
(* registered handler and the only declaration of its id.                  *)
(*                                                                         *)
(* The container's ties the stacks of the resolutions in progress to what  *)
(* is kept: what is about to be stored is new, and what was given to a     *)
(* caller is what the container or its scope keeps.                        *)
(*                                                                         *)
(* The resolver's says that a published key is cached or stale, and that   *)
(* a fetch in progress began less than a window ago.                       *)
(*                                                                         *)
(* Tokens: the checks of the validator, which stops at the first that      *)
(* fails, come to the conjunction that the reference asks for.             *)
(***************************************************************************)
EXTENDS MCApplication, TokenValidator, SequenceTheorems, TLAPS

-----------------------------------------------------------------------------
(* The registry. *)

CountsServed == \A id \in Id : versions[id] = 0 <=> Served(id) = {}

DefaultsRegistered ==
  \A id \in Id : defaults[id] # NoVersion =>
    <<id, defaults[id]>> \in handlers /\ <<id, defaults[id]>> \in declared

DeclaredIsDefault ==
  \A t \in declared : t[2] # NoVersion /\ defaults[t[1]] = t[2]

IInv == TypeOK /\ CountsServed /\ DefaultsRegistered /\ DeclaredIsDefault

\* A topic is the pair of its components.
LEMMA TopicPair ==
  ASSUME NEW topic \in Topic
  PROVE  /\ topic[1] \in Id /\ topic[2] \in Versions
         /\ topic = <<topic[1], topic[2]>>
BY DEF Topic

LEMMA InitIInv == Init => IInv
BY DEF Init, IInv, TypeOK, CountsServed, Served, DefaultsRegistered, DeclaredIsDefault, Versions

LEMMA RegisterIInv ==
  ASSUME IInv, NEW topic \in Topic, NEW asDefault \in BOOLEAN, Register(topic, asDefault)
  PROVE  IInv'
<1> USE DEF IInv
<1>1. /\ topic[1] \in Id /\ topic[2] \in Versions /\ topic = <<topic[1], topic[2]>>
  BY TopicPair
<1>2. TypeOK'
  BY <1>1 DEF TypeOK, Register, Versions
<1>3. CountsServed'
  <2>1. SUFFICES ASSUME NEW id \in Id
                 PROVE  versions'[id] = 0 <=> Served(id)' = {}
    BY DEF CountsServed
  <2>2. CASE id = topic[1]
    <3>1. topic \in Served(id)'
      BY <2>2 DEF Register, Served
    <3>2. versions'[id] = versions[id] + 1 /\ versions[id] \in Nat
      BY <2>2, <1>1 DEF Register, TypeOK
    <3>. QED  BY <3>1, <3>2
  <2>3. CASE id # topic[1]
    <3>1. Served(id)' = Served(id)
      BY <2>3 DEF Register, Served
    <3>2. versions'[id] = versions[id]
      BY <2>3, <1>1 DEF Register, TypeOK
    <3>. QED  BY <3>1, <3>2 DEF CountsServed
  <2>. QED  BY <2>2, <2>3
<1>4. CASE DeclaresDefault(topic, asDefault)
  <2>1. /\ defaults[topic[1]] = NoVersion
        /\ defaults' = [defaults EXCEPT ![topic[1]] = topic[2]]
        /\ declared' = declared \union {topic}
        /\ handlers' = handlers \union {topic}
        /\ topic[2] # NoVersion
    BY <1>4 DEF Register, DeclaresDefault
  <2>2. DefaultsRegistered'
    BY <2>1, <1>1 DEF DefaultsRegistered, TypeOK
  <2>3. DeclaredIsDefault'
    <3>1. SUFFICES ASSUME NEW t \in declared'
                   PROVE  t[2] # NoVersion /\ defaults'[t[1]] = t[2]
      BY DEF DeclaredIsDefault
    <3>2. CASE t = topic
      BY <3>2, <2>1, <1>1 DEF TypeOK
    <3>3. CASE t \in declared
      <4>1. t[1] \in Id /\ t[2] # NoVersion /\ defaults[t[1]] = t[2]
        BY <3>3, TopicPair DEF DeclaredIsDefault, TypeOK
      <4>. QED  BY <4>1, <2>1, <1>1 DEF TypeOK
    <3>. QED  BY <3>2, <3>3, <2>1
  <2>. QED  BY <1>2, <1>3, <2>2, <2>3
<1>5. CASE ~DeclaresDefault(topic, asDefault)
  <2>1. defaults' = defaults /\ declared' = declared /\ handlers' = handlers \union {topic}
    BY <1>5 DEF Register
  <2>2. DefaultsRegistered' /\ DeclaredIsDefault'
    BY <2>1 DEF DefaultsRegistered, DeclaredIsDefault
  <2>. QED  BY <1>2, <1>3, <2>2
<1>. QED  BY <1>4, <1>5

\* The inductive invariant holds in every state Register can reach.
THEOREM RegistryInvariant == Spec \/ MCSpec => []IInv
<1>1. Init => IInv
  BY InitIInv
<1>2. IInv /\ [Next]_vars => IInv'
  <2>1. SUFFICES ASSUME IInv, [Next]_vars PROVE IInv'
    OBVIOUS
  <2>2. CASE UNCHANGED vars
    BY <2>1, <2>2 DEF vars, IInv, TypeOK, CountsServed, Served, DefaultsRegistered, DeclaredIsDefault
  <2>3. CASE Next
    <3>1. PICK topic \in Topic, asDefault \in BOOLEAN :
            Register(topic, asDefault) \/ Reject(topic, asDefault)
      BY <2>3 DEF Next
    <3>2. CASE Register(topic, asDefault)
      BY <3>2, <2>1, RegisterIInv
    <3>3. CASE Reject(topic, asDefault)
      BY <3>3, <2>1 DEF Reject, vars, IInv, TypeOK, CountsServed, Served, DefaultsRegistered,
                        DeclaredIsDefault
    <3>. QED  BY <3>1, <3>2, <3>3
  <2>. QED  BY <2>1, <2>2, <2>3
<1>3. (MCInit => Init) /\ ([MCNext]_all => [Next]_vars)
  BY DEF MCInit, MCNext, all
<1>. QED  BY <1>1, <1>2, <1>3, PTL DEF Spec, MCSpec

LEMMA IInvSelectedExists ==
  ASSUME IInv, NEW topic \in Topic, Lookup(topic).found = "selected"
  PROVE  Lookup(topic).handler \in handlers
<1>1. topic[1] \in Id /\ topic = <<topic[1], topic[2]>>
  BY TopicPair
<1>2. CASE topic \in handlers
  BY <1>2 DEF Lookup, Selected
<1>3. CASE topic \notin handlers
  <2>1. /\ defaults[topic[1]] # NoVersion
        /\ Lookup(topic).handler = <<topic[1], defaults[topic[1]]>>
    BY <1>3 DEF Lookup, Selected, Unselected
  <2>. QED  BY <2>1, <1>1 DEF IInv, DefaultsRegistered
<1>. QED  BY <1>2, <1>3

\* Whatever is registered in whatever order, a lookup that reports "selected"
\* (Registry.lookup) returns a handler that is in the map, never a nil one.
THEOREM RegistrySelectedExists == Spec \/ MCSpec => []SelectedExists
<1>1. IInv => SelectedExists
  BY IInvSelectedExists DEF SelectedExists
<1>. QED  BY <1>1, RegistryInvariant, PTL

\* The unmatched marker of RouterMiddleware is put exactly on the topics that
\* have no handler at any version, so that IgnoreUnmatchedTopics never lets a
\* binding drop a message of a topic the service does serve.
THEOREM RegistryUnmatched == Spec \/ MCSpec => []UnmatchedMeansNobody
<1>1. IInv => UnmatchedMeansNobody
  <2>1. SUFFICES ASSUME IInv, NEW msg \in Msg
                 PROVE  Route(msg) = "unmatched" <=>
                          msg.id \in Id \ {PingTopic} /\ Served(msg.id) = {}
    BY DEF UnmatchedMeansNobody
  <2>2. CASE msg.id = NoId
    BY <2>2, RegistryAssumption DEF Route
  <2>3. CASE msg.id # NoId
    <3>1. msg.id \in Id
      BY <2>3 DEF Msg
    <3>2. DEFINE topic == TopicOf(msg)
    <3>3. topic[1] = msg.id /\ topic \in Topic
      BY <3>1 DEF TopicOf, Topic, Msg, Versions
    <3>4. Route(msg) = "unmatched" <=> Lookup(topic).found = "unknownTopic" /\ msg.id # PingTopic
      BY <2>3 DEF Route
    <3>5. Lookup(topic).found = "unknownTopic" <=> topic \notin handlers /\ versions[msg.id] = 0
      BY <3>3 DEF Lookup, Selected, Unselected
    <3>6. versions[msg.id] = 0 <=> Served(msg.id) = {}
      BY <2>1, <3>1 DEF IInv, CountsServed
    <3>7. Served(msg.id) = {} => topic \notin handlers
      BY <3>3 DEF Served
    <3>. QED  BY <3>1, <3>4, <3>5, <3>6, <3>7
  <2>. QED  BY <2>2, <2>3
<1>. QED  BY <1>1, RegistryInvariant, PTL

\* Both, for any topic ids and versions and any order of registrations.
THEOREM RegistryIsSafe == Spec \/ MCSpec => []SelectionIsSafe
<1>1. SelectedExists /\ UnmatchedMeansNobody => SelectionIsSafe
  BY DEF SelectionIsSafe
<1>. QED  BY <1>1, RegistrySelectedExists, RegistryUnmatched, PTL

LEMMA SelectionKept ==
  ASSUME IInv, NEW topic \in Topic, NEW added \in Topic, NEW asDefault \in BOOLEAN,
         Register(added, asDefault), Lookup(topic).found = "selected"
  PROVE  \/ Lookup(topic)' = Lookup(topic)
         \/ topic[2] = NoVersion /\ Lookup(topic)' = Selected(topic)
<1>1. topic[1] \in Id /\ added[1] \in Id /\ topic = <<topic[1], topic[2]>>
  BY TopicPair
<1>2. handlers' = handlers \union {added}
  BY DEF Register
<1>3. CASE topic \in handlers
  BY <1>2, <1>3 DEF Lookup, Selected
<1>4. CASE topic \notin handlers
  <2>1. /\ topic[2] = NoVersion
        /\ versions[topic[1]] # 0
        /\ defaults[topic[1]] # NoVersion
        /\ Lookup(topic) = Selected(<<topic[1], defaults[topic[1]]>>)
    BY <1>4 DEF Lookup, Selected, Unselected
  <2>2. CASE added = topic
    BY <2>1, <2>2, <1>2 DEF Lookup, Selected
  <2>3. CASE added # topic
    <3>1. topic \notin handlers'
      BY <2>3, <1>2, <1>4
    <3>2. versions'[topic[1]] # 0
      BY <2>1, <1>1 DEF Register, IInv, TypeOK
    <3>3. defaults'[topic[1]] = defaults[topic[1]]
      BY <2>1, <1>1 DEF Register, IInv, TypeOK
    <3>. QED  BY <2>1, <3>1, <3>2, <3>3 DEF Lookup, Selected, Unselected
  <2>. QED  BY <2>2, <2>3
<1>. QED  BY <1>3, <1>4

\* No later Register call takes a message away from the handler it has, except
\* an unversioned message when its topic gets an unversioned handler.
THEOREM RegistrySelectionStable == Spec \/ MCSpec => SelectionStable
<1> DEFINE Stable ==
      \A topic \in Topic :
        Lookup(topic).found = "selected" =>
          \/ Lookup(topic)' = Lookup(topic)
          \/ topic[2] = NoVersion /\ Lookup(topic)' = Selected(topic)
<1>1. IInv /\ [Next]_vars => [Stable]_vars
  <2>1. SUFFICES ASSUME IInv, Next PROVE Stable
    OBVIOUS
  <2>2. PICK added \in Topic, asDefault \in BOOLEAN :
          Register(added, asDefault) \/ Reject(added, asDefault)
    BY <2>1 DEF Next
  <2>3. CASE Register(added, asDefault)
    BY <2>1, <2>3, SelectionKept
  <2>4. CASE Reject(added, asDefault)
    BY <2>4 DEF Reject, vars, Lookup
  <2>. QED  BY <2>2, <2>3, <2>4
<1>2. [MCNext]_all => [Next]_vars
  BY DEF MCNext, all
<1>. QED  BY <1>1, <1>2, RegistryInvariant, PTL DEF Spec, MCSpec, SelectionStable

LEMMA IInvOneDefault ==
  ASSUME IInv
  PROVE  OneDefault
<1>1. SUFFICES ASSUME NEW id \in Id
               PROVE  /\ \A s, t \in declared : s[1] = id /\ t[1] = id => s = t
                      /\ Lookup(<<id, NoVersion>>).found = "selected" =>
                           \/ Lookup(<<id, NoVersion>>).handler = <<id, NoVersion>>
                           \/ /\ <<id, NoVersion>> \notin handlers
                              /\ Lookup(<<id, NoVersion>>).handler \in declared
  BY DEF OneDefault
<1>2. ASSUME NEW s \in declared, NEW t \in declared, s[1] = id, t[1] = id
      PROVE  s = t
  <2>1. s = <<s[1], s[2]>> /\ t = <<t[1], t[2]>>
    BY TopicPair DEF IInv, TypeOK
  <2>2. s[2] = defaults[id] /\ t[2] = defaults[id]
    BY <1>2 DEF IInv, DeclaredIsDefault
  <2>. QED  BY <1>2, <2>1, <2>2
<1>3. CASE <<id, NoVersion>> \in handlers
  BY <1>2, <1>3 DEF Lookup, Selected
<1>4. CASE <<id, NoVersion>> \notin handlers
  <2>1. ASSUME Lookup(<<id, NoVersion>>).found = "selected"
        PROVE  Lookup(<<id, NoVersion>>).handler \in declared
    <3>1. /\ defaults[id] # NoVersion
          /\ Lookup(<<id, NoVersion>>).handler = <<id, defaults[id]>>
      BY <1>4, <2>1 DEF Lookup, Selected, Unselected
    <3>. QED  BY <3>1 DEF IInv, DefaultsRegistered
  <2>. QED  BY <1>2, <1>4, <2>1
<1>. QED  BY <1>3, <1>4

LEMMA IInvWarnsExactly ==
  ASSUME IInv
  PROVE  WarnsExactly
<1>1. SUFFICES ASSUME NEW id \in Id
               PROVE  versions[id] # 0 /\ DefaultVersion(id) = {} <=>
                        Route([id |-> id, bound |-> NoVersion, header |-> NoVersion]) = "not-found"
  BY DEF WarnsExactly, TopicsWithoutDefault
<1> DEFINE msg == [id |-> id, bound |-> NoVersion, header |-> NoVersion]
           topic == <<id, NoVersion>>
<1>2. TopicOf(msg) = topic /\ msg.id = id /\ id # NoId
  BY RegistryAssumption DEF TopicOf
<1>3. Route(msg) = CASE Lookup(topic).found = "selected" -> "handler"
                     [] Lookup(topic).found = "unknownTopic" -> IF id = PingTopic THEN "ok" ELSE "unmatched"
                     [] OTHER -> "not-found"
  BY <1>2 DEF Route
<1>4. CASE topic \in handlers
  <2>1. Lookup(topic).found = "selected" /\ DefaultVersion(id) # {}
    BY <1>4 DEF Lookup, Selected, DefaultVersion
  <2>. QED  BY <1>3, <2>1
<1>5. CASE topic \notin handlers /\ versions[id] = 0
  <2>1. Lookup(topic).found = "unknownTopic"
    BY <1>5 DEF Lookup, Unselected
  <2>. QED  BY <1>3, <1>5, <2>1
<1>6. CASE topic \notin handlers /\ versions[id] # 0 /\ defaults[id] # NoVersion
  <2>1. Lookup(topic).found = "selected" /\ DefaultVersion(id) # {}
    BY <1>6 DEF Lookup, Selected, DefaultVersion
  <2>. QED  BY <1>3, <2>1
<1>7. CASE topic \notin handlers /\ versions[id] # 0 /\ defaults[id] = NoVersion
  <2>1. Lookup(topic).found = "noDefault" /\ DefaultVersion(id) = {}
    BY <1>7 DEF Lookup, Unselected, DefaultVersion
  <2>2. Route(msg) = "not-found"
    BY <1>3, <2>1
  <2>. QED  BY <1>7, <2>1, <2>2
<1>. QED  BY <1>4, <1>5, <1>6, <1>7

\* A topic has one default at most and unversioned messages reach it, and the start-up
\* warning names exactly the topics where they would reach nobody: whatever is registered,
\* in whatever order (Registry.Register, DefaultVersion, TopicsWithoutDefault and lookup).
THEOREM RegistryDefaultsAreExact == Spec \/ MCSpec => []DefaultsAreExact
<1>1. IInv => DefaultsAreExact
  BY IInvOneDefault, IInvWarnsExactly DEF DefaultsAreExact
<1>. QED  BY <1>1, RegistryInvariant, PTL

-----------------------------------------------------------------------------
(* The container. *)

Frames == [key : Service, pc : {"check", "factory", "store"}, value : Nat]

\* What becomes of a stack of frames when its top is replaced or another one is put on it.
LEMMA ReplaceTop ==
  ASSUME NEW s \in Seq(Frames), s # <<>>, NEW f \in Frames
  PROVE  /\ <<f>> \o Tail(s) \in Seq(Frames) /\ Len(<<f>> \o Tail(s)) = Len(s)
         /\ (<<f>> \o Tail(s))[1] = f /\ <<f>> \o Tail(s) # <<>>
         /\ \A i \in 2..Len(s) : (<<f>> \o Tail(s))[i] = s[i]
<1>1. Tail(s) \in Seq(Frames) /\ Len(Tail(s)) = Len(s) - 1 /\ (\A i \in 1..Len(s) - 1 : Tail(s)[i] = s[i + 1])
      /\ Len(s) \in Nat \ {0}
  BY HeadTailProperties, EmptySeq
<1>2. <<f>> \in Seq(Frames) /\ Len(<<f>>) = 1 /\ <<f>>[1] = f
  OBVIOUS
<1>3. /\ <<f>> \o Tail(s) \in Seq(Frames) /\ Len(<<f>> \o Tail(s)) = 1 + Len(Tail(s))
      /\ \A i \in 1..1 + Len(Tail(s)) : (<<f>> \o Tail(s))[i] = IF i <= 1 THEN <<f>>[i] ELSE Tail(s)[i - 1]
  BY <1>1, <1>2, ConcatProperties
<1> QED
  BY <1>1, <1>2, <1>3

LEMMA PushOn ==
  ASSUME NEW s \in Seq(Frames), NEW f \in Frames
  PROVE  /\ <<f>> \o s \in Seq(Frames) /\ Len(<<f>> \o s) = Len(s) + 1
         /\ (<<f>> \o s)[1] = f /\ <<f>> \o s # <<>>
         /\ \A i \in 1..Len(s) : (<<f>> \o s)[i + 1] = s[i]
<1>1. <<f>> \in Seq(Frames) /\ Len(<<f>>) = 1 /\ <<f>>[1] = f /\ Len(s) \in Nat
  OBVIOUS
<1>2. /\ <<f>> \o s \in Seq(Frames) /\ Len(<<f>> \o s) = 1 + Len(s)
      /\ \A i \in 1..1 + Len(s) : (<<f>> \o s)[i] = IF i <= 1 THEN <<f>>[i] ELSE s[i - 1]
  BY <1>1, ConcatProperties
<1> QED
  BY <1>1, <1>2

\* A stack of resolutions: only the innermost one can be about to store, under a key that
\* has a lifetime, and every one that has called its factory has a registration.
WellNested(s) ==
  \A i \in 1..Len(s) :
    /\ s[i].pc # "check" => registrations[s[i].key] # "none"
    /\ s[i].pc = "store" => i = 1 /\ registrations[s[i].key] \in {"singleton", "scoped"}

Storing(s) == s # <<>> /\ Head(s).pc = "store"

Unused(value) == \A s \in Scope, k \in Service : scoped[s][k] # value

\* The instances about to be stored are new: no scope has them and no two are the same.
NewInstances ==
  \A t \in Thread : Storing(stack[t]) =>
    /\ Head(stack[t]).value \in 1..made /\ Unused(Head(stack[t]).value)
    /\ \A u \in Thread \ {t} : Storing(stack[u]) => Head(stack[u]).value # Head(stack[t]).value

\* No instance is kept by two scopes.
ScopesApart ==
  \A s \in Scope, k \in Service :
    /\ scoped[s][k] <= made
    /\ \A other \in Scope : scoped[s][k] = scoped[other][k] /\ scoped[s][k] # 0 => s = other

\* What a caller was given is what is kept.
GivenIsKept ==
  \A g \in got :
    /\ registrations[g[2]] = "singleton" => g[3] # 0 /\ singletons[g[2]] = g[3]
    /\ registrations[g[2]] = "scoped" => g[3] # 0 /\ scoped[g[1]][g[2]] = g[3]

ContainerInv ==
  /\ Container!TypeOK
  /\ phase = "startup" => got = {} /\ \A t \in Thread : stack[t] = <<>>
  /\ \A t \in Thread : WellNested(stack[t])
  /\ NewInstances /\ ScopesApart /\ GivenIsKept

\* The stacks that the actions leave behind.
LEMMA NewTop ==
  ASSUME NEW s \in Seq(Frames), s # <<>>, WellNested(s), NEW f \in Frames,
         f.pc # "check" => registrations[f.key] # "none",
         f.pc = "store" => registrations[f.key] \in {"singleton", "scoped"}
  PROVE  /\ <<f>> \o Tail(s) \in Seq(Frames) /\ WellNested(<<f>> \o Tail(s))
         /\ <<f>> \o Tail(s) # <<>> /\ Head(<<f>> \o Tail(s)) = f
<1> DEFINE r == <<f>> \o Tail(s)
<1>1. /\ r \in Seq(Frames) /\ Len(r) = Len(s) /\ r[1] = f /\ r # <<>>
      /\ \A i \in 2..Len(s) : r[i] = s[i]
  BY ReplaceTop
<1> HIDE DEF r
<1>2. Head(r) = f
  BY <1>1
<1>3. ASSUME NEW i \in 1..Len(r)
      PROVE  /\ r[i].pc # "check" => registrations[r[i].key] # "none"
             /\ r[i].pc = "store" => i = 1 /\ registrations[r[i].key] \in {"singleton", "scoped"}
  <2>1. CASE i = 1
    BY <1>1, <2>1
  <2>2. CASE i # 1
    <3>1. i \in 2..Len(s) /\ i \in 1..Len(s)
      BY <1>1, <2>2
    <3> QED
      BY <1>1, <3>1, <2>2 DEF WellNested
  <2> QED
    BY <2>1, <2>2
<1>4. WellNested(r)
  BY <1>3 DEF WellNested
<1> QED
  BY <1>1, <1>2, <1>4 DEF r

LEMMA Nested ==
  ASSUME NEW s \in Seq(Frames), WellNested(s), \A i \in 1..Len(s) : s[i].pc # "store",
         NEW k \in Service
  PROVE  LET r == <<Container!Frame(k)>> \o s
         IN  r \in Seq(Frames) /\ WellNested(r) /\ ~Storing(r)
<1> DEFINE f == Container!Frame(k)
           r == <<f>> \o s
<1>0. f \in Frames /\ f.pc = "check"
  BY DEF Container!Frame, Frames
<1>1. /\ r \in Seq(Frames) /\ Len(r) = Len(s) + 1 /\ r[1] = f /\ r # <<>>
      /\ \A i \in 1..Len(s) : r[i + 1] = s[i]
  BY <1>0, PushOn
<1> HIDE DEF r, f
<1>2. Head(r) = f
  BY <1>1
<1>3. ASSUME NEW i \in 1..Len(r)
      PROVE  /\ r[i].pc # "check" => registrations[r[i].key] # "none"
             /\ r[i].pc = "store" => i = 1 /\ registrations[r[i].key] \in {"singleton", "scoped"}
  <2>1. CASE i = 1
    BY <1>0, <1>1, <2>1
  <2>2. CASE i # 1
    <3> DEFINE j == i - 1
    <3>1. j \in 1..Len(s) /\ i = j + 1 /\ Len(s) \in Nat
      BY <1>1, <2>2
    <3>2. r[i] = s[j]
      BY <1>1, <3>1
    <3> QED
      BY <3>1, <3>2 DEF WellNested
  <2> QED
    BY <2>1, <2>2
<1>4. WellNested(r)
  BY <1>3 DEF WellNested
<1>5. ~Storing(r)
  BY <1>0, <1>2 DEF Storing
<1> QED
  BY <1>1, <1>4, <1>5 DEF r, f

LEMMA Unwound ==
  ASSUME NEW s \in Seq(Frames), s # <<>>, WellNested(s)
  PROVE  Tail(s) \in Seq(Frames) /\ WellNested(Tail(s)) /\ ~Storing(Tail(s))
<1> DEFINE r == Tail(s)
<1>1. r \in Seq(Frames) /\ Len(r) = Len(s) - 1 /\ Len(s) \in Nat \ {0} /\ \A i \in 1..Len(s) - 1 : r[i] = s[i + 1]
  BY HeadTailProperties, EmptySeq
<1> HIDE DEF r
<1>2. ASSUME NEW i \in 1..Len(r)
      PROVE  (r[i].pc # "check" => registrations[r[i].key] # "none") /\ r[i].pc # "store"
  <2> DEFINE j == i + 1
  <2>1. j \in 1..Len(s) /\ r[i] = s[j] /\ j # 1
    BY <1>1
  <2> QED
    BY <2>1 DEF WellNested
<1>3. WellNested(r)
  BY <1>2 DEF WellNested
<1>4. ~Storing(r)
  <2>1. SUFFICES ASSUME r # <<>> PROVE Head(r).pc # "store"
    BY DEF Storing
  <2>2. 1 \in 1..Len(r) /\ Head(r) = r[1]
    BY <1>1, <2>1
  <2> QED
    BY <1>2, <2>2
<1> QED
  BY <1>1, <1>3, <1>4 DEF r

\* A step that leaves what is kept as it is, and one stack with nothing to store.
LEMMA StackMoves ==
  ASSUME ContainerInv, NEW t \in Thread, phase = "running",
         NEW s \in Seq(Frames), WellNested(s), ~Storing(s), stack' = [stack EXCEPT ![t] = s],
         UNCHANGED <<phase, calls, registrations, singletons, scoped>>,
         resolves' \in [Thread -> 0..MaxResolves], made' \in Nat, made' >= made,
         got' \subseteq Scope \X Service \X Nat \X Thread, GivenIsKept'
  PROVE  ContainerInv'
<1> USE DEF ContainerInv
<1>1. stack \in [Thread -> Seq(Frames)] /\ stack' \in [Thread -> Seq(Frames)] /\ made \in Nat
  BY DEF Container!TypeOK, Frames
<1>2. stack'[t] = s /\ \A u \in Thread \ {t} : stack'[u] = stack[u]
  BY <1>1
<1>3. Container!TypeOK'
  BY <1>1 DEF Container!TypeOK, Frames
<1>4. \A u \in Thread : WellNested(stack[u])'
  <2> SUFFICES ASSUME NEW u \in Thread PROVE WellNested(stack[u])'
    OBVIOUS
  <2>1. WellNested(stack'[u])
    BY <1>2
  <2> QED
    BY <2>1 DEF WellNested
<1>5. NewInstances'
  <2> SUFFICES ASSUME NEW u \in Thread, Storing(stack[u])'
               PROVE  /\ Head(stack'[u]).value \in 1..made' /\ Unused(Head(stack[u]).value)'
                      /\ \A w \in Thread \ {u} : Storing(stack[w])' => Head(stack'[w]).value # Head(stack'[u]).value
    BY DEF NewInstances
  <2>1. Storing(stack'[u]) /\ u # t /\ stack'[u] = stack[u]
    BY <1>2 DEF Storing
  <2>2. Head(stack[u]).value \in 1..made /\ Unused(Head(stack[u]).value)
    BY <2>1 DEF NewInstances
  <2>3. ASSUME NEW w \in Thread \ {u}, Storing(stack[w])' PROVE Head(stack'[w]).value # Head(stack'[u]).value
    <3>1. Storing(stack'[w]) /\ w # t /\ stack'[w] = stack[w]
      BY <1>2, <2>3 DEF Storing
    <3> QED
      BY <2>1, <3>1 DEF NewInstances
  <2> QED
    BY <1>1, <2>1, <2>2, <2>3 DEF Unused
<1>6. ScopesApart'
  BY <1>1 DEF ScopesApart, Container!TypeOK
<1> QED
  BY <1>3, <1>4, <1>5, <1>6

\* The instance that somebody else keeps for the resolution's key is the one it is given.
LEMMA FoundKept ==
  ASSUME ContainerInv, NEW t \in Thread, Container!Found(t)
  PROVE  ContainerInv'
<1> USE DEF ContainerInv
<1>1. stack[t] \in Seq(Frames) /\ stack[t] # <<>> /\ WellNested(stack[t]) /\ Head(stack[t]) \in Frames
  BY HeadTailProperties, EmptySeq DEF Container!Found, Container!TypeOK, Frames
<1>2. Tail(stack[t]) \in Seq(Frames) /\ WellNested(Tail(stack[t])) /\ ~Storing(Tail(stack[t]))
  BY <1>1, Unwound
<1>3. stack' = [stack EXCEPT ![t] = Tail(stack[t])]
  BY DEF Container!Found, Container!Answer, Container!TypeOK
<1> DEFINE k == Head(stack[t]).key
           value == Container!Existing(t, k)
<1>4. k \in Service /\ ScopeOf[t] \in Scope /\ phase = "running"
  BY <1>1, ApplicationAssumption DEF Frames, Container!TypeOK
<1>5. value \in Nat /\ value # 0 /\ got' = got \union {<<ScopeOf[t], k, value, t>>}
  BY <1>4 DEF Container!Found, Container!Answer, Container!Top, Container!Existing, Container!TypeOK
<1>7. UNCHANGED <<phase, calls, registrations, singletons, scoped, resolves, made>>
  BY DEF Container!Found
<1>8. /\ registrations[k] = "singleton" => singletons[k] = value
      /\ registrations[k] = "scoped" => scoped[ScopeOf[t]][k] = value
  BY DEF Container!Existing
<1> HIDE DEF k, value
<1>6. got' \subseteq Scope \X Service \X Nat \X Thread
  BY <1>4, <1>5 DEF Container!TypeOK
<1>9. GivenIsKept'
  BY <1>5, <1>7, <1>8 DEF GivenIsKept
<1>10. resolves' \in [Thread -> 0..MaxResolves] /\ made' \in Nat /\ made' >= made
  BY <1>7 DEF Container!TypeOK
<1> QED
  BY <1>2, <1>3, <1>4, <1>6, <1>7, <1>9, <1>10, StackMoves

LEMMA CallFactoryKept ==
  ASSUME ContainerInv, NEW t \in Thread, Container!CallFactory(t)
  PROVE  ContainerInv'
<1> USE DEF ContainerInv
<1> DEFINE top == Head(stack[t])
           called == <<[top EXCEPT !.pc = "factory"]>> \o Tail(stack[t])
<1>1. stack[t] \in Seq(Frames) /\ stack[t] # <<>> /\ WellNested(stack[t]) /\ top \in Frames
  BY HeadTailProperties, EmptySeq DEF Container!CallFactory, Container!TypeOK, Frames
<1>2. registrations[top.key] # "none" /\ phase = "running"
  BY <1>1 DEF Container!CallFactory, Container!Top, Container!TypeOK
<1>3. [top EXCEPT !.pc = "factory"] \in Frames /\ [top EXCEPT !.pc = "factory"].pc = "factory"
      /\ [top EXCEPT !.pc = "factory"].key = top.key
  BY <1>1 DEF Frames
<1>4. /\ called \in Seq(Frames) /\ WellNested(called) /\ called # <<>>
      /\ Head(called) = [top EXCEPT !.pc = "factory"]
  BY <1>1, <1>2, <1>3, NewTop
<1>5. /\ UNCHANGED <<phase, calls, registrations, singletons, scoped, resolves, made, got>>
      /\ DependsOn[top.key] = {} => stack' = [stack EXCEPT ![t] = called]
      /\ DependsOn[top.key] # {} => \E d \in DependsOn[top.key] :
           stack' = [stack EXCEPT ![t] = <<Container!Frame(d)>> \o called]
  BY DEF Container!CallFactory, Container!Top
<1>6. top.key \in Service /\ DependsOn[top.key] \subseteq Service
  BY <1>1, ApplicationAssumption DEF Frames
<1> HIDE DEF called
<1>7. ~Storing(called) /\ \A i \in 1..Len(called) : called[i].pc # "store"
  <2>0. Head(called) = called[1]
    BY <1>4
  <2>1. called[1].pc = "factory"
    BY <1>3, <1>4, <2>0
  <2>2. \A i \in 1..Len(called) : called[i].pc = "store" => i = 1
    BY <1>4 DEF WellNested
  <2> QED
    BY <2>0, <2>1, <2>2 DEF Storing
<1>8. /\ resolves' \in [Thread -> 0..MaxResolves] /\ made' \in Nat /\ made' >= made
      /\ got' \subseteq Scope \X Service \X Nat \X Thread
  BY <1>5 DEF Container!TypeOK
<1>9. GivenIsKept'
  BY <1>5 DEF GivenIsKept
<1>10. CASE DependsOn[top.key] = {}
  BY <1>2, <1>4, <1>5, <1>7, <1>8, <1>9, <1>10, StackMoves
<1>11. CASE DependsOn[top.key] # {}
  <2>1. PICK d \in DependsOn[top.key] : stack' = [stack EXCEPT ![t] = <<Container!Frame(d)>> \o called]
    BY <1>5, <1>11
  <2> DEFINE r == <<Container!Frame(d)>> \o called
  <2>2. r \in Seq(Frames) /\ WellNested(r) /\ ~Storing(r)
    BY <1>4, <1>6, <1>7, Nested
  <2>3. stack' = [stack EXCEPT ![t] = r]
    BY <2>1
  <2> HIDE DEF r
  <2> QED
    BY <1>2, <1>5, <2>2, <2>3, <1>8, <1>9, StackMoves
<1> QED
  BY <1>10, <1>11

\* Scopes that are left as they are stay apart.
LEMMA ApartAsTheyWere ==
  ASSUME ContainerInv, UNCHANGED scoped, made' \in Nat, made' >= made
  PROVE  ScopesApart'
<1>1. made \in Nat /\ \A s \in Scope, k \in Service : scoped[s][k] \in Nat
  BY DEF ContainerInv, Container!TypeOK
<1>2. ScopesApart
  BY DEF ContainerInv
<1> HIDE DEF ContainerInv
<1> QED
  BY <1>1, <1>2 DEF ScopesApart

\* What is kept, and the resolutions in progress, as they are.
LEMMA AllAsItWas ==
  ASSUME ContainerInv, phase' \in {phase, "running"},
         UNCHANGED <<registrations, calls, singletons, scoped, stack, resolves, made, got>>
  PROVE  ContainerInv'
<1>1. Container!TypeOK'
  BY DEF ContainerInv, Container!TypeOK
<1>2. \A t \in Thread : WellNested(stack[t])'
  BY DEF ContainerInv, WellNested
<1>3. NewInstances'
  BY DEF ContainerInv, NewInstances, Storing, Unused
<1>4. ScopesApart'
  BY DEF ContainerInv, ScopesApart
<1>5. GivenIsKept'
  BY DEF ContainerInv, GivenIsKept
<1>6. phase' = "startup" => got' = {} /\ \A t \in Thread : stack'[t] = <<>>
  BY DEF ContainerInv
<1> QED
  BY <1>1, <1>2, <1>3, <1>4, <1>5, <1>6 DEF ContainerInv

\* A new instance: a transient one goes to the caller, another one has to be stored first.
LEMMA FactoryReturnsKept ==
  ASSUME ContainerInv, NEW t \in Thread, Container!FactoryReturns(t)
  PROVE  ContainerInv'
<1> USE DEF ContainerInv
<1> DEFINE top == Head(stack[t])
           k == top.key
<1>0. stack \in [Thread -> Seq(Frames)] /\ stack[t] # <<>>
  BY DEF Container!FactoryReturns, Container!TypeOK, Frames
<1>1. /\ stack[t] \in Seq(Frames) /\ WellNested(stack[t]) /\ top \in Frames
      /\ top = stack[t][1] /\ 1 \in 1..Len(stack[t])
  BY <1>0, HeadTailProperties, EmptySeq
<1>2. k \in Service /\ ScopeOf[t] \in Scope /\ phase = "running" /\ made \in Nat /\ made' = made + 1
  BY <1>1, ApplicationAssumption DEF Frames, Container!TypeOK, Container!FactoryReturns
<1>3. /\ UNCHANGED <<phase, calls, registrations, singletons, scoped, resolves>>
      /\ top.pc = "factory"
  BY DEF Container!FactoryReturns, Container!Top
<1>4. registrations[k] # "none" /\ registrations[k] \in {"singleton", "scoped", "transient", "none"}
  BY <1>1, <1>2, <1>3 DEF WellNested, Container!TypeOK, Container!Lifetime
<1>5. resolves' \in [Thread -> 0..MaxResolves] /\ made' \in Nat /\ made' >= made
  BY <1>2, <1>3 DEF Container!TypeOK
<1>6. CASE registrations[k] = "transient"
  <2>1. Tail(stack[t]) \in Seq(Frames) /\ WellNested(Tail(stack[t])) /\ ~Storing(Tail(stack[t]))
    BY <1>0, <1>1, Unwound
  <2>2. /\ stack' = [stack EXCEPT ![t] = Tail(stack[t])]
        /\ got' = got \union {<<ScopeOf[t], k, made', t>>}
    BY <1>6 DEF Container!FactoryReturns, Container!Answer, Container!Top, Container!TypeOK
  <2> HIDE DEF k
  <2>3. got' \subseteq Scope \X Service \X Nat \X Thread
    BY <1>2, <2>2 DEF Container!TypeOK
  <2>4. GivenIsKept'
    BY <1>3, <1>6, <2>2 DEF GivenIsKept
  <2> QED
    BY <1>2, <1>3, <1>5, <2>1, <2>2, <2>3, <2>4, StackMoves
<1>7. CASE registrations[k] # "transient"
  <2> DEFINE f == [top EXCEPT !.pc = "store", !.value = made']
             r == <<f>> \o Tail(stack[t])
  <2>1. f \in Frames /\ f.pc = "store" /\ f.key = k /\ f.value = made + 1
    <3> HIDE DEF top
    <3>1. ASSUME NEW value \in Nat
          PROVE  LET g == [top EXCEPT !.pc = "store", !.value = value]
                 IN  g \in Frames /\ g.pc = "store" /\ g.key = top.key /\ g.value = value
      BY <1>1 DEF Frames
    <3>2. made' \in Nat
      BY <1>2
    <3>3. f \in Frames /\ f.pc = "store" /\ f.key = k /\ f.value = made'
      BY <3>1, <3>2, Zenon
    <3> QED
      BY <1>2, <3>3
  <2>2. r \in Seq(Frames) /\ WellNested(r) /\ r # <<>> /\ Head(r) = f
    <3> HIDE DEF k, f
    <3> QED
      BY <1>0, <1>1, <1>4, <1>7, <2>1, NewTop
  <2>3. stack' = [stack EXCEPT ![t] = r] /\ got' = got
    BY <1>7 DEF Container!FactoryReturns, Container!Top
  <2> HIDE DEF r, f, k
  <2>4. stack' \in [Thread -> Seq(Frames)] /\ stack'[t] = r /\ \A u \in Thread \ {t} : stack'[u] = stack[u]
    BY <1>0, <2>2, <2>3
  <2>5. Container!TypeOK'
    <3>1. stack' \in [Thread -> Seq([key : Service, pc : {"check", "factory", "store"}, value : Nat])]
      BY <2>4 DEF Frames
    <3> QED
      BY <1>5, <1>3, <2>3, <3>1 DEF Container!TypeOK
  <2>6. \A u \in Thread : WellNested(stack[u])'
    <3> SUFFICES ASSUME NEW u \in Thread PROVE WellNested(stack[u])'
      OBVIOUS
    <3>1. WellNested(stack'[u])
      BY <2>2, <2>4
    <3> QED
      BY <1>3, <3>1 DEF WellNested
  <2>7. ScopesApart'
    BY <1>2, <1>3, ApartAsTheyWere
  <2>8. GivenIsKept'
    BY <1>3, <2>3 DEF GivenIsKept
  <2>9. NewInstances'
    <3> SUFFICES ASSUME NEW u \in Thread, Storing(stack[u])'
                 PROVE  /\ Head(stack'[u]).value \in 1..made' /\ Unused(Head(stack[u]).value)'
                        /\ \A w \in Thread \ {u} : Storing(stack[w])' => Head(stack'[w]).value # Head(stack'[u]).value
      BY DEF NewInstances
    <3>1. \A w \in Thread \ {t} : Storing(stack[w])' =>
            /\ Storing(stack[w]) /\ stack'[w] = stack[w]
            /\ Head(stack[w]).value \in 1..made /\ Unused(Head(stack[w]).value)
      BY <2>4 DEF Storing, NewInstances
    <3>2. Head(stack'[t]).value = made + 1
      BY <2>1, <2>2, <2>4
    <3>3. \A s \in Scope, i \in Service : scoped'[s][i] = scoped[s][i] /\ scoped[s][i] # made + 1
      BY <1>2, <1>3 DEF ScopesApart, Container!TypeOK
    <3>4. \A w \in Thread \ {u} : Storing(stack[w])' => Head(stack'[w]).value # Head(stack'[u]).value
      <4> SUFFICES ASSUME NEW w \in Thread \ {u}, Storing(stack[w])'
                   PROVE  Head(stack'[w]).value # Head(stack'[u]).value
        OBVIOUS
      <4>1. CASE u = t
        BY <1>2, <3>1, <3>2, <4>1
      <4>2. CASE w = t
        BY <1>2, <3>1, <3>2, <4>2
      <4>3. CASE u # t /\ w # t
        BY <3>1, <4>3 DEF NewInstances
      <4> QED
        BY <4>1, <4>2, <4>3
    <3>5. Head(stack'[u]).value \in 1..made' /\ Unused(Head(stack[u]).value)'
      <4>1. CASE u = t
        BY <1>2, <3>2, <3>3, <4>1 DEF Unused
      <4>2. CASE u # t
        BY <1>2, <3>1, <3>3, <4>2 DEF Unused
      <4> QED
        BY <4>1, <4>2
    <3> QED
      BY <3>4, <3>5
  <2> QED
    BY <1>2, <1>3, <2>5, <2>6, <2>7, <2>8, <2>9
<1> QED
  BY <1>6, <1>7

\* Under the lock again: the instance is kept unless somebody else's is.
LEMMA StoreKept ==
  ASSUME ContainerInv, NEW t \in Thread, Container!Store(t)
  PROVE  ContainerInv'
<1> USE DEF ContainerInv
<1> DEFINE top == Head(stack[t])
           k == top.key
           s == ScopeOf[t]
           kept == IF Container!Existing(t, k) = 0 THEN top.value ELSE Container!Existing(t, k)
<1>1. stack \in [Thread -> Seq(Frames)] /\ stack[t] # <<>> /\ top.pc = "store" /\ Storing(stack[t])
  BY DEF Container!Store, Container!Top, Container!TypeOK, Frames, Storing
<1>2. /\ stack[t] \in Seq(Frames) /\ WellNested(stack[t]) /\ top \in Frames
      /\ top = stack[t][1] /\ 1 \in 1..Len(stack[t])
  BY <1>1, HeadTailProperties, EmptySeq
<1>3. Tail(stack[t]) \in Seq(Frames) /\ WellNested(Tail(stack[t])) /\ ~Storing(Tail(stack[t]))
  BY <1>1, <1>2, Unwound
<1>4. k \in Service /\ s \in Scope /\ phase = "running" /\ registrations[k] \in {"singleton", "scoped"}
  <2>1. k \in Service /\ s \in Scope
    BY <1>2, ApplicationAssumption DEF Frames
  <2>2. registrations[k] \in {"singleton", "scoped"}
    BY <1>1, <1>2 DEF WellNested
  <2>3. phase = "running"
    BY <1>1 DEF Container!TypeOK
  <2> QED
    BY <2>1, <2>2, <2>3
<1>5. made \in Nat /\ top.value \in 1..made /\ Unused(top.value)
  BY <1>1 DEF NewInstances, Container!TypeOK
<1>6. /\ stack' = [stack EXCEPT ![t] = Tail(stack[t])]
      /\ got' = got \union {<<s, k, kept, t>>}
      /\ UNCHANGED <<phase, calls, registrations, resolves, made>>
  BY DEF Container!Store, Container!Answer, Container!Top, Container!TypeOK
<1>7. /\ registrations[k] = "singleton" =>
            scoped' = scoped /\ singletons' = [singletons EXCEPT ![k] = kept]
      /\ registrations[k] = "scoped" =>
            singletons' = singletons /\ scoped' = [scoped EXCEPT ![s][k] = kept]
  BY DEF Container!Store, Container!Top
<1>8. /\ registrations[k] = "singleton" =>
            kept = IF singletons[k] = 0 THEN top.value ELSE singletons[k]
      /\ registrations[k] = "scoped" =>
            kept = IF scoped[s][k] = 0 THEN top.value ELSE scoped[s][k]
  BY DEF Container!Existing
<1> HIDE DEF kept, s, k
<1>9. kept \in Nat \ {0}
  BY <1>4, <1>5, <1>8 DEF Container!TypeOK
<1>10. stack'[t] = Tail(stack[t]) /\ \A u \in Thread \ {t} : stack'[u] = stack[u]
  BY <1>1, <1>6
<1>11. Container!TypeOK'
  <2>1. stack' \in [Thread -> Seq([key : Service, pc : {"check", "factory", "store"}, value : Nat])]
    BY <1>1, <1>3, <1>6 DEF Frames
  <2>2. singletons' \in [Service -> Nat] /\ scoped' \in [Scope -> [Service -> Nat]]
    <3>1. singletons \in [Service -> Nat] /\ scoped \in [Scope -> [Service -> Nat]] /\ kept \in Nat
      BY <1>9 DEF Container!TypeOK
    <3>2. [scoped[s] EXCEPT ![k] = kept] \in [Service -> Nat]
      BY <1>4, <3>1
    <3>3. [scoped EXCEPT ![s][k] = kept] = [scoped EXCEPT ![s] = [scoped[s] EXCEPT ![k] = kept]]
      BY <3>1
    <3>4. [scoped EXCEPT ![s][k] = kept] \in [Scope -> [Service -> Nat]]
      BY <1>4, <3>1, <3>2, <3>3
    <3> QED
      BY <1>4, <1>7, <3>1, <3>4
  <2>3. got' \subseteq Scope \X Service \X Nat \X Thread
    BY <1>4, <1>6, <1>9 DEF Container!TypeOK
  <2> QED
    BY <1>6, <2>1, <2>2, <2>3 DEF Container!TypeOK
<1>12. \A u \in Thread : WellNested(stack[u])'
  <2> SUFFICES ASSUME NEW u \in Thread PROVE WellNested(stack[u])'
    OBVIOUS
  <2>1. WellNested(stack'[u])
    BY <1>3, <1>10
  <2> QED
    BY <1>6, <2>1 DEF WellNested
<1>13. \A z \in Scope, i \in Service :
         scoped'[z][i] = IF registrations[k] = "scoped" /\ z = s /\ i = k THEN kept ELSE scoped[z][i]
  BY <1>4, <1>7 DEF Container!TypeOK
<1>14. registrations[k] = "scoped" =>
         kept = scoped[s][k] \/ (scoped[s][k] = 0 /\ kept = top.value)
  BY <1>8
<1>15. NewInstances'
  <2> SUFFICES ASSUME NEW u \in Thread, Storing(stack[u])'
               PROVE  /\ Head(stack'[u]).value \in 1..made' /\ Unused(Head(stack[u]).value)'
                      /\ \A w \in Thread \ {u} : Storing(stack[w])' => Head(stack'[w]).value # Head(stack'[u]).value
    BY DEF NewInstances
  <2>1. \A w \in Thread : Storing(stack[w])' => w # t /\ Storing(stack[w]) /\ stack'[w] = stack[w]
    BY <1>3, <1>10 DEF Storing
  <2>2. /\ u # t /\ Storing(stack[u]) /\ stack'[u] = stack[u]
        /\ Head(stack[u]).value \in 1..made /\ Unused(Head(stack[u]).value)
        /\ Head(stack[u]).value # top.value
    BY <1>1, <2>1 DEF NewInstances
  <2>3. Unused(Head(stack[u]).value)'
    BY <1>4, <1>13, <1>14, <2>2 DEF Unused
  <2>4. \A w \in Thread \ {u} : Storing(stack[w])' => Head(stack'[w]).value # Head(stack'[u]).value
    BY <2>1, <2>2 DEF NewInstances
  <2> QED
    BY <1>6, <2>2, <2>3, <2>4
<1>16. ScopesApart'
  <2> SUFFICES ASSUME NEW z \in Scope, NEW i \in Service
               PROVE  /\ scoped'[z][i] <= made'
                      /\ \A other \in Scope : scoped'[z][i] = scoped'[other][i] /\ scoped'[z][i] # 0 => z = other
    BY DEF ScopesApart
  <2>1. scoped'[z][i] <= made'
    BY <1>4, <1>5, <1>6, <1>13, <1>14 DEF ScopesApart
  <2>2. \A other \in Scope : scoped'[z][i] = scoped'[other][i] /\ scoped'[z][i] # 0 => z = other
    BY <1>4, <1>5, <1>13, <1>14 DEF ScopesApart, Unused
  <2> QED
    BY <2>1, <2>2
<1>17. GivenIsKept'
  <2> SUFFICES ASSUME NEW g \in got'
               PROVE  /\ registrations[g[2]] = "singleton" => g[3] # 0 /\ singletons'[g[2]] = g[3]
                      /\ registrations[g[2]] = "scoped" => g[3] # 0 /\ scoped'[g[1]][g[2]] = g[3]
    BY <1>6 DEF GivenIsKept
  <2>1. CASE g = <<s, k, kept, t>>
    BY <1>4, <1>7, <1>9, <2>1 DEF Container!TypeOK
  <2>2. CASE g \in got
    <3>1. g[1] \in Scope /\ g[2] \in Service
      BY <2>2 DEF Container!TypeOK
    <3>2. registrations[g[2]] = "singleton" => g[3] # 0 /\ singletons[g[2]] = g[3]
      BY <2>2 DEF GivenIsKept
    <3>3. registrations[g[2]] = "scoped" => g[3] # 0 /\ scoped[g[1]][g[2]] = g[3]
      BY <2>2 DEF GivenIsKept
    <3>4. \A i \in Service : registrations[i] = "singleton" /\ singletons[i] # 0 => singletons'[i] = singletons[i]
      BY <1>4, <1>7, <1>8 DEF Container!TypeOK
    <3> QED
      BY <1>13, <1>14, <3>1, <3>2, <3>3, <3>4
  <2> QED
    BY <1>6, <2>1, <2>2
<1> QED
  BY <1>4, <1>6, <1>11, <1>12, <1>15, <1>16, <1>17

LEMMA ContainerStarts == Container!Init => ContainerInv
<1> SUFFICES ASSUME Container!Init PROVE ContainerInv
  OBVIOUS
<1>1. \A t \in Thread : stack[t] = <<>>
  BY DEF Container!Init
<1>2. Container!TypeOK
  BY ApplicationAssumption, EmptySeq DEF Container!Init, Container!TypeOK, Container!Lifetime
<1>3. \A t \in Thread : WellNested(stack[t]) /\ ~Storing(stack[t])
  BY <1>1, EmptySeq DEF WellNested, Storing
<1>4. NewInstances /\ ScopesApart /\ GivenIsKept
  BY <1>3 DEF NewInstances, ScopesApart, GivenIsKept, Container!Init
<1> QED
  BY <1>1, <1>2, <1>3, <1>4 DEF ContainerInv, Container!Init

LEMMA ContainerInductive == ContainerInv /\ [Container!Next]_Container!vars => ContainerInv'
<1> SUFFICES ASSUME ContainerInv, [Container!Next]_Container!vars PROVE ContainerInv'
  OBVIOUS
<1> USE DEF ContainerInv
<1>1. ASSUME NEW k \in Service, NEW lifetime \in Container!Lifetime,
             Container!Add(k, lifetime) \/ Container!TryAdd(k, lifetime)
      PROVE  ContainerInv'
  <2>1. /\ UNCHANGED <<phase, singletons, scoped, stack, resolves, made, got>>
        /\ phase = "startup" /\ calls' = calls + 1 /\ calls < MaxCalls
    BY <1>1 DEF Container!Add, Container!TryAdd
  <2>2. registrations' \in [Service -> Container!Lifetime \union {"none"}]
    BY <1>1 DEF Container!Add, Container!TryAdd, Container!TypeOK
  <2>3. Container!TypeOK'
    BY ApplicationAssumption, <2>1, <2>2 DEF Container!TypeOK, Container!Lifetime
  <2>4. (\A t \in Thread : WellNested(stack[t]))'
    BY <2>1, EmptySeq DEF WellNested
  <2>5. NewInstances' /\ ScopesApart' /\ GivenIsKept'
    BY <2>1 DEF NewInstances, Storing, ScopesApart, GivenIsKept
  <2> QED
    BY <2>1, <2>3, <2>4, <2>5
<1>2. CASE UNCHANGED <<registrations, calls, singletons, scoped, stack, resolves, made, got>> /\ phase' = "running"
  BY <1>2, AllAsItWas
<1>3. ASSUME NEW t \in Thread, Container!NotRegistered(t) \/ Container!FactoryPanics(t) PROVE ContainerInv'
  <2>1. /\ stack' = [stack EXCEPT ![t] = <<>>] /\ stack[t] # <<>>
        /\ UNCHANGED <<phase, calls, registrations, singletons, scoped, resolves, made, got>>
    BY <1>3 DEF Container!NotRegistered, Container!FactoryPanics
  <2>2. <<>> \in Seq(Frames) /\ WellNested(<<>>) /\ ~Storing(<<>>)
    BY EmptySeq DEF WellNested, Storing
  <2>3. resolves' \in [Thread -> 0..MaxResolves] /\ made' \in Nat /\ made' >= made /\ phase = "running"
        /\ got' \subseteq Scope \X Service \X Nat \X Thread
    BY <2>1 DEF Container!TypeOK
  <2>4. GivenIsKept'
    BY <2>1 DEF GivenIsKept
  <2> QED
    BY <2>1, <2>2, <2>3, <2>4, StackMoves
<1>4. ASSUME NEW t \in Thread, NEW k \in Service, Container!GetService(t, k) PROVE ContainerInv'
  <2> DEFINE s == <<Container!Frame(k)>>
  <2>1. /\ stack' = [stack EXCEPT ![t] = s] /\ phase = "running" /\ resolves[t] < MaxResolves
        /\ UNCHANGED <<phase, calls, registrations, singletons, scoped, made, got>>
        /\ resolves' = [resolves EXCEPT ![t] = @ + 1]
    BY <1>4 DEF Container!GetService
  <2>2. s \in Seq(Frames) /\ Len(s) = 1 /\ s[1].pc = "check" /\ Head(s) = s[1]
    BY DEF Container!Frame, Frames
  <2>3. resolves' \in [Thread -> 0..MaxResolves]
    BY <2>1, ApplicationAssumption DEF Container!TypeOK
  <2> HIDE DEF s
  <2>4. WellNested(s) /\ ~Storing(s)
    BY <2>2 DEF WellNested, Storing
  <2>5. made' \in Nat /\ made' >= made /\ got' \subseteq Scope \X Service \X Nat \X Thread
    BY <2>1 DEF Container!TypeOK
  <2>6. GivenIsKept'
    BY <2>1 DEF GivenIsKept
  <2> QED
    BY <2>1, <2>2, <2>3, <2>4, <2>5, <2>6, StackMoves
<1>5. CASE UNCHANGED Container!vars
  BY <1>5, AllAsItWas DEF Container!vars
<1> QED
  BY <1>1, <1>2, <1>3, <1>4, <1>5, FoundKept, CallFactoryKept, FactoryReturnsKept, StoreKept
     DEF Container!Next, Container!Resolution, Container!Start

\* Every caller of a singleton is given the one instance, and the callers of one scope, and
\* of no other, share a scoped one: for any number of services, scopes and goroutines, however
\* resolutions nest and race (Scope.GetService and Container.resolve*, scope.go).
THEOREM ContainerGivesOneInstance == Container!Spec \/ MCSpec => []OneInstance
<1>1. ContainerInv => OneInstance
  <2> SUFFICES ASSUME ContainerInv PROVE OneInstance
    OBVIOUS
  <2>1. ScopesApart /\ GivenIsKept /\ got \subseteq Scope \X Service \X Nat \X Thread
    BY DEF ContainerInv, Container!TypeOK
  <2>2. Container!OneSingleton
    BY <2>1 DEF GivenIsKept, Container!OneSingleton
  <2>3. Container!OnePerScope
    BY <2>1 DEF ScopesApart, GivenIsKept, Container!OnePerScope
  <2> QED
    BY <2>2, <2>3 DEF OneInstance
<1>2. (MCInit => Container!Init) /\ ([MCNext]_all => [Container!Next]_Container!vars)
  BY DEF MCInit, MCNext, all, containerVars, Container!vars
<1> QED
  BY <1>1, <1>2, ContainerStarts, ContainerInductive, PTL DEF MCSpec, Container!Spec

-----------------------------------------------------------------------------
(* The key resolver. *)

\* The cache holds what was published and is not stale, and whoever holds the mutex has been
\* fetching for less than the window.
KeysInv ==
  /\ published \in KeySets /\ keys \subseteq Key /\ fetched \in BOOLEAN
  /\ client \in [Key -> {"idle", "resolving", "fetching", "accepted"} \union Keys!Refusals]
  /\ holder \in Key \union {Keys!Nobody}
  /\ elapsed \in 0..MinRefetch /\ quiet = elapsed
  /\ \A k \in Key : client[k] = "fetching" <=> holder = k
  /\ holder # Keys!Nobody => elapsed <= FetchTime
  /\ keys # {} => fetched
  /\ \A k \in published : k \in keys \union stale

LEMMA KeysStart == Keys!Init => KeysInv
<1> SUFFICES ASSUME Keys!Init PROVE KeysInv
  OBVIOUS
<1>1. client \in [Key -> {"idle"}] /\ holder = Keys!Nobody
  BY DEF Keys!Init
<1>2. client \in [Key -> {"idle", "resolving", "fetching", "accepted"} \union Keys!Refusals]
  BY <1>1
<1>3. /\ published \in KeySets /\ published \subseteq Key /\ keys = {} /\ fetched = FALSE
      /\ elapsed = MinRefetch /\ quiet = MinRefetch /\ stale = published
  BY ApplicationAssumption DEF Keys!Init
<1>4. \A k \in Key : client[k] # "fetching" /\ k # holder
  BY <1>1, ApplicationAssumption
<1>5. elapsed \in 0..MinRefetch /\ quiet = elapsed
  BY <1>3, ApplicationAssumption
<1>6. \A k \in Key : client[k] = "fetching" <=> holder = k
  BY <1>4
<1> QED
  BY <1>1, <1>2, <1>3, <1>5, <1>6 DEF KeysInv

\* A token under a published key that the cache does not verify is under a stale key.
LEMMA VerdictIsExplained ==
  ASSUME KeysInv, NEW k \in Key
  PROVE  LET verdict == Keys!Verdict(k, Keys!LookupLocked(k))
         IN  /\ verdict \in {"accepted", "no key", "bad signature"}
             /\ verdict # "accepted" /\ k \in published => k \in stale
             /\ verdict = "no key" <=> Keys!LookupLocked(k) = {}
             /\ verdict = "bad signature" => keys \cap Keyless # {}
BY DEF KeysInv, Keys!Verdict, Keys!LookupLocked

\* What a step of one client may do.
KeysStepOK ==
  /\ \A k \in Key : client[k] # "fetching" /\ client'[k] = "fetching" =>
       quiet >= MinRefetch /\ \A other \in Key : client[other] # "fetching"
  /\ \A k \in published : client'[k] # client[k] /\ client'[k] \in Keys!Refusals =>
       /\ k \in stale
       /\ elapsed < MinRefetch \/ k \in Keyless \/ keys \cap Keyless # {}

LEMMA KeysStepKept ==
  ASSUME KeysInv, NEW k \in Key, Keys!Step(k)
  PROVE  KeysInv' /\ KeysStepOK
<1> USE ApplicationAssumption DEF KeysInv
<1>1. published \subseteq Key
  OBVIOUS
<1> DEFINE verdict == Keys!Verdict(k, Keys!LookupLocked(k))
<1>2. /\ verdict \in {"accepted", "no key", "bad signature"}
      /\ verdict # "accepted" /\ k \in published => k \in stale
      /\ verdict = "no key" <=> Keys!LookupLocked(k) = {}
      /\ verdict = "bad signature" => keys \cap Keyless # {}
  BY VerdictIsExplained
<1>3. CASE Keys!Present(k) \/ Keys!Answered(k)
  <2>1. \E value \in {"idle", "resolving"} :
          client' = [client EXCEPT ![k] = value] /\ client[k] # "fetching"
    BY <1>3 DEF Keys!Present, Keys!Answered
  <2>2. UNCHANGED <<published, rotations, steady, fetched, keys, elapsed, holder, quiet, stale>>
    BY <1>3 DEF Keys!Present, Keys!Answered
  <2> QED
    BY <1>1, <2>1, <2>2 DEF KeysStepOK, Keys!Refusals
<1>4. CASE Keys!ResolveCached(k)
  <2>1. /\ client' = [client EXCEPT ![k] = verdict] /\ client[k] = "resolving"
        /\ UNCHANGED <<published, rotations, steady, fetched, keys, elapsed, holder, quiet, stale>>
        /\ Keys!LookupLocked(k) # {}
    BY <1>4 DEF Keys!ResolveCached, Keys!Answer, Keys!Cached
  <2> HIDE DEF verdict
  <2> QED
    BY <1>1, <1>2, <2>1 DEF KeysStepOK, Keys!Refusals
<1>5. CASE Keys!ResolveThrottled(k)
  <2>3. (IF fetched THEN Keys!LookupLocked(k) ELSE {}) = {}
    BY <1>5 DEF Keys!ResolveThrottled, Keys!Cached
  <2>4. client' = [client EXCEPT ![k] = "no key"]
    BY <1>5, <2>3 DEF Keys!ResolveThrottled, Keys!Answer, Keys!Verdict
  <2>1. /\ client' = [client EXCEPT ![k] = "no key"] /\ client[k] = "resolving"
        /\ UNCHANGED <<published, rotations, steady, fetched, keys, elapsed, holder, quiet, stale>>
    BY <1>5, <2>4 DEF Keys!ResolveThrottled
  <2>5. elapsed < MinRefetch \/ k \in Keyless
    <3>1. elapsed \in Int /\ MinRefetch \in Int
      OBVIOUS
    <3>2. ~Keys!MayFetch(k)
      BY <1>5 DEF Keys!ResolveThrottled
    <3> HIDE ApplicationAssumption DEF KeysInv
    <3> QED
      BY <3>1, <3>2 DEF Keys!MayFetch
  <2>2. k \in published => k \in stale
    BY <1>5 DEF Keys!ResolveThrottled, Keys!Cached, Keys!LookupLocked
  <2>6. KeysInv'
    BY <1>1, <2>1 DEF Keys!Refusals
  <2>7. KeysStepOK
    BY <1>1, <2>1, <2>2, <2>5 DEF KeysStepOK, Keys!Refusals
  <2> QED
    BY <2>6, <2>7
<1>6. CASE Keys!BeginFetch(k)
  <2>1. /\ client' = [client EXCEPT ![k] = "fetching"] /\ holder = Keys!Nobody /\ holder' = k
        /\ elapsed >= MinRefetch /\ elapsed' = 0 /\ quiet' = 0
        /\ UNCHANGED <<published, fetched, keys, stale>>
    BY <1>6 DEF Keys!BeginFetch, Keys!MayFetch
  <2>2. KeysInv'
    BY <1>1, <2>1
  <2>3. KeysStepOK
    BY <1>1, <2>1 DEF KeysStepOK, Keys!Refusals
  <2> QED
    BY <2>2, <2>3
<1>7. CASE Keys!Fetch(k)
  <2>1. \E outcome \in {"accepted", "no key", "bad signature"} :
          /\ client' = [client EXCEPT ![k] = outcome]
          /\ k \in published => outcome = "accepted"
    BY <1>7 DEF Keys!Fetch, Keys!Verdict
  <2>2. /\ client[k] = "fetching" /\ fetched' = TRUE /\ keys' = published /\ holder' = Keys!Nobody
        /\ stale' = {} /\ UNCHANGED <<published, elapsed, quiet>>
    BY <1>7 DEF Keys!Fetch
  <2> QED
    BY <1>1, <2>1, <2>2 DEF KeysStepOK, Keys!Refusals
<1>8. CASE Keys!FetchFails(k)
  <2>1. /\ client[k] = "fetching" /\ holder' = Keys!Nobody
        /\ UNCHANGED <<published, fetched, keys, elapsed, quiet, stale>>
        /\ fetched => client' = [client EXCEPT ![k] = verdict]
        /\ ~fetched => client' = [client EXCEPT ![k] = "unavailable"]
    BY <1>8 DEF Keys!FetchFails, Keys!Answer
  <2>2. elapsed < MinRefetch
    BY <2>1
  <2> HIDE DEF verdict
  <2> QED
    BY <1>1, <1>2, <2>1, <2>2 DEF KeysStepOK, Keys!Refusals
<1> QED
  BY <1>3, <1>4, <1>5, <1>6, <1>7, <1>8 DEF Keys!Step

LEMMA KeysInductive == KeysInv /\ [Keys!Next]_Keys!vars => KeysInv' /\ [KeysStepOK]_Keys!vars
<1> SUFFICES ASSUME KeysInv, [Keys!Next]_Keys!vars PROVE KeysInv' /\ [KeysStepOK]_Keys!vars
  OBVIOUS
<1>1. ASSUME NEW k \in Key, Keys!Step(k) PROVE KeysInv' /\ KeysStepOK
  BY <1>1, KeysStepKept
<1>2. CASE Keys!Rotate
  BY <1>2, ApplicationAssumption DEF Keys!Rotate, KeysInv, KeysStepOK
<1>3. CASE Keys!Settle
  BY <1>3 DEF Keys!Settle, KeysInv, KeysStepOK
<1>4. CASE Keys!Tick
  <2>1. KeysStepOK
    BY <1>4 DEF Keys!Tick, KeysStepOK
  <2>2. UNCHANGED <<published, fetched, keys, holder, client, stale>>
    BY <1>4 DEF Keys!Tick
  <2>3. /\ elapsed' \in 0..MinRefetch /\ quiet' = elapsed'
        /\ holder # Keys!Nobody => elapsed' <= FetchTime
    BY <1>4, ApplicationAssumption DEF Keys!Tick, KeysInv
  <2> QED
    BY <2>1, <2>2, <2>3, ApplicationAssumption DEF KeysInv
<1>5. CASE UNCHANGED Keys!vars
  BY <1>5 DEF Keys!vars, KeysInv
<1> QED
  BY <1>1, <1>2, <1>3, <1>4, <1>5 DEF Keys!Next

\* The issuer's endpoint is fetched from by one caller at a time and once in the window, and
\* a token under a published key is refused only where the cache could not know the key:
\* for every set of keys and clients, every rotation and every fetch that fails
\* (Resolver.ResolveKeys, jwks.go).
THEOREM KeysAreRefetchedFairly == Keys!Spec \/ MCSpec => RefetchIsFair
<1>1. (MCInit => Keys!Init) /\ ([MCNext]_all => [Keys!Next]_Keys!vars)
  BY DEF MCInit, MCNext, all, keyVars, Keys!vars
<1> QED
  BY <1>1, KeysStart, KeysInductive, PTL
     DEF MCSpec, Keys!Spec, RefetchIsFair, Keys!EndpointIsSpared, Keys!RefusalIsExplained, KeysStepOK

-----------------------------------------------------------------------------
(* Tokens: the validator's checks, in their order, come to what is asked of a request. *)

\* A verdict on claims is "ok" behind every check, and only there.
LEMMA ClaimsPass ==
  ASSUME NEW policy, NEW c, NEW now
  PROVE  ClaimsVerdict(policy, c, now) = "ok" <=>
           /\ ~(policy.requireExp /\ ~IsDate(c.exp))
           /\ ~(IsDate(c.exp) /\ now > c.exp.number + policy.skew)
           /\ ~TooEarly(c.nbf, now, policy.skew) /\ ~TooEarly(c.iat, now, policy.skew)
           /\ c.iss.type = "string" /\ c.iss.words \in policy.issuers
           /\ Audiences(c.aud) \cap policy.audiences # {}
BY Zenon DEF ClaimsVerdict

LEMMA ClaimsAreJudged ==
  ASSUME NEW policy, policy.skew \in Int, NEW now \in Int, NEW c,
         \A v \in {c.exp, c.nbf, c.iat} : IsDate(v) => v.number \in Int
  PROVE  ClaimsVerdict(policy, c, now) = "ok" <=>
           /\ Alive(policy, c, now)
           /\ c.iss.type = "string" /\ c.iss.words \in policy.issuers
           /\ Audiences(c.aud) \cap policy.audiences # {}
<1>1. \A v \in {c.nbf, c.iat} : TooEarly(v, now, policy.skew) <=> IsDate(v) /\ ~(v.number <= now + policy.skew)
  BY DEF TooEarly
<1>2. IsDate(c.exp) => (now > c.exp.number + policy.skew <=> ~(now <= c.exp.number + policy.skew))
  OBVIOUS
<1>3. Alive(policy, c, now) <=>
        /\ ~(policy.requireExp /\ ~IsDate(c.exp))
        /\ ~(IsDate(c.exp) /\ now > c.exp.number + policy.skew)
        /\ ~TooEarly(c.nbf, now, policy.skew) /\ ~TooEarly(c.iat, now, policy.skew)
  BY <1>1, <1>2 DEF Alive
<1> QED
  BY <1>3, ClaimsPass, Zenon

\* A signature passes if a candidate of the algorithm's family made it.
LEMMA SignaturePasses ==
  ASSUME NEW token, NEW candidates
  PROVE  VerifyAny(token, candidates) = "ok" <=>
           \E k \in candidates : k.family = Family[token.alg] /\ Verifies(token, k)
BY Zenon DEF VerifyAny

\* The candidates for a kid are the usable keyset that carry it, or none.
IsCandidate(jwk, kid) == ~IsSkipped(jwk) /\ jwk.kid \in {"", kid}
Candidates(jwks, kid) == {VerificationKey(jwks[i]) : i \in {j \in 1..Len(jwks) : IsCandidate(jwks[j], kid)}}

\* The candidates for a kid are the usable keys that carry it, or no kid at all.
LEMMA CandidatesAre ==
  ASSUME NEW jwks, ParseJWKSet(jwks).ok, NEW kid
  PROVE  ResolveKeys(ParseJWKSet(jwks).keys, kid) = Candidates(jwks, kid)
<1> DEFINE usable == {i \in 1..Len(jwks) : ~IsSkipped(jwks[i])}
           keyset == {[kid |-> jwks[i].kid, key |-> VerificationKey(jwks[i])] : i \in usable}
<1>1. ParseJWKSet(jwks).keys = keyset
  BY DEF ParseJWKSet
<1>2. \A e \in keyset : e.kid = "" \/ (kid # "" /\ e.kid = kid) <=> e.kid \in {"", kid}
  OBVIOUS
<1>3. ResolveKeys(keyset, kid) = {e.key : e \in {d \in keyset : d.kid \in {"", kid}}}
  BY <1>2 DEF ResolveKeys
<1>4. ASSUME NEW i \in usable, IsCandidate(jwks[i], kid)
      PROVE  VerificationKey(jwks[i]) \in ResolveKeys(keyset, kid)
  <2> DEFINE e == [kid |-> jwks[i].kid, key |-> VerificationKey(jwks[i])]
  <2>1. e \in keyset /\ e.kid = jwks[i].kid /\ e.key = VerificationKey(jwks[i])
    OBVIOUS
  <2> HIDE DEF e
  <2> QED
    BY <1>3, <1>4, <2>1 DEF IsCandidate
<1>5. ASSUME NEW k \in ResolveKeys(keyset, kid)
      PROVE  \E i \in usable : IsCandidate(jwks[i], kid) /\ k = VerificationKey(jwks[i])
  <2>1. PICK e \in keyset : e.kid \in {"", kid} /\ k = e.key
    BY <1>3
  <2>2. PICK i \in usable : e = [kid |-> jwks[i].kid, key |-> VerificationKey(jwks[i])]
    OBVIOUS
  <2>3. e.kid = jwks[i].kid /\ e.key = VerificationKey(jwks[i])
    BY <2>2
  <2> QED
    BY <2>1, <2>3 DEF IsCandidate
<1>6. \A i \in 1..Len(jwks) : IsCandidate(jwks[i], kid) => i \in usable
  BY DEF IsCandidate
<1>7. usable \subseteq 1..Len(jwks)
  OBVIOUS
<1> HIDE DEF keyset, usable
<1> QED
  BY <1>1, <1>4, <1>5, <1>6, <1>7 DEF Candidates

IsSigned(keyset, t) == \E k \in ResolveKeys(keyset, t.kid) : k.family = Family[t.alg] /\ Verifies(t, k)

\* A token passes the signature if a published key that is fit for it made it.
LEMMA AuthenticPass ==
  ASSUME NEW policy, policy.algs \subseteq DOMAIN Family, NEW jwks, ParseJWKSet(jwks).ok,
         NEW t, t.alg \in policy.algs
  PROVE  IsSigned(ParseJWKSet(jwks).keys, t) <=> Authentic(policy, jwks, t)
<1>1. Family[t.alg] \in {"HMAC", "RSA", "ECDSA"}
  BY DEF Family
<1>2. ASSUME NEW i \in 1..Len(jwks), NEW k, k = VerificationKey(jwks[i])
      PROVE  /\ ~IsSkipped(jwks[i]) /\ k.family = Family[t.alg] <=>
                  jwks[i].use # "enc" /\ <<jwks[i].kty, Family[t.alg]>> \in {<<"RSA", "RSA">>, <<"EC", "ECDSA">>}
             /\ Verifies(t, k) <=> t.signature = [key |-> jwks[i].name, alg |-> t.alg]
  <2>1. k.family = FamilyOf(jwks[i]) /\ k.name = jwks[i].name
    BY <1>2 DEF VerificationKey
  <2>2. ~IsSkipped(jwks[i]) <=> jwks[i].use # "enc" /\ jwks[i].kty \in {"RSA", "EC"}
    BY DEF IsSkipped
  <2>3. jwks[i].kty \in {"RSA", "EC"} /\ FamilyOf(jwks[i]) = Family[t.alg] <=>
          <<jwks[i].kty, Family[t.alg]>> \in {<<"RSA", "RSA">>, <<"EC", "ECDSA">>}
    BY <1>1 DEF FamilyOf
  <2> QED
    BY <2>1, <2>2, <2>3 DEF Verifies
<1>3. Authentic(policy, jwks, t) <=>
        \E i \in 1..Len(jwks) :
          /\ IsCandidate(jwks[i], t.kid)
          /\ VerificationKey(jwks[i]).family = Family[t.alg] /\ Verifies(t, VerificationKey(jwks[i]))
  BY <1>2, Zenon DEF Authentic, IsCandidate
<1>4. ResolveKeys(ParseJWKSet(jwks).keys, t.kid) = Candidates(jwks, t.kid)
  BY CandidatesAre
<1> QED
  BY <1>3, <1>4, Zenon DEF IsSigned, Candidates

\* Validate's checks in their order come to their conjunction.
LEMMA ValidatePasses ==
  ASSUME NEW policy, NEW keyset, NEW t, NEW now
  PROVE  Validate(policy, keyset, t, now) = "ok" <=>
           /\ t.wellFormed /\ ~t.crit /\ t.alg \in policy.algs
           /\ IsSigned(keyset, t) /\ ClaimsVerdict(policy, t.claims, now) = "ok"
<1>1. VerifyAny(t, ResolveKeys(keyset, t.kid)) = "ok" <=> IsSigned(keyset, t)
  BY SignaturePasses, Zenon DEF IsSigned
<1>2. ResolveKeys(keyset, t.kid) = {} => ~IsSigned(keyset, t)
  BY Zenon DEF IsSigned
<1> QED
  BY <1>1, <1>2, Zenon DEF Validate

\* For every policy, published set, request, instant and scope: a request is handled if and
\* only if the reference says so, a token that is no good is answered with the challenge and
\* nothing else is, and who lacks only the scope is forbidden (jwt.go:218-396,
\* jwtkeys.go:33-211, bearer.go:43-170, auth.go:74-101).
THEOREM BearersAreJudged ==
  ASSUME NEW Claim, \A v \in Claim : IsDate(v) => v.number \in Int,
         NEW policy, policy.skew \in Int, NEW jwks, NEW now \in Int, NEW scope,
         NEW request \in
           [bearer : BOOLEAN,
            token : [wellFormed : BOOLEAN, crit : BOOLEAN, alg : STRING, kid : STRING,
                     signature : [key : STRING, alg : STRING],
                     claims : [exp : Claim, nbf : Claim, iat : Claim, iss : Claim, aud : Claim, scope : Claim, scp : Claim]]]
  PROVE  BearerIsExact(policy, jwks, request, now, scope)
<1> DEFINE t == request.token
           c == t.claims
           keyset == ParseJWKSet(jwks).keys
           answer == Bearer(policy, keyset, request, now, scope)
           granted == [request EXCEPT !.token.claims.scp = Text(<<scope>>)]
           Valid(r) == /\ r.bearer /\ r.token.wellFormed /\ ~r.token.crit
                       /\ Authentic(policy, jwks, r.token)
                       /\ Alive(policy, r.token.claims, now)
                       /\ r.token.claims.iss.type = "string" /\ r.token.claims.iss.words \in policy.issuers
                       /\ Audiences(r.token.claims.aud) \cap policy.audiences # {}
<1> SUFFICES ASSUME PolicyIsUsable(policy), ParseJWKSet(jwks).ok
             PROVE  /\ answer.status = "handled" <=> Handled(policy, jwks, request, now, scope)
                    /\ answer.challenge <=> answer.status = "unauthorized"
                    /\ answer.status = "forbidden" => Handled(policy, jwks, granted, now, scope)
  BY DEF BearerIsExact
<1>1. \A v \in {c.exp, c.nbf, c.iat} : IsDate(v) => v.number \in Int
  OBVIOUS
<1>2. ClaimsVerdict(policy, c, now) = "ok" <=>
        /\ Alive(policy, c, now)
        /\ c.iss.type = "string" /\ c.iss.words \in policy.issuers
        /\ Audiences(c.aud) \cap policy.audiences # {}
  BY <1>1, ClaimsAreJudged
<1>3. t.alg \in policy.algs => (IsSigned(keyset, t) <=> Authentic(policy, jwks, t))
  BY AuthenticPass DEF PolicyIsUsable
<1>4. Authentic(policy, jwks, t) => t.alg \in policy.algs
  BY DEF Authentic
<1>5. request.bearer /\ Validate(policy, keyset, t, now) = "ok" <=> Valid(request)
  <2>1. Validate(policy, keyset, t, now) = "ok" <=>
          /\ t.wellFormed /\ ~t.crit /\ t.alg \in policy.algs
          /\ IsSigned(keyset, t) /\ ClaimsVerdict(policy, c, now) = "ok"
    BY ValidatePasses, Zenon
  <2>2. Validate(policy, keyset, t, now) = "ok" <=>
          /\ t.wellFormed /\ ~t.crit /\ Authentic(policy, jwks, t) /\ ClaimsVerdict(policy, c, now) = "ok"
    BY <1>3, <1>4, <2>1, Zenon
  <2> QED
    BY <1>2, <2>2, Zenon
<1>6. HasScope(c, scope) <=> \E claim \in {c.scope, c.scp} : \E s \in Words(claim) : scope \in ToSet(s)
  BY Zenon DEF HasScope, GrantedScopes
<1>7. Handled(policy, jwks, request, now, scope) <=> Valid(request) /\ HasScope(c, scope)
  BY <1>6, Zenon DEF Handled
<1>8. ASSUME Valid(request) PROVE Handled(policy, jwks, granted, now, scope)
  <2>1. /\ granted.bearer = request.bearer /\ granted.token.wellFormed = t.wellFormed /\ granted.token.crit = t.crit
        /\ granted.token.alg = t.alg /\ granted.token.kid = t.kid /\ granted.token.signature = t.signature
        /\ granted.token.claims.exp = c.exp /\ granted.token.claims.nbf = c.nbf /\ granted.token.claims.iat = c.iat
        /\ granted.token.claims.iss = c.iss /\ granted.token.claims.aud = c.aud
        /\ granted.token.claims.scp = Text(<<scope>>)
    OBVIOUS
  <2> HIDE DEF granted
  <2>2. Authentic(policy, jwks, granted.token)
    BY <1>8, <2>1, Zenon DEF Authentic
  <2>3. Alive(policy, granted.token.claims, now)
    BY <1>8, <2>1, Zenon DEF Alive
  <2>4. \E s \in Words(granted.token.claims.scp) : scope \in ToSet(s)
    <3>1. <<scope>> \in Words(Text(<<scope>>)) /\ scope \in ToSet(<<scope>>)
      BY DEF Words, Text, ToSet
    <3> QED
      BY <2>1, <3>1
  <2> QED
    BY <1>8, <2>1, <2>2, <2>3, <2>4, Zenon DEF Handled
<1>9. /\ answer = Unauthorized \/ answer = [status |-> "forbidden", challenge |-> FALSE] \/ answer = [status |-> "handled", challenge |-> FALSE]
      /\ answer = Unauthorized <=> ~Valid(request)
      /\ answer = [status |-> "handled", challenge |-> FALSE] <=> Valid(request) /\ HasScope(c, scope)
  <2>1. /\ Unauthorized # [status |-> "forbidden", challenge |-> FALSE] /\ Unauthorized # [status |-> "handled", challenge |-> FALSE]
        /\ [status |-> "handled", challenge |-> FALSE] # [status |-> "forbidden", challenge |-> FALSE]
    BY DEF Unauthorized
  <2> HIDE DEF Valid
  <2> QED
    BY <1>5, <2>1, Zenon DEF Bearer
<1> HIDE DEF answer, granted, Valid
<1> QED
  BY <1>7, <1>8, <1>9 DEF Unauthorized

\* A set with a key that is not for signatures, or of a type unheard of, is none the worse
\* for it, whatever else is in it (jwtkeys.go:186-211).
THEOREM KeySetsAreJudged == \A jwks : KeySetIsExact(jwks)
BY DEF KeySetIsExact, ParseJWKSet, IsSkipped
=============================================================================
