--------------------------- MODULE ConfigLoadProofs ---------------------------
(***************************************************************************)
(* Theorems about the loading of the configuration, for every environment: *)
(* any number of variables with names of any length.                       *)
(***************************************************************************)
EXTENDS ConfigLoad, FiniteSetTheorems, SequenceTheorems, TLAPS

N == Len(environ)

-----------------------------------------------------------------------------
(* Channels *)

In(q) == {q[i] : i \in 1..Len(q)}
Sorted(q) == \A i, j \in 1..Len(q) : i < j => q[i] < q[j]

LEMMA AppendIn ==
    ASSUME NEW q \in Seq(Nat), NEW v \in Nat
    PROVE  /\ Append(q, v) \in Seq(Nat)
           /\ In(Append(q, v)) = In(q) \cup {v}
           /\ Sorted(q) /\ (\A w \in In(q) : w < v) => Sorted(Append(q, v))
<1>1. /\ Append(q, v) \in Seq(Nat) /\ Len(Append(q, v)) = Len(q) + 1 /\ Len(q) \in Nat
      /\ \A i \in 1..Len(q) : Append(q, v)[i] = q[i]
      /\ Append(q, v)[Len(q) + 1] = v
  BY AppendProperties, LenProperties
<1>2. In(Append(q, v)) = In(q) \cup {v}
  <2>1. ASSUME NEW w \in In(Append(q, v)) PROVE w \in In(q) \cup {v}
    BY <1>1 DEF In
  <2>2. ASSUME NEW w \in In(q) PROVE w \in In(Append(q, v))
    BY <1>1 DEF In
  <2>3. v \in In(Append(q, v))
    <3>1. Len(q) + 1 \in 1..Len(Append(q, v))
      BY <1>1
    <3>2. QED
      BY <1>1, <3>1 DEF In
  <2>4. QED
    BY <2>1, <2>2, <2>3
<1>3. ASSUME Sorted(q), \A w \in In(q) : w < v PROVE Sorted(Append(q, v))
  <2>1. ASSUME NEW i \in 1..Len(q) + 1, NEW j \in 1..Len(q) + 1, i < j
        PROVE  Append(q, v)[i] < Append(q, v)[j]
    <3>1. i \in 1..Len(q) /\ q[i] \in In(q)
      BY <1>1, <2>1 DEF In
    <3>2. CASE j = Len(q) + 1
      BY <1>1, <1>3, <3>1, <3>2
    <3>3. CASE j # Len(q) + 1
      <4>1. j \in 1..Len(q)
        BY <1>1, <3>3
      <4>2. QED
        BY <1>1, <1>3, <2>1, <3>1, <4>1 DEF Sorted
    <3>4. QED
      BY <3>2, <3>3
  <2>2. QED
    BY <1>1, <2>1 DEF Sorted
<1>4. QED
  BY <1>1, <1>2, <1>3

LEMMA TailIn ==
    ASSUME NEW q \in Seq(Nat), q # <<>>
    PROVE  /\ Tail(q) \in Seq(Nat) /\ Head(q) \in Nat
           /\ In(q) = In(Tail(q)) \cup {Head(q)}
           /\ Sorted(q) => Sorted(Tail(q)) /\ \A w \in In(Tail(q)) : Head(q) < w
<1>1. /\ Tail(q) \in Seq(Nat) /\ Len(Tail(q)) = Len(q) - 1 /\ Len(q) \in Nat \ {0}
      /\ \A i \in 1..Len(q) - 1 : Tail(q)[i] = q[i + 1]
      /\ Head(q) = q[1] /\ Head(q) \in Nat
  BY HeadTailProperties, EmptySeq, LenProperties
<1>2. In(q) = In(Tail(q)) \cup {Head(q)}
  <2>1. ASSUME NEW w \in In(q) PROVE w \in In(Tail(q)) \cup {Head(q)}
    <3>1. PICK i \in 1..Len(q) : w = q[i]
      BY DEF In
    <3>2. CASE i = 1
      BY <1>1, <3>1, <3>2
    <3>3. CASE i # 1
      <4>1. i - 1 \in 1..Len(Tail(q)) /\ w = Tail(q)[i - 1]
        BY <1>1, <3>1, <3>3
      <4>2. QED
        BY <4>1 DEF In
    <3>4. QED
      BY <3>2, <3>3
  <2>2. ASSUME NEW w \in In(Tail(q)) PROVE w \in In(q)
    <3>1. PICK i \in 1..Len(q) - 1 : w = Tail(q)[i]
      BY <1>1 DEF In
    <3>2. i + 1 \in 1..Len(q) /\ w = q[i + 1]
      BY <1>1, <3>1
    <3>3. QED
      BY <3>2 DEF In
  <2>3. Head(q) \in In(q)
    <3>1. 1 \in 1..Len(q)
      BY <1>1
    <3>2. QED
      BY <1>1, <3>1 DEF In
  <2>4. QED
    BY <2>1, <2>2, <2>3
<1>3. ASSUME Sorted(q) PROVE Sorted(Tail(q)) /\ \A w \in In(Tail(q)) : Head(q) < w
  <2>1. ASSUME NEW i \in 1..Len(q) - 1, NEW j \in 1..Len(q) - 1, i < j
        PROVE  Tail(q)[i] < Tail(q)[j]
    <3>1. i + 1 \in 1..Len(q) /\ j + 1 \in 1..Len(q) /\ i + 1 < j + 1
      BY <1>1, <2>1
    <3>2. QED
      BY <1>1, <1>3, <3>1 DEF Sorted
  <2>2. ASSUME NEW w \in In(Tail(q)) PROVE Head(q) < w
    <3>1. PICK i \in 1..Len(q) - 1 : w = q[i + 1]
      BY <1>1 DEF In
    <3>2. 1 \in 1..Len(q) /\ i + 1 \in 1..Len(q) /\ 1 < i + 1
      BY <1>1
    <3>3. QED
      BY <1>1, <1>3, <3>1, <3>2 DEF Sorted
  <2>3. QED
    BY <1>1, <2>1, <2>2 DEF Sorted
<1>4. QED
  BY <1>1, <1>2, <1>3

LEMMA SeqIn ==
    ASSUME NEW q \in Seq(Nat), NEW S, In(q) \subseteq S
    PROVE  q \in Seq(S)
<1>1. Range(q) = In(q)
  BY RangeEquality DEF In
<1>2. QED
  BY <1>1, SeqOfRange, SeqMonotonic

LEMMA EmptyIn == In(<<>>) = {} /\ Sorted(<<>>) /\ <<>> \in Seq(Nat)
  BY EmptySeq DEF In, Sorted

-----------------------------------------------------------------------------
(* Names and places *)

LEMMA EnvironType ==
    ASSUME NEW e \in Environs
    PROVE  /\ e \in Seq(Variable) /\ Len(e) \in Nat /\ DOMAIN e = 1..Len(e)
           /\ DOMAIN e \subseteq Var /\ DOMAIN e \subseteq Nat
           /\ \A v \in DOMAIN e :
                /\ e[v] \in Variable /\ e[v].path \in Seq(STRING)
                /\ Len(e[v].path) \in Nat \ {0}
<1>1. e \in Seq(Variable) /\ Len(e) \in Nat /\ DOMAIN e = 1..Len(e)
  BY EnvironAssumption, LenProperties
<1>2. DOMAIN e \subseteq Var
  BY DEF Var
<1>3. ASSUME NEW v \in DOMAIN e
      PROVE  /\ e[v] \in Variable /\ e[v].path \in Seq(STRING)
             /\ Len(e[v].path) \in Nat \ {0}
  <2>1. e[v] \in Variable
    BY <1>1, ElementOfSeq
  <2>2. e[v].path \in Seq(STRING) /\ e[v].path # <<>>
    BY <2>1, EnvironAssumption DEF Variable
  <2>3. QED
    BY <2>1, <2>2, EmptySeq
<1>4. QED
  BY <1>1, <1>2, <1>3

LEMMA PartIn ==
    ASSUME NEW e \in Environs, NEW v \in DOMAIN e, NEW n \in 1..Len(e[v].path)
    PROVE  SubSeq(e[v].path, 1, n) \in Path
<1>1. v \in Var
  BY EnvironType
<1>2. QED
  BY <1>1 DEF Path, Prefixes

LEMMA VarNat == Var \subseteq Nat
  BY EnvironType DEF Var

-----------------------------------------------------------------------------
(* The invariant *)

\* The channels, and what the goroutines know of each other by them.
Control ==
    /\ stream \in [queue : Seq(Nat), closed : BOOLEAN]
    /\ entries \in [queue : Seq(Nat), closed : BOOLEAN]
    /\ reader \in {"begin", "read", "leave", "done"}
    /\ parser \in {"receive", "send", "leave", "done"}
    /\ loader \in {"receive", "wait", "finished"}
    /\ result \in {"none", "loaded", "timeout"} /\ dead \in BOOLEAN
    /\ stream.closed <=> reader \in {"leave", "done"}
    /\ stream.closed => next = N + 1
    /\ held # 0 <=> parser = "send"
    /\ parser \in {"leave", "done"} => stream.queue = <<>> /\ stream.closed
    /\ entries.closed <=> parser \in {"leave", "done"}
    /\ loader # "receive" => entries.queue = <<>> /\ entries.closed
    /\ result = "loaded" => loader = "finished"

\* The variables go from channel to channel in the order of the environment, so
\* none is ever in two places, and no goroutine is started twice.
Beyond(v) == v < next /\ \A w \in In(stream.queue) : v < w
Past(v)   == Beyond(v) /\ (held # 0 => v < held)

Flow ==
    /\ Sorted(stream.queue) /\ \A v \in In(stream.queue) : v \in Ours /\ v < next
    /\ held # 0 => held \in Ours /\ Beyond(held)
    /\ \A v \in In(entries.queue) : v \in Ours /\ Past(v)
    /\ \A v \in Var : setter[v] # "idle" =>
          v \in Ours /\ Past(v) /\ \A w \in In(entries.queue) : v < w

\* None of ours is lost on the way.
Reached ==
    ~ dead => \A v \in Ours : v < next =>
        \/ v \in In(stream.queue) \/ v = held \/ v \in In(entries.queue)
        \/ setter[v] # "idle"

\* The wait group counts the variables that are being read and the goroutines
\* that have not finished.
Active == {v \in Var : setter[v] \in {"lock", "write", "read", "leave"}}

ReaderShare == IF reader = "done" THEN 0 ELSE IF reader = "read" THEN N + 1 ELSE 1
ParserShare == IF parser = "done" THEN 0 ELSE 1

Count ==
    /\ IsFiniteSet(Active)
    /\ pending = ReaderShare + ParserShare + Cardinality(Active)
    /\ loader = "finished" => pending = 0

\* The maps that a goroutine went through stay maps, and what it wrote stays a
\* value, unless a name leads through a value.
Passed(v, n) == n < depth[v] \/ (n = depth[v] /\ setter[v] = "read")

Settled(v) ==
    /\ setter[v] = "read" => depth[v] < Len(environ[v].path)
    /\ setter[v] \in {"leave", "done"} =>
          depth[v] = Len(environ[v].path) /\ store[environ[v].path] \in Value
    /\ ~ Shadowed(v) =>
          \A n \in 1..Len(environ[v].path) - 1 :
             Passed(v, n) => store[SubSeq(environ[v].path, 1, n)] = Config

Tree ==
    /\ OnlyTheEnvironment
    /\ depth \in [Var -> Nat]
    /\ \A v \in Var : IF setter[v] = "idle" THEN depth[v] = 1 ELSE Settled(v)

IInv ==
    TypeOK /\ Control /\ Flow /\ Reached /\ Count /\ Tree /\ EndsForAReason

-----------------------------------------------------------------------------
(* What the channels do *)

LEMMA OursType == ASSUME IInv, NEW v \in Ours
                  PROVE  v \in 1..N /\ v \in Var /\ v \in DOMAIN environ
  BY EnvironType DEF Ours, N, IInv, TypeOK

LEMMA ReadStep ==
    ASSUME IInv, Read
    PROVE  /\ next \in 1..N /\ next' = next + 1 /\ ~ stream.closed
           /\ stream' \in [queue : Seq(Nat), closed : BOOLEAN] /\ stream'.closed = stream.closed
           /\ \/ ~ environ[next].ours /\ stream'.queue = stream.queue
              \/ /\ next \in Ours /\ In(stream'.queue) = In(stream.queue) \cup {next}
                 /\ Sorted(stream.queue) => Sorted(stream'.queue)
<1>1. /\ N \in Nat /\ DOMAIN environ = 1..N /\ next \in 1..N /\ next \in Nat
      /\ next' = next + 1
  BY EnvironType DEF IInv, TypeOK, N, Read
<1>2. ~ stream.closed /\ stream \in [queue : Seq(Nat), closed : BOOLEAN]
  BY DEF IInv, Control, Read
<1>3. CASE environ[next].ours
  <2>1. stream' = [stream EXCEPT !.queue = Append(stream.queue, next)]
    BY <1>3 DEF Read, Put
  <2>2. \A w \in In(stream.queue) : w < next
    BY DEF IInv, Flow
  <2>3. /\ stream' \in [queue : Seq(Nat), closed : BOOLEAN] /\ stream'.closed = stream.closed
        /\ stream'.queue = Append(stream.queue, next)
    BY <1>1, <1>2, <2>1, AppendIn
  <2>4. next \in Ours
    BY <1>1, <1>3 DEF Ours
  <2>5. QED
    BY <1>1, <1>2, <2>2, <2>3, <2>4, AppendIn
<1>4. CASE ~ environ[next].ours
  BY <1>1, <1>2, <1>4 DEF Read
<1>5. QED
  BY <1>3, <1>4

LEMMA ParseStep ==
    ASSUME IInv, Parse
    PROVE  LET v == Head(stream.queue) IN
           /\ stream' \in [queue : Seq(Nat), closed : BOOLEAN] /\ stream'.closed = stream.closed
           /\ In(stream.queue) = In(stream'.queue) \cup {v}
           /\ Sorted(stream'.queue) /\ \A w \in In(stream'.queue) : v < w
           /\ v \in Ours /\ v # 0 /\ v < next /\ held = 0
           /\ \/ /\ environ[v].file = "missing" /\ dead'
                 /\ UNCHANGED <<held, parser, result>>
              \/ held' = v /\ parser' = "send" /\ UNCHANGED ends
<1>1. /\ stream \in [queue : Seq(Nat), closed : BOOLEAN] /\ stream.queue # <<>>
      /\ stream' = [stream EXCEPT !.queue = Tail(stream.queue)] /\ Sorted(stream.queue)
      /\ held = 0
  BY DEF IInv, Control, Flow, Parse, Take
<1>2. /\ stream' \in [queue : Seq(Nat), closed : BOOLEAN] /\ stream'.closed = stream.closed
      /\ stream'.queue = Tail(stream.queue)
  BY <1>1, TailIn
<1>3. /\ In(stream.queue) = In(stream'.queue) \cup {Head(stream.queue)}
      /\ Sorted(stream'.queue) /\ \A w \in In(stream'.queue) : Head(stream.queue) < w
  BY <1>1, <1>2, TailIn
<1>4. Head(stream.queue) \in Ours /\ Head(stream.queue) < next
  BY <1>3 DEF IInv, Flow
<1>5. Head(stream.queue) # 0
  BY <1>4, OursType
<1>6. QED
  BY <1>1, <1>2, <1>3, <1>4, <1>5 DEF Parse, Dies, ends

LEMMA SendStep ==
    ASSUME IInv, SendEntry
    PROVE  /\ entries' \in [queue : Seq(Nat), closed : BOOLEAN]
           /\ entries'.closed = entries.closed /\ ~ entries.closed
           /\ In(entries.queue) = {} /\ In(entries'.queue) = {held}
           /\ Len(entries'.queue) = 1
           /\ held \in Ours /\ held # 0 /\ held' = 0
<1>1. /\ entries \in [queue : Seq(Nat), closed : BOOLEAN] /\ entries.queue = <<>>
      /\ entries' = [entries EXCEPT !.queue = Append(entries.queue, held)]
      /\ held # 0 /\ held' = 0 /\ ~ entries.closed /\ held \in Ours
  BY DEF IInv, Control, Flow, SendEntry, Put
<1>2. held \in Nat
  BY <1>1, OursType
<1>3. /\ entries' \in [queue : Seq(Nat), closed : BOOLEAN] /\ entries'.closed = entries.closed
      /\ entries'.queue = Append(entries.queue, held)
  BY <1>1, <1>2, AppendIn
<1>4. In(entries.queue) = {} /\ In(entries'.queue) = {held}
  <2>1. In(Append(<<>>, held)) = In(<<>>) \cup {held}
    BY <1>2, AppendIn, EmptyIn
  <2>2. QED
    BY <1>1, <1>3, <2>1, EmptyIn
<1>5. Len(entries'.queue) = 1
  BY <1>1, <1>2, <1>3
<1>6. QED
  BY <1>1, <1>3, <1>4, <1>5

LEMMA StartStep ==
    ASSUME IInv, StartSetter
    PROVE  \E v \in Ours :
           /\ v \in Var /\ setter[v] = "idle" /\ setter' = [setter EXCEPT ![v] = "lock"]
           /\ entries' \in [queue : Seq(Nat), closed : BOOLEAN]
           /\ entries'.closed = entries.closed
           /\ In(entries.queue) = {v} /\ In(entries'.queue) = {} /\ Len(entries'.queue) = 0
           /\ Past(v)
<1> DEFINE v == Head(entries.queue)
<1>1. /\ entries \in [queue : Seq(Nat), closed : BOOLEAN] /\ entries.queue # <<>>
      /\ entries' = [entries EXCEPT !.queue = Tail(entries.queue)]
      /\ setter' = [setter EXCEPT ![v] = "lock"] /\ Len(entries.queue) <= 1
  BY DEF IInv, TypeOK, Control, StartSetter, Take
<1>2. /\ entries' \in [queue : Seq(Nat), closed : BOOLEAN] /\ entries'.closed = entries.closed
      /\ entries'.queue = Tail(entries.queue)
  BY <1>1, TailIn
<1>3. Len(entries'.queue) = 0
  <2>1. entries.queue \in Seq(Nat)
    BY <1>1
  <2>2. Len(entries.queue) \in Nat \ {0} /\ Len(Tail(entries.queue)) = Len(entries.queue) - 1
    BY <1>1, <2>1, HeadTailProperties, EmptySeq
  <2>3. Len(entries.queue) = 1
    <3> DEFINE n == Len(entries.queue)
    <3>1. n <= 1 /\ n \in Nat \ {0}
      BY <1>1, <2>2, Zenon
    <3> HIDE DEF n
    <3>2. n = 1
      BY <3>1
    <3>3. QED
      BY <3>2 DEF n
  <2>4. Len(Tail(entries.queue)) = 0
    BY <2>2, <2>3
  <2>5. QED
    BY <1>2, <2>4, Zenon
<1>4. In(entries'.queue) = {}
  BY <1>3 DEF In
<1>5. In(entries.queue) = {v}
  BY <1>1, <1>2, <1>4, TailIn
<1>6. v \in Ours /\ Past(v)
  BY <1>5 DEF IInv, Flow
<1>7. v \in Var /\ v \in Nat
  BY <1>6, OursType
<1>8. setter[v] = "idle"
  BY <1>5, <1>7 DEF IInv, Flow
<1>9. QED
  BY <1>1, <1>2, <1>3, <1>4, <1>5, <1>6, <1>7, <1>8

-----------------------------------------------------------------------------
(* Steps *)

LEMMA EnvironKept == [Next]_vars => environ' = environ
  BY DEF Next, vars, Reader, ReadBegin, Read, ReadEnd, Parser, Parse, SendEntry, ParseEnd,
         Loader, StartSetter, LoaderWaits, LoaderFinishes, Setter, Lock, Write, Descend,
         Leave, MapFault, Return, TimeOut, Exit

\* Which goroutine a step is of.
LEMMA Kinds ==
    ASSUME [Next]_vars
    PROVE  \/ ~ dead /\ (Reader \/ Parser \/ Loader)
           \/ ~ dead /\ \E v \in Var : Setter(v)
           \/ ~ dead /\ (MapFault \/ Return \/ TimeOut \/ Exit)
           \/ UNCHANGED vars
  BY DEF Next

LEMMA StepControl == IInv /\ [Next]_vars => Control'
<1> SUFFICES ASSUME IInv, [Next]_vars PROVE Control'
  OBVIOUS
<1>1. environ' = environ /\ Control
  BY EnvironKept DEF IInv
<1>2. N' = N /\ N \in Nat /\ next \in 1..N + 1
  BY <1>1, EnvironType DEF IInv, TypeOK, N
<1>3. CASE ReadBegin
  BY <1>1, <1>2, <1>3 DEF ReadBegin, Control, pipe, ends
<1>4. CASE Read
  <2>1. ~ stream.closed /\ ~ stream'.closed /\ stream' \in [queue : Seq(Nat), closed : BOOLEAN]
    BY <1>4, ReadStep
  <2>2. UNCHANGED <<entries, reader, parser, loader, ends, held>>
    BY <1>4 DEF Read
  <2>3. QED
    BY <1>1, <1>2, <2>1, <2>2 DEF Control, ends
<1>5. CASE ReadEnd
  <2>1. UNCHANGED <<entries, parser, loader, ends, held, next>>
    BY <1>5 DEF ReadEnd
  <2>2. CASE reader = "read" /\ next > N /\ reader' = "leave" /\ stream' = Shut(stream)
    <3>1. /\ stream' \in [queue : Seq(Nat), closed : BOOLEAN] /\ stream'.closed
          /\ stream'.queue = stream.queue
      BY <1>1, <2>2 DEF Control, Shut
    <3>2. next = N + 1
      BY <1>2, <2>2
    <3>3. QED
      BY <1>1, <1>2, <2>1, <2>2, <3>1, <3>2 DEF Control, ends
  <2>3. CASE reader = "leave" /\ reader' = "done" /\ stream' = stream
    BY <1>1, <1>2, <2>1, <2>3 DEF Control, ends
  <2>4. QED
    BY <1>5, <2>2, <2>3 DEF ReadEnd, N
<1>6. CASE Parse
  <2>1. UNCHANGED <<entries, reader, loader, next>> /\ parser = "receive"
    BY <1>6 DEF Parse
  <2>2. /\ stream' \in [queue : Seq(Nat), closed : BOOLEAN] /\ stream'.closed = stream.closed
        /\ held = 0
        /\ \/ dead' /\ UNCHANGED <<held, parser, result>>
           \/ held' # 0 /\ parser' = "send" /\ UNCHANGED ends
    BY <1>6, ParseStep
  <2>3. dead' \in BOOLEAN
    BY <1>1, <1>6 DEF Parse, Dies, ends, Control
  <2>4. CASE dead' /\ UNCHANGED <<held, parser, result>>
    BY <1>1, <1>2, <2>1, <2>2, <2>3, <2>4 DEF Control
  <2>5. CASE held' # 0 /\ parser' = "send" /\ UNCHANGED ends
    BY <1>1, <1>2, <2>1, <2>2, <2>3, <2>5 DEF Control, ends
  <2>6. QED
    BY <2>2, <2>4, <2>5
<1>7. CASE SendEntry
  <2>1. UNCHANGED <<stream, next, reader, loader, ends>> /\ parser = "send" /\ parser' = "receive"
    BY <1>7 DEF SendEntry
  <2>2. /\ entries' \in [queue : Seq(Nat), closed : BOOLEAN] /\ entries'.closed = entries.closed
        /\ ~ entries.closed /\ held' = 0
    BY <1>7, SendStep
  <2>3. QED
    BY <1>1, <1>2, <2>1, <2>2 DEF Control, ends
<1>8. CASE ParseEnd
  <2>1. UNCHANGED <<stream, next, held, reader, loader, ends>>
    BY <1>8 DEF ParseEnd
  <2>2. CASE /\ parser = "receive" /\ stream.queue = <<>> /\ stream.closed
             /\ parser' = "leave" /\ entries' = Shut(entries)
    <3>1. /\ entries' \in [queue : Seq(Nat), closed : BOOLEAN] /\ entries'.closed
          /\ entries'.queue = entries.queue
      BY <1>1, <2>2 DEF Control, Shut
    <3>2. QED
      BY <1>1, <1>2, <2>1, <2>2, <3>1 DEF Control, ends
  <2>3. CASE parser = "leave" /\ parser' = "done" /\ entries' = entries
    BY <1>1, <1>2, <2>1, <2>3 DEF Control, ends
  <2>4. QED
    BY <1>8, <2>2, <2>3 DEF ParseEnd
<1>9. CASE StartSetter
  <2>1. UNCHANGED <<stream, next, held, reader, parser, loader, ends>> /\ loader = "receive"
    BY <1>9 DEF StartSetter
  <2>2. entries' \in [queue : Seq(Nat), closed : BOOLEAN] /\ entries'.closed = entries.closed
    BY <1>9, StartStep
  <2>3. QED
    BY <1>1, <1>2, <2>1, <2>2 DEF Control, ends
<1>10. CASE LoaderWaits \/ LoaderFinishes
  BY <1>1, <1>2, <1>10 DEF LoaderWaits, LoaderFinishes, Control, pipe, ends
<1>11. ASSUME NEW v \in Var, Setter(v) PROVE Control'
  <2>1. UNCHANGED <<pipe, reader, parser, loader, result>>
    BY <1>11 DEF Setter, Lock, Write, Descend, Leave, Dies, ends
  <2>2. dead' \in BOOLEAN
    BY <1>1, <1>11 DEF Setter, Lock, Write, Descend, Leave, Dies, ends, Control
  <2>3. QED
    BY <1>1, <1>2, <2>1, <2>2 DEF Control, pipe
<1>12. CASE MapFault \/ Return \/ TimeOut \/ Exit
  <2>1. UNCHANGED <<pipe, reader, parser, loader>>
    BY <1>12 DEF MapFault, Return, TimeOut, Exit
  <2>2. /\ dead' \in BOOLEAN /\ result' \in {"none", "loaded", "timeout"}
        /\ result' = "loaded" => result = "loaded" \/ loader = "finished"
    BY <1>1, <1>12 DEF MapFault, Return, TimeOut, Exit, Dies, Control
  <2>3. QED
    BY <1>1, <1>2, <2>1, <2>2 DEF Control, pipe
<1>13. CASE UNCHANGED vars
  BY <1>1, <1>2, <1>13 DEF Control, vars, pipe, ends
<1>14. QED
  BY <1>3, <1>4, <1>5, <1>6, <1>7, <1>8, <1>9, <1>10, <1>11, <1>12, <1>13, Kinds
     DEF Reader, Parser, Loader

-----------------------------------------------------------------------------
(* No variable is lost, and none is handled twice *)

LEMMA FlowKept ==
    ASSUME IInv, UNCHANGED <<environ, next, held>>,
           stream'.queue = stream.queue, entries'.queue = entries.queue, dead => dead',
           \A v \in Var : setter'[v] = "idle" <=> setter[v] = "idle"
    PROVE  Flow' /\ Reached'
<1>1. Ours' = Ours /\ \A v : Beyond(v)' = Beyond(v) /\ Past(v)' = Past(v)
  BY DEF Ours, Beyond, Past
<1>2. Flow'
  BY <1>1 DEF IInv, Flow
<1>3. Reached'
  BY <1>1, OursType DEF IInv, Reached
<1>4. QED
  BY <1>2, <1>3

LEMMA StepFlow == IInv /\ [Next]_vars => Flow' /\ Reached'
<1> SUFFICES ASSUME IInv, [Next]_vars PROVE Flow' /\ Reached'
  OBVIOUS
<1>1. environ' = environ /\ Flow /\ Reached
  BY EnvironKept DEF IInv
<1>2. Ours' = Ours /\ Ours \subseteq 1..N /\ Ours \subseteq Var /\ 1..N \subseteq Nat /\ next \in Nat
  BY <1>1, OursType, EnvironType DEF Ours, IInv, TypeOK, N
<1>3. CASE Read
  <2>1. /\ next' = next + 1
        /\ \/ ~ environ[next].ours /\ stream'.queue = stream.queue
           \/ /\ next \in Ours /\ In(stream'.queue) = In(stream.queue) \cup {next}
              /\ Sorted(stream'.queue)
    BY <1>1, <1>3, ReadStep DEF Flow
  <2>2. UNCHANGED <<held, entries, setter, dead>>
    BY <1>3 DEF Read, setters, ends
  <2>3. Sorted(stream'.queue) /\ \A v \in In(stream'.queue) : v \in Ours /\ v < next'
    <3>1. Sorted(stream.queue) /\ \A v \in In(stream.queue) : v \in Ours /\ v < next
      BY <1>1 DEF Flow
    <3>2. Sorted(stream'.queue)
      BY <2>1, <3>1
    <3>3. \A v \in In(stream.queue) : v \in Ours /\ v < next'
      <4>1. ASSUME NEW v \in Nat, v < next PROVE v < next'
        BY <1>2, <2>1, <4>1
      <4>2. QED
        BY <1>2, <3>1, <4>1
    <3>4. next < next'
      BY <1>2, <2>1
    <3>5. QED
      BY <2>1, <3>2, <3>3, <3>4
  <2>4. ASSUME NEW v \in Ours, Beyond(v) PROVE Beyond(v)'
    BY <1>2, <2>1, <2>4 DEF Beyond
  <2>5. \A v \in Ours : Past(v) => Past(v)'
    BY <2>2, <2>4 DEF Past
  <2>6. Flow'
    BY <1>1, <1>2, <2>2, <2>3, <2>4, <2>5 DEF Flow
  <2>7. ASSUME ~ dead, NEW v \in Ours, v < next'
        PROVE  \/ v \in In(stream'.queue) \/ v = held' \/ v \in In(entries'.queue)
               \/ setter'[v] # "idle"
    <3>1. CASE v < next
      BY <1>1, <2>1, <2>2, <2>7, <3>1 DEF Reached
    <3>2. CASE v = next
      BY <2>1, <2>7, <3>2 DEF Ours
    <3>3. QED
      BY <1>2, <2>1, <2>7, <3>1, <3>2
  <2>8. Reached'
    BY <1>2, <2>2, <2>7 DEF Reached
  <2>9. QED
    BY <2>6, <2>8
<1>4. CASE Parse
  <2>1. PICK v \in Ours :
        /\ In(stream.queue) = In(stream'.queue) \cup {v}
        /\ Sorted(stream'.queue) /\ \A w \in In(stream'.queue) : v < w
        /\ v # 0 /\ v < next /\ held = 0
        /\ (dead' /\ held' = held) \/ (held' = v /\ UNCHANGED ends)
    BY <1>4, ParseStep
  <2>2. UNCHANGED <<next, entries, setter>>
    BY <1>4 DEF Parse, setters
  <2>3. Beyond(v)' /\ \A w \in Ours : Beyond(w) => Beyond(w)' /\ w < v
    BY <2>1, <2>2 DEF Beyond
  <2>4. ASSUME NEW w \in Ours, Past(w) PROVE Past(w)'
    BY <2>1, <2>3, <2>4 DEF Past
  <2>5. Flow'
    BY <1>1, <1>2, <2>1, <2>2, <2>3, <2>4 DEF Flow
  <2>6. Reached'
    BY <1>1, <1>2, <2>1, <2>2 DEF Reached, ends
  <2>7. QED
    BY <2>5, <2>6
<1>5. CASE SendEntry
  <2>1. /\ In(entries.queue) = {} /\ In(entries'.queue) = {held}
        /\ held \in Ours /\ held # 0 /\ held' = 0
    BY <1>5, SendStep
  <2>2. UNCHANGED <<next, stream, setter, dead>>
    BY <1>5 DEF SendEntry, setters, ends
  <2>3. Beyond(held) /\ \A w : Past(w) => w < held
    BY <1>1, <2>1 DEF Flow, Past
  <2>4. \A w : (Beyond(w)' <=> Beyond(w)) /\ (Past(w)' <=> Beyond(w))
    BY <2>1, <2>2 DEF Beyond, Past
  <2>5. \A w : Past(w) => Past(w)'
    BY <2>4 DEF Past
  <2>6. Flow'
    BY <1>1, <1>2, <2>1, <2>2, <2>3, <2>4, <2>5 DEF Flow
  <2>7. Reached'
    BY <1>1, <1>2, <2>1, <2>2 DEF Reached
  <2>8. QED
    BY <2>6, <2>7
<1>6. CASE StartSetter
  <2>1. PICK v \in Ours :
           /\ v \in Var /\ setter[v] = "idle" /\ setter' = [setter EXCEPT ![v] = "lock"]
           /\ In(entries.queue) = {v} /\ In(entries'.queue) = {} /\ Past(v)
    BY <1>6, StartStep
  <2>2. UNCHANGED <<next, stream, held, dead>>
    BY <1>6 DEF StartSetter, ends
  <2>3. \A w : Past(w)' <=> Past(w)
    BY <2>2 DEF Past, Beyond
  <2>4. setter' \in [Var -> Stages] /\ setter'[v] = "lock"
        /\ \A w \in Var \ {v} : setter'[w] = setter[w]
    BY <2>1 DEF IInv, TypeOK, Stages
  <2>5. Flow'
    BY <1>1, <1>2, <2>1, <2>2, <2>3, <2>4 DEF Flow, Beyond
  <2>6. Reached'
    BY <1>1, <1>2, <2>1, <2>2, <2>4 DEF Reached
  <2>7. QED
    BY <2>5, <2>6
<1>7. CASE ReadBegin \/ LoaderWaits \/ LoaderFinishes
  BY <1>1, <1>7, FlowKept DEF ReadBegin, LoaderWaits, LoaderFinishes, pipe, setters, ends
<1>8. CASE ReadEnd \/ ParseEnd
  <2>1. stream'.queue = stream.queue /\ entries'.queue = entries.queue
    BY <1>8 DEF ReadEnd, ParseEnd, Shut, IInv, Control
  <2>2. QED
    BY <1>1, <1>8, <2>1, FlowKept DEF ReadEnd, ParseEnd, setters, ends
<1>9. ASSUME NEW v \in Var, Setter(v) PROVE Flow' /\ Reached'
  <2>1. UNCHANGED pipe /\ (dead => dead')
    BY <1>9 DEF Setter, Lock, Write, Descend, Leave, Dies, ends
  <2>2. \A w \in Var : setter'[w] = "idle" <=> setter[w] = "idle"
    BY <1>9 DEF Setter, Lock, Write, Descend, Leave, setters, IInv, TypeOK
  <2>3. QED
    BY <1>1, <2>1, <2>2, FlowKept DEF pipe
<1>10. CASE MapFault \/ Return \/ TimeOut \/ Exit
  BY <1>1, <1>10, FlowKept DEF MapFault, Return, TimeOut, Exit, Dies, pipe, setters
<1>11. CASE UNCHANGED vars
  BY <1>1, <1>11, FlowKept DEF vars, pipe, setters, ends
<1>12. QED
  BY <1>3, <1>4, <1>5, <1>6, <1>7, <1>8, <1>9, <1>10, <1>11, Kinds DEF Reader, Parser, Loader

-----------------------------------------------------------------------------
(* The wait group *)

LEMMA Shares ==
    ASSUME IInv
    PROVE  /\ ReaderShare \in Nat /\ ParserShare \in Nat /\ Cardinality(Active) \in Nat
           /\ N \in Nat
  BY EnvironType, FS_CardinalityType DEF IInv, TypeOK, Count, ReaderShare, ParserShare, N

\* When the wait is over nothing is left to run.
LEMMA Quiet ==
    ASSUME IInv, loader = "finished"
    PROVE  reader = "done" /\ parser = "done" /\ Active = {}
<1>1. pending = 0 /\ pending = ReaderShare + ParserShare + Cardinality(Active)
  BY DEF IInv, Count
<1>2. ReaderShare = 0 /\ ParserShare = 0 /\ Cardinality(Active) = 0
  BY <1>1, Shares
<1>3. reader = "done" /\ parser = "done"
  BY <1>2, Shares DEF ReaderShare, ParserShare
<1>4. Active = {}
  BY <1>2, FS_EmptySet DEF IInv, Count
<1>5. QED
  BY <1>3, <1>4

LEMMA StepCount == IInv /\ [Next]_vars => Count' /\ pending' \in Nat
<1> SUFFICES ASSUME IInv, [Next]_vars PROVE Count' /\ pending' \in Nat
  OBVIOUS
<1> DEFINE Sum == ReaderShare + ParserShare + Cardinality(Active)
<1>1. /\ N' = N /\ IsFiniteSet(Active) /\ pending = Sum /\ Sum \in Nat
      /\ loader = "finished" => pending = 0
  BY EnvironKept, Shares DEF N, IInv, Count
<1>2. ASSUME UNCHANGED <<pending, reader, parser, loader>>, Active' = Active
      PROVE  Count' /\ pending' \in Nat
  BY <1>1, <1>2 DEF Count, ReaderShare, ParserShare
<1>3. ASSUME Active' = Active, UNCHANGED loader, loader # "finished",
             pending' = ReaderShare' + ParserShare' + Cardinality(Active),
             ReaderShare' \in Nat, ParserShare' \in Nat
      PROVE  Count' /\ pending' \in Nat
  BY <1>1, <1>3, Shares DEF Count
<1>4. setter' = setter => Active' = Active
  BY DEF Active
<1>5. CASE ReadBegin
  <2>1. /\ reader = "begin" /\ reader' = "read" /\ pending' = pending + N
        /\ UNCHANGED <<setter, parser, loader>>
    BY <1>5 DEF ReadBegin, N, setters
  <2>2. ReaderShare = 1 /\ ReaderShare' = N + 1 /\ ParserShare' = ParserShare
    BY <1>1, <2>1 DEF ReaderShare, ParserShare
  <2>3. loader # "finished"
    BY <2>1, Quiet
  <2>4. QED
    BY <1>1, <1>3, <1>4, <2>1, <2>2, <2>3, Shares
<1>6. CASE ReadEnd
  <2>1. UNCHANGED <<setter, parser, loader>> /\ reader # "done"
    BY <1>6 DEF ReadEnd, setters
  <2>2. \/ reader = "read" /\ reader' = "leave" /\ pending' = pending - N
        \/ reader = "leave" /\ reader' = "done" /\ pending' = pending - 1
    BY <1>6 DEF ReadEnd, N
  <2>3. /\ \/ ReaderShare = N + 1 /\ ReaderShare' = 1 /\ pending' = pending - N
           \/ ReaderShare = 1 /\ ReaderShare' = 0 /\ pending' = pending - 1
        /\ ParserShare' = ParserShare
    BY <1>1, <2>1, <2>2 DEF ReaderShare, ParserShare
  <2>4. loader # "finished"
    BY <2>1, Quiet
  <2>5. QED
    BY <1>1, <1>3, <1>4, <2>1, <2>3, <2>4, Shares
<1>7. CASE ParseEnd
  <2>1. UNCHANGED <<setter, reader, loader>> /\ parser # "done"
    BY <1>7 DEF ParseEnd, setters
  <2>2. \/ parser = "receive" /\ parser' = "leave" /\ pending' = pending
        \/ parser = "leave" /\ parser' = "done" /\ pending' = pending - 1
    BY <1>7 DEF ParseEnd
  <2>3. /\ \/ ParserShare = 1 /\ ParserShare' = 1 /\ pending' = pending
           \/ ParserShare = 1 /\ ParserShare' = 0 /\ pending' = pending - 1
        /\ ReaderShare' = ReaderShare
    BY <1>1, <2>1, <2>2 DEF ReaderShare, ParserShare
  <2>4. loader # "finished"
    BY <2>1, Quiet
  <2>5. QED
    BY <1>1, <1>3, <1>4, <2>1, <2>3, <2>4, Shares
<1>8. CASE Parse \/ SendEntry
  <2>1. /\ UNCHANGED <<setter, reader, loader, pending>>
        /\ parser # "done" /\ parser' # "done"
    BY <1>8 DEF Parse, SendEntry, setters
  <2>2. ParserShare = 1 /\ ParserShare' = 1 /\ ReaderShare' = ReaderShare
    BY <1>1, <2>1 DEF ReaderShare, ParserShare
  <2>3. loader # "finished"
    BY <2>1, Quiet
  <2>4. QED
    BY <1>1, <1>3, <1>4, <2>1, <2>2, <2>3, Shares
<1>9. CASE StartSetter
  <2>1. PICK v \in Var : setter[v] = "idle" /\ setter' = [setter EXCEPT ![v] = "lock"]
    BY <1>9, StartStep
  <2>2. Active' = Active \cup {v} /\ v \notin Active
    BY <2>1 DEF Active, IInv, TypeOK, Stages
  <2>3. /\ UNCHANGED <<reader, parser, loader>> /\ loader # "finished"
        /\ pending' = pending + 1
    BY <1>9 DEF StartSetter
  <2>4. IsFiniteSet(Active') /\ Cardinality(Active') = Cardinality(Active) + 1
    BY <1>1, <2>2, FS_AddElement
  <2>5. QED
    BY <1>1, <2>3, <2>4, Shares DEF Count, ReaderShare, ParserShare
<1>10. CASE LoaderWaits \/ LoaderFinishes
  <2>1. UNCHANGED <<setter, reader, parser, pending>> /\ loader # "finished"
    BY <1>10 DEF LoaderWaits, LoaderFinishes, setters
  <2>2. loader' = "finished" => pending = 0
    BY <1>10 DEF LoaderWaits, LoaderFinishes
  <2>3. QED
    BY <1>1, <1>4, <2>1, <2>2 DEF Count, ReaderShare, ParserShare
<1>11. ASSUME NEW v \in Var, Setter(v) PROVE Count' /\ pending' \in Nat
  <2>1. CASE Lock(v) \/ Write(v) \/ Descend(v)
    <3>1. UNCHANGED <<pending, reader, parser, loader>>
      BY <2>1 DEF Lock, Write, Descend
    <3>2. Active' = Active
      BY <2>1 DEF Lock, Write, Descend, setters, Active, IInv, TypeOK, Stages
    <3>3. QED
      BY <1>2, <3>1, <3>2
  <2>2. CASE Leave(v)
    <3>1. /\ setter[v] = "leave" /\ setter' = [setter EXCEPT ![v] = "done"]
          /\ pending' = pending - 1 /\ UNCHANGED <<reader, parser, loader>>
      BY <2>2 DEF Leave
    <3>2. Active' = Active \ {v} /\ v \in Active
      BY <3>1 DEF Active, IInv, TypeOK, Stages
    <3>3. IsFiniteSet(Active') /\ Cardinality(Active') = Cardinality(Active) - 1
      BY <1>1, <3>2, FS_RemoveElement
    <3>4. Cardinality(Active') \in Nat /\ loader # "finished"
      BY <3>2, <3>3, Quiet, FS_CardinalityType
    <3>5. ReaderShare' = ReaderShare /\ ParserShare' = ParserShare
      BY <1>1, <3>1 DEF ReaderShare, ParserShare
    <3>6. pending' = ReaderShare' + ParserShare' + Cardinality(Active')
      BY <1>1, <3>1, <3>3, <3>5, Shares
    <3>7. QED
      BY <3>1, <3>3, <3>4, <3>5, <3>6, Shares DEF Count
  <2>3. QED
    BY <1>11, <2>1, <2>2 DEF Setter
<1>12. CASE Read \/ MapFault \/ Return \/ TimeOut \/ Exit \/ UNCHANGED vars
  BY <1>2, <1>4, <1>12 DEF Read, MapFault, Return, TimeOut, Exit, vars, setters
<1>13. QED
  BY <1>5, <1>6, <1>7, <1>8, <1>9, <1>10, <1>11, <1>12, Kinds DEF Reader, Parser, Loader

-----------------------------------------------------------------------------
(* The tree *)

\* A goroutine that has been started is at a place of the tree.
LEMMA AtWork ==
    ASSUME IInv, NEW v \in Var, setter[v] # "idle"
    PROVE  /\ v \in Ours /\ v \in DOMAIN environ /\ environ \in Environs
           /\ Len(environ[v].path) \in Nat \ {0} /\ environ[v].value \in Value
           /\ depth[v] \in 1..Len(environ[v].path)
           /\ Part(v) \in Path /\ environ[v].path \in Path
           /\ Part(v) = SubSeq(environ[v].path, 1, depth[v])
           /\ AtEnd(v) => Part(v) = environ[v].path
<1>1. v \in Ours /\ v \in DOMAIN environ /\ environ \in Environs
  BY OursType DEF IInv, TypeOK, Flow
<1>2. /\ Len(environ[v].path) \in Nat \ {0} /\ environ[v].value \in Value
      /\ environ[v].path \in Seq(STRING)
  BY <1>1, EnvironType DEF Variable
<1>3. depth[v] \in 1..Len(environ[v].path)
  BY <1>1 DEF IInv, TypeOK
<1>4. SubSeq(environ[v].path, 1, Len(environ[v].path)) = environ[v].path
  BY <1>2, SubSeqFull
<1>5. Part(v) \in Path
  BY <1>1, <1>3, PartIn DEF Part
<1>6. environ[v].path \in Path
  <2>1. Len(environ[v].path) \in 1..Len(environ[v].path)
    BY <1>2
  <2>2. QED
    BY <1>1, <1>4, <2>1, PartIn
<1>7. QED
  BY <1>1, <1>2, <1>3, <1>4, <1>5, <1>6 DEF Part, AtEnd

LEMMA PrefixIn ==
    ASSUME IInv, NEW v \in Ours, NEW n \in 1..Len(environ[v].path) - 1
    PROVE  SubSeq(environ[v].path, 1, n) \in Path
<1>1. v \in DOMAIN environ /\ environ \in Environs
  BY OursType DEF IInv, TypeOK
<1>2. n \in 1..Len(environ[v].path)
  BY <1>1, EnvironType
<1>3. QED
  BY <1>1, <1>2, PartIn

LEMMA WriteTree == ASSUME IInv, NEW v \in Var, Write(v), environ' = environ PROVE Tree'
<1>1. setter[v] = "write" /\ v \in Ours /\ Part(v) \in Path /\ environ[v].value \in Value
  BY AtWork DEF Write
<1>2. store \in [Path -> Value \cup {Config, Nil}] /\ setter \in [Var -> Stages]
      /\ depth \in [Var -> Nat] /\ depth' = depth
  BY DEF IInv, TypeOK, Tree, Write
<1>3. /\ Ours' = Ours /\ \A w : Shadowed(w)' <=> Shadowed(w)
      /\ \A w \in Var \ {v} : setter'[w] = setter[w]
      /\ \A w \in Var \ {v} : \A n : Passed(w, n)' <=> Passed(w, n)
  BY <1>2 DEF Ours, Shadowed, Passed, Write
<1>4. CASE AtEnd(v)
  <2>1. /\ store' = [store EXCEPT ![Part(v)] = environ[v].value]
        /\ setter' = [setter EXCEPT ![v] = "leave"]
        /\ Part(v) = environ[v].path
    BY <1>1, <1>4, AtWork DEF Write
  <2>2. OnlyTheEnvironment'
    BY <1>1, <1>2, <1>3, <2>1 DEF IInv, Tree, OnlyTheEnvironment
  <2>3. ASSUME NEW w \in Var, setter'[w] # "idle" PROVE Settled(w)'
    <3>1. setter[w] # "idle" /\ w \in Ours /\ environ[w].path \in Path
      BY <1>1, <1>3, <2>3, AtWork
    <3>2. Settled(w)
      BY <3>1 DEF IInv, Tree
    <3>3. setter'[w] = "read" => depth[w] < Len(environ[w].path)
      BY <1>2, <1>3, <2>1, <3>2 DEF Settled
    <3>4. setter'[w] \in {"leave", "done"} =>
             depth[w] = Len(environ[w].path) /\ store'[environ[w].path] \in Value
      <4>1. CASE w = v
        BY <1>1, <1>2, <1>4, <2>1, <4>1 DEF AtEnd
      <4>2. CASE w # v
        BY <1>1, <1>2, <1>3, <2>1, <3>1, <3>2, <4>2 DEF Settled
      <4>3. QED
        BY <4>1, <4>2
    <3>5. ASSUME ~ Shadowed(w), NEW n \in 1..Len(environ[w].path) - 1, Passed(w, n)'
          PROVE  store'[SubSeq(environ[w].path, 1, n)] = Config
      <4>1. Passed(w, n)
        BY <1>1, <1>2, <1>3, <2>1, <3>5 DEF Passed
      <4>2. store[SubSeq(environ[w].path, 1, n)] = Config
        BY <3>2, <3>5, <4>1 DEF Settled
      <4>3. SubSeq(environ[w].path, 1, n) # environ[v].path
        BY <1>1, <3>5 DEF Shadowed
      <4>4. QED
        BY <1>2, <2>1, <3>1, <4>2, <4>3, PrefixIn
    <3>6. QED
      BY <1>2, <1>3, <3>3, <3>4, <3>5 DEF Settled, Write
  <2>4. \A w \in Var : setter'[w] = "idle" => depth[w] = 1
    BY <1>1, <1>2, <1>3, <2>1 DEF IInv, Tree
  <2>5. QED
    BY <1>2, <2>2, <2>3, <2>4 DEF Tree
<1>5. CASE ~ AtEnd(v)
  <2>1. /\ store' = [store EXCEPT ![Part(v)] = IF store[Part(v)] = Nil THEN Config
                                              ELSE store[Part(v)]]
        /\ setter' = [setter EXCEPT ![v] = "read"]
    BY <1>5 DEF Write
  <2>2. ASSUME NEW p \in Path
        PROVE  /\ store[p] \in Value => store'[p] \in Value
               /\ store'[p] \in Value => store'[p] = store[p]
               /\ store[p] = Config => store'[p] = Config
    BY <1>1, <1>2, <2>1, EntryAssumption
  <2>3. OnlyTheEnvironment'
    <3>1. ASSUME NEW p \in Path, store'[p] \in Value
          PROVE  \E w \in Ours : environ[w].path = p /\ environ[w].value = store'[p]
      <4>1. store[p] \in Value /\ store'[p] = store[p]
        BY <2>2, <3>1
      <4>2. QED
        BY <4>1 DEF IInv, Tree, OnlyTheEnvironment
    <3>2. QED
      BY <1>3, <3>1 DEF OnlyTheEnvironment
  <2>4. ASSUME NEW w \in Var, setter'[w] # "idle" PROVE Settled(w)'
    <3>1. setter[w] # "idle" /\ w \in Ours /\ environ[w].path \in Path
      BY <1>1, <1>3, <2>4, AtWork
    <3>2. Settled(w)
      BY <3>1 DEF IInv, Tree
    <3>3. setter'[w] = "read" => depth[w] < Len(environ[w].path)
      <4>1. CASE w = v
        BY <1>1, <1>5, <3>1, <4>1, AtWork DEF AtEnd
      <4>2. CASE w # v
        BY <1>3, <3>2, <4>2 DEF Settled
      <4>3. QED
        BY <4>1, <4>2
    <3>4. setter'[w] \in {"leave", "done"} =>
             depth[w] = Len(environ[w].path) /\ store'[environ[w].path] \in Value
      <4>1. setter'[w] \in {"leave", "done"} => setter'[w] = setter[w]
        BY <1>2, <1>3, <2>1
      <4>2. store[environ[w].path] \in Value => store'[environ[w].path] \in Value
        BY <2>2, <3>1
      <4>3. QED
        BY <3>2, <4>1, <4>2 DEF Settled
    <3>5. ASSUME ~ Shadowed(w), NEW n \in 1..Len(environ[w].path) - 1, Passed(w, n)'
          PROVE  store'[SubSeq(environ[w].path, 1, n)] = Config
      <4>1. CASE Passed(w, n)
        <5>1. store[SubSeq(environ[w].path, 1, n)] = Config
          BY <3>2, <3>5, <4>1 DEF Settled
        <5>2. SubSeq(environ[w].path, 1, n) \in Path
          BY <3>1, PrefixIn
        <5>3. QED
          BY <2>2, <5>1, <5>2
      <4>2. CASE ~ Passed(w, n)
        <5>1. w = v /\ n = depth[v]
          BY <1>1, <1>2, <1>3, <3>5, <4>2 DEF Passed
        <5>2. SubSeq(environ[w].path, 1, n) = Part(v)
          BY <5>1 DEF Part
        <5>3. store[Part(v)] \notin Value
          BY <1>1, <3>5, <5>1, <5>2 DEF IInv, Tree, OnlyTheEnvironment, Shadowed
        <5>4. QED
          BY <1>1, <1>2, <2>1, <5>2, <5>3
      <4>3. QED
        BY <4>1, <4>2
    <3>6. QED
      BY <1>2, <1>3, <3>3, <3>4, <3>5 DEF Settled, Write
  <2>5. \A w \in Var : setter'[w] = "idle" => depth[w] = 1
    BY <1>1, <1>2, <1>3, <2>1 DEF IInv, Tree
  <2>6. QED
    BY <1>2, <2>3, <2>4, <2>5 DEF Tree
<1>6. QED
  BY <1>4, <1>5

LEMMA StepTree == IInv /\ [Next]_vars => Tree'
<1> SUFFICES ASSUME IInv, [Next]_vars PROVE Tree'
  OBVIOUS
<1>1. environ' = environ /\ Tree
  BY EnvironKept DEF IInv
<1>2. /\ Ours' = Ours /\ \A w : Shadowed(w)' <=> Shadowed(w)
      /\ setter \in [Var -> Stages] /\ depth \in [Var -> Nat]
  BY <1>1 DEF Ours, Shadowed, IInv, TypeOK, Tree
<1>3. ASSUME UNCHANGED store PROVE OnlyTheEnvironment'
  BY <1>1, <1>2, <1>3 DEF Tree, OnlyTheEnvironment
<1>4. ASSUME UNCHANGED <<store, setter, depth>> PROVE Tree'
  <2>1. \A v \in Var : Settled(v)' <=> Settled(v)
    BY <1>1, <1>2, <1>4 DEF Settled, Passed
  <2>2. QED
    BY <1>1, <1>3, <1>4, <2>1 DEF Tree
<1>5. CASE StartSetter
  <2>1. PICK v \in Var : setter[v] = "idle" /\ setter' = [setter EXCEPT ![v] = "lock"]
    BY <1>5, StartStep
  <2>2. UNCHANGED <<store, depth>> /\ depth[v] = 1
    BY <1>1, <1>5, <2>1 DEF StartSetter, Tree
  <2>3. Settled(v)'
    BY <1>1, <1>2, <2>1, <2>2 DEF Settled, Passed
  <2>4. \A w \in Var \ {v} : setter'[w] = setter[w] /\ (Settled(w)' <=> Settled(w))
    BY <1>1, <1>2, <2>1, <2>2 DEF Settled, Passed
  <2>5. setter'[v] = "lock"
    BY <1>2, <2>1
  <2>6. QED
    BY <1>1, <1>3, <2>2, <2>3, <2>4, <2>5 DEF Tree
<1>6. ASSUME NEW v \in Var, Lock(v) \/ Leave(v) PROVE Tree'
  <2>1. /\ UNCHANGED <<store, depth>>
        /\ \/ setter[v] = "lock" /\ setter' = [setter EXCEPT ![v] = "write"]
           \/ setter[v] = "leave" /\ setter' = [setter EXCEPT ![v] = "done"]
    BY <1>6 DEF Lock, Leave
  <2>2. Settled(v)
    BY <1>1, <2>1 DEF Tree
  <2>3. Settled(v)' /\ setter'[v] # "idle"
    BY <1>1, <1>2, <2>1, <2>2 DEF Settled, Passed
  <2>4. \A w \in Var \ {v} : setter'[w] = setter[w] /\ (Settled(w)' <=> Settled(w))
    BY <1>1, <1>2, <2>1 DEF Settled, Passed
  <2>5. QED
    BY <1>1, <1>3, <2>1, <2>3, <2>4 DEF Tree
<1>7. ASSUME NEW v \in Var, Descend(v), ~ UNCHANGED setters PROVE Tree'
  <2>1. /\ UNCHANGED store /\ setter[v] = "read" /\ store[Part(v)] = Config
        /\ setter' = [setter EXCEPT ![v] = "lock"]
        /\ depth' = [depth EXCEPT ![v] = depth[v] + 1]
    BY <1>7 DEF Descend, setters
  <2>2. Settled(v) /\ depth[v] \in Nat /\ depth' \in [Var -> Nat]
    BY <1>1, <1>2, <2>1 DEF Tree
  <2>3. setter'[v] = "lock" /\ depth'[v] = depth[v] + 1
    BY <1>2, <2>1
  <2>4. \A n \in Nat : Passed(v, n)' => Passed(v, n)
    BY <2>1, <2>2, <2>3 DEF Passed
  <2>5. Settled(v)'
    <3>1. Len(environ[v].path) \in Nat
      BY <2>1, AtWork
    <3>2. QED
      BY <1>1, <1>2, <2>1, <2>2, <2>3, <2>4, <3>1 DEF Settled
  <2>6. ASSUME NEW w \in Var \ {v}
        PROVE  setter'[w] = setter[w] /\ depth'[w] = depth[w] /\ (Settled(w)' <=> Settled(w))
    BY <1>1, <1>2, <2>1 DEF Settled, Passed
  <2>7. QED
    BY <1>1, <1>3, <2>1, <2>2, <2>3, <2>5, <2>6 DEF Tree
<1>8. ASSUME NEW v \in Var, Setter(v) PROVE Tree'
  <2>1. CASE Descend(v) /\ UNCHANGED setters
    BY <1>4, <2>1 DEF Descend, setters
  <2>2. QED
    BY <1>1, <1>6, <1>7, <1>8, <2>1, WriteTree DEF Setter
<1>9. CASE \/ ReadBegin \/ Read \/ ReadEnd \/ Parser \/ LoaderWaits \/ LoaderFinishes
           \/ MapFault \/ Return \/ TimeOut \/ Exit \/ UNCHANGED vars
  BY <1>4, <1>9 DEF ReadBegin, Read, ReadEnd, Parser, Parse, SendEntry, ParseEnd, LoaderWaits,
                    LoaderFinishes, MapFault, Return, TimeOut, Exit, vars, setters
<1>10. QED
  BY <1>5, <1>8, <1>9, Kinds DEF Reader, Loader

-----------------------------------------------------------------------------
(* Types, and the end of the process *)

LEMMA StepType == IInv /\ [Next]_vars => TypeOK'
<1> SUFFICES ASSUME IInv, [Next]_vars PROVE TypeOK'
  OBVIOUS
<1>1. environ' = environ /\ environ \in Environs /\ TypeOK /\ Ours' = Ours
      /\ Len(environ) = N /\ N \in Nat
  BY EnvironKept, EnvironType DEF IInv, TypeOK, Ours, N
<1>2. Control' /\ Flow' /\ pending' \in Nat
  BY StepControl, StepFlow, StepCount
<1>3. /\ stream'.queue \in Seq(Nat) /\ In(stream'.queue) \subseteq Ours
      /\ entries'.queue \in Seq(Nat) /\ In(entries'.queue) \subseteq Ours /\ Ours \subseteq Var
  BY <1>1, <1>2, OursType DEF Control, Flow
<1>4. stream'.queue \in Seq(Var) /\ entries'.queue \in Seq(Var)
  BY <1>3, SeqIn
<1>5. ASSUME NEW v \in Var, Setter(v)
      PROVE  /\ store' \in [Path -> Value \cup {Config, Nil}] /\ setter' \in [Var -> Stages]
             /\ \A w \in DOMAIN environ : depth'[w] \in 1..Len(environ[w].path)
             /\ UNCHANGED <<next, held, entries>>
  <2>1. setter[v] # "idle"
    BY <1>5 DEF Setter, Lock, Write, Descend, Leave
  <2>2. /\ Part(v) \in Path /\ environ[v].value \in Value
        /\ depth[v] \in 1..Len(environ[v].path) /\ Len(environ[v].path) \in Nat
        /\ setter[v] = "read" => depth[v] < Len(environ[v].path)
    BY <2>1, AtWork DEF IInv, Tree, Settled
  <2>3. UNCHANGED <<next, held, entries>>
    BY <1>5 DEF Setter, Lock, Write, Descend, Leave, pipe
  <2>4. store' \in [Path -> Value \cup {Config, Nil}]
    <3>1. CASE Write(v) /\ AtEnd(v)
      BY <1>1, <2>2, <3>1 DEF Write, TypeOK
    <3>2. CASE Write(v) /\ ~ AtEnd(v)
      BY <1>1, <2>2, <3>2 DEF Write, TypeOK
    <3>3. CASE ~ Write(v)
      BY <1>1, <1>5, <3>3 DEF Setter, Lock, Descend, Leave, TypeOK
    <3>4. QED
      BY <3>1, <3>2, <3>3
  <2>5. setter' \in [Var -> Stages]
    BY <1>1, <1>5 DEF Setter, Lock, Write, Descend, Leave, setters, TypeOK, Stages
  <2>6. ASSUME NEW w \in DOMAIN environ PROVE depth'[w] \in 1..Len(environ[w].path)
    <3>1. depth \in [Var -> Nat] /\ w \in Var /\ depth[w] \in 1..Len(environ[w].path)
      BY <1>1, <2>6, EnvironType DEF IInv, Tree, TypeOK
    <3>2. depth' = depth \/ (setter[v] = "read" /\ depth' = [depth EXCEPT ![v] = depth[v] + 1])
      BY <1>5 DEF Setter, Lock, Write, Descend, Leave, setters
    <3>3. QED
      BY <2>2, <3>1, <3>2
  <2>7. QED
    BY <2>3, <2>4, <2>5, <2>6
<1>6. ASSUME UNCHANGED <<store, setter, depth>>
      PROVE  /\ store' \in [Path -> Value \cup {Config, Nil}] /\ setter' \in [Var -> Stages]
             /\ \A w \in DOMAIN environ : depth'[w] \in 1..Len(environ[w].path)
  BY <1>1, <1>6 DEF TypeOK
<1>7. /\ store' \in [Path -> Value \cup {Config, Nil}] /\ setter' \in [Var -> Stages]
      /\ \A w \in DOMAIN environ : depth'[w] \in 1..Len(environ[w].path)
  <2>1. CASE StartSetter
    BY <1>1, <2>1, StartStep DEF StartSetter, TypeOK, Stages
  <2>2. CASE \/ ReadBegin \/ Read \/ ReadEnd \/ Parser \/ LoaderWaits \/ LoaderFinishes
             \/ MapFault \/ Return \/ TimeOut \/ Exit \/ UNCHANGED vars
    BY <1>6, <2>2 DEF ReadBegin, Read, ReadEnd, Parser, Parse, SendEntry, ParseEnd, LoaderWaits,
                      LoaderFinishes, MapFault, Return, TimeOut, Exit, vars, setters
  <2>3. QED
    BY <1>5, <2>1, <2>2, Kinds DEF Reader, Loader
<1>8. next' \in 1..N + 1 /\ held' \in 0..N /\ Len(entries'.queue) <= 1
  <2>1. next \in 1..N + 1 /\ held \in 0..N /\ Len(entries.queue) <= 1
    BY <1>1 DEF TypeOK
  <2>2. CASE Read
    BY <1>1, <2>1, <2>2, ReadStep DEF Read
  <2>3. CASE Parse
    <3>1. Head(stream.queue) \in 0..N
      BY <1>1, <2>3, ParseStep, OursType
    <3>2. held' = held \/ held' = Head(stream.queue)
      BY <2>3, ParseStep
    <3>3. QED
      BY <2>1, <2>3, <3>1, <3>2 DEF Parse
  <2>4. CASE SendEntry
    <3> DEFINE n == Len(entries'.queue)
    <3>1. n = 1 /\ held' = 0 /\ next' = next
      BY <2>4, SendStep DEF SendEntry
    <3> HIDE DEF n
    <3>2. n <= 1 /\ held' \in 0..N /\ next' \in 1..N + 1
      BY <1>1, <2>1, <3>1
    <3>3. QED
      BY <3>2, Zenon DEF n
  <2>5. CASE StartSetter
    <3> DEFINE n == Len(entries'.queue)
    <3>1. n = 0 /\ held' = held /\ next' = next
      BY <2>5, StartStep DEF StartSetter
    <3> HIDE DEF n
    <3>2. n <= 1 /\ held' \in 0..N /\ next' \in 1..N + 1
      BY <1>1, <2>1, <3>1
    <3>3. QED
      BY <3>2, Zenon DEF n
  <2>6. CASE ParseEnd
    <3>1. entries'.queue = entries.queue
      BY <2>6 DEF ParseEnd, Shut, IInv, Control
    <3>2. QED
      BY <2>1, <2>6, <3>1 DEF ParseEnd
  <2>7. CASE \/ ReadBegin \/ ReadEnd \/ LoaderWaits \/ LoaderFinishes
             \/ MapFault \/ Return \/ TimeOut \/ Exit \/ UNCHANGED vars
    BY <2>1, <2>7 DEF ReadBegin, ReadEnd, LoaderWaits, LoaderFinishes, MapFault, Return,
                      TimeOut, Exit, vars, pipe
  <2>8. QED
    BY <1>5, <2>1, <2>2, <2>3, <2>4, <2>5, <2>6, <2>7, Kinds DEF Reader, Parser, Loader
<1>9. QED
  BY <1>1, <1>2, <1>4, <1>7, <1>8 DEF TypeOK

LEMMA StepEnds == IInv /\ [Next]_vars => EndsForAReason'
<1> SUFFICES ASSUME IInv, [Next]_vars PROVE EndsForAReason'
  OBVIOUS
<1>1. /\ environ' = environ /\ EndsForAReason /\ Ours' = Ours
      /\ \A w : Shadowed(w)' <=> Shadowed(w)
  BY EnvironKept DEF IInv, Ours, Shadowed
<1>2. ASSUME NEW v \in Ours, Shadowed(v) \/ environ[v].file = "missing" PROVE EndsForAReason'
  BY <1>1, <1>2 DEF EndsForAReason
<1>3. CASE Parse
  <2>1. CASE environ[Head(stream.queue)].file = "missing"
    BY <1>2, <1>3, <2>1, ParseStep
  <2>2. CASE UNCHANGED ends
    BY <1>1, <2>2 DEF EndsForAReason, ends
  <2>3. QED
    BY <1>3, <2>1, <2>2, ParseStep
<1>4. ASSUME NEW v \in Var, Descend(v), store[Part(v)] # Config PROVE EndsForAReason'
  <2>1. setter[v] = "read" /\ Settled(v)
    BY <1>4 DEF Descend, IInv, Tree
  <2>2. /\ v \in Ours /\ depth[v] \in 1..Len(environ[v].path) - 1 /\ Passed(v, depth[v])
        /\ Part(v) = SubSeq(environ[v].path, 1, depth[v])
    BY <2>1, AtWork DEF Settled, Passed
  <2>3. Shadowed(v)
    BY <1>4, <2>1, <2>2 DEF Settled
  <2>4. QED
    BY <1>2, <2>2, <2>3
<1>5. CASE MapFault
  <2>1. PICK v, w \in Var : setter[v] = "read" /\ setter[w] = "write"
    BY <1>5 DEF MapFault
  <2>2. v \in Ours /\ w \in Ours /\ v # w /\ Settled(v)
    BY <2>1, AtWork DEF IInv, Tree
  <2>3. Len(environ[v].path) > 1
    BY <2>1, <2>2, AtWork DEF Settled
  <2>4. QED
    BY <1>1, <2>2, <2>3 DEF EndsForAReason
<1>6. CASE Exit
  BY <1>6 DEF Exit, Dies, EndsForAReason
<1>7. CASE Return \/ TimeOut
  <2>1. dead' = dead /\ result = "none"
    BY <1>7 DEF Return, TimeOut
  <2>2. QED
    BY <1>1, <2>1 DEF EndsForAReason
<1>8. CASE UNCHANGED ends
  BY <1>1, <1>8 DEF EndsForAReason, ends
<1>9. ASSUME NEW v \in Var, Setter(v) PROVE EndsForAReason'
  BY <1>4, <1>8, <1>9 DEF Setter, Lock, Write, Descend, Leave
<1>10. CASE ReadBegin \/ Read \/ ReadEnd \/ SendEntry \/ ParseEnd \/ Loader \/ UNCHANGED vars
  BY <1>8, <1>10 DEF ReadBegin, Read, ReadEnd, SendEntry, ParseEnd, Loader, StartSetter,
                     LoaderWaits, LoaderFinishes, vars
<1>11. QED
  BY <1>3, <1>5, <1>6, <1>7, <1>9, <1>10, Kinds DEF Reader, Parser

LEMMA InitInv == Init => IInv
<1> SUFFICES ASSUME Init PROVE IInv
  OBVIOUS
<1>1. /\ environ \in Environs /\ N \in Nat /\ Len(environ) = N
      /\ \A v \in DOMAIN environ : v \in Var /\ Len(environ[v].path) \in Nat \ {0}
  BY EnvironType DEF Init, N
<1>2. /\ stream = [queue |-> <<>>, closed |-> FALSE]
      /\ entries = [queue |-> <<>>, closed |-> FALSE]
      /\ <<>> \in Seq(Nat) /\ <<>> \in Seq(Var) /\ Len(<<>>) = 0
  BY EmptySeq DEF Init
<1>3. TypeOK
  BY <1>1, <1>2 DEF Init, TypeOK, Stages
<1>4. Control
  <2>1. /\ stream \in [queue : Seq(Nat), closed : BOOLEAN] /\ ~ stream.closed
        /\ entries \in [queue : Seq(Nat), closed : BOOLEAN] /\ ~ entries.closed
    BY <1>2
  <2>2. QED
    BY <2>1 DEF Init, Control
<1>5. Flow /\ Reached
  <2>1. In(stream.queue) = {} /\ In(entries.queue) = {} /\ Sorted(stream.queue)
    BY <1>2, EmptyIn
  <2>2. Flow
    BY <2>1 DEF Init, Flow
  <2>3. \A v \in Ours : ~ (v < next)
    <3>1. DOMAIN environ \subseteq Nat \ {0}
      BY <1>1, EnvironType
    <3>2. QED
      BY <3>1 DEF Init, Ours
  <2>4. QED
    BY <2>2, <2>3 DEF Reached
<1>6. Count
  <2>1. Active = {}
    BY DEF Init, Active
  <2>2. QED
    BY <2>1, FS_EmptySet DEF Init, Count, ReaderShare, ParserShare
<1>7. Tree /\ EndsForAReason
  BY EntryAssumption DEF Init, Tree, OnlyTheEnvironment, EndsForAReason
<1>8. QED
  BY <1>3, <1>4, <1>5, <1>6, <1>7 DEF IInv

LEMMA Invariant == Spec => []IInv
<1>1. IInv /\ [Next]_vars => IInv'
  BY StepType, StepControl, StepFlow, StepCount, StepTree, StepEnds DEF IInv
<1>2. QED
  BY <1>1, InitInv, PTL DEF Spec

-----------------------------------------------------------------------------
(* Theorems *)

\* The queues, the maps and the wait group keep their types; in particular the
\* counter of the wait group never falls below zero, which would be a panic.
THEOREM TypeCorrect == Spec => []TypeOK
  BY Invariant, PTL DEF IInv

\* Whatever the environment and however the goroutines of the entries interleave,
\* every value in the tree is that of a variable with the prefix and that name.
THEOREM NothingForeign == Spec => []OnlyTheEnvironment
<1>1. IInv => OnlyTheEnvironment
  BY DEF IInv, Tree
<1>2. QED
  BY <1>1, Invariant, PTL

\* The process is ended by its configuration only for the reasons named.
THEOREM EndsWithReason == Spec => []EndsForAReason
  BY Invariant, PTL DEF IInv

\* When the wait is over every variable of ours has been written.
LEMMA AllWritten ==
    ASSUME IInv, loader = "finished", ~ dead, NEW v \in Ours
    PROVE  setter[v] = "done"
<1>1. reader = "done" /\ parser = "done" /\ Active = {}
  BY Quiet
<1>2. /\ stream.queue = <<>> /\ entries.queue = <<>> /\ held = 0 /\ next = N + 1
  BY <1>1 DEF IInv, Control
<1>3. In(stream.queue) = {} /\ In(entries.queue) = {}
  BY <1>2, EmptyIn
<1>4. v \in 1..N /\ v \in Var /\ N \in Nat
  BY OursType, Shares
<1>5. setter[v] # "idle"
  BY <1>2, <1>3, <1>4 DEF IInv, Reached
<1>6. QED
  BY <1>1, <1>4, <1>5 DEF Active, IInv, TypeOK, Stages

\* What LoadConfig returns does not change any more: no goroutine is left.
LEMMA StepSettled ==
    ASSUME IInv, [Next]_vars, result = "loaded"
    PROVE  store' = store /\ result' = result
<1>1. loader = "finished" /\ Active = {}
  BY Quiet DEF IInv, Control
<1>2. \A v \in Var : ~ Write(v)
  BY <1>1 DEF Active, Write
<1>3. store' = store
  BY <1>2 DEF Next, vars, Reader, ReadBegin, Read, ReadEnd, Parser, Parse, SendEntry, ParseEnd,
              Loader, StartSetter, LoaderWaits, LoaderFinishes, Setter, Lock, Descend,
              Leave, MapFault, Return, TimeOut, Exit
<1>4. result' = result
  BY DEF Next, vars, Reader, ReadBegin, Read, ReadEnd, Parser, Parse, SendEntry, ParseEnd,
         Loader, StartSetter, LoaderWaits, LoaderFinishes, Setter, Lock, Write, Descend,
         Leave, MapFault, Return, TimeOut, Exit, Dies, ends
<1>5. QED
  BY <1>3, <1>4

\* No goroutine of the loader writes to a configuration that was returned.
THEOREM SettledOnceLoaded == Spec => LoadedIsSettled
<1>1. IInv /\ [Next]_vars => [result = "loaded" => store' = store]_<<store, result>>
  BY StepSettled
<1>2. QED
  BY <1>1, Invariant, PTL DEF Spec, LoadedIsSettled

\* A returned configuration is complete: the wait group lets LoadConfig go on only
\* when every entry has been written, and no entry is lost to another one unless
\* they have one name or names in conflict.
THEOREM CompleteOnceLoaded == Spec => []LoadedIsComplete
<1>1. ASSUME IInv, loader = "finished", ~ dead, NEW v \in Ours, Alone(v), ~ Shadowed(v)
      PROVE  Get(environ[v].path) = environ[v].value
  <2>1. v \in Var /\ setter[v] = "done"
    BY <1>1, AllWritten, OursType
  <2>2. Settled(v) /\ environ[v].path \in Path /\ Len(environ[v].path) \in Nat \ {0}
    BY <1>1, <2>1, AtWork DEF IInv, Tree
  <2>3. /\ depth[v] = Len(environ[v].path) /\ store[environ[v].path] \in Value
        /\ \A n \in 1..Len(environ[v].path) - 1 :
              store[SubSeq(environ[v].path, 1, n)] = Config
    BY <1>1, <2>1, <2>2 DEF Settled, Passed
  <2>4. Get(environ[v].path) = store[environ[v].path]
    BY <2>3 DEF Get
  <2>5. \E w \in Ours : environ[w].path = environ[v].path /\ environ[w].value = Get(environ[v].path)
    BY <1>1, <2>2, <2>3, <2>4 DEF IInv, Tree, OnlyTheEnvironment
  <2>6. QED
    BY <1>1, <2>5 DEF Alone
<1>2. IInv /\ LoadedIsComplete /\ [Next]_vars => LoadedIsComplete'
  <2> SUFFICES ASSUME IInv, LoadedIsComplete, [Next]_vars, result' = "loaded"
               PROVE  LoadedIsComplete'
    BY DEF LoadedIsComplete
  <2>1. /\ environ' = environ /\ Ours' = Ours /\ \A v : (Alone(v)' <=> Alone(v)) /\ (Shadowed(v)' <=> Shadowed(v))
    BY EnvironKept DEF Ours, Alone, Shadowed
  <2>2. /\ store' = store
        /\ \A v \in Ours : Alone(v) /\ ~ Shadowed(v) => Get(environ[v].path) = environ[v].value
    <3>1. CASE result = "loaded"
      BY <3>1, StepSettled DEF LoadedIsComplete
    <3>2. CASE result # "loaded"
      <4>1. Return /\ ~ dead
        BY <3>2 DEF Next, vars, Reader, ReadBegin, Read, ReadEnd, Parser, Parse, SendEntry,
                    ParseEnd, Loader, StartSetter, LoaderWaits, LoaderFinishes, Setter, Lock,
                    Write, Descend, Leave, MapFault, TimeOut, Exit, Dies, ends
      <4>2. loader = "finished" /\ store' = store
        BY <4>1 DEF Return
      <4>3. QED
        BY <1>1, <4>1, <4>2
    <3>3. QED
      BY <3>1, <3>2
  <2>3. \A p : Get(p)' = Get(p)
    BY <2>2 DEF Get
  <2>4. QED
    BY <2>1, <2>2, <2>3 DEF LoadedIsComplete
<1>3. Init => LoadedIsComplete
  BY DEF Init, LoadedIsComplete
<1>4. QED
  BY <1>2, <1>3, Invariant, PTL DEF Spec

================================================================================
