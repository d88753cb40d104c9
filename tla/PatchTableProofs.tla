--------------------------- MODULE PatchTableProofs ---------------------------
(***************************************************************************)
(* Theorems about the patch table, for every number of handlers, every set *)
(* of requests and every list of init files.                               *)
(***************************************************************************)
EXTENDS PatchTable, SequenceTheorems, TLAPS

\* While the init files are loaded main is the only actor, and from then on it
\* is none.
Alone ==
    /\ phase = "init" => \A c \in Client : stage[c] = "done"
    /\ phase = "serving" => stage[Main] = "done"

\* What an actor is at work on: a request of its method, and beyond the check a
\* destination that validatePath has taken.
Busy(a) ==
    /\ stage[a] \in {"check", "fetch", "store"} => call[a].op = "PATCH"
    /\ stage[a] \in {"fetch", "store"} => WellFormed(call[a].dest)
    /\ stage[a] = "store" => /\ call[a].dest.scheme \in {"http", "https"}
                             /\ call[a].dest.host \notin Slow
    /\ stage[a] = "delete" => call[a].op = "DELETE"
    /\ stage[a] = "read" => call[a].op \in {"GET", "LIST"}

Within == file \in DOMAIN InitFiles => at <= Len(InitFiles[file])

TypeInv == TypeOK /\ Within /\ \A a \in Actor : Busy(a)

-----------------------------------------------------------------------------
(* The operators *)

LEMMA SanitizeType == ASSUME NEW p \in Path PROVE Sanitize(p) \in Path
  BY DEF Sanitize, Path

LEMMA CompleteType ==
    ASSUME NEW d \in Dest, WellFormed(d)
    PROVE  /\ Complete(d) \in Dest /\ Complete(d).port # "none"
           /\ Complete(d).scheme = d.scheme /\ Complete(d).host = d.host
  BY DEF Complete, Dest, WellFormed

LEMMA InitFilesType ==
    /\ Len(InitFiles) \in Nat /\ DOMAIN InitFiles = 1..Len(InitFiles)
    /\ \A f \in DOMAIN InitFiles :
          /\ Len(InitFiles[f]) \in Nat /\ DOMAIN InitFiles[f] = 1..Len(InitFiles[f])
          /\ \A i \in DOMAIN InitFiles[f] :
                /\ InitFiles[f][i].path \in Path
                /\ InitFiles[f][i].dest \in Dest \cup {Nil}
<1>1. Len(InitFiles) \in Nat /\ DOMAIN InitFiles = 1..Len(InitFiles)
  BY PatchAssumption
<1>2. ASSUME NEW f \in DOMAIN InitFiles
      PROVE  /\ Len(InitFiles[f]) \in Nat /\ DOMAIN InitFiles[f] = 1..Len(InitFiles[f])
             /\ \A i \in DOMAIN InitFiles[f] :
                   /\ InitFiles[f][i].path \in Path
                   /\ InitFiles[f][i].dest \in Dest \cup {Nil}
  <2>1. InitFiles[f] \in Seq([path : Path, dest : Dest \cup {Nil}])
    BY <1>1, PatchAssumption, ElementOfSeq
  <2>2. Len(InitFiles[f]) \in Nat /\ DOMAIN InitFiles[f] = 1..Len(InitFiles[f])
    BY <2>1
  <2>3. \A i \in DOMAIN InitFiles[f] :
          InitFiles[f][i] \in [path : Path, dest : Dest \cup {Nil}]
    BY <2>1, <2>2, ElementOfSeq
  <2>4. QED
    BY <2>2, <2>3
<1>3. QED
  BY <1>1, <1>2

-----------------------------------------------------------------------------
(* Types *)

LEMMA RequestType ==
    ASSUME NEW q \in Request
    PROVE  /\ q.op \in {"PATCH", "GET", "DELETE", "LIST"}
           /\ q.op = "PATCH" => q.path \in Path /\ q.dest \in Dest \cup {Nil}
           /\ q.op \in {"GET", "DELETE"} => q.path \in Path
  BY DEF Request, Segment

LEMMA StepType == TypeInv /\ [Next]_vars => TypeInv'
<1> SUFFICES ASSUME TypeInv, [Next]_vars PROVE TypeInv'
  OBVIOUS
<1> USE DEF TypeInv, TypeOK, Within, loading
<1>1. ASSUME NEW a \in Actor, Check(a) PROVE TypeInv'
  <2>1. TypeOK' /\ Within'
    BY <1>1 DEF Check, Answer, Goto, Stages, Replies
  <2>2. \A b \in Actor : Busy(b)'
    BY <1>1 DEF Check, Answer, Goto, Busy
  <2>3. QED
    BY <2>1, <2>2
<1>2. ASSUME NEW a \in Actor, Fetch(a) PROVE TypeInv'
  <2>1. TypeOK' /\ Within'
    BY <1>2 DEF Fetch, Answer, Goto, Stages, Replies
  <2>2. stage[a] = "fetch" /\ call' = call /\ (Goto(a, "store") \/ Answer(a, "refused"))
    BY <1>2 DEF Fetch
  <2>3. Goto(a, "store") => ~ Hangs(call[a].dest) /\ call[a].dest.scheme \in {"http", "https"}
    BY <1>2, <2>2 DEF Fetch, Goto, Answer
  <2>4. Busy(a)'
    BY <2>2, <2>3 DEF Goto, Answer, Busy, Hangs
  <2>5. \A b \in Actor \ {a} : Busy(b)'
    BY <2>2 DEF Goto, Answer, Busy
  <2>6. QED
    BY <2>1, <2>4, <2>5
<1>3. ASSUME NEW a \in Actor, Store(a) PROVE TypeInv'
  <2>1. call[a].op = "PATCH" /\ WellFormed(call[a].dest)
    BY <1>3 DEF Store, Busy
  <2>2. Sanitize(call[a].path) \in Path /\ Complete(call[a].dest) \in Dest
    BY <2>1, RequestType, SanitizeType, CompleteType DEF WellFormed
  <2>3. /\ table' = [table EXCEPT ![Sanitize(call[a].path)] = Complete(call[a].dest)]
        /\ stage' = [stage EXCEPT ![a] = "done"]
        /\ reply' = [reply EXCEPT ![a] = "applied"]
        /\ UNCHANGED <<phase, loading, call>>
    BY <1>3 DEF Store, Answer
  <2>4. table' \in [Path -> Dest \cup {Nil}]
    BY <2>2, <2>3
  <2>5. TypeOK'
    BY <2>3, <2>4 DEF Stages, Replies
  <2>6. (\A b \in Actor : Busy(b)') /\ Within'
    BY <2>3 DEF Busy
  <2>7. QED
    BY <2>5, <2>6
<1>4. ASSUME NEW a \in Actor, Read(a) PROVE TypeInv'
  BY <1>4 DEF Read, Answer, Busy, Stages, Replies
<1>5. ASSUME NEW a \in Actor, Delete(a) PROVE TypeInv'
  BY <1>5 DEF Delete, Answer, Busy, Stages, Replies
<1>6. ASSUME PassOver \/ NextFile \/ LoadPatch \/ Loaded PROVE TypeInv'
  <2>1. CASE PassOver
    <3>1. TypeOK' /\ Within'
      BY <2>1 DEF PassOver
    <3>2. \A a \in Actor : Busy(a)'
      BY <2>1 DEF PassOver, Busy
    <3>3. QED
      BY <3>1, <3>2
  <2>2. CASE NextFile
    <3>1. file + 1 \in DOMAIN InitFiles /\ Len(InitFiles[file + 1]) \in Nat
      BY <2>2, InitFilesType DEF NextFile
    <3>2. file' \in 0..Len(InitFiles) /\ at' \in Nat /\ skipped' \subseteq DOMAIN InitFiles
      BY <2>2, <3>1, InitFilesType DEF NextFile
    <3>3. Within'
      BY <2>2, <3>1 DEF NextFile
    <3>4. stage' \in [Actor -> Stages] /\ reply' \in [Actor -> Replies]
      BY <2>2 DEF NextFile, Answer, Stages, Replies
    <3>5. \A a \in Actor : Busy(a)'
      BY <2>2 DEF NextFile, Answer, Busy
    <3>6. QED
      BY <2>2, <3>2, <3>3, <3>4, <3>5 DEF NextFile
  <2>3. CASE LoadPatch
    <3>1. /\ file \in DOMAIN InitFiles /\ at # Len(InitFiles[file])
          /\ at + 1 \in DOMAIN InitFiles[file]
      BY <2>3, InitFilesType DEF LoadPatch, Through
    <3> DEFINE patch == InitFiles[file][at + 1]
    <3>2. [op |-> "PATCH", path |-> patch.path, dest |-> patch.dest] \in Request
      BY <3>1, InitFilesType DEF Request
    <3> HIDE DEF patch
    <3>3. /\ call' = [call EXCEPT ![Main] = [op |-> "PATCH", path |-> patch.path,
                                             dest |-> patch.dest]]
          /\ stage' = [stage EXCEPT ![Main] = "check"]
          /\ reply' = [reply EXCEPT ![Main] = "none"]
          /\ at' = at + 1 /\ UNCHANGED <<table, phase, file, skipped>>
      BY <2>3 DEF LoadPatch, patch
    <3>4. TypeOK'
      <4> DEFINE c == [op |-> "PATCH", path |-> patch.path, dest |-> patch.dest]
      <4>0. c \in Request /\ call' = [call EXCEPT ![Main] = c]
        BY <3>2, <3>3
      <4> HIDE DEF c
      <4>1. call' \in [Actor -> Request]
        BY <4>0
      <4>4. at' \in Nat
        BY <3>3
      <4>2. stage' \in [Actor -> Stages] /\ reply' \in [Actor -> Replies]
        BY <3>3 DEF Stages, Replies
      <4>3. QED
        BY <3>3, <4>1, <4>2, <4>4
    <3>5. Within'
      BY <3>1, <3>3, InitFilesType
    <3>6. \A a \in Actor : Busy(a)'
      BY <3>3 DEF Busy, Actor
    <3>7. QED
      BY <3>4, <3>5, <3>6
  <2>4. CASE Loaded
    BY <2>4 DEF Loaded, Busy
  <2>5. QED
    BY <1>6, <2>1, <2>2, <2>3, <2>4
<1>7. ASSUME NEW c \in Client, Handle(c) PROVE TypeInv'
  <2>1. PICK q \in Offered :
          /\ call' = [call EXCEPT ![c] = q]
          /\ stage' = [stage EXCEPT ![c] =
                CASE q.op = "PATCH"  -> "check"
                  [] q.op = "DELETE" -> "delete"
                  [] OTHER           -> "read"]
          /\ reply' = [reply EXCEPT ![c] = "none"]
    BY <1>7 DEF Handle
  <2>2. q \in Request /\ c \in Actor /\ UNCHANGED <<table, phase, loading>>
    BY <1>7, OfferedAssumption DEF Handle, Actor
  <2>3. PICK s \in {"check", "delete", "read"} :
          /\ stage' = [stage EXCEPT ![c] = s]
          /\ s = "check" <=> q.op = "PATCH"
          /\ s = "delete" <=> q.op = "DELETE"
    BY <2>1
  <2>4. TypeOK'
    BY <2>1, <2>2, <2>3 DEF Stages, Replies
  <2>5. Busy(c)'
    BY <2>1, <2>2, <2>3, RequestType DEF Busy
  <2>6. \A a \in Actor \ {c} : Busy(a)'
    BY <2>1, <2>3 DEF Busy
  <2>7. Within'
    BY <2>2
  <2>8. QED
    BY <2>4, <2>5, <2>6, <2>7
<1>8. CASE LoadFails \/ MapFault \/ UNCHANGED vars
  BY <1>8 DEF LoadFails, MapFault, vars, Busy
<1>9. ASSUME Restart PROVE TypeInv'
  <2>1. [op |-> "LIST"] \in Request /\ 0 \in 0..Len(InitFiles) /\ 0 \notin DOMAIN InitFiles
    BY InitFilesType DEF Request
  <2>2. /\ file' \in 0..Len(InitFiles) /\ at' \in Nat /\ skipped' \subseteq DOMAIN InitFiles
        /\ Within'
    BY <1>9, <2>1 DEF Restart
  <2>3. call' \in [Actor -> Request]
    BY <1>9, <2>1 DEF Restart
  <2>4. table' \in [Path -> Dest \cup {Nil}]
    BY <1>9 DEF Restart
  <2>5. TypeOK'
    BY <1>9, <2>2, <2>3, <2>4 DEF Restart, Stages, Replies
  <2>6. \A a \in Actor : Busy(a)'
    BY <1>9 DEF Restart, Busy
  <2>7. QED
    BY <2>2, <2>5, <2>6
<1>10. QED
  BY <1>1, <1>2, <1>3, <1>4, <1>5, <1>6, <1>7, <1>8, <1>9 DEF Next, Advance

LEMMA StartType == Start => TypeInv
<1>1. [op |-> "LIST"] \in Request /\ 0 \in 0..Len(InitFiles) /\ 0 \notin DOMAIN InitFiles
  BY InitFilesType DEF Request
<1>2. QED
  BY <1>1 DEF Start, TypeInv, TypeOK, Within, Busy, Stages, Replies

LEMMA TypeInvariant == Spec => []TypeInv
  BY StartType, StepType, PTL DEF Spec

\* Every step of the handlers, of main and of a restart keeps the types.
THEOREM TypeCorrect == Spec => []TypeOK
  BY TypeInvariant, PTL DEF TypeInv

-----------------------------------------------------------------------------
(* What is in the table *)

\* What a step does to the table: nothing, or what one actor stores or deletes.
LEMMA StepTable ==
    ASSUME TypeInv, Next, table' # table
    PROVE  \/ table' = [p \in Path |-> Nil] /\ Restart
           \/ \E a \in Actor : phase # "dead" /\ (Store(a) \/ Delete(a))
<1>1. ASSUME NEW a \in Actor, Advance(a), table' # table
      PROVE  phase # "dead" /\ (Store(a) \/ Delete(a))
  BY <1>1 DEF Advance, Check, Fetch, Read
<1>2. PassOver \/ NextFile \/ LoadPatch \/ Loaded \/ LoadFails \/ MapFault
      \/ (\E c \in Client : Handle(c)) => table' = table
  BY DEF PassOver, NextFile, LoadPatch, Loaded, LoadFails, MapFault, Handle
<1>3. Restart => table' = [p \in Path |-> Nil]
  BY DEF Restart
<1>4. QED
  BY <1>1, <1>2, <1>3 DEF Next

\* What Store puts into the table, and where.
LEMMA Stored ==
    ASSUME TypeInv, NEW a \in Actor, Store(a)
    PROVE  LET p == Sanitize(call[a].path)  d == Complete(call[a].dest) IN
           /\ p \in Path /\ d \in Dest /\ d.port # "none"
           /\ d.scheme \in {"http", "https"} /\ d.host \in Host
           /\ table' = [table EXCEPT ![p] = d]
<1>1. /\ call[a].op = "PATCH" /\ WellFormed(call[a].dest)
      /\ call[a].dest.scheme \in {"http", "https"} /\ call[a].dest.host \notin Slow
      /\ call[a] \in Request
  BY DEF TypeInv, TypeOK, Store, Busy
<1>2. call[a].path \in Path /\ call[a].dest \in Dest
  BY <1>1, RequestType DEF WellFormed
<1>3. call[a].dest.host \in Host
  BY <1>1, <1>2 DEF WellFormed, Dest
<1>4. QED
  BY <1>1, <1>2, <1>3, SanitizeType, CompleteType DEF Store

\* What Delete takes out of it.
LEMMA Deleted ==
    ASSUME TypeInv, NEW a \in Actor, Delete(a)
    PROVE  call[a].path \in Path /\ table' = [table EXCEPT ![call[a].path] = Nil]
  BY RequestType DEF TypeInv, TypeOK, Busy, Delete

LEMMA StepUsable == TypeInv /\ DestinationsUsable /\ [Next]_vars => DestinationsUsable'
<1> SUFFICES ASSUME TypeInv, DestinationsUsable, [Next]_vars PROVE DestinationsUsable'
  OBVIOUS
<1> USE DEF DestinationsUsable
<1>1. CASE table' = table
  BY <1>1
<1>2. CASE table' # table
  <2>1. ASSUME NEW a \in Actor, Store(a) PROVE DestinationsUsable'
    BY <2>1, Stored DEF TypeInv, TypeOK
  <2>2. ASSUME NEW a \in Actor, Delete(a) PROVE DestinationsUsable'
    BY <2>2, Deleted DEF TypeInv, TypeOK
  <2>3. CASE table' = [p \in Path |-> Nil]
    BY <2>3
  <2>4. Next
    BY <1>2 DEF vars
  <2>5. QED
    BY <1>2, <2>1, <2>2, <2>3, <2>4, StepTable
<1>3. QED
  BY <1>1, <1>2

\* Whatever handlers run and whatever they are sent, a destination in the table
\* has a scheme that can be requested, a host that has answered and a port.
THEOREM Usable == Spec => []DestinationsUsable
<1>1. Start => DestinationsUsable
  BY DEF Start, DestinationsUsable
<1>2. QED
  BY <1>1, StepUsable, TypeInvariant, PTL DEF Spec

-----------------------------------------------------------------------------
(* Who is at work *)

LEMMA StepAlone == Alone /\ TypeInv /\ [Next]_vars => Alone'
<1> SUFFICES ASSUME Alone, TypeInv, [Next]_vars PROVE Alone'
  OBVIOUS
<1> USE ActorAssumption DEF Alone, TypeInv, TypeOK, Actor
<1>1. ASSUME NEW a \in Actor, Advance(a) PROVE Alone'
  <2>1. phase' = phase /\ stage[a] # "done" /\ phase # "dead"
    BY <1>1 DEF Advance, Check, Fetch, Store, Read, Delete
  <2>2. \A b \in Actor : b # a => stage'[b] = stage[b]
    BY <1>1 DEF Advance, Check, Fetch, Store, Read, Delete, Answer, Goto
  <2>3. QED
    BY <2>1, <2>2
<1>2. ASSUME NEW c \in Client, Handle(c) PROVE Alone'
  <2>1. phase' = "serving"
    BY <1>2 DEF Handle
  <2>2. stage'[Main] = stage[Main] /\ phase = "serving"
    BY <1>2 DEF Handle
  <2>3. QED
    BY <2>1, <2>2
<1>3. ASSUME PassOver \/ NextFile \/ LoadPatch \/ Loaded PROVE Alone'
  <2>1. \A c \in Client : stage'[c] = stage[c]
    BY <1>3 DEF PassOver, NextFile, LoadPatch, Loaded, Answer
  <2>2. phase = "init" /\ (phase' = "init" \/ (phase' = "serving" /\ stage' = stage))
    BY <1>3 DEF PassOver, NextFile, LoadPatch, Loaded, GoesOn
  <2>3. stage[Main] = "done"
    BY <1>3 DEF PassOver, NextFile, LoadPatch, Loaded, GoesOn
  <2>4. QED
    BY <2>1, <2>2, <2>3
<1>4. CASE LoadFails \/ MapFault \/ Restart \/ UNCHANGED vars
  BY <1>4 DEF LoadFails, MapFault, Restart, vars
<1>5. QED
  BY <1>1, <1>2, <1>3, <1>4 DEF Next

-----------------------------------------------------------------------------
(* The init files *)

\* The i-th patch of the file f is in the table.
InPlace(f, i) == Place(InitFiles[f][i]) /\ table[Sanitize(InitFiles[f][i].path)] # Nil

\* The patches before the one that main is at, or has just been at.
Before(f, i) == f < file \/ (f = file /\ i < at)
Current(f, i) == f = file /\ i = at

\* While main loads, every patch before the one it is at is in place, unless its
\* file was passed over, and that one too when main is done with it, unless it
\* has been refused.
Loading ==
    phase = "init" =>
        /\ stage[Main] \in {"done", "check", "fetch", "store"}
        /\ \A f \in DOMAIN InitFiles \ skipped : \A i \in DOMAIN InitFiles[f] :
              \/ Before(f, i)
              \/ Current(f, i) /\ stage[Main] = "done" /\ reply[Main] # "refused"
              => InPlace(f, i)
        /\ stage[Main] # "done" =>
              /\ file \in DOMAIN InitFiles \ skipped /\ at \in DOMAIN InitFiles[file]
              /\ call[Main].path = InitFiles[file][at].path
              /\ call[Main].dest = InitFiles[file][at].dest
        /\ stage[Main] \in {"fetch", "store"} =>
              table[Sanitize(call[Main].path)] = Nil

LoadInv == TypeInv /\ Alone /\ Loading

\* A patch in place stays there when Main registers another one.
LEMMA InPlaceKept ==
    ASSUME LoadInv, phase = "init", Check(Main) \/ Fetch(Main) \/ Store(Main),
           NEW f \in DOMAIN InitFiles, NEW i \in DOMAIN InitFiles[f], InPlace(f, i)
    PROVE  InPlace(f, i)'
<1>1. Sanitize(InitFiles[f][i].path) \in Path
  BY InitFilesType, SanitizeType
<1>2. CASE Store(Main)
  <2>1. table[Sanitize(call[Main].path)] = Nil
    BY <1>2 DEF LoadInv, Loading, Store
  <2>2. QED
    BY <1>1, <1>2, <2>1 DEF Store, InPlace, Place, LoadInv, TypeInv, TypeOK
<1>3. CASE Check(Main) \/ Fetch(Main)
  BY <1>3 DEF Check, Fetch, InPlace, Place
<1>4. QED
  BY <1>2, <1>3

LEMMA StepLoading == LoadInv /\ [Next]_vars => Loading'
<1> SUFFICES ASSUME LoadInv, [Next]_vars PROVE Loading'
  OBVIOUS
<1> USE DEF LoadInv
<1>1. /\ Main \in Actor /\ file \in 0..Len(InitFiles) /\ at \in Nat
      /\ Len(InitFiles) \in Nat /\ DOMAIN InitFiles = 1..Len(InitFiles)
  BY InitFilesType DEF Actor, TypeInv, TypeOK
<1>2. ASSUME NEW a \in Actor, Advance(a) PROVE Loading'
  <2>1. /\ phase' = phase /\ call' = call /\ stage[a] # "done"
        /\ UNCHANGED <<file, at, skipped>>
    BY <1>2 DEF Advance, Check, Fetch, Store, Read, Delete, loading
  <2>2. CASE phase = "init"
    <3>1. a = Main
      BY <1>2, <2>1, <2>2 DEF Alone, Actor
    <3>2. stage[Main] \in {"check", "fetch", "store"}
      BY <2>1, <2>2, <3>1 DEF Loading
    <3>3. /\ file \in DOMAIN InitFiles \ skipped /\ at \in DOMAIN InitFiles[file]
          /\ call[Main].path = InitFiles[file][at].path
          /\ call[Main].dest = InitFiles[file][at].dest
      BY <2>2, <3>2 DEF Loading
    <3>4. Check(Main) \/ Fetch(Main) \/ Store(Main)
      BY <1>2, <3>1, <3>2 DEF Advance, Read, Delete
    <3>5. ASSUME NEW f \in DOMAIN InitFiles \ skipped, NEW i \in DOMAIN InitFiles[f],
                 Before(f, i)
          PROVE  InPlace(f, i)'
      BY <2>2, <3>4, <3>5, InPlaceKept DEF Loading
    <3>6. /\ stage'[Main] \in {"done", "fetch", "store"}
          /\ stage'[Main] = "done" /\ reply'[Main] # "refused" => InPlace(file, at)'
          /\ stage'[Main] # "done" => table'[Sanitize(call[Main].path)] = Nil
      <4>1. CASE Check(Main)
        BY <1>1, <4>1 DEF Check, Answer, Goto, TypeInv, TypeOK
      <4>2. CASE Fetch(Main)
        <5>1. table[Sanitize(call[Main].path)] = Nil
          BY <2>2, <4>2 DEF Loading, Fetch
        <5>2. QED
          BY <1>1, <4>2, <5>1 DEF Fetch, Answer, Goto, TypeInv, TypeOK
      <4>3. CASE Store(Main)
        <5>1. stage'[Main] = "done"
          BY <1>1, <4>3 DEF Store, Answer, TypeInv, TypeOK
        <5>2. InPlace(file, at)'
          BY <1>1, <2>1, <3>3, <4>3, Stored, NilAssumption DEF InPlace, Place, TypeInv, TypeOK
        <5>3. QED
          BY <5>1, <5>2
      <4>4. QED
        BY <3>4, <4>1, <4>2, <4>3
    <3>7. QED
      BY <2>1, <3>3, <3>5, <3>6 DEF Loading, Before, Current
  <2>3. QED
    BY <2>1, <2>2 DEF Loading
<1>3. ASSUME NEW c \in Client, Handle(c) PROVE Loading'
  BY <1>3 DEF Handle, Loading
<1>4. ASSUME NextFile PROVE Loading'
  <2>1. /\ phase = "init" /\ stage[Main] = "done" /\ reply[Main] # "refused" /\ Through
        /\ phase' = "init" /\ file' = file + 1 /\ at' = 0 /\ skipped \subseteq skipped'
        /\ stage'[Main] = "done" /\ table' = table
    BY <1>4 DEF NextFile, GoesOn, Answer, TypeInv, TypeOK
  <2>2. ASSUME NEW f \in DOMAIN InitFiles \ skipped', NEW i \in DOMAIN InitFiles[f],
               Before(f, i)' \/ Current(f, i)'
        PROVE  InPlace(f, i)'
    <3>1. f \in DOMAIN InitFiles \ skipped /\ i \in 1..Len(InitFiles[f])
      BY <2>1, <2>2, InitFilesType
    <3>2. f < file \/ f = file
      BY <1>1, <2>1, <2>2, <3>1, InitFilesType DEF Before, Current
    <3>3. f = file => at = Len(InitFiles[f])
      BY <2>1, <3>1 DEF Through
    <3>4. Before(f, i) \/ Current(f, i)
      BY <1>1, <3>1, <3>2, <3>3, InitFilesType DEF Before, Current
    <3>5. InPlace(f, i)
      BY <2>1, <3>1, <3>4 DEF Loading
    <3>6. QED
      BY <2>1, <3>5 DEF InPlace, Place
  <2>3. QED
    BY <2>1, <2>2 DEF Loading
<1>5. ASSUME LoadPatch PROVE Loading'
  <2>1. /\ phase = "init" /\ stage[Main] = "done" /\ reply[Main] # "refused"
        /\ file \in DOMAIN InitFiles \ skipped /\ at # Len(InitFiles[file])
        /\ at' = at + 1 /\ UNCHANGED <<table, phase, file, skipped>>
        /\ stage'[Main] = "check"
        /\ call'[Main].path = InitFiles[file][at + 1].path
        /\ call'[Main].dest = InitFiles[file][at + 1].dest
    BY <1>1, <1>5 DEF LoadPatch, GoesOn, Through, TypeInv, TypeOK
  <2>2. at + 1 \in DOMAIN InitFiles[file]
    BY <1>1, <2>1, InitFilesType DEF TypeInv, Within
  <2>3. ASSUME NEW f \in DOMAIN InitFiles \ skipped', NEW i \in DOMAIN InitFiles[f],
               Before(f, i)'
        PROVE  InPlace(f, i)'
    <3>1. Before(f, i) \/ Current(f, i)
      BY <1>1, <2>1, <2>3, InitFilesType DEF Before, Current
    <3>2. InPlace(f, i)
      BY <2>1, <3>1 DEF Loading
    <3>3. QED
      BY <2>1, <3>2 DEF InPlace, Place
  <2>4. QED
    BY <2>1, <2>2, <2>3 DEF Loading
<1>6. CASE PassOver \/ Loaded \/ LoadFails \/ MapFault
  BY <1>6 DEF PassOver, Loaded, LoadFails, MapFault, Loading
<1>7. CASE Restart
  BY <1>1, <1>7, InitFilesType DEF Restart, Loading, Before, Current
<1>8. CASE UNCHANGED vars
  BY <1>8 DEF vars, loading, Loading, InPlace, Place, Before, Current
<1>9. QED
  BY <1>2, <1>3, <1>4, <1>5, <1>6, <1>7, <1>8 DEF Next

\* However many init files and patches there are, the server is not started with
\* a part of a file: a later patch does not take an earlier one's path, and the
\* first that is refused ends the process, whatever was passed over before.
THEOREM LoadedCompletely == Spec => StartsComplete
<1>1. Start => LoadInv
  <2>1. Start => TypeInv
    BY StartType
  <2>2. Start => Loading
    BY InitFilesType DEF Start, Loading, Before, Current, Actor
  <2>3. QED
    BY <2>1, <2>2 DEF Start, LoadInv, Alone, Actor
<1>2. LoadInv /\ [Next]_vars => LoadInv'
  BY StepType, StepAlone, StepLoading DEF LoadInv
<1>3. ASSUME LoadInv, [Next]_vars, phase = "init", phase' = "serving",
             NEW f \in DOMAIN InitFiles \ skipped', NEW i \in DOMAIN InitFiles[f]
      PROVE  Place(InitFiles[f][i])
  <2>1. PassOver \/ Loaded
    BY <1>3 DEF Next, NextFile, LoadPatch, LoadFails, MapFault, Restart, Handle, Advance,
                Check, Fetch, Store, Read, Delete, vars
  <2>2. ~ PassOver
    BY <1>3 DEF PassOver
  <2>3. /\ stage[Main] = "done" /\ reply[Main] # "refused" /\ Through
        /\ file = Len(InitFiles) /\ skipped' = skipped
    BY <2>1, <2>2 DEF Loaded, GoesOn, loading
  <2>4. i \in 1..Len(InitFiles[f]) /\ f \in 1..Len(InitFiles)
    BY InitFilesType
  <2>5. f = file => at = Len(InitFiles[f])
    BY <1>3, <2>3 DEF Through
  <2>6. Before(f, i) \/ Current(f, i)
    BY <2>3, <2>4, <2>5, InitFilesType DEF Before, Current
  <2>7. QED
    BY <1>3, <2>3, <2>6 DEF LoadInv, Loading, InPlace
<1>4. LoadInv /\ [Next]_vars =>
        [phase = "init" /\ phase' = "serving" =>
           \A f \in DOMAIN InitFiles \ skipped' :
              \A i \in DOMAIN InitFiles[f] : Place(InitFiles[f][i])]_vars
  BY <1>3
<1>5. QED
  BY <1>1, <1>2, <1>4, PTL DEF Spec, StartsComplete
================================================================================
