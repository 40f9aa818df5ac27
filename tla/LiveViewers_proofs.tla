-------------------------- MODULE LiveViewers_proofs --------------------------
(***************************************************************************)
(* Theorems about LiveViewers, for any number of accounts, handlers,       *)
(* requests and faults.                                                    *)
(***************************************************************************)
EXTENDS LiveViewers, FiniteSetTheorems, TLAPS

-----------------------------------------------------------------------------
(***************************************************************************)
(* Types.                                                                  *)
(***************************************************************************)

\* A handler that becomes r.
LEMMA BecomeTypes ==
  ASSUME TypeOK, NEW t \in Tasks, NEW r \in Task, Become(t, r),
         r.pc # "idle" => r.addr \in Addresses
  PROVE  /\ task' \in [Tasks -> Task]
         /\ \A u \in Tasks : task'[u].pc # "idle" => task'[u].addr \in Addresses
BY DEF TypeOK, Become

\* A handler that goes on.
LEMMA GotoTypes ==
  ASSUME TypeOK, NEW t \in Tasks, NEW pc \in TaskPc, ~At(t, "idle"), Goto(t, pc)
  PROVE  /\ task' \in [Tasks -> Task]
         /\ \A u \in Tasks : task'[u].pc # "idle" => task'[u].addr \in Addresses
<1>1. [task[t] EXCEPT !.pc = pc] \in Task BY DEF TypeOK, Task
<1> QED BY <1>1, BecomeTypes DEF Goto, At, TypeOK, Task

\* A handler that ends.
LEMMA EndTypes ==
  ASSUME TypeOK, NEW t \in Tasks, End(t)
  PROVE  /\ task' \in [Tasks -> Task]
         /\ \A u \in Tasks : task'[u].pc # "idle" => task'[u].addr \in Addresses
<1>1. Idle \in Task BY DEF Idle, Handler, Task, TaskPc
<1> QED BY <1>1, BecomeTypes DEF End, Idle, Handler

\* Every handler step keeps the types.
LEMMA JoinStepTypes ==
  ASSUME TypeOK, NEW t \in Tasks, JoinStep(t)
  PROVE  TypeOK'
<1>0. ~At(t, "idle") => task[t].addr \in Addresses BY DEF TypeOK, At
<1>a. task[t] \in Task BY DEF TypeOK
<1>1. CASE JoinCheck(t)
  BY <1>1, EndTypes, GotoTypes DEF JoinCheck, ReadOnly, TypeOK, At, TaskPc, entryVars, counterVars
<1>2. CASE TrackViewer(t)
  BY <1>0, <1>2, GotoTypes DEF TrackViewer, TypeOK, At, Of, TaskPc, entryVars, counterVars
<1>3. CASE FindStream(t)
  <2>1. [task[t] EXCEPT !.pc = "findEntry", !.views = totalViews] \in Task
    BY <1>a DEF TypeOK, Task, TaskPc
  <2> QED
    BY <1>0, <1>a, <1>3, <2>1, BecomeTypes
       DEF FindStream, ReadOnly, TypeOK, At, Task, entryVars, counterVars
<1>4. CASE FindEntry(t)
  BY <1>4, GotoTypes DEF FindEntry, ReadOnly, TypeOK, At, TaskPc, entryVars, counterVars
<1>5. CASE CreateEntry(t)
  <2>1. entries' \in [Addresses -> Nat] /\ open' \in [Addresses -> SUBSET Nat]
    BY <1>0, <1>5 DEF CreateEntry, TypeOK, At, Of
  <2>2. \A a \in Addresses : open'[a] \subseteq 1..entries'[a]
    BY <1>0, <1>5 DEF CreateEntry, TypeOK, At, Of
  <2> QED
    BY <1>5, <2>1, <2>2, GotoTypes DEF CreateEntry, TypeOK, At, TaskPc, counterVars
<1>6. CASE RecordJoined(t)
  BY <1>6, GotoTypes DEF RecordJoined, TypeOK, At, TaskPc, entryVars, counterVars
<1>7. CASE SaveStream(t)
  <2>1. [task[t] EXCEPT !.pc = "incr", !.views = 0] \in Task
    BY <1>a DEF Task, TaskPc
  <2>2. totalViews' \in Nat BY <1>a, <1>7 DEF SaveStream, Task
  <2>3. [task[t] EXCEPT !.pc = "incr", !.views = 0].addr \in Addresses
    BY <1>0, <1>a, <1>7 DEF SaveStream, At, Task
  <2> QED
    BY <1>7, <2>1, <2>2, <2>3, BecomeTypes
       DEF SaveStream, TypeOK, entryVars, counterVars
<1>8. CASE IncrCounter(t)
  BY <1>8, EndTypes DEF IncrCounter, TypeOK, entryVars
<1> QED BY <1>1, <1>2, <1>3, <1>4, <1>5, <1>6, <1>7, <1>8 DEF JoinStep

\* Every step of a leave keeps the types.
LEMMA LeaveStepTypes ==
  ASSUME TypeOK, NEW t \in Tasks, LeaveStep(t)
  PROVE  TypeOK'
<1>0. ~At(t, "idle") => task[t].addr \in Addresses BY DEF TypeOK, At
<1>a. task[t] \in Task BY DEF TypeOK
<1>1. CASE LeaveCheck(t)
  BY <1>1, EndTypes, GotoTypes DEF LeaveCheck, ReadOnly, TypeOK, At, TaskPc, entryVars, counterVars
<1>2. CASE UntrackViewer(t)
  BY <1>2, GotoTypes DEF UntrackViewer, TypeOK, At, TaskPc, entryVars, counterVars
<1>3. CASE FindAnyEntry(t)
  <2>1. PICK i \in 1..entries[Of(t)] : Become(t, [task[t] EXCEPT !.pc = "close", !.entry = i])
    BY <1>3 DEF FindAnyEntry
  <2>2. i \in Nat BY <1>0, <1>3 DEF FindAnyEntry, TypeOK, At, Of
  <2>3. [task[t] EXCEPT !.pc = "close", !.entry = i] \in Task
    BY <1>a, <2>2 DEF Task, TaskPc
  <2> QED
    BY <1>0, <1>a, <1>3, <2>1, <2>3, BecomeTypes
       DEF FindAnyEntry, ReadOnly, TypeOK, At, Task, entryVars, counterVars
<1>4. CASE FindsNoEntry(t)
  BY <1>4, GotoTypes DEF FindsNoEntry, ReadOnly, TypeOK, At, TaskPc, entryVars, counterVars
<1>5. CASE CloseEntry(t)
  <2>1. [task[t] EXCEPT !.pc = "decr", !.entry = 0] \in Task
    BY <1>a DEF Task, TaskPc
  <2>2. open' \in [Addresses -> SUBSET Nat] /\ \A a \in Addresses : open'[a] \subseteq open[a]
    BY <1>5 DEF CloseEntry, TypeOK
  <2> QED
    BY <1>0, <1>a, <1>5, <2>1, <2>2, BecomeTypes DEF CloseEntry, TypeOK, At, Task, counterVars
<1>6. CASE DecrCounter(t)
  BY <1>6, GotoTypes DEF DecrCounter, TypeOK, At, TaskPc, entryVars
<1>7. CASE RecordLeft(t)
  BY <1>7, EndTypes DEF RecordLeft, TypeOK, entryVars, counterVars
<1> QED BY <1>1, <1>2, <1>3, <1>4, <1>5, <1>6, <1>7 DEF LeaveStep

\* Every step of a count keeps the types.
LEMMA CountStepTypes ==
  ASSUME TypeOK, NEW t \in Tasks, CountStep(t)
  PROVE  TypeOK'
<1>0. ~At(t, "idle") => task[t].addr \in Addresses BY DEF TypeOK, At
<1>a. task[t] \in Task BY DEF TypeOK
<1>1. CASE GetCount(t, "peak", "peakDb") \/ GetCount(t, "emit", "emitDb")
  BY <1>1, GotoTypes DEF GetCount, ReadOnly, TypeOK, At, TaskPc, entryVars, counterVars
<1>2. ASSUME NEW db \in {"peakDb", "emitDb"}, NEW cache \in {"peakCache", "emitCache"},
             CountActivities(t, db, cache)
      PROVE  TypeOK'
  <2>1. [task[t] EXCEPT !.pc = cache, !.count = balance] \in Task
    BY <1>a DEF Task, TaskPc, TypeOK
  <2>2. [task[t] EXCEPT !.pc = cache, !.count = balance].addr \in Addresses
    BY <1>0, <1>a, <1>2 DEF CountActivities, At, Task
  <2> QED
    BY <1>2, <2>1, <2>2, BecomeTypes
       DEF CountActivities, ReadOnly, TypeOK, entryVars, counterVars
<1>3. CASE PeakKnown(t)
  BY <1>3, GotoTypes DEF PeakKnown, ReadOnly, TypeOK, At, TaskPc, entryVars, counterVars
<1>4. CASE PeakCached(t)
  <2>0. 0 \in Int /\ "save" \in TaskPc BY DEF TaskPc
  <2>1. [task[t] EXCEPT !.pc = "save", !.count = 0] \in Task
    BY <1>a, <2>0 DEF Task
  <2>2. [task[t] EXCEPT !.pc = "save", !.count = 0].addr \in Addresses
    BY <1>0, <1>a, <1>4 DEF PeakCached, At, Task
  <2>3. counter' \in Int BY <1>a, <1>4 DEF PeakCached, CacheCount, Task
  <2> QED
    BY <1>4, <2>1, <2>2, <2>3, BecomeTypes DEF PeakCached, CacheCount, TypeOK, entryVars
<1>5. CASE EmitKnown(t)
  BY <1>5, EndTypes DEF EmitKnown, ReadOnly, TypeOK, entryVars, counterVars
<1>6. CASE EmitCached(t)
  <2>1. counter' \in Int BY <1>a, <1>6 DEF EmitCached, CacheCount, Task
  <2> QED BY <1>6, <2>1, EndTypes DEF EmitCached, CacheCount, TypeOK, entryVars
<1> QED BY <1>1, <1>2, <1>3, <1>4, <1>5, <1>6 DEF CountStep

\* New handlers and the environment keep the types.
LEMMA EnvironmentTypes ==
  ASSUME TypeOK,
         \/ \E a \in Addresses, t \in Tasks : JoinStream(a, t) \/ LeaveStream(a, t)
         \/ \E t \in Tasks : HandlerFails(t)
         \/ \E a \in Addresses : ViewerKeyGoes(a)
         \/ StatusChanges
         \/ Restart
  PROVE  TypeOK'
<1>1. ASSUME NEW a \in Addresses, NEW t \in Tasks, JoinStream(a, t) \/ LeaveStream(a, t)
      PROVE  TypeOK'
  <2>1. PICK pc \in {"joinCheck", "leaveCheck"} : Request(a, t, pc)
    BY <1>1 DEF JoinStream, LeaveStream
  <2>2. Handler(pc, a) \in Task /\ Handler(pc, a).addr = a
    BY DEF Handler, Task, TaskPc
  <2>3. requests' \in Nat BY <2>1 DEF Request, TypeOK
  <2> QED
    BY <2>1, <2>2, <2>3, BecomeTypes DEF Request, TypeOK, entryVars, counterVars
<1>2. ASSUME NEW t \in Tasks, HandlerFails(t) PROVE TypeOK'
  BY <1>2, EndTypes DEF HandlerFails, Fault, TypeOK, entryVars, counterVars
<1>3. ASSUME NEW a \in Addresses, ViewerKeyGoes(a) PROVE TypeOK'
  BY <1>3 DEF ViewerKeyGoes, TypeOK, entryVars, counterVars
<1>4. CASE StatusChanges
  BY <1>4 DEF StatusChanges, TypeOK, entryVars, counterVars
<1>5. CASE Restart
  <2>1. Idle \in Task BY DEF Idle, Handler, Task, TaskPc
  <2> QED BY <1>5, <2>1 DEF Restart, Fault, TypeOK, Idle, Handler, entryVars, counterVars
<1> QED BY <1>1, <1>2, <1>3, <1>4, <1>5

\* Keys, entries, counters and handlers keep their types; in particular a handler always
\* works for an account (the early returns of handleJoinStream and handleLeaveStream).
THEOREM TypesHold == Spec => []TypeOK
<1>1. Init => TypeOK
  <2> SUFFICES ASSUME Init PROVE TypeOK OBVIOUS
  <2>1. Idle \in Task /\ Idle.pc = "idle" BY DEF Idle, Handler, Task, TaskPc
  <2>2. task \in [Tasks -> Task] BY <2>1 DEF Init
  <2>3. \A t \in Tasks : task[t].pc = "idle" BY <2>1 DEF Init
  <2>4. open \in [Addresses -> SUBSET Nat] /\ \A a \in Addresses : open[a] \subseteq 1..entries[a]
    BY DEF Init
  <2>5. /\ viewerKeys \in SUBSET Addresses /\ entries \in [Addresses -> Nat]
        /\ balance \in Int /\ counter \in Int /\ totalViews \in Nat
        /\ requests \in Nat /\ faults \in Nat
    BY DEF Init
  <2>6. counted \in BOOLEAN /\ live \in BOOLEAN BY DEF Init
  <2> QED BY <2>2, <2>3, <2>4, <2>5, <2>6 DEF TypeOK
<1>2. TypeOK /\ [Next]_vars => TypeOK'
  <2> SUFFICES ASSUME TypeOK, [Next]_vars PROVE TypeOK' OBVIOUS
  <2>1. CASE Next
    BY <2>1, JoinStepTypes, LeaveStepTypes, CountStepTypes, EnvironmentTypes DEF Next
  <2>2. CASE UNCHANGED vars BY <2>2 DEF TypeOK, vars, entryVars, counterVars
  <2> QED BY <2>1, <2>2
<1> QED BY <1>1, <1>2, PTL DEF Spec

-----------------------------------------------------------------------------
(***************************************************************************)
(* Duplicate entries.  The bound is inductive as it stands: a join gets    *)
(* past the look-up only while its account has no open entry, so it joins  *)
(* the creators alone, and creating moves it from them to the entries.     *)
(***************************************************************************)

\* The sets counted are finite.
LEMMA CountsAreFinite ==
  ASSUME TypeOK, NEW a \in Addresses
  PROVE  /\ IsFiniteSet(open[a])
         /\ IsFiniteSet(Creating(a))
         /\ Cardinality(open[a]) \in Nat
         /\ Cardinality(Creating(a)) \in Nat
         /\ Cardinality(Creating(a)) <= Cardinality(Tasks)
         /\ Cardinality(Tasks) \in Nat
<1>1. IsFiniteSet(open[a])
  <2>1. entries[a] \in Nat /\ open[a] \subseteq 1..entries[a] BY DEF TypeOK
  <2>2. IsFiniteSet(1..entries[a]) BY <2>1, FS_Interval
  <2> QED BY <2>1, <2>2, FS_Subset
<1>2. IsFiniteSet(Creating(a)) /\ Cardinality(Creating(a)) <= Cardinality(Tasks)
  BY FiniteAssumption, FS_Subset DEF Creating
<1> QED BY <1>1, <1>2, FiniteAssumption, FS_CardinalityType

\* Fewer entries and fewer creators.
LEMMA FewerDuplicates ==
  ASSUME TypeOK, TypeOK', DuplicatesAreBounded, NEW a \in Addresses,
         open'[a] \subseteq open[a], Creating(a)' \subseteq Creating(a)
  PROVE  Cardinality(open'[a]) + Cardinality(Creating(a)') <= Cardinality(Tasks)
<1>1. /\ Cardinality(open'[a]) \in Nat /\ Cardinality(open'[a]) <= Cardinality(open[a])
  BY CountsAreFinite, FS_Subset, FS_CardinalityType
<1>2. /\ Cardinality(Creating(a)') \in Nat
      /\ Cardinality(Creating(a)') <= Cardinality(Creating(a))
  BY CountsAreFinite, FS_Subset, FS_CardinalityType
<1> QED BY <1>1, <1>2, CountsAreFinite DEF DuplicatesAreBounded

\* A handler that becomes r and does not come to create.
LEMMA BecomesNoCreator ==
  ASSUME TypeOK, NEW u \in Tasks, NEW r, Become(u, r), r.pc # "create"
  PROVE  \A t \in Tasks : At(t, "create")' => task'[t] = task[t]
BY DEF Become, At, TypeOK

LEMMA GoesToNoCreator ==
  ASSUME TypeOK, NEW u \in Tasks, NEW pc, Goto(u, pc), pc # "create"
  PROVE  \A t \in Tasks : At(t, "create")' => task'[t] = task[t]
<1>1. [task[u] EXCEPT !.pc = pc].pc = pc BY DEF TypeOK, Task
<1> QED BY <1>1, BecomesNoCreator DEF Goto

LEMMA EndsNoCreator ==
  ASSUME TypeOK, NEW u \in Tasks, End(u)
  PROVE  \A t \in Tasks : At(t, "create")' => task'[t] = task[t]
BY BecomesNoCreator DEF End, Idle, Handler

\* Only a look-up that found nothing makes a creator.
LEMMA CreatorsComeFromLookUps ==
  ASSUME TypeOK, [Next]_vars
  PROVE  \/ \E u \in Tasks : FindEntry(u)
         \/ \A t \in Tasks : At(t, "create")' => task'[t] = task[t]
<1> DEFINE Kept == \A t \in Tasks : At(t, "create")' => task'[t] = task[t]
<1>a. \A u \in Tasks : task[u] \in Task BY DEF TypeOK
<1>1. ASSUME UNCHANGED vars PROVE Kept BY <1>1 DEF vars, At
<1>2. ASSUME NEW a \in Addresses, NEW u \in Tasks, JoinStream(a, u) \/ LeaveStream(a, u)
      PROVE  Kept
  BY <1>2, BecomesNoCreator DEF JoinStream, LeaveStream, Request, Handler
<1>3. ASSUME NEW u \in Tasks, JoinStep(u), ~FindEntry(u) PROVE Kept
  <2>1. CASE JoinCheck(u) BY <2>1, EndsNoCreator, GoesToNoCreator DEF JoinCheck
  <2>2. CASE TrackViewer(u) BY <2>2, GoesToNoCreator DEF TrackViewer
  <2>3. CASE FindStream(u)
    <3>1. [task[u] EXCEPT !.pc = "findEntry", !.views = totalViews].pc = "findEntry"
      BY <1>a DEF Task
    <3> QED BY <2>3, <3>1, BecomesNoCreator DEF FindStream
  <2>4. CASE CreateEntry(u) BY <2>4, GoesToNoCreator DEF CreateEntry
  <2>5. CASE RecordJoined(u) BY <2>5, GoesToNoCreator DEF RecordJoined
  <2>6. CASE SaveStream(u)
    <3>1. [task[u] EXCEPT !.pc = "incr", !.views = 0].pc = "incr" BY <1>a DEF Task
    <3> QED BY <2>6, <3>1, BecomesNoCreator DEF SaveStream
  <2>7. CASE IncrCounter(u) BY <2>7, EndsNoCreator DEF IncrCounter
  <2> QED BY <1>3, <2>1, <2>2, <2>3, <2>4, <2>5, <2>6, <2>7 DEF JoinStep
<1>4. ASSUME NEW u \in Tasks, LeaveStep(u) PROVE Kept
  <2>1. CASE LeaveCheck(u) BY <2>1, EndsNoCreator, GoesToNoCreator DEF LeaveCheck
  <2>2. CASE UntrackViewer(u) BY <2>2, GoesToNoCreator DEF UntrackViewer
  <2>3. CASE FindAnyEntry(u)
    <3>1. PICK i \in 1..entries[Of(u)] :
                 Become(u, [task[u] EXCEPT !.pc = "close", !.entry = i])
      BY <2>3 DEF FindAnyEntry
    <3>2. [task[u] EXCEPT !.pc = "close", !.entry = i].pc = "close" BY <1>a DEF Task
    <3> QED BY <3>1, <3>2, BecomesNoCreator
  <2>4. CASE FindsNoEntry(u) BY <2>4, GoesToNoCreator DEF FindsNoEntry
  <2>5. CASE CloseEntry(u)
    <3>1. [task[u] EXCEPT !.pc = "decr", !.entry = 0].pc = "decr" BY <1>a DEF Task
    <3> QED BY <2>5, <3>1, BecomesNoCreator DEF CloseEntry
  <2>6. CASE DecrCounter(u) BY <2>6, GoesToNoCreator DEF DecrCounter
  <2>7. CASE RecordLeft(u) BY <2>7, EndsNoCreator DEF RecordLeft
  <2> QED BY <1>4, <2>1, <2>2, <2>3, <2>4, <2>5, <2>6, <2>7 DEF LeaveStep
<1>5. ASSUME NEW u \in Tasks, CountStep(u) PROVE Kept
  <2>1. CASE GetCount(u, "peak", "peakDb") \/ GetCount(u, "emit", "emitDb")
    BY <2>1, GoesToNoCreator DEF GetCount
  <2>2. ASSUME NEW db, NEW cache \in {"peakCache", "emitCache"}, CountActivities(u, db, cache)
        PROVE  Kept
    <3>1. [task[u] EXCEPT !.pc = cache, !.count = balance].pc # "create" BY <1>a DEF Task
    <3> QED BY <2>2, <3>1, BecomesNoCreator DEF CountActivities
  <2>3. CASE PeakKnown(u) BY <2>3, GoesToNoCreator DEF PeakKnown
  <2>4. CASE PeakCached(u)
    <3>1. [task[u] EXCEPT !.pc = "save", !.count = 0].pc # "create" BY <1>a DEF Task
    <3> QED BY <2>4, <3>1, BecomesNoCreator DEF PeakCached
  <2>5. CASE EmitKnown(u) BY <2>5, EndsNoCreator DEF EmitKnown
  <2>6. CASE EmitCached(u) BY <2>6, EndsNoCreator DEF EmitCached
  <2> QED BY <1>5, <2>1, <2>2, <2>3, <2>4, <2>5, <2>6 DEF CountStep
<1>6. ASSUME NEW u \in Tasks, HandlerFails(u) PROVE Kept
  BY <1>6, EndsNoCreator DEF HandlerFails
<1>7. ASSUME (\E a \in Addresses : ViewerKeyGoes(a)) \/ StatusChanges PROVE Kept
  BY <1>7 DEF ViewerKeyGoes, StatusChanges, At
<1>8. ASSUME Restart PROVE Kept BY <1>8 DEF Restart, Idle, Handler, At
<1> HIDE DEF Kept
<1>9. (\E u \in Tasks : FindEntry(u)) \/ Kept
  BY <1>1, <1>2, <1>3, <1>4, <1>5, <1>6, <1>7, <1>8 DEF Next
<1> QED BY <1>9 DEF Kept

\* Only creating opens an entry.
LEMMA OpenedByCreation ==
  ASSUME TypeOK, [Next]_vars
  PROVE  \/ \E u \in Tasks : CreateEntry(u)
         \/ entries' = entries /\ \A a \in Addresses : open'[a] \subseteq open[a]
<1> USE DEF entryVars
<1>1. CASE UNCHANGED vars BY <1>1 DEF vars
<1>2. ASSUME NEW u \in Tasks, JoinStep(u), ~CreateEntry(u)
      PROVE  UNCHANGED <<entries, open>>
  BY <1>2 DEF JoinStep, JoinCheck, TrackViewer, FindStream, FindEntry, RecordJoined, SaveStream,
              IncrCounter, ReadOnly
<1>3. ASSUME NEW u \in Tasks, LeaveStep(u)
      PROVE  entries' = entries /\ \A a \in Addresses : open'[a] \subseteq open[a]
  BY <1>3 DEF LeaveStep, LeaveCheck, UntrackViewer, FindAnyEntry, FindsNoEntry, CloseEntry,
              DecrCounter, RecordLeft, ReadOnly, TypeOK
<1>4. ASSUME NEW u \in Tasks, CountStep(u) PROVE UNCHANGED <<entries, open>>
  BY <1>4 DEF CountStep, GetCount, CountActivities, PeakKnown, PeakCached, EmitKnown, EmitCached,
              CacheCount, ReadOnly
<1>5. ASSUME NEW a \in Addresses, NEW u \in Tasks, JoinStream(a, u) \/ LeaveStream(a, u)
      PROVE  UNCHANGED <<entries, open>>
  BY <1>5 DEF JoinStream, LeaveStream, Request
<1>6. ASSUME NEW u \in Tasks, HandlerFails(u) PROVE UNCHANGED <<entries, open>>
  BY <1>6 DEF HandlerFails, Fault
<1>7. CASE (\E a \in Addresses : ViewerKeyGoes(a)) \/ StatusChanges \/ Restart
  BY <1>7 DEF ViewerKeyGoes, StatusChanges, Restart, Fault
<1> QED BY <1>1, <1>2, <1>3, <1>4, <1>5, <1>6, <1>7 DEF Next

\* A look-up: one creator more, of an account without open entries.
LEMMA LookUpKeepsBound ==
  ASSUME TypeOK, TypeOK', DuplicatesAreBounded, NEW u \in Tasks, FindEntry(u)
  PROVE  DuplicatesAreBounded'
<1> SUFFICES ASSUME NEW a \in Addresses
             PROVE  Cardinality(open'[a]) + Cardinality(Creating(a)') <= Cardinality(Tasks)
  BY DEF DuplicatesAreBounded
<1>1. open' = open BY DEF FindEntry, ReadOnly, entryVars
<1>2. \A t \in Tasks \ {u} : task'[t] = task[t]
  BY DEF FindEntry, Goto, Become, TypeOK
<1>3. ~At(u, "create") BY DEF FindEntry, At
<1>4. CASE open[a] = {}
  <2>1. Cardinality(open'[a]) = 0 BY <1>1, <1>4, FS_EmptySet
  <2>2. Cardinality(Creating(a)') \in Nat /\ Cardinality(Creating(a)') <= Cardinality(Tasks)
    BY FiniteAssumption, FS_Subset, FS_CardinalityType DEF Creating
  <2> QED BY <2>1, <2>2, CountsAreFinite
<1>5. CASE open[a] # {}
  <2>1. At(u, "create")' => Of(u)' # a
    <3>1. task'[u].addr = task[u].addr BY DEF FindEntry, Goto, Become, TypeOK, Task
    <3>2. At(u, "create")' => open[Of(u)] = {}
      BY DEF FindEntry, Goto, Become, At, TypeOK, Task
    <3> QED BY <1>5, <3>1, <3>2 DEF Of
  <2>2. Creating(a)' \subseteq Creating(a) BY <1>2, <2>1 DEF Creating, At, Of
  <2> QED BY <1>1, <2>2, FewerDuplicates
<1> QED BY <1>4, <1>5

\* A creation: one creator less, one entry more.
LEMMA CreationKeepsBound ==
  ASSUME TypeOK, TypeOK', DuplicatesAreBounded, NEW u \in Tasks, CreateEntry(u)
  PROVE  DuplicatesAreBounded'
<1> SUFFICES ASSUME NEW a \in Addresses
             PROVE  Cardinality(open'[a]) + Cardinality(Creating(a)') <= Cardinality(Tasks)
  BY DEF DuplicatesAreBounded
<1>1. \A t \in Tasks \ {u} : task'[t] = task[t]
  BY DEF CreateEntry, Goto, Become, TypeOK
<1>2. ~At(u, "create")' BY DEF CreateEntry, Goto, Become, At, TypeOK, Task
<1>3. Creating(a)' = Creating(a) \ {u} BY <1>1, <1>2 DEF Creating, At, Of
<1>4. CASE Of(u) # a
  <2>1. open'[a] = open[a] BY <1>4 DEF CreateEntry, TypeOK
  <2> QED BY <1>3, <2>1, FewerDuplicates
<1>5. CASE Of(u) = a
  <2>1. open'[a] = open[a] \union {entries[a] + 1} BY <1>5 DEF CreateEntry, TypeOK
  <2>2. Cardinality(open'[a]) <= Cardinality(open[a]) + 1 /\ Cardinality(open'[a]) \in Nat
    <3>1. IsFiniteSet(open[a]) /\ Cardinality(open[a]) \in Nat BY CountsAreFinite
    <3>2. \/ Cardinality(open[a] \union {entries[a] + 1}) = Cardinality(open[a])
          \/ Cardinality(open[a] \union {entries[a] + 1}) = Cardinality(open[a]) + 1
      BY <3>1, FS_AddElement
    <3> QED BY <2>1, <3>1, <3>2
  <2>3. u \in Creating(a) BY <1>5 DEF CreateEntry, Creating
  <2>4. Cardinality(Creating(a)') = Cardinality(Creating(a)) - 1
    BY <1>3, <2>3, CountsAreFinite, FS_RemoveElement
  <2> QED BY <2>2, <2>4, CountsAreFinite DEF DuplicatesAreBounded
<1> QED BY <1>4, <1>5

\* Duplicate active entries of an account never outnumber the handlers in flight: what is
\* left of the idempotency that livestream.service.ts:313 asks for.
THEOREM DuplicatesAreBoundedHolds == Spec => []DuplicatesAreBounded
<1>1. Init => DuplicatesAreBounded
  <2> SUFFICES ASSUME Init, NEW a \in Addresses
               PROVE  Cardinality(open[a]) + Cardinality(Creating(a)) <= Cardinality(Tasks)
    BY DEF DuplicatesAreBounded
  <2>1. open[a] = {} /\ Creating(a) = {} BY DEF Init, Creating, At, Idle, Handler
  <2> QED BY <2>1, FS_EmptySet, FiniteAssumption, FS_CardinalityType
<1>2. TypeOK /\ TypeOK' /\ DuplicatesAreBounded /\ [Next]_vars => DuplicatesAreBounded'
  <2> SUFFICES ASSUME TypeOK, TypeOK', DuplicatesAreBounded, [Next]_vars
               PROVE  DuplicatesAreBounded'
    OBVIOUS
  <2>1. CASE \E u \in Tasks : FindEntry(u) BY <2>1, LookUpKeepsBound
  <2>2. CASE \E u \in Tasks : CreateEntry(u) BY <2>2, CreationKeepsBound
  <2>3. CASE ~(\E u \in Tasks : FindEntry(u)) /\ ~(\E u \in Tasks : CreateEntry(u))
    <3> SUFFICES ASSUME NEW a \in Addresses
                 PROVE  Cardinality(open'[a]) + Cardinality(Creating(a)') <= Cardinality(Tasks)
      BY DEF DuplicatesAreBounded
    <3>1. open'[a] \subseteq open[a] BY <2>3, OpenedByCreation
    <3>2. Creating(a)' \subseteq Creating(a)
      BY <2>3, CreatorsComeFromLookUps DEF Creating, At, Of
    <3> QED BY <3>1, <3>2, FewerDuplicates
  <2> QED BY <2>1, <2>2, <2>3
<1> QED BY <1>1, <1>2, TypesHold, PTL DEF Spec

-----------------------------------------------------------------------------
(***************************************************************************)
(* Views.  A join that read totalViews is bounded by the entries, and one  *)
(* that created an entry since by one less: another join may have saved    *)
(* the same number meanwhile, but no entry ever goes away.                 *)
(***************************************************************************)

EntryCount == Cardinality(AllEntries)

\* A handler that has read the stream, and one that has created its entry as well.
HasRead == {"findEntry", "create"}
HasCreated == {"recordJoined", "peak", "peakDb", "peakCache", "save"}

Fits(r, n) ==
  /\ r.pc \in HasRead => r.views <= n
  /\ r.pc \in HasCreated => r.views + 1 <= n

ViewsFit ==
  /\ ViewsAreEntries
  /\ \A t \in Tasks : Fits(task[t], EntryCount)

\* The entries are finitely many.
LEMMA EntriesAreFinite ==
  ASSUME TypeOK
  PROVE  IsFiniteSet(AllEntries) /\ EntryCount \in Nat
<1> DEFINE EntriesOf(a) == {a} \X (1..entries[a])
<1>1. ASSUME NEW a \in Addresses PROVE IsFiniteSet(EntriesOf(a))
  <2>1. IsFiniteSet(1..entries[a]) BY FS_Interval DEF TypeOK
  <2> QED BY <2>1, FS_Singleton, FS_Product
<1> HIDE DEF EntriesOf
<1>2. IsFiniteSet({EntriesOf(a) : a \in Addresses})
  <2> DEFINE S == {EntriesOf(a) : a \in Addresses}
             f == [a \in Addresses |-> EntriesOf(a)]
  <2>1. f \in Surjection(Addresses, S) BY DEF Surjection
  <2> HIDE DEF S, f
  <2>2. IsFiniteSet(S) BY <2>1, FiniteAssumption, FS_Surjection
  <2> QED BY <2>2 DEF S
<1>3. IsFiniteSet(UNION {EntriesOf(a) : a \in Addresses}) BY <1>1, <1>2, FS_UNION
<1> QED BY <1>3, FS_CardinalityType DEF AllEntries, EntriesOf, EntryCount

\* A creation is one entry more.
LEMMA CreationCounts ==
  ASSUME TypeOK, NEW u \in Tasks, CreateEntry(u)
  PROVE  EntryCount' = EntryCount + 1
<1> DEFINE a == Of(u)
           new == <<a, entries[a] + 1>>
<1>1. a \in Addresses /\ entries[a] \in Nat BY DEF CreateEntry, At, Of, TypeOK
<1>2. entries' = [entries EXCEPT ![a] = entries[a] + 1] BY DEF CreateEntry
<1>3. ASSUME NEW b \in Addresses
      PROVE  {b} \X (1..entries'[b]) =
               IF b = a THEN ({b} \X (1..entries[b])) \union {new} ELSE {b} \X (1..entries[b])
  BY <1>1, <1>2 DEF TypeOK
<1>4. AllEntries' = AllEntries \union {new} BY <1>1, <1>3 DEF AllEntries
<1>5. new \notin AllEntries BY <1>1 DEF AllEntries
<1> QED BY <1>4, <1>5, EntriesAreFinite, FS_AddElement DEF EntryCount

\* Entries never go away.
LEMMA EntriesStay ==
  ASSUME TypeOK, [Next]_vars
  PROVE  EntryCount' \in Nat /\ EntryCount <= EntryCount'
<1>1. CASE \E u \in Tasks : CreateEntry(u) BY <1>1, CreationCounts, EntriesAreFinite
<1>2. CASE entries' = entries
  <2>1. AllEntries' = AllEntries BY <1>2 DEF AllEntries
  <2> QED BY <2>1, EntriesAreFinite DEF EntryCount
<1> QED BY <1>1, <1>2, OpenedByCreation

\* A handler that becomes r, the others being where they were.
LEMMA BecomeFits ==
  ASSUME TypeOK, ViewsFit, [Next]_vars, NEW u \in Tasks, NEW r, Become(u, r), Fits(r, EntryCount')
  PROVE  \A t \in Tasks : Fits(task[t], EntryCount)'
<1> SUFFICES ASSUME NEW t \in Tasks PROVE Fits(task'[t], EntryCount') BY DEF Fits
<1>1. CASE t = u BY <1>1 DEF Become, TypeOK
<1>2. CASE t # u
  <2>1. task'[t] = task[t] BY <1>2 DEF Become, TypeOK
  <2>2. Fits(task[t], EntryCount) /\ task[t].views \in Nat BY DEF ViewsFit, TypeOK, Task
  <2> QED BY <2>1, <2>2, EntriesAreFinite, EntriesStay DEF Fits
<1> QED BY <1>1, <1>2

\* A handler that goes where no view is due.
LEMMA GotoFits ==
  ASSUME TypeOK, ViewsFit, [Next]_vars, NEW u \in Tasks, NEW pc, Goto(u, pc),
         pc \notin HasRead \union HasCreated
  PROVE  \A t \in Tasks : Fits(task[t], EntryCount)'
<1>1. [task[u] EXCEPT !.pc = pc].pc = pc BY DEF TypeOK, Task
<1>2. Fits([task[u] EXCEPT !.pc = pc], EntryCount') BY <1>1 DEF Fits
<1> QED BY <1>2, BecomeFits DEF Goto

\* A join that goes on to save.
LEMMA GoesOnToSave ==
  ASSUME TypeOK, ViewsFit, [Next]_vars, NEW u \in Tasks, NEW r, Become(u, r),
         task[u].pc \in HasCreated, r.views = task[u].views, r.pc \in HasCreated
  PROVE  \A t \in Tasks : Fits(task[t], EntryCount)'
<1>1. Fits(task[u], EntryCount) /\ task[u].views \in Nat BY DEF ViewsFit, TypeOK, Task
<1>2. task[u].views + 1 <= EntryCount' BY <1>1, EntriesAreFinite, EntriesStay DEF Fits
<1>3. r.pc \notin HasRead BY DEF HasRead, HasCreated
<1>4. Fits(r, EntryCount') BY <1>2, <1>3 DEF Fits
<1> QED BY <1>4, BecomeFits

\* A handler that ends.
LEMMA EndFits ==
  ASSUME TypeOK, ViewsFit, [Next]_vars, NEW u \in Tasks, End(u)
  PROVE  \A t \in Tasks : Fits(task[t], EntryCount)'
<1>1. Fits(Idle, EntryCount') BY DEF Fits, Idle, Handler, HasRead, HasCreated
<1> QED BY <1>1, BecomeFits DEF End

\* Every step of a handler keeps the views fitting.
LEMMA HandlerStepFits ==
  ASSUME TypeOK, ViewsFit, [Next]_vars, NEW u \in Tasks,
         JoinStep(u) \/ LeaveStep(u) \/ CountStep(u) \/ HandlerFails(u)
  PROVE  \A t \in Tasks : Fits(task[t], EntryCount)'
<1> USE DEF HasRead, HasCreated
<1>a. task[u] \in Task BY DEF TypeOK
<1>b. Fits(task[u], EntryCount) /\ ViewsAreEntries BY DEF ViewsFit
<1>c. EntryCount \in Nat /\ EntryCount' \in Nat /\ EntryCount <= EntryCount'
  BY EntriesAreFinite, EntriesStay
<1>1. CASE JoinCheck(u) BY <1>1, EndFits, GotoFits DEF JoinCheck
<1>2. CASE TrackViewer(u) BY <1>2, GotoFits DEF TrackViewer
<1>3. CASE FindStream(u)
  <2> DEFINE r == [task[u] EXCEPT !.pc = "findEntry", !.views = totalViews]
  <2>1. r.pc = "findEntry" /\ r.views = totalViews BY <1>a DEF Task
  <2>2. totalViews \in Nat /\ totalViews <= EntryCount'
    BY <1>b, <1>c DEF ViewsAreEntries, EntryCount, TypeOK
  <2>3. Fits(r, EntryCount') BY <2>1, <2>2 DEF Fits
  <2> QED BY <1>3, <2>3, BecomeFits DEF FindStream
<1>4. CASE FindEntry(u)
  <2>1. CASE open[Of(u)] # {} BY <1>4, <2>1, GotoFits DEF FindEntry
  <2>2. CASE open[Of(u)] = {}
    <3> DEFINE r == [task[u] EXCEPT !.pc = "create"]
    <3>1. r.pc = "create" /\ r.views = task[u].views BY <1>a DEF Task
    <3>2. task[u].views \in Nat /\ task[u].views <= EntryCount
      BY <1>4, <1>a, <1>b DEF FindEntry, At, Fits, Task
    <3>3. Fits(r, EntryCount') BY <1>c, <3>1, <3>2 DEF Fits
    <3> QED BY <1>4, <2>2, <3>3, BecomeFits DEF FindEntry, Goto
  <2> QED BY <2>1, <2>2
<1>5. CASE CreateEntry(u)
  <2> DEFINE r == [task[u] EXCEPT !.pc = "recordJoined"]
  <2>1. r.pc = "recordJoined" /\ r.views = task[u].views BY <1>a DEF Task
  <2>2. task[u].views \in Nat /\ task[u].views <= EntryCount
    BY <1>5, <1>a, <1>b DEF CreateEntry, At, Fits, Task
  <2>3. r.views + 1 <= EntryCount' BY <1>5, <1>c, <2>1, <2>2, CreationCounts
  <2>4. Fits(r, EntryCount') BY <2>1, <2>3 DEF Fits
  <2> QED BY <1>5, <2>4, BecomeFits DEF CreateEntry, Goto
<1>6. ASSUME NEW pc \in HasCreated, At(u, pc), NEW next \in HasCreated, Goto(u, next)
      PROVE  \A t \in Tasks : Fits(task[t], EntryCount)'
  <2> DEFINE r == [task[u] EXCEPT !.pc = next]
  <2>1. r.pc = next /\ r.views = task[u].views BY <1>a DEF Task
  <2> HIDE DEF r
  <2> QED BY <1>6, <2>1, GoesOnToSave DEF At, Goto, r
<1>7. CASE RecordJoined(u) BY <1>6, <1>7 DEF RecordJoined
<1>8. CASE SaveStream(u)
  <2> DEFINE r == [task[u] EXCEPT !.pc = "incr", !.views = 0]
  <2>1. r.pc = "incr" BY <1>a DEF Task
  <2>2. Fits(r, EntryCount') BY <2>1 DEF Fits
  <2> QED BY <1>8, <2>2, BecomeFits DEF SaveStream
<1>9. CASE IncrCounter(u) BY <1>9, EndFits DEF IncrCounter
<1>10. CASE LeaveStep(u)
  <2>1. CASE LeaveCheck(u) BY <2>1, EndFits, GotoFits DEF LeaveCheck
  <2>2. CASE UntrackViewer(u) BY <2>2, GotoFits DEF UntrackViewer
  <2>3. CASE FindAnyEntry(u)
    <3>1. PICK i \in 1..entries[Of(u)] :
                 Become(u, [task[u] EXCEPT !.pc = "close", !.entry = i])
      BY <2>3 DEF FindAnyEntry
    <3>2. [task[u] EXCEPT !.pc = "close", !.entry = i].pc = "close" BY <1>a DEF Task
    <3>3. Fits([task[u] EXCEPT !.pc = "close", !.entry = i], EntryCount') BY <3>2 DEF Fits
    <3> QED BY <3>1, <3>3, BecomeFits
  <2>4. CASE FindsNoEntry(u) BY <2>4, GotoFits DEF FindsNoEntry
  <2>5. CASE CloseEntry(u)
    <3>1. [task[u] EXCEPT !.pc = "decr", !.entry = 0].pc = "decr" BY <1>a DEF Task
    <3>2. Fits([task[u] EXCEPT !.pc = "decr", !.entry = 0], EntryCount') BY <3>1 DEF Fits
    <3> QED BY <2>5, <3>2, BecomeFits DEF CloseEntry
  <2>6. CASE DecrCounter(u) BY <2>6, GotoFits DEF DecrCounter
  <2>7. CASE RecordLeft(u) BY <2>7, EndFits DEF RecordLeft
  <2> QED BY <1>10, <2>1, <2>2, <2>3, <2>4, <2>5, <2>6, <2>7 DEF LeaveStep
<1>11. CASE CountStep(u)
  <2>1. CASE GetCount(u, "peak", "peakDb") BY <1>6, <2>1 DEF GetCount
  <2>2. CASE GetCount(u, "emit", "emitDb") BY <2>2, GotoFits DEF GetCount
  <2>3. CASE CountActivities(u, "peakDb", "peakCache")
    <3> DEFINE r == [task[u] EXCEPT !.pc = "peakCache", !.count = balance]
    <3>1. r.pc = "peakCache" /\ r.views = task[u].views BY <1>a DEF Task
    <3> HIDE DEF r
    <3> QED BY <2>3, <3>1, GoesOnToSave DEF CountActivities, At, r
  <2>4. CASE CountActivities(u, "emitDb", "emitCache")
    <3> DEFINE r == [task[u] EXCEPT !.pc = "emitCache", !.count = balance]
    <3>1. r.pc = "emitCache" BY <1>a DEF Task
    <3>2. Fits(r, EntryCount') BY <3>1 DEF Fits
    <3> QED BY <2>4, <3>2, BecomeFits DEF CountActivities
  <2>5. CASE PeakKnown(u) BY <1>6, <2>5 DEF PeakKnown
  <2>6. CASE PeakCached(u)
    <3> DEFINE r == [task[u] EXCEPT !.pc = "save", !.count = 0]
    <3>1. r.pc = "save" /\ r.views = task[u].views BY <1>a DEF Task
    <3> HIDE DEF r
    <3> QED BY <2>6, <3>1, GoesOnToSave DEF PeakCached, At, r
  <2>7. CASE EmitKnown(u) BY <2>7, EndFits DEF EmitKnown
  <2>8. CASE EmitCached(u) BY <2>8, EndFits DEF EmitCached
  <2> QED BY <1>11, <2>1, <2>2, <2>3, <2>4, <2>5, <2>6, <2>7, <2>8 DEF CountStep
<1>12. CASE HandlerFails(u) BY <1>12, EndFits DEF HandlerFails
<1> QED BY <1>1, <1>2, <1>3, <1>4, <1>5, <1>7, <1>8, <1>9, <1>10, <1>11, <1>12 DEF JoinStep

\* Only a save changes totalViews.
LEMMA SavedViewsFit ==
  ASSUME TypeOK, ViewsFit, [Next]_vars
  PROVE  ViewsAreEntries'
<1>1. totalViews' = totalViews \/ \E u \in Tasks : SaveStream(u)
  BY DEF Next, vars, JoinStream, LeaveStream, Request, ReadOnly, JoinStep, LeaveStep, CountStep,
         JoinCheck, TrackViewer, FindStream, FindEntry, CreateEntry, RecordJoined, IncrCounter,
         LeaveCheck, UntrackViewer, FindAnyEntry, FindsNoEntry, CloseEntry, DecrCounter,
         RecordLeft, GetCount, CountActivities, PeakKnown, PeakCached, EmitKnown, EmitCached,
         CacheCount, HandlerFails, Fault, ViewerKeyGoes, StatusChanges, Restart
<1>2. EntryCount \in Nat /\ EntryCount' \in Nat /\ EntryCount <= EntryCount'
  BY EntriesAreFinite, EntriesStay
<1>3. CASE totalViews' = totalViews
  BY <1>2, <1>3 DEF ViewsFit, ViewsAreEntries, EntryCount, TypeOK
<1>4. ASSUME NEW u \in Tasks, SaveStream(u) PROVE ViewsAreEntries'
  <2>1. task[u].views + 1 <= EntryCount /\ task[u].views \in Nat
    BY <1>4 DEF ViewsFit, Fits, SaveStream, At, HasCreated, TypeOK, Task
  <2> QED BY <1>2, <1>4, <2>1 DEF SaveStream, ViewsAreEntries, EntryCount
<1> QED BY <1>1, <1>3, <1>4

\* totalViews never exceeds the viewer entries, whatever joins overlap and fail: a view is
\* counted only by a join that created an entry (livestream.service.ts:337).
THEOREM ViewsAreEntriesHolds == Spec => []ViewsAreEntries
<1>1. Init => ViewsFit
  <2> SUFFICES ASSUME Init PROVE ViewsFit OBVIOUS
  <2>1. AllEntries = {} BY DEF Init, AllEntries
  <2>2. \A t \in Tasks : task[t].pc = "idle" BY DEF Init, Idle, Handler
  <2>3. ViewsAreEntries BY <2>1, FS_EmptySet DEF ViewsAreEntries, Init
  <2> QED BY <2>2, <2>3 DEF ViewsFit, Fits, HasRead, HasCreated
<1>2. TypeOK /\ ViewsFit /\ [Next]_vars => ViewsFit'
  <2> SUFFICES ASSUME TypeOK, ViewsFit, [Next]_vars PROVE ViewsFit' OBVIOUS
  <2>1. SUFFICES \A t \in Tasks : Fits(task[t], EntryCount)' BY SavedViewsFit DEF ViewsFit
  <2>2. CASE \E u \in Tasks : JoinStep(u) \/ LeaveStep(u) \/ CountStep(u) \/ HandlerFails(u)
    BY <2>2, HandlerStepFits
  <2>3. ASSUME NEW a \in Addresses, NEW u \in Tasks, JoinStream(a, u) \/ LeaveStream(a, u)
        PROVE  \A t \in Tasks : Fits(task[t], EntryCount)'
    <3>1. PICK pc \in {"joinCheck", "leaveCheck"} : Become(u, Handler(pc, a))
      BY <2>3 DEF JoinStream, LeaveStream, Request
    <3>2. Fits(Handler(pc, a), EntryCount') BY DEF Fits, Handler, HasRead, HasCreated
    <3> QED BY <3>1, <3>2, BecomeFits
  <2>4. CASE Restart BY <2>4 DEF Restart, Idle, Handler, Fits, HasRead, HasCreated
  <2>5. CASE (\E a \in Addresses : ViewerKeyGoes(a)) \/ StatusChanges \/ UNCHANGED vars
    <3>1. task' = task /\ entries' = entries
      BY <2>5 DEF ViewerKeyGoes, StatusChanges, vars, entryVars
    <3>2. EntryCount' = EntryCount BY <3>1 DEF EntryCount, AllEntries
    <3> QED BY <3>1, <3>2 DEF ViewsFit
  <2> QED BY <2>2, <2>3, <2>4, <2>5 DEF Next
<1>3. ViewsFit => ViewsAreEntries BY DEF ViewsFit
<1> QED BY <1>1, <1>2, <1>3, TypesHold, PTL DEF Spec
=============================================================================
