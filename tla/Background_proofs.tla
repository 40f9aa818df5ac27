--------------------------- MODULE Background_proofs ---------------------------
(***************************************************************************)
(* Proofs about the cron loop that copies chain events into the database.  *)
(* They hold for any chain, any limits of blocks and items, and any number *)
(* of loops that run at once.                                              *)
(***************************************************************************)
EXTENDS ChainIndexer, FiniteSetTheorems, TLAPS

\* Every kind of event stands for one to five updates of different names.
LEMMA UpdatesShape ==
  ASSUME NEW y \in Types
  PROVE  /\ Updates(y) \in Seq(UpdateNames) /\ Len(Updates(y)) \in 1 .. 5
         /\ \A i, j \in 1 .. Len(Updates(y)) : Updates(y)[i] = Updates(y)[j] => i = j
         /\ \A i \in 1 .. Len(Updates(y)) :
              Updates(y)[i] = "token" => i = Len(Updates(y)) /\ ListOfType(y) = 3
<1>1. CASE y = "TRANSFER"
  BY <1>1 DEF Updates, UpdateNames
<1>2. CASE y = "STAKE"
  BY <1>2 DEF Updates, UpdateNames
<1>3. CASE y = "TIP"
  BY <1>3 DEF Updates, UpdateNames
<1>4. CASE y = "PPV"
  BY <1>4 DEF Updates, UpdateNames
<1>5. CASE y = "BOUNTY"
  BY <1>5 DEF Updates, UpdateNames
<1>6. CASE y = "MINT"
  BY <1>6 DEF Updates, UpdateNames, ListOfType
<1>7. CASE y = "NFT"
  BY <1>7 DEF Updates, UpdateNames, ListOfType
<1> QED
  BY <1>1, <1>2, <1>3, <1>4, <1>5, <1>6, <1>7 DEF Types

\* The updates of an event are the names at its steps.
LEMMA UpdatesAreSteps ==
  ASSUME NEW e \in Events
  PROVE  \A n \in UpdatesOf(e) : \E i \in 1 .. Len(Updates(Type[e])) : Updates(Type[e])[i] = n
<1>1. Type[e] \in Types
  BY TypeAssumption
<1>2. Updates(Type[e]) \in Seq(UpdateNames)
  BY <1>1, UpdatesShape
<1> QED
  BY <1>2 DEF UpdatesOf, ToSet

-----------------------------------------------------------------------------
(***************************************************************************)
(* The steps of a loop.                                                    *)
(***************************************************************************)

LoopBecomes(l, q) ==
  /\ q \in Loop
  /\ loop' = [loop EXCEPT ![l] = q]

LEMMA OtherLoops ==
  ASSUME loop \in [Loops -> Loop], NEW l \in Loops, NEW q, LoopBecomes(l, q)
  PROVE  /\ loop' \in [Loops -> Loop] /\ loop'[l] = q
         /\ \A k \in Loops : k # l => loop'[k] = loop[k]
  BY DEF LoopBecomes

\* Between two events a loop is at its first step, and within one at a step that the
\* event has.
AtOK(q) ==
  /\ q.at = NoEvent => q.step = 1
  /\ q.at # NoEvent => q.pc = "work" /\ q.at \in q.todo /\ q.step \in 1 .. Len(Updates(Type[q.at]))

LoopTypes == IndexTypeOK /\ \A l \in Loops : AtOK(loop[l])

LEMMA IdleIsLoop ==
  /\ IdleLoop \in Loop /\ AtOK(IdleLoop)
  /\ IdleLoop.pc = "idle" /\ IdleLoop.at = NoEvent /\ IdleLoop.todo = {} /\ IdleLoop.step = 1
  BY DEF IdleLoop, Loop, AtOK

LEMMA ReadCursorOutcome ==
  ASSUME LoopTypes, NEW l \in Loops, ReadCursor(l)
  PROVE  \E q \in Loop :
           /\ LoopBecomes(l, q) /\ AtOK(q) /\ q.pc = "fetch"
           /\ q.start = cursor + 1 /\ q.start <= q.end /\ q.todo = {} /\ q.at = NoEvent
<1> DEFINE start == cursor + 1
           end == cursor + BlockLimit
           q == [IdleLoop EXCEPT !.pc = "fetch", !.start = start, !.end = end]
<1>1. loop' = [loop EXCEPT ![l] = q]
  BY DEF ReadCursor
<1>2. start \in Nat /\ end \in Nat /\ start <= end
  BY LimitAssumption DEF LoopTypes, IndexTypeOK
<1> HIDE DEF start, end
<1>3. q \in Loop
  BY <1>2, IdleIsLoop DEF Loop
<1>4. q.pc = "fetch" /\ q.start = start /\ q.end = end /\ q.todo = {} /\ q.at = NoEvent /\ q.step = 1
  BY DEF IdleLoop
<1> HIDE DEF q
<1> QED
  BY <1>1, <1>2, <1>3, <1>4 DEF LoopBecomes, AtOK, start

LEMMA FetchOutcome ==
  ASSUME LoopTypes, NEW l \in Loops, Fetch(l)
  PROVE  \/ LoopBecomes(l, IdleLoop) /\ skipped' = skipped
         \/ \E q \in Loop :
              /\ LoopBecomes(l, q) /\ AtOK(q) /\ q.pc = "work" /\ q.at = NoEvent
              /\ q.start = loop[l].start
              /\ q.start <= head /\ q.end <= head /\ q.end <= loop[l].end
              /\ q.end = head \/ q.end = loop[l].end
              /\ q.todo \subseteq InRange(l) /\ IsPage(q.todo, InRange(l))
              /\ skipped' = skipped \union (InRange(l) \ q.todo)
<1>1. loop[l] \in Loop /\ AtOK(loop[l]) /\ loop[l].pc = "fetch" /\ head \in Nat
  BY DEF LoopTypes, IndexTypeOK, Fetch
<1>2. CASE head < loop[l].start
  BY <1>2, IdleIsLoop DEF Fetch, LoopBecomes
<1>3. CASE ~(head < loop[l].start)
  <2>1. PICK S \in SUBSET InRange(l) :
          /\ IsPage(S, InRange(l))
          /\ loop' = [loop EXCEPT ![l].pc = "work", ![l].todo = S,
                        ![l].end = IF head < @ THEN head ELSE @]
          /\ skipped' = skipped \union (InRange(l) \ S)
    BY Zenon, <1>3 DEF Fetch
  <2> DEFINE end == IF head < loop[l].end THEN head ELSE loop[l].end
             q == [loop[l] EXCEPT !.pc = "work", !.todo = S, !.end = end]
  <2>2. loop' = [loop EXCEPT ![l] = q]
    BY Zenon, <2>1
  <2>3. /\ end \in Nat /\ end <= head /\ end <= loop[l].end /\ loop[l].start <= head
        /\ end = head \/ end = loop[l].end
    BY <1>1, <1>3 DEF Loop
  <2> HIDE DEF end
  <2>4. S \in SUBSET Events
    BY <2>1 DEF InRange
  <2>5. q \in Loop
    BY <1>1, <2>3, <2>4 DEF Loop
  <2>6. /\ q.pc = "work" /\ q.todo = S /\ q.end = end
        /\ q.start = loop[l].start /\ q.at = loop[l].at /\ q.step = loop[l].step
    BY <1>1 DEF Loop
  <2> HIDE DEF q
  <2>7. q.at = NoEvent /\ AtOK(q)
    BY <1>1, <2>6 DEF AtOK
  <2> QED
    BY <2>1, <2>2, <2>3, <2>5, <2>6, <2>7 DEF LoopBecomes
<1> QED
  BY <1>2, <1>3

LEMMA NextStepInside ==
  \A n \in 1 .. 5 :
    /\ 1 \in 1 .. n
    /\ \A i \in 1 .. n : i # n => i + 1 \in 1 .. n /\ i + 1 \in 1 .. 5
  OBVIOUS

\* The step at which the loop is belongs to the event it works on.
LEMMA StepInside ==
  ASSUME LoopTypes, NEW l \in Loops, NEW e \in Events, loop[l].pc = "work", NextEvent(l, e)
  PROVE  /\ loop[l].step \in 1 .. Len(Updates(Type[e]))
         /\ Updates(Type[e])[loop[l].step] \in UpdatesOf(e)
         /\ Updates(Type[e])[loop[l].step] \in UpdateNames
         /\ Len(Updates(Type[e])) \in 1 .. 5
         /\ e \in loop[l].todo
         /\ loop[l].at = NoEvent => loop[l].step = 1
         /\ loop[l].at # NoEvent => e = loop[l].at
<1>1. AtOK(loop[l])
  BY DEF LoopTypes
<1>2. Type[e] \in Types
  BY TypeAssumption
<1>3. Updates(Type[e]) \in Seq(UpdateNames) /\ Len(Updates(Type[e])) \in 1 .. 5
  BY <1>2, UpdatesShape
<1>4. loop[l].step \in 1 .. Len(Updates(Type[e]))
  <2>1. CASE loop[l].at = NoEvent
    BY <1>1, <1>3, <2>1, NextStepInside DEF AtOK
  <2>2. CASE loop[l].at # NoEvent
    BY <1>1, <2>2 DEF AtOK, NextEvent
  <2> QED
    BY <2>1, <2>2
<1> QED
  BY <1>1, <1>3, <1>4 DEF AtOK, NextEvent, UpdatesOf, ToSet

LEMMA AfterOutcome ==
  ASSUME LoopTypes, NEW l \in Loops, NEW e \in Events, loop[l].pc = "work", NextEvent(l, e),
         loop' = [loop EXCEPT ![l] = AfterUpdate(l, e)]
  PROVE  \E q \in Loop :
           /\ LoopBecomes(l, q) /\ AtOK(q) /\ q.pc = "work"
           /\ q.start = loop[l].start /\ q.end = loop[l].end
           /\ \/ /\ loop[l].step = Len(Updates(Type[e]))
                 /\ q.todo = loop[l].todo \ {e} /\ q.at = NoEvent
              \/ /\ loop[l].step # Len(Updates(Type[e]))
                 /\ q.todo = loop[l].todo /\ q.at = e /\ q.step = loop[l].step + 1
<1>1. loop[l] \in Loop /\ AtOK(loop[l])
  BY DEF LoopTypes, IndexTypeOK
<1>2. loop[l].step \in 1 .. Len(Updates(Type[e])) /\ Len(Updates(Type[e])) \in 1 .. 5 /\ e \in loop[l].todo
  BY StepInside
<1>3. CASE loop[l].step = Len(Updates(Type[e]))
  <2> DEFINE todo == loop[l].todo \ {e}
             step == 1
             q == [loop[l] EXCEPT !.todo = todo, !.at = NoEvent, !.step = step]
  <2>1. loop' = [loop EXCEPT ![l] = q]
    BY <1>3 DEF AfterUpdate
  <2>4. todo \in SUBSET Events
    BY <1>1 DEF Loop
  <2>5. step \in 1 .. 5
    OBVIOUS
  <2> HIDE DEF todo, step
  <2>2. q \in Loop
    BY <1>1, <2>4, <2>5 DEF Loop
  <2>3. /\ q.pc = loop[l].pc /\ q.start = loop[l].start /\ q.end = loop[l].end
        /\ q.todo = todo /\ q.at = NoEvent /\ q.step = step
    BY <1>1 DEF Loop
  <2> HIDE DEF q
  <2> QED
    BY <1>3, <2>1, <2>2, <2>3 DEF LoopBecomes, AtOK, todo, step
<1>4. CASE loop[l].step # Len(Updates(Type[e]))
  <2> DEFINE step == loop[l].step + 1
             q == [loop[l] EXCEPT !.at = e, !.step = step]
  <2>1. loop' = [loop EXCEPT ![l] = q]
    BY <1>4 DEF AfterUpdate
  <2>2. step \in 1 .. Len(Updates(Type[e])) /\ step \in 1 .. 5
    BY <1>2, <1>4, NextStepInside
  <2> HIDE DEF step
  <2>3. q \in Loop
    BY <1>1, <2>2 DEF Loop
  <2>4. /\ q.pc = loop[l].pc /\ q.start = loop[l].start /\ q.end = loop[l].end
        /\ q.todo = loop[l].todo /\ q.at = e /\ q.step = step
    BY <1>1 DEF Loop
  <2> HIDE DEF q
  <2>5. AtOK(q)
    BY <1>2, <2>2, <2>4, NoEventAssumption DEF AtOK
  <2> QED
    BY <1>4, <2>1, <2>3, <2>4, <2>5 DEF LoopBecomes, step
<1> QED
  BY <1>3, <1>4

\* One more update of an event.
LEMMA UpdateApplies ==
  ASSUME LoopTypes, NEW e \in Events, NEW name \in UpdateNames,
         applied' = [applied EXCEPT ![e][name] = @ + 1]
  PROVE  /\ applied' \in [Events -> [UpdateNames -> Nat]]
         /\ applied'[e][name] = applied[e][name] + 1
         /\ \A f \in Events, n \in UpdateNames : applied[f][n] \in Nat /\ applied'[f][n] \in Nat
         /\ \A f \in Events, n \in UpdateNames :
              f # e \/ n # name => applied'[f][n] = applied[f][n]
  BY DEF LoopTypes, IndexTypeOK

\* The update of a loop, whatever its name is.
LEMMA UpdateOutcome ==
  ASSUME LoopTypes, NEW l \in Loops, NEW e \in Events, Update(l, e)
  PROVE  \E name \in UpdateNames :
           /\ name = Updates(Type[e])[loop[l].step]
           /\ applied'[e][name] = applied[e][name] + 1
           /\ applied'[e][name] > 0
           /\ \A f \in Events, n \in UpdateNames : applied[f][n] \in Nat /\ applied'[f][n] \in Nat
           /\ \A f \in Events, n \in UpdateNames :
                f # e \/ n # name => applied'[f][n] = applied[f][n]
<1>1. PICK name \in UpdateNames : name = Updates(Type[e])[loop[l].step]
  BY StepInside DEF Update
<1>2. applied' = [applied EXCEPT ![e][name] = @ + 1]
  BY <1>1 DEF Update
<1>3. /\ applied'[e][name] = applied[e][name] + 1
      /\ \A f \in Events, n \in UpdateNames : applied[f][n] \in Nat /\ applied'[f][n] \in Nat
      /\ \A f \in Events, n \in UpdateNames :
           f # e \/ n # name => applied'[f][n] = applied[f][n]
  BY <1>2 DEF LoopTypes, IndexTypeOK
<1>4. applied[e][name] \in Nat /\ applied[e][name] + 1 > 0
  BY <1>3
<1> QED
  BY <1>1, <1>3, <1>4

LEMMA TypesStep == LoopTypes /\ [IndexNext]_chainVars => LoopTypes'
<1> SUFFICES ASSUME LoopTypes, [IndexNext]_chainVars PROVE LoopTypes'
  OBVIOUS
<1> USE DEF LoopTypes
<1>1. CASE UNCHANGED chainVars
  BY <1>1 DEF chainVars, dataVars, noteVars, IndexTypeOK, AtOK
<1>2. CASE GraphSyncs
  BY <1>2 DEF GraphSyncs, dataVars, noteVars, IndexTypeOK, AtOK
<1>3. ASSUME NEW l \in Loops, NEW q \in Loop, LoopBecomes(l, q), AtOK(q)
      PROVE  /\ loop' \in [Loops -> Loop]
             /\ \A k \in Loops : AtOK(loop[k])'
             /\ \A k \in Loops : loop'[k].at # NoEvent => loop'[k].at \in loop'[k].todo
  <2>1. loop' \in [Loops -> Loop] /\ \A k \in Loops : AtOK(loop[k])'
    BY <1>3, OtherLoops DEF IndexTypeOK, AtOK
  <2> QED
    BY <2>1 DEF AtOK
<1>4. ASSUME NEW l \in Loops, ReadCursor(l) PROVE LoopTypes'
  <2>1. \E q \in Loop : LoopBecomes(l, q) /\ AtOK(q)
    BY <1>4, ReadCursorOutcome
  <2>2. overlapped' \in BOOLEAN /\ ticks' \in Nat
    BY <1>4 DEF ReadCursor, IndexTypeOK
  <2>3. UNCHANGED <<head, cursor, dataVars, skipped, troubled>>
    BY <1>4 DEF ReadCursor
  <2> QED
    BY <1>3, <2>1, <2>2, <2>3 DEF dataVars, IndexTypeOK
<1>5. ASSUME NEW l \in Loops, LoopBecomes(l, IdleLoop), skipped' = skipped, cursor' \in Nat,
             UNCHANGED <<head, dataVars, overlapped, ticks>>, troubled' \in BOOLEAN
      PROVE  LoopTypes'
  BY <1>3, <1>5, IdleIsLoop DEF dataVars, IndexTypeOK
<1>6. ASSUME NEW l \in Loops, Fetch(l) PROVE LoopTypes'
  <2>1. UNCHANGED <<head, cursor, dataVars, troubled, overlapped, ticks>>
    BY <1>6 DEF Fetch
  <2>2. CASE LoopBecomes(l, IdleLoop) /\ skipped' = skipped
    BY <1>5, <2>1, <2>2 DEF IndexTypeOK
  <2>3. CASE \E q \in Loop : /\ LoopBecomes(l, q) /\ AtOK(q)
                            /\ skipped' = skipped \union (InRange(l) \ q.todo)
    BY <1>3, <2>1, <2>3 DEF dataVars, IndexTypeOK, InRange
  <2> QED
    BY <1>6, <2>2, <2>3, FetchOutcome
<1>7. ASSUME NEW l \in Loops, FetchFails(l) \/ StoreCursor(l) \/ LoopFails(l) PROVE LoopTypes'
  <2>1. LoopBecomes(l, IdleLoop)
    BY <1>7, IdleIsLoop DEF FetchFails, StoreCursor, LoopFails, LoopBecomes
  <2>2. loop[l].end \in Nat
    BY DEF IndexTypeOK, Loop
  <2> QED
    BY <1>5, <1>7, <2>1, <2>2 DEF FetchFails, StoreCursor, LoopFails, dataVars, noteVars, IndexTypeOK
<1>8. ASSUME NEW l \in Loops, NEW e \in Events, Update(l, e) PROVE LoopTypes'
  <2>1. PICK q \in Loop : LoopBecomes(l, q) /\ AtOK(q)
    BY <1>8, AfterOutcome DEF Update
  <2>2. applied' \in [Events -> [UpdateNames -> Nat]]
    BY <1>8, StepInside, UpdateApplies DEF Update
  <2>3. ownerBy' \in Events \union {NoEvent}
    BY <1>8 DEF Update, IndexTypeOK, Loop
  <2> QED
    BY <1>3, <1>8, <2>1, <2>2, <2>3 DEF Update, noteVars, IndexTypeOK
<1>9. ASSUME NEW l \in Loops, NEW e \in Events, TokenUpdateFails(l, e) PROVE LoopTypes'
  <2>1. PICK q \in Loop : LoopBecomes(l, q) /\ AtOK(q)
    BY <1>9, AfterOutcome DEF TokenUpdateFails
  <2> QED
    BY <1>3, <1>9, <2>1 DEF TokenUpdateFails, dataVars, IndexTypeOK
<1> QED
  BY <1>1, <1>2, <1>4, <1>6, <1>7, <1>8, <1>9 DEF IndexNext

\* What the cursor, the loops and the applied updates may be.
THEOREM IndexTypesHold == IndexSpec => []LoopTypes
<1>1. IndexInit => LoopTypes
  <2> SUFFICES ASSUME IndexInit PROVE LoopTypes
    OBVIOUS
  <2>1. loop \in [Loops -> Loop] /\ \A l \in Loops : loop[l] = IdleLoop
    BY IdleIsLoop DEF IndexInit
  <2>2. applied \in [Events -> [UpdateNames -> Nat]]
    BY DEF IndexInit
  <2> QED
    BY <2>1, <2>2, IdleIsLoop DEF IndexInit, LoopTypes, IndexTypeOK
<1> QED
  BY <1>1, TypesStep, PTL DEF IndexSpec

-----------------------------------------------------------------------------
(***************************************************************************)
(* No event is lost.                                                       *)
(***************************************************************************)

Settled(e) == e \in skipped \/ \A n \in UpdatesOf(e) : applied[e][n] > 0

\* A loop has settled what lies before its range, and within its range what is not to do
\* any more; of the event it works on it has made the updates before its step.
Accounted(q) ==
  /\ q.pc # "idle" => \A e \in Events : Block[e] < q.start => Settled(e)
  /\ q.pc = "work" =>
       /\ \A e \in Events : Block[e] <= q.end => e \in q.todo \/ Settled(e)
       /\ q.at # NoEvent => \A i \in 1 .. Len(Updates(Type[q.at])) :
            i < q.step => applied[q.at][Updates(Type[q.at])[i]] > 0

LosesNothing == NothingLost /\ \A l \in Loops : Accounted(loop[l])

\* What has been applied or skipped stays so.
ChainGrows ==
  /\ skipped \subseteq skipped'
  /\ \A e \in Events, n \in UpdateNames : applied[e][n] > 0 => applied'[e][n] > 0

LEMMA GrowingKeeps ==
  ASSUME ChainGrows
  PROVE  /\ \A e \in Events : Settled(e) => Settled(e)'
         /\ \A q \in Loop : AtOK(q) /\ Accounted(q) => Accounted(q)'
<1>1. ASSUME NEW e \in Events PROVE UpdatesOf(e) \subseteq UpdateNames
  BY <1>1, TypeAssumption, UpdatesShape DEF UpdatesOf, ToSet
<1>2. \A e \in Events : Settled(e) => Settled(e)'
  BY <1>1 DEF ChainGrows, Settled
<1>3. ASSUME NEW q \in Loop, AtOK(q), Accounted(q) PROVE Accounted(q)'
  <2>1. ASSUME q.pc = "work", q.at # NoEvent
        PROVE  q.at \in Events /\ \A i \in 1 .. Len(Updates(Type[q.at])) : Updates(Type[q.at])[i] \in UpdateNames
    BY <2>1, TypeAssumption, UpdatesShape DEF Loop
  <2> QED
    BY <1>2, <1>3, <2>1 DEF Accounted, ChainGrows
<1> QED
  BY <1>2, <1>3

LEMMA StepGrows ==
  ASSUME LoopTypes, [IndexNext]_chainVars
  PROVE  ChainGrows
<1>1. CASE UNCHANGED <<skipped, applied>>
  BY <1>1 DEF ChainGrows
<1>2. ASSUME NEW l \in Loops, Fetch(l) PROVE ChainGrows
  BY <1>2 DEF Fetch, dataVars, ChainGrows
<1>3. ASSUME NEW l \in Loops, NEW e \in Events, Update(l, e) PROVE ChainGrows
  <2>1. /\ \A f \in Events, n \in UpdateNames : applied[f][n] \in Nat /\ applied'[f][n] \in Nat
        /\ \E name \in UpdateNames : /\ applied'[e][name] = applied[e][name] + 1
                                     /\ \A f \in Events, n \in UpdateNames :
                                          f # e \/ n # name => applied'[f][n] = applied[f][n]
    BY <1>3, UpdateOutcome
  <2>2. skipped' = skipped
    BY <1>3 DEF Update, noteVars
  <2> QED
    BY <2>1, <2>2 DEF ChainGrows
<1>4. ASSUME NEW l \in Loops, NEW e \in Events, TokenUpdateFails(l, e) PROVE ChainGrows
  BY <1>4 DEF TokenUpdateFails, dataVars, ChainGrows
<1> QED
  BY <1>1, <1>2, <1>3, <1>4 DEF IndexNext, GraphSyncs, ReadCursor, FetchFails, StoreCursor, LoopFails,
     dataVars, noteVars, chainVars

\* Only the loop that moves has to be looked at.
LEMMA OneLoopMoves ==
  ASSUME LoopTypes, LosesNothing, ChainGrows, NEW l \in Loops, NEW q \in Loop, LoopBecomes(l, q),
         Accounted(q)', cursor' = cursor \/ \A e \in Events : Block[e] <= cursor' => Settled(e)
  PROVE  LosesNothing'
<1>1. loop'[l] = q /\ \A k \in Loops : k # l => loop'[k] = loop[k]
  BY OtherLoops DEF LoopTypes, IndexTypeOK
<1>2. \A k \in Loops : loop[k] \in Loop /\ AtOK(loop[k])
  BY DEF LoopTypes, IndexTypeOK
<1>3. \A k \in Loops : Accounted(loop[k])'
  BY <1>1, <1>2, GrowingKeeps DEF LosesNothing
<1>4. NothingLost'
  BY GrowingKeeps DEF LosesNothing, NothingLost, Settled
<1> QED
  BY <1>3, <1>4 DEF LosesNothing

LEMMA BlocksAreNumbers == \A e \in Events : Block[e] \in Nat /\ Block[e] > 0
  BY BlockAssumption

LEMMA LosesNothingStep == LoopTypes /\ LosesNothing /\ [IndexNext]_chainVars => LosesNothing'
<1> SUFFICES ASSUME LoopTypes, LosesNothing, [IndexNext]_chainVars PROVE LosesNothing'
  OBVIOUS
<1>0. ChainGrows
  BY StepGrows
<1>1. ASSUME UNCHANGED <<cursor, loop>> PROVE LosesNothing'
  <2>1. \A k \in Loops : loop[k] \in Loop /\ AtOK(loop[k])
    BY DEF LoopTypes, IndexTypeOK
  <2>2. \A k \in Loops : Accounted(loop[k])'
    BY <1>0, <1>1, <2>1, GrowingKeeps DEF LosesNothing
  <2> QED
    BY <1>0, <1>1, <2>2, GrowingKeeps DEF LosesNothing, NothingLost, Settled
<1>2. ASSUME NEW l \in Loops, LoopBecomes(l, IdleLoop), cursor' = cursor PROVE LosesNothing'
  <2>1. Accounted(IdleLoop)'
    BY IdleIsLoop DEF Accounted
  <2> QED
    BY <1>0, <1>2, <2>1, IdleIsLoop, OneLoopMoves
<1>3. ASSUME NEW l \in Loops, ReadCursor(l) PROVE LosesNothing'
  <2>1. PICK q \in Loop : LoopBecomes(l, q) /\ q.pc = "fetch" /\ q.start = cursor + 1
    BY <1>3, ReadCursorOutcome
  <2>2. \A e \in Events : Block[e] < q.start => Settled(e)
    BY <2>1, BlocksAreNumbers DEF LosesNothing, NothingLost, Settled, LoopTypes, IndexTypeOK
  <2>3. Accounted(q)'
    BY <1>0, <2>1, <2>2, GrowingKeeps DEF Accounted
  <2>4. cursor' = cursor
    BY <1>3 DEF ReadCursor
  <2> QED
    BY <1>0, <2>1, <2>3, <2>4, OneLoopMoves
<1>4. ASSUME NEW l \in Loops, Fetch(l) PROVE LosesNothing'
  <2>1. cursor' = cursor /\ loop[l].pc = "fetch"
    BY <1>4 DEF Fetch
  <2>2. CASE LoopBecomes(l, IdleLoop)
    BY <1>2, <2>1, <2>2
  <2>3. ASSUME NEW q \in Loop,
               LoopBecomes(l, q), q.pc = "work", q.at = NoEvent, q.start = loop[l].start,
               q.end <= head, q.end <= loop[l].end,
               skipped' = skipped \union (InRange(l) \ q.todo)
        PROVE  LosesNothing'
    <3>1. loop[l] \in Loop /\ Accounted(loop[l]) /\ head \in Nat
      BY DEF LoopTypes, IndexTypeOK, LosesNothing
    <3>2. ASSUME NEW e \in Events, Block[e] < q.start PROVE Settled(e)'
      BY <1>0, <2>1, <2>3, <3>1, <3>2, GrowingKeeps DEF Accounted
    <3>3. ASSUME NEW e \in Events, Block[e] <= q.end PROVE e \in q.todo \/ Settled(e)'
      <4>1. CASE Block[e] < q.start
        BY <3>2, <4>1
      <4>2. CASE ~(Block[e] < q.start)
        <5>1. e \in InRange(l)
          BY <2>3, <3>1, <3>3, <4>2, BlocksAreNumbers DEF InRange, Loop
        <5> QED
          BY <2>3, <5>1 DEF Settled
      <4> QED
        BY <4>1, <4>2
    <3>4. Accounted(q)'
      BY <2>3, <3>2, <3>3 DEF Accounted
    <3> QED
      BY <1>0, <2>1, <2>3, <3>4, OneLoopMoves
  <2> QED
    BY <1>4, <2>2, <2>3, FetchOutcome
<1>5. ASSUME NEW l \in Loops, FetchFails(l) \/ LoopFails(l) PROVE LosesNothing'
  BY <1>2, <1>5, IdleIsLoop DEF FetchFails, LoopFails, LoopBecomes
<1>6. ASSUME NEW l \in Loops, StoreCursor(l) PROVE LosesNothing'
  <2>1. LoopBecomes(l, IdleLoop) /\ loop[l].pc = "work" /\ loop[l].todo = {} /\ cursor' = loop[l].end
    BY <1>6, IdleIsLoop DEF StoreCursor, LoopBecomes
  <2>2. \A e \in Events : Block[e] <= cursor' => Settled(e)
    BY <2>1 DEF LosesNothing, Accounted
  <2>3. Accounted(IdleLoop)'
    BY IdleIsLoop DEF Accounted
  <2> QED
    BY <1>0, <2>1, <2>2, <2>3, IdleIsLoop, OneLoopMoves
<1>7. ASSUME NEW l \in Loops, NEW e \in Events, Update(l, e) \/ TokenUpdateFails(l, e) PROVE LosesNothing'
  <2> DEFINE len == Len(Updates(Type[e]))
             name(i) == Updates(Type[e])[i]
  <2>1. loop[l].pc = "work" /\ NextEvent(l, e) /\ cursor' = cursor
    BY <1>7 DEF Update, TokenUpdateFails, noteVars
  <2>2. /\ loop[l].step \in 1 .. len /\ len \in 1 .. 5
        /\ loop[l].at = NoEvent => loop[l].step = 1
        /\ loop[l].at # NoEvent => e = loop[l].at
    BY <2>1, StepInside
  <2>3. PICK q \in Loop :
          /\ LoopBecomes(l, q) /\ q.pc = "work"
          /\ q.start = loop[l].start /\ q.end = loop[l].end
          /\ \/ loop[l].step = len /\ q.todo = loop[l].todo \ {e} /\ q.at = NoEvent
             \/ loop[l].step # len /\ q.todo = loop[l].todo /\ q.at = e /\ q.step = loop[l].step + 1
    BY <1>7, <2>1, AfterOutcome DEF Update, TokenUpdateFails
  <2>4. Accounted(loop[l]) /\ AtOK(loop[l]) /\ loop[l] \in Loop
    BY DEF LosesNothing, LoopTypes, IndexTypeOK
  <2>6. \A i \in 1 .. len : i < loop[l].step => applied'[e][name(i)] > 0
    <3>1. \A i \in 1 .. len : i < loop[l].step => applied[e][name(i)] > 0
      BY <2>1, <2>2, <2>4 DEF Accounted
    <3>2. \A i \in 1 .. len : name(i) \in UpdateNames
      BY TypeAssumption, UpdatesShape
    <3> QED
      BY <1>0, <3>1, <3>2 DEF ChainGrows
  <2>7. applied'[e][name(loop[l].step)] > 0 \/ e \in skipped'
    <3>1. CASE Update(l, e)
      BY <3>1, UpdateOutcome
    <3>2. CASE TokenUpdateFails(l, e)
      BY <3>2 DEF TokenUpdateFails
    <3> QED
      BY <1>7, <3>1, <3>2
  <2>8. TokenUpdateFails(l, e) => loop[l].step = len
    BY <2>2, TypeAssumption, UpdatesShape DEF TokenUpdateFails
  <2>9. ASSUME loop[l].step = len PROVE Settled(e)'
    <3>1. \A i \in 1 .. len : i < loop[l].step \/ i = loop[l].step
      BY <2>2, <2>9
    <3>2. e \in skipped' \/ \A i \in 1 .. len : applied'[e][name(i)] > 0
      BY <2>6, <2>7, <3>1
    <3> QED
      BY <3>2, UpdatesAreSteps DEF Settled
  <2>10. ASSUME loop[l].step # len, NEW i \in 1 .. len, i < loop[l].step + 1
         PROVE  applied'[e][name(i)] > 0
    <3>1. i < loop[l].step \/ i = loop[l].step
      BY <2>2, <2>10
    <3>2. Update(l, e)
      BY <1>7, <2>8, <2>10
    <3>3. applied'[e][name(loop[l].step)] > 0
      BY <3>2, UpdateOutcome
    <3> QED
      BY <2>6, <3>1, <3>3
  <2>11. /\ \A f \in Events : Block[f] < q.start => Settled(f)'
         /\ \A f \in Events : Block[f] <= q.end => f \in loop[l].todo \/ Settled(f)'
    BY <1>0, <2>1, <2>3, <2>4, GrowingKeeps DEF Accounted
  <2> HIDE DEF len, name
  <2>12. Accounted(q)'
    BY <2>3, <2>9, <2>10, <2>11 DEF Accounted, len, name
  <2> QED
    BY <1>0, <2>1, <2>3, <2>12, OneLoopMoves
<1> QED
  BY <1>1, <1>3, <1>4, <1>5, <1>6, <1>7 DEF IndexNext, GraphSyncs, chainVars

\* The cursor passes an event only after all its updates were made or what left it out is
\* recorded: no failure, restart or overlap of loops loses an event (mainLoop).
THEOREM NoEventIsLost == IndexSpec => []NothingLost
<1>1. IndexInit => LosesNothing
  BY IdleIsLoop, BlocksAreNumbers DEF IndexInit, LosesNothing, NothingLost, Accounted
<1> QED
  BY <1>1, LosesNothingStep, IndexTypesHold, PTL DEF IndexSpec, LosesNothing
-----------------------------------------------------------------------------
(***************************************************************************)
(* As long as no loops have overlapped, the one that runs works on the     *)
(* blocks that follow the cursor.                                          *)
(***************************************************************************)

RangeOK(q) ==
  q.pc # "idle" => /\ q.start <= q.end
                   /\ \A e \in q.todo : q.start <= Block[e] /\ Block[e] <= q.end

RangesAlone ==
  /\ \A l \in Loops : RangeOK(loop[l])
  /\ ~overlapped => \A l \in Loops : Running(l) =>
       loop[l].start = cursor + 1 /\ \A k \in Loops : k # l => ~Running(k)

\* The running loop goes on with its range or ends.
LEMMA AloneGoesOn ==
  ASSUME LoopTypes, RangesAlone, NEW l \in Loops, NEW q \in Loop, LoopBecomes(l, q), RangeOK(q),
         Running(l), overlapped' = overlapped,
         q.pc = "idle" \/ (q.start = loop[l].start /\ cursor' = cursor)
  PROVE  RangesAlone'
<1>1. loop'[l] = q /\ \A k \in Loops : k # l => loop'[k] = loop[k]
  BY OtherLoops DEF LoopTypes, IndexTypeOK
<1>2. \A k \in Loops : RangeOK(loop[k])'
  BY <1>1 DEF RangesAlone, RangeOK
<1>3. ASSUME ~overlapped', NEW k \in Loops, Running(k)'
      PROVE  loop'[k].start = cursor' + 1 /\ \A j \in Loops : j # k => ~Running(j)'
  <2>1. k = l
    BY <1>1, <1>3 DEF RangesAlone, Running
  <2> QED
    BY <1>1, <1>3, <2>1 DEF RangesAlone, Running
<1> QED
  BY <1>2, <1>3 DEF RangesAlone

LEMMA AloneStep == LoopTypes /\ RangesAlone /\ [IndexNext]_chainVars => RangesAlone'
<1> SUFFICES ASSUME LoopTypes, RangesAlone, [IndexNext]_chainVars PROVE RangesAlone'
  OBVIOUS
<1>1. CASE UNCHANGED <<cursor, loop, overlapped>>
  BY <1>1 DEF RangesAlone, RangeOK, Running
<1>2. ASSUME NEW l \in Loops, LoopBecomes(l, IdleLoop), Running(l), overlapped' = overlapped PROVE RangesAlone'
  <2>1. PICK q \in Loop : q = IdleLoop
    BY IdleIsLoop
  <2>2. RangeOK(q) /\ q.pc = "idle" /\ LoopBecomes(l, q)
    BY <1>2, <2>1, IdleIsLoop DEF RangeOK
  <2> QED
    BY <1>2, <2>2, AloneGoesOn
<1>3. ASSUME NEW l \in Loops, ReadCursor(l) PROVE RangesAlone'
  <2>1. PICK q \in Loop : LoopBecomes(l, q) /\ q.start = cursor + 1 /\ q.start <= q.end /\ q.todo = {}
    BY <1>3, ReadCursorOutcome
  <2>2. loop'[l] = q /\ \A k \in Loops : k # l => loop'[k] = loop[k]
    BY <2>1, OtherLoops DEF LoopTypes, IndexTypeOK
  <2>3. cursor' = cursor /\ (~overlapped' => \A k \in Loops : ~Running(k))
    BY <1>3 DEF ReadCursor
  <2>4. \A k \in Loops : RangeOK(loop[k])'
    BY <2>1, <2>2 DEF RangesAlone, RangeOK
  <2> QED
    BY <2>1, <2>2, <2>3, <2>4 DEF RangesAlone, Running
<1>4. ASSUME NEW l \in Loops, Fetch(l) PROVE RangesAlone'
  <2>1. cursor' = cursor /\ Running(l) /\ overlapped' = overlapped
    BY <1>4 DEF Fetch, Running
  <2>2. ASSUME NEW q \in Loop, LoopBecomes(l, q), q.start = loop[l].start, q.start <= head,
               q.end = head \/ q.end = loop[l].end, q.todo \subseteq InRange(l)
        PROVE  RangesAlone'
    <3>1. loop[l].start <= loop[l].end
      BY <2>1 DEF RangesAlone, RangeOK, Running
    <3>2. RangeOK(q)
      BY <2>2, <3>1 DEF RangeOK, InRange
    <3> QED
      BY <2>1, <2>2, <3>2, AloneGoesOn
  <2> QED
    BY <1>2, <1>4, <2>1, <2>2, FetchOutcome
<1>5. ASSUME NEW l \in Loops, FetchFails(l) \/ StoreCursor(l) \/ LoopFails(l) PROVE RangesAlone'
  BY <1>2, <1>5, IdleIsLoop DEF FetchFails, StoreCursor, LoopFails, LoopBecomes, Running, noteVars
<1>6. ASSUME NEW l \in Loops, NEW e \in Events, Update(l, e) \/ TokenUpdateFails(l, e) PROVE RangesAlone'
  <2>1. cursor' = cursor /\ Running(l) /\ overlapped' = overlapped
    BY <1>6 DEF Update, TokenUpdateFails, Running, noteVars
  <2>2. PICK q \in Loop : /\ LoopBecomes(l, q) /\ q.start = loop[l].start /\ q.end = loop[l].end
                          /\ q.todo \subseteq loop[l].todo
    BY <1>6, AfterOutcome DEF Update, TokenUpdateFails
  <2>3. RangeOK(q)
    BY <2>1, <2>2 DEF RangesAlone, RangeOK, Running
  <2> QED
    BY <2>1, <2>2, <2>3, AloneGoesOn
<1> QED
  BY <1>1, <1>3, <1>4, <1>5, <1>6 DEF IndexNext, GraphSyncs, noteVars, chainVars

\* As long as no loops have overlapped, one at most runs, and it fetches from the cursor
\* on (mainLoop).
THEOREM RangesFollowTheCursor == IndexSpec => []RangesAlone
<1>1. IndexInit => RangesAlone
  BY IdleIsLoop DEF IndexInit, RangesAlone, RangeOK, Running
<1> QED
  BY <1>1, AloneStep, IndexTypesHold, PTL DEF IndexSpec
-----------------------------------------------------------------------------
(***************************************************************************)
(* No update is made twice without trouble.                                *)
(***************************************************************************)

Fresh(e) == \A n \in UpdateNames : applied[e][n] = 0

\* What a loop has still to do has not been done.
OnceOK(q) ==
  q.pc = "work" =>
    /\ \A e \in q.todo : e # q.at => Fresh(e)
    /\ q.at # NoEvent => \A i \in 1 .. Len(Updates(Type[q.at])) :
         i >= q.step => applied[q.at][Updates(Type[q.at])[i]] = 0

\* What lies beyond the cursor is fresh, unless a loop is at work on it.
Once ==
  ~troubled /\ ~overlapped =>
    /\ \A e \in Events, n \in UpdateNames : applied[e][n] <= 1
    /\ \A l \in Loops : OnceOK(loop[l])
    /\ \A e \in Events : Block[e] > cursor =>
         Fresh(e) \/ \E l \in Loops : loop[l].pc = "work" /\ Block[e] <= loop[l].end

LEMMA OnceGoesOn ==
  ASSUME LoopTypes, NEW l \in Loops, NEW q \in Loop, LoopBecomes(l, q), OnceOK(q)',
         \A k \in Loops : k # l => ~Running(k),
         \A e \in Events, n \in UpdateNames : applied'[e][n] <= 1,
         \A e \in Events : Block[e] > cursor' => Fresh(e)' \/ (q.pc = "work" /\ Block[e] <= q.end)
  PROVE  Once'
<1>1. loop'[l] = q /\ \A k \in Loops : k # l => loop'[k] = loop[k]
  BY OtherLoops DEF LoopTypes, IndexTypeOK
<1>2. ASSUME NEW k \in Loops PROVE OnceOK(loop[k])'
  <2>1. CASE k = l
    BY <1>1, <2>1 DEF OnceOK
  <2>2. CASE k # l
    BY <1>1, <2>2 DEF OnceOK, Running
  <2> QED
    BY <2>1, <2>2
<1> QED
  BY <1>1, <1>2 DEF Once

\* A loop that is not at work leaves everything beyond the cursor fresh.
LEMMA IdleIsFresh ==
  ASSUME Once, ~troubled, ~overlapped, NEW l \in Loops, loop[l].pc # "work",
         \A k \in Loops : k # l => ~Running(k), UNCHANGED applied
  PROVE  \A e \in Events : Block[e] > cursor => Fresh(e) /\ Fresh(e)'
  BY DEF Once, Running, Fresh

LEMMA OnceStep == LoopTypes /\ RangesAlone /\ Once /\ [IndexNext]_chainVars => Once'
<1> SUFFICES ASSUME LoopTypes, RangesAlone, Once, [IndexNext]_chainVars, ~troubled', ~overlapped' PROVE Once'
  BY DEF Once
<1>0. ~troubled /\ ~overlapped /\ cursor \in Nat
  BY DEF LoopTypes, IndexTypeOK, IndexNext, GraphSyncs, ReadCursor, Fetch, FetchFails, Update,
     TokenUpdateFails, StoreCursor, LoopFails, dataVars, noteVars, chainVars
<1>1. CASE UNCHANGED <<cursor, loop, applied, troubled, overlapped>>
  BY <1>1 DEF Once, OnceOK, Fresh
<1>2. /\ \A e \in Events, n \in UpdateNames : applied[e][n] <= 1
      /\ \A l \in Loops : OnceOK(loop[l]) /\ RangeOK(loop[l])
      /\ \A l \in Loops : Running(l) => loop[l].start = cursor + 1 /\ \A k \in Loops : k # l => ~Running(k)
  BY <1>0 DEF Once, RangesAlone
<1>3. ASSUME NEW l \in Loops, NEW q \in Loop, LoopBecomes(l, q), q.pc # "work", loop[l].pc # "work",
             cursor' = cursor, applied' = applied, \A k \in Loops : k # l => ~Running(k)
      PROVE  Once'
  <2>1. \A e \in Events : Block[e] > cursor => Fresh(e)'
    BY <1>0, <1>3, IdleIsFresh
  <2>2. OnceOK(q)'
    BY <1>3 DEF OnceOK
  <2> QED
    BY <1>2, <1>3, <2>1, <2>2, OnceGoesOn
<1>4. ASSUME NEW l \in Loops, ReadCursor(l) PROVE Once'
  <2>1. PICK q \in Loop : LoopBecomes(l, q) /\ q.pc = "fetch"
    BY <1>4, ReadCursorOutcome
  <2>2. /\ cursor' = cursor /\ applied' = applied /\ loop[l].pc # "work"
        /\ \A k \in Loops : ~Running(k)
    BY <1>4 DEF ReadCursor, Running, dataVars
  <2> QED
    BY <1>3, <2>1, <2>2
<1>5. ASSUME NEW l \in Loops, Fetch(l) PROVE Once'
  <2>1. cursor' = cursor /\ applied' = applied /\ loop[l].pc = "fetch" /\ Running(l)
    BY <1>5 DEF Fetch, dataVars, Running
  <2>2. \A k \in Loops : k # l => ~Running(k)
    BY <1>2, <2>1
  <2>3. CASE LoopBecomes(l, IdleLoop)
    BY <1>3, <2>1, <2>2, <2>3, IdleIsLoop
  <2>4. ASSUME NEW q \in Loop, LoopBecomes(l, q), q.pc = "work", q.at = NoEvent, q.todo \subseteq InRange(l)
        PROVE  Once'
    <3>1. \A e \in Events : Block[e] > cursor => Fresh(e)'
      BY <1>0, <2>1, <2>2, IdleIsFresh
    <3>2. \A e \in q.todo : e \in Events /\ Block[e] > cursor
      BY <1>0, <1>2, <2>1, <2>4, BlocksAreNumbers DEF InRange
    <3>3. OnceOK(q)'
      BY <2>4, <3>1, <3>2 DEF OnceOK
    <3> QED
      BY <1>2, <2>1, <2>2, <2>4, <3>1, <3>3, OnceGoesOn
  <2> QED
    BY <1>5, <2>3, <2>4, FetchOutcome
<1>6. ASSUME NEW l \in Loops, FetchFails(l) PROVE Once'
  <2>1. LoopBecomes(l, IdleLoop) /\ cursor' = cursor /\ applied' = applied /\ Running(l) /\ loop[l].pc # "work"
    BY <1>6, IdleIsLoop DEF FetchFails, LoopBecomes, Running, dataVars
  <2> QED
    BY <1>2, <1>3, <2>1, IdleIsLoop
<1>7. ASSUME NEW l \in Loops, StoreCursor(l) PROVE Once'
  <2>1. /\ LoopBecomes(l, IdleLoop) /\ cursor' = loop[l].end /\ applied' = applied /\ Running(l)
        /\ loop[l].pc = "work" /\ loop[l] \in Loop
    BY <1>7, IdleIsLoop DEF StoreCursor, LoopBecomes, Running, dataVars, LoopTypes, IndexTypeOK
  <2>2. loop[l].end > cursor
    BY <1>0, <1>2, <2>1 DEF RangeOK, Running, Loop
  <2>3. ASSUME NEW e \in Events, Block[e] > cursor' PROVE Fresh(e)'
    <3>1. Block[e] > cursor /\ ~(Block[e] <= loop[l].end)
      BY <1>0, <2>1, <2>2, <2>3, BlocksAreNumbers DEF Loop
    <3>2. Fresh(e)
      BY <1>0, <1>2, <2>1, <3>1 DEF Once, Running
    <3> QED
      BY <2>1, <3>2 DEF Fresh
  <2>4. OnceOK(IdleLoop)'
    BY IdleIsLoop DEF OnceOK
  <2> QED
    BY <1>2, <2>1, <2>3, <2>4, IdleIsLoop, OnceGoesOn
<1>8. ASSUME NEW l \in Loops, NEW e \in Events, TokenUpdateFails(l, e) PROVE Once'
  <2>1. applied' = applied /\ cursor' = cursor /\ Running(l) /\ loop[l].pc = "work" /\ NextEvent(l, e)
    BY <1>8 DEF TokenUpdateFails, dataVars, Running
  <2>2. PICK q \in Loop :
          /\ LoopBecomes(l, q) /\ q.pc = "work" /\ q.end = loop[l].end
          /\ \/ q.todo = loop[l].todo \ {e} /\ q.at = NoEvent
             \/ loop[l].step # Len(Updates(Type[e]))
    BY <1>8, AfterOutcome DEF TokenUpdateFails
  <2>3. loop[l].step = Len(Updates(Type[e]))
    BY <1>8, <2>1, StepInside, TypeAssumption, UpdatesShape DEF TokenUpdateFails
  <2>4. OnceOK(q)'
    <3>1. loop[l].at # NoEvent => e = loop[l].at
      BY <2>1, StepInside
    <3>2. \A f \in q.todo : f # loop[l].at /\ f \in loop[l].todo
      BY <2>2, <2>3, <3>1, NoEventAssumption DEF Loop
    <3> QED
      BY <1>2, <2>1, <2>2, <2>3, <3>2 DEF OnceOK, Fresh
  <2>5. \A f \in Events : Block[f] > cursor' => Fresh(f)' \/ Block[f] <= q.end
    BY <1>0, <1>2, <2>1, <2>2 DEF Once, Running, Fresh
  <2> QED
    BY <1>2, <2>1, <2>2, <2>4, <2>5, OnceGoesOn
<1>9. ASSUME NEW l \in Loops, NEW e \in Events, Update(l, e) PROVE Once'
  <2> DEFINE len == Len(Updates(Type[e]))
             nm(i) == Updates(Type[e])[i]
  <2>1. cursor' = cursor /\ Running(l) /\ loop[l].pc = "work" /\ NextEvent(l, e)
    BY <1>9 DEF Update, Running
  <2>2. PICK q \in Loop :
          /\ LoopBecomes(l, q) /\ q.pc = "work" /\ q.end = loop[l].end
          /\ \/ q.todo = loop[l].todo \ {e} /\ q.at = NoEvent
             \/ q.todo = loop[l].todo /\ q.at = e /\ q.step = loop[l].step + 1
    BY <1>9, AfterOutcome DEF Update
  <2>3. PICK name \in UpdateNames :
          /\ name = nm(loop[l].step)
          /\ applied'[e][name] = applied[e][name] + 1
          /\ \A f \in Events, n \in UpdateNames : applied[f][n] \in Nat /\ applied'[f][n] \in Nat
          /\ \A f \in Events, n \in UpdateNames : f # e \/ n # name => applied'[f][n] = applied[f][n]
    BY <1>9, UpdateOutcome
  <2>4. /\ loop[l].step \in 1 .. len /\ len \in 1 .. 5 /\ e \in loop[l].todo
        /\ loop[l].at # NoEvent => e = loop[l].at
    BY <2>1, StepInside
  <2>5. \A i, j \in 1 .. len : nm(i) \in UpdateNames /\ (nm(i) = nm(j) => i = j)
    BY TypeAssumption, UpdatesShape
  <2>6. \A i \in 1 .. len : i >= loop[l].step => applied[e][nm(i)] = 0
    <3>1. CASE loop[l].at = NoEvent
      BY <1>2, <2>1, <2>4, <2>5, <3>1, NoEventAssumption DEF OnceOK, Fresh
    <3>2. CASE loop[l].at # NoEvent
      BY <1>2, <2>1, <2>4, <3>2 DEF OnceOK
    <3> QED
      BY <3>1, <3>2
  <2>7. \A f \in loop[l].todo : f \in Events /\ (f # e => Fresh(f)')
    <3>1. loop[l] \in Loop
      BY DEF LoopTypes, IndexTypeOK
    <3>2. \A f \in loop[l].todo : f \in Events /\ f # NoEvent
      BY <3>1, NoEventAssumption DEF Loop
    <3>3. \A f \in loop[l].todo : f # e => Fresh(f)
      BY <1>2, <2>1, <2>4, <3>2 DEF OnceOK
    <3> QED
      BY <2>3, <3>2, <3>3 DEF Fresh
  <2>8. \A i \in 1 .. len : i >= loop[l].step + 1 => applied'[e][nm(i)] = 0
    <3>1. ASSUME NEW i \in 1 .. len, i >= loop[l].step + 1 PROVE applied'[e][nm(i)] = 0
      <4>1. i # loop[l].step /\ i >= loop[l].step
        BY <2>4, <3>1
      <4>2. nm(i) # name
        BY <2>3, <2>4, <2>5, <4>1
      <4> QED
        BY <2>3, <2>5, <2>6, <4>1, <4>2
    <3> QED
      BY <3>1
  <2>9. OnceOK(q)'
    <3>1. CASE q.todo = loop[l].todo \ {e} /\ q.at = NoEvent
      BY <2>7, <3>1 DEF OnceOK
    <3>2. CASE q.todo = loop[l].todo /\ q.at = e /\ q.step = loop[l].step + 1
      BY <2>7, <2>8, <3>2 DEF OnceOK
    <3> QED
      BY <2>2, <3>1, <3>2
  <2>10. \A f \in Events, n \in UpdateNames : applied'[f][n] <= 1
    <3>1. applied'[e][name] <= 1
      BY <2>3, <2>4, <2>6
    <3> QED
      BY <1>2, <2>3, <3>1
  <2>11. \A f \in Events : Block[f] > cursor' => Fresh(f)' \/ Block[f] <= q.end
    <3>1. Block[e] <= q.end
      BY <1>2, <2>1, <2>2, <2>4 DEF RangeOK, Running
    <3>2. ASSUME NEW f \in Events, f # e, Block[f] > cursor' PROVE Fresh(f)' \/ Block[f] <= q.end
      <4>1. Fresh(f) \/ Block[f] <= loop[l].end
        BY <1>0, <1>2, <2>1, <3>2 DEF Once, Running
      <4> QED
        BY <2>2, <2>3, <3>2, <4>1 DEF Fresh
    <3> QED
      BY <3>1, <3>2
  <2> QED
    BY <1>2, <2>1, <2>2, <2>9, <2>10, <2>11, OnceGoesOn
<1>10. ASSUME NEW l \in Loops, LoopFails(l) PROVE Once'
  BY <1>10 DEF LoopFails
<1> QED
  BY <1>1, <1>4, <1>5, <1>6, <1>7, <1>8, <1>9, <1>10 DEF IndexNext, GraphSyncs, dataVars, noteVars, chainVars

\* No update is made twice unless a loop has failed part way or two loops have overlapped:
\* what the graph holds is fetched and applied once (mainLoop).
THEOREM ReplaysNeedTrouble == IndexSpec => []ReplayNeedsTrouble
<1>1. IndexInit => Once
  BY IdleIsLoop DEF IndexInit, Once, OnceOK, Fresh
<1>2. Once => ReplayNeedsTrouble
  BY DEF Once, ReplayNeedsTrouble
<1> QED
  BY <1>1, <1>2, OnceStep, IndexTypesHold, RangesFollowTheCursor, PTL DEF IndexSpec
-----------------------------------------------------------------------------
(***************************************************************************)
(* The owner of a token.                                                   *)
(***************************************************************************)

MovesToken(e) == "token" \in UpdatesOf(e)

OwnedSince(e) == ownerBy # NoEvent /\ Block[ownerBy] >= Block[e]

\* The transfers that a loop has done within its range come before those it has still to
\* do, and the owner is at least as late.
OrderOK(q) ==
  q.pc = "work" =>
    /\ \A e \in Events \ (q.todo \union skipped) :
         MovesToken(e) /\ q.start <= Block[e] /\ Block[e] <= q.end =>
           OwnedSince(e) /\ \A f \in q.todo : MovesToken(f) => Block[e] <= Block[f]
    /\ q.at # NoEvent => \A f \in q.todo : ~Before(f, q.at)

OwnersFollow ==
  ~overlapped =>
    /\ \A e \in Events \ skipped : MovesToken(e) /\ Block[e] <= cursor => OwnedSince(e)
    /\ \A l \in Loops : OrderOK(loop[l])

\* A token is written by the last update of an event of the list of NFT transfers.
LEMMA TokenIsLast ==
  ASSUME NEW e \in Events
  PROVE  /\ MovesToken(e) => ListOfType(Type[e]) = 3 /\ Updates(Type[e])[Len(Updates(Type[e]))] = "token"
         /\ \A i \in 1 .. Len(Updates(Type[e])) :
              Updates(Type[e])[i] = "token" => MovesToken(e) /\ i = Len(Updates(Type[e]))
<1>1. Type[e] \in Types
  BY TypeAssumption
<1>2. Updates(Type[e]) \in Seq(UpdateNames)
  BY <1>1, UpdatesShape
<1> QED
  BY <1>1, <1>2, UpdatesShape, UpdatesAreSteps DEF MovesToken, UpdatesOf, ToSet

LEMMA OwnersGoOn ==
  ASSUME LoopTypes, NEW l \in Loops, NEW q \in Loop, LoopBecomes(l, q), OrderOK(q)',
         \A k \in Loops : k # l => ~Running(k),
         \A e \in Events \ skipped' : MovesToken(e) /\ Block[e] <= cursor' => OwnedSince(e)'
  PROVE  OwnersFollow'
<1>1. loop'[l] = q /\ \A k \in Loops : k # l => loop'[k] = loop[k]
  BY OtherLoops DEF LoopTypes, IndexTypeOK
<1>2. ASSUME NEW k \in Loops PROVE OrderOK(loop[k])'
  <2>1. CASE k = l
    BY <1>1, <2>1 DEF OrderOK
  <2>2. CASE k # l
    BY <1>1, <2>2 DEF OrderOK, Running
  <2> QED
    BY <2>1, <2>2
<1> QED
  BY <1>2 DEF OwnersFollow, MovesToken

LEMMA OwnersFollowStep == LoopTypes /\ RangesAlone /\ OwnersFollow /\ [IndexNext]_chainVars => OwnersFollow'
<1> SUFFICES ASSUME LoopTypes, RangesAlone, OwnersFollow, [IndexNext]_chainVars, ~overlapped' PROVE OwnersFollow'
  BY DEF OwnersFollow
<1>0. ~overlapped /\ cursor \in Nat
  BY DEF LoopTypes, IndexTypeOK, IndexNext, GraphSyncs, ReadCursor, Fetch, FetchFails, Update,
     TokenUpdateFails, StoreCursor, LoopFails, dataVars, noteVars, chainVars
<1>1. CASE UNCHANGED <<cursor, loop, skipped, ownerBy>>
  <2>1. /\ \A e \in Events \ skipped' : MovesToken(e) /\ Block[e] <= cursor' => OwnedSince(e)'
        /\ \A l \in Loops : OrderOK(loop[l])'
    BY <1>0, <1>1 DEF OwnersFollow, OrderOK, OwnedSince
  <2> QED
    BY <2>1 DEF OwnersFollow, MovesToken
<1>2. /\ \A e \in Events \ skipped : MovesToken(e) /\ Block[e] <= cursor => OwnedSince(e)
      /\ \A l \in Loops : OrderOK(loop[l]) /\ RangeOK(loop[l]) /\ loop[l] \in Loop
      /\ \A l \in Loops : Running(l) => loop[l].start = cursor + 1 /\ \A k \in Loops : k # l => ~Running(k)
  BY <1>0 DEF OwnersFollow, RangesAlone, LoopTypes, IndexTypeOK
<1>3. ASSUME NEW l \in Loops, NEW q \in Loop, LoopBecomes(l, q), q.pc # "work",
             cursor' = cursor, ownerBy' = ownerBy, skipped \subseteq skipped', \A k \in Loops : k # l => ~Running(k)
      PROVE  OwnersFollow'
  <2>1. \A e \in Events \ skipped' : MovesToken(e) /\ Block[e] <= cursor' => OwnedSince(e)'
    BY <1>2, <1>3 DEF OwnedSince
  <2>2. OrderOK(q)'
    BY <1>3 DEF OrderOK
  <2> QED
    BY <1>3, <2>1, <2>2, OwnersGoOn
<1>4. ASSUME NEW l \in Loops, ReadCursor(l) PROVE OwnersFollow'
  <2>1. PICK q \in Loop : LoopBecomes(l, q) /\ q.pc = "fetch"
    BY <1>4, ReadCursorOutcome
  <2>2. /\ cursor' = cursor /\ ownerBy' = ownerBy /\ skipped \subseteq skipped'
        /\ \A k \in Loops : ~Running(k)
    BY <1>4 DEF ReadCursor, Running, dataVars
  <2> QED
    BY <1>3, <2>1, <2>2
<1>5. ASSUME NEW l \in Loops, Fetch(l) PROVE OwnersFollow'
  <2>1. cursor' = cursor /\ ownerBy' = ownerBy /\ loop[l].pc = "fetch" /\ Running(l)
    BY <1>5 DEF Fetch, dataVars, Running
  <2>2. \A k \in Loops : k # l => ~Running(k)
    BY <1>2, <2>1
  <2>3. ASSUME LoopBecomes(l, IdleLoop), skipped' = skipped PROVE OwnersFollow'
    BY <1>3, <2>1, <2>2, <2>3, IdleIsLoop
  <2>4. ASSUME NEW q \in Loop, LoopBecomes(l, q), q.pc = "work", q.at = NoEvent, q.start = loop[l].start,
               q.end <= head, q.end <= loop[l].end, skipped' = skipped \union (InRange(l) \ q.todo)
        PROVE  OwnersFollow'
    <3>1. ASSUME NEW e \in Events, q.start <= Block[e], Block[e] <= q.end, e \notin q.todo PROVE e \in skipped'
      <4>1. head \in Nat /\ loop[l].end \in Nat /\ q.end \in Nat
        BY <1>2 DEF LoopTypes, IndexTypeOK, Loop
      <4> QED
        BY <2>4, <3>1, <4>1, BlocksAreNumbers DEF InRange
    <3>2. OrderOK(q)'
      BY <2>4, <3>1 DEF OrderOK
    <3>3. \A e \in Events \ skipped' : MovesToken(e) /\ Block[e] <= cursor' => OwnedSince(e)'
      BY <1>2, <2>1, <2>4 DEF OwnedSince
    <3> QED
      BY <2>2, <2>4, <3>2, <3>3, OwnersGoOn
  <2> QED
    BY <1>5, <2>3, <2>4, FetchOutcome
<1>6. ASSUME NEW l \in Loops, FetchFails(l) \/ LoopFails(l) PROVE OwnersFollow'
  <2>1. /\ LoopBecomes(l, IdleLoop) /\ cursor' = cursor /\ ownerBy' = ownerBy /\ skipped' = skipped
        /\ Running(l)
    BY <1>6, IdleIsLoop DEF FetchFails, LoopFails, LoopBecomes, Running, dataVars, noteVars
  <2> QED
    BY <1>2, <1>3, <2>1, IdleIsLoop
<1>7. ASSUME NEW l \in Loops, StoreCursor(l) PROVE OwnersFollow'
  <2>1. /\ LoopBecomes(l, IdleLoop) /\ cursor' = loop[l].end /\ ownerBy' = ownerBy /\ skipped' = skipped
        /\ Running(l) /\ loop[l].pc = "work" /\ loop[l].todo = {}
    BY <1>7, IdleIsLoop DEF StoreCursor, LoopBecomes, Running, dataVars, noteVars
  <2>2. ASSUME NEW e \in Events \ skipped', MovesToken(e), Block[e] <= cursor' PROVE OwnedSince(e)'
    <3>1. Block[e] <= cursor \/ loop[l].start <= Block[e]
      BY <1>0, <1>2, <2>1, BlocksAreNumbers
    <3>2. OwnedSince(e)
      BY <1>2, <2>1, <2>2, <3>1 DEF OrderOK
    <3> QED
      BY <2>1, <3>2 DEF OwnedSince
  <2>3. OrderOK(IdleLoop)'
    BY IdleIsLoop DEF OrderOK
  <2> QED
    BY <1>2, <2>1, <2>2, <2>3, IdleIsLoop, OwnersGoOn
<1>8. ASSUME NEW l \in Loops, NEW e \in Events, Update(l, e) \/ TokenUpdateFails(l, e) PROVE OwnersFollow'
  <2> DEFINE len == Len(Updates(Type[e]))
             last == Updates(Type[e])[len]
  <2>1. cursor' = cursor /\ Running(l) /\ loop[l].pc = "work" /\ NextEvent(l, e)
    BY <1>8 DEF Update, TokenUpdateFails, Running, noteVars
  <2>2. PICK q \in Loop :
          /\ LoopBecomes(l, q) /\ q.pc = "work" /\ q.start = loop[l].start /\ q.end = loop[l].end
          /\ \/ loop[l].step = len /\ q.todo = loop[l].todo \ {e} /\ q.at = NoEvent
             \/ loop[l].step # len /\ q.todo = loop[l].todo /\ q.at = e
    BY <1>8, <2>1, AfterOutcome DEF Update, TokenUpdateFails
  <2>3. /\ loop[l].step \in 1 .. len /\ e \in loop[l].todo
        /\ loop[l].at # NoEvent => e = loop[l].at
    BY <2>1, StepInside
  <2>4. loop[l].todo \subseteq Events /\ q.todo \subseteq loop[l].todo
    BY <1>2, <2>2 DEF Loop
  <2>5. \A f \in loop[l].todo : f # e => ~Before(f, e)
    BY <1>2, <2>1, <2>3 DEF NextEvent, OrderOK
  <2>6. ~Before(e, e)
    BY <2>3, BlocksAreNumbers DEF Before, ListOfType
  <2>7. loop[l].start <= Block[e] /\ Block[e] <= loop[l].end
    BY <1>2, <2>1, <2>3 DEF RangeOK, Running
  \* What this event leaves behind comes after it.
  <2>8. \A f \in loop[l].todo : MovesToken(e) /\ MovesToken(f) => Block[e] <= Block[f]
    <3>1. ASSUME NEW f \in loop[l].todo, MovesToken(e), MovesToken(f) PROVE Block[e] <= Block[f]
      <4>1. ListOfType(Type[e]) = 3 /\ ListOfType(Type[f]) = 3
        BY <2>4, <3>1, TokenIsLast
      <4>2. ~Before(f, e)
        BY <2>5, <2>6, <3>1
      <4>3. Block[e] \in Nat /\ Block[f] \in Nat
        BY <2>4, BlocksAreNumbers
      <4> QED
        BY <4>1, <4>2, <4>3 DEF Before
    <3> QED
      BY <3>1
  \* The owner never falls behind what was done.
  <2>9. \/ Updates(Type[e])[loop[l].step] = "token" /\ ownerBy' = e /\ skipped' = skipped
        \/ Updates(Type[e])[loop[l].step] = "token" /\ ownerBy' = ownerBy /\ skipped' = skipped \union {e}
        \/ Updates(Type[e])[loop[l].step] # "token" /\ ownerBy' = ownerBy /\ skipped' = skipped
    BY <1>8 DEF Update, TokenUpdateFails, dataVars, noteVars
  <2>10. Updates(Type[e])[loop[l].step] = "token" => MovesToken(e) /\ loop[l].step = len
    BY <2>3, TokenIsLast
  <2>11. MovesToken(e) /\ loop[l].step = len => Updates(Type[e])[loop[l].step] = "token"
    BY TokenIsLast
  <2>12. skipped \subseteq skipped' /\ e \in Events /\ e # NoEvent
    BY <2>9, NoEventAssumption
  <2> HIDE DEF len, last
  <2>13. ASSUME NEW f \in Events, f \notin loop[l].todo \union skipped, MovesToken(f),
                loop[l].start <= Block[f], Block[f] <= loop[l].end
         PROVE  OwnedSince(f)' /\ \A g \in loop[l].todo : MovesToken(g) => Block[f] <= Block[g]
    <3>1. OwnedSince(f) /\ \A g \in loop[l].todo : MovesToken(g) => Block[f] <= Block[g]
      BY <1>2, <2>1, <2>13 DEF OrderOK
    <3>2. OwnedSince(f)'
      BY <2>3, <2>9, <2>10, <2>12, <3>1 DEF OwnedSince
    <3> QED
      BY <3>1, <3>2
  <2>14. ASSUME NEW f \in Events \ (q.todo \union skipped'), MovesToken(f),
                q.start <= Block[f], Block[f] <= q.end
         PROVE  OwnedSince(f)' /\ \A g \in q.todo : MovesToken(g) => Block[f] <= Block[g]
    <3>1. CASE f = e
      <4>1. ownerBy' = e
        BY <2>2, <2>3, <2>9, <2>11, <2>14, <3>1
      <4>2. OwnedSince(f)'
        BY <2>12, <3>1, <4>1, BlocksAreNumbers DEF OwnedSince
      <4> QED
        BY <2>4, <2>8, <2>14, <3>1, <4>2
    <3>2. CASE f # e
      BY <2>2, <2>4, <2>12, <2>13, <2>14, <3>2
    <3> QED
      BY <3>1, <3>2
  <2>15. OrderOK(q)'
    <3>1. q.at # NoEvent => \A f \in q.todo : ~Before(f, q.at)
      BY <2>2, <2>5, <2>6
    <3> QED
      BY <2>14, <3>1 DEF OrderOK
  <2>16. ASSUME NEW f \in Events \ skipped', MovesToken(f), Block[f] <= cursor' PROVE OwnedSince(f)'
    <3>1. OwnedSince(f) /\ Block[f] \in Nat /\ Block[e] \in Nat /\ Block[f] <= Block[e]
      BY <1>0, <1>2, <2>1, <2>7, <2>12, <2>16, BlocksAreNumbers
    <3> QED
      BY <2>9, <2>12, <3>1 DEF OwnedSince
  <2>17. \A k \in Loops : k # l => ~Running(k)
    BY <1>2, <2>1
  <2> QED
    BY <2>2, <2>15, <2>16, <2>17, OwnersGoOn
<1> QED
  BY <1>1, <1>4, <1>5, <1>6, <1>7, <1>8 DEF IndexNext, GraphSyncs, dataVars, noteVars, chainVars

\* When no loop runs and none has overlapped another, a token belongs to whom its latest
\* transfer up to the cursor has sent it, or a later one: replays keep the order of the
\* blocks (updateStreamCollection).
THEOREM OwnersAreLatest == IndexSpec => []OwnerIsLatest
<1>1. IndexInit => OwnersFollow
  BY IdleIsLoop, BlocksAreNumbers DEF IndexInit, OwnersFollow, OrderOK
<1>2. OwnersFollow => OwnerIsLatest
  BY DEF OwnersFollow, OwnerIsLatest, MovesToken, OwnedSince
<1> QED
  BY <1>1, <1>2, OwnersFollowStep, IndexTypesHold, RangesFollowTheCursor, PTL DEF IndexSpec

-----------------------------------------------------------------------------
(***************************************************************************)
(* The transfers.                                                          *)
(***************************************************************************)

\* A loop starts before the first transfer or at it; if its range holds one, so does
\* what it has to do, and it has done nothing.
Barred(q) ==
  /\ q.pc # "idle" => \A t \in Events : Throws(t) => q.start <= Block[t]
  /\ q.pc = "work" => \A t \in Events : Throws(t) /\ Block[t] <= q.end =>
       q.at = NoEvent /\ \E s \in q.todo : Throws(s)

TransfersHold == NothingPassesTransfers /\ \A l \in Loops : Barred(loop[l])

LEMMA TransfersAreFirst ==
  ASSUME NEW e \in Events
  PROVE  /\ Throws(e) <=> ListOfType(Type[e]) = 1
         /\ ListOfType(Type[e]) \in 1 .. 3
  BY TypeAssumption DEF Throws, ListOfType, Types

\* A page has something of each list that the range has something of.
LEMMA PagesHaveTheirLists ==
  ASSUME NEW S, NEW R, IsPage(S, R), R \subseteq Events, NEW t \in R, Throws(t)
  PROVE  \E s \in S : Throws(s)
<1>1. CASE t \in S
  BY <1>1
<1>2. CASE t \notin S
  <2> DEFINE its == {f \in S : ListOfType(Type[f]) = ListOfType(Type[t])}
  <2>1. Cardinality(its) = ItemLimit
    BY <1>2 DEF IsPage
  <2>2. its # {}
    <3>1. CASE its = {}
      <4>1. Cardinality(its) = 0
        BY <3>1, FS_EmptySet
      <4> QED
        BY <2>1, <4>1, LimitAssumption
    <3> QED
      BY <3>1
  <2>3. PICK s \in its : TRUE
    BY <2>2
  <2>4. s \in S /\ ListOfType(Type[s]) = ListOfType(Type[t])
    BY <2>3
  <2>5. s \in Events
    BY <2>4 DEF IsPage
  <2> HIDE DEF its
  <2> QED
    BY <2>4, <2>5, TransfersAreFirst
<1> QED
  BY <1>1, <1>2

\* Only the loop that moves has to be looked at, when nothing is applied.
LEMMA HoldGoesOn ==
  ASSUME LoopTypes, TransfersHold, NEW l \in Loops, NEW q \in Loop, LoopBecomes(l, q), Barred(q),
         NothingPassesTransfers'
  PROVE  TransfersHold'
<1>1. loop'[l] = q /\ \A k \in Loops : k # l => loop'[k] = loop[k]
  BY OtherLoops DEF LoopTypes, IndexTypeOK
<1> QED
  BY <1>1 DEF TransfersHold, Barred

LEMMA TransfersStep == LoopTypes /\ RangesAlone /\ TransfersHold /\ [IndexNext]_chainVars => TransfersHold'
<1> SUFFICES ASSUME LoopTypes, RangesAlone, TransfersHold, [IndexNext]_chainVars PROVE TransfersHold'
  OBVIOUS
<1>0. /\ cursor \in Nat /\ head \in Nat
      /\ \A l \in Loops : loop[l] \in Loop /\ Barred(loop[l]) /\ RangeOK(loop[l])
      /\ NothingPassesTransfers
  BY DEF LoopTypes, IndexTypeOK, TransfersHold, RangesAlone
<1>1. CASE UNCHANGED <<cursor, loop, applied>>
  BY <1>1 DEF TransfersHold, Barred, NothingPassesTransfers
<1>2. ASSUME UNCHANGED <<cursor, applied>> PROVE NothingPassesTransfers'
  BY <1>0, <1>2 DEF NothingPassesTransfers
<1>3. Barred(IdleLoop)
  BY IdleIsLoop DEF Barred
<1>4. ASSUME NEW l \in Loops, ReadCursor(l) PROVE TransfersHold'
  <2>1. PICK q \in Loop : LoopBecomes(l, q) /\ q.pc = "fetch" /\ q.start = cursor + 1
    BY <1>4, ReadCursorOutcome
  <2>2. \A t \in Events : Throws(t) => q.start <= Block[t]
    BY <1>0, <2>1, BlocksAreNumbers DEF NothingPassesTransfers
  <2>3. Barred(q)
    BY <2>1, <2>2 DEF Barred
  <2>4. UNCHANGED <<cursor, applied>>
    BY <1>4 DEF ReadCursor, dataVars
  <2> QED
    BY <1>2, <2>1, <2>3, <2>4, HoldGoesOn
<1>5. ASSUME NEW l \in Loops, Fetch(l) PROVE TransfersHold'
  <2>1. UNCHANGED <<cursor, applied>> /\ loop[l].pc = "fetch"
    BY <1>5 DEF Fetch, dataVars
  <2>2. CASE LoopBecomes(l, IdleLoop)
    BY <1>2, <1>3, <2>1, <2>2, IdleIsLoop, HoldGoesOn
  <2>3. ASSUME NEW q \in Loop, LoopBecomes(l, q), q.pc = "work", q.at = NoEvent, q.start = loop[l].start,
               q.end <= head, q.end <= loop[l].end, IsPage(q.todo, InRange(l))
        PROVE  TransfersHold'
    <3>1. \A t \in Events : Throws(t) => q.start <= Block[t]
      BY <1>0, <2>1, <2>3 DEF Barred
    <3>2. ASSUME NEW t \in Events, Throws(t), Block[t] <= q.end PROVE \E s \in q.todo : Throws(s)
      <4>1. t \in InRange(l)
        BY <1>0, <2>3, <3>1, <3>2, BlocksAreNumbers DEF InRange, Loop
      <4>2. InRange(l) \subseteq Events
        BY DEF InRange
      <4> QED
        BY <2>3, <3>2, <4>1, <4>2, PagesHaveTheirLists
    <3>3. Barred(q)
      BY <2>3, <3>1, <3>2 DEF Barred
    <3> QED
      BY <1>2, <2>1, <2>3, <3>3, HoldGoesOn
  <2> QED
    BY <1>5, <2>2, <2>3, FetchOutcome
<1>6. ASSUME NEW l \in Loops, FetchFails(l) \/ LoopFails(l) PROVE TransfersHold'
  <2>1. LoopBecomes(l, IdleLoop) /\ UNCHANGED <<cursor, applied>>
    BY <1>6, IdleIsLoop DEF FetchFails, LoopFails, LoopBecomes, dataVars
  <2> QED
    BY <1>2, <1>3, <2>1, IdleIsLoop, HoldGoesOn
<1>7. ASSUME NEW l \in Loops, StoreCursor(l) PROVE TransfersHold'
  <2>1. /\ LoopBecomes(l, IdleLoop) /\ cursor' = loop[l].end /\ applied' = applied
        /\ loop[l].pc = "work" /\ loop[l].todo = {}
    BY <1>7, IdleIsLoop DEF StoreCursor, LoopBecomes, dataVars
  <2>2. ASSUME NEW t \in Events, Throws(t) PROVE cursor' < Block[t]
    <3>1. ~(Block[t] <= loop[l].end)
      BY <1>0, <2>1, <2>2 DEF Barred
    <3> QED
      BY <1>0, <2>1, <3>1, BlocksAreNumbers DEF Loop
  <2>3. NothingPassesTransfers'
    BY <1>0, <2>1, <2>2 DEF NothingPassesTransfers
  <2> QED
    BY <1>3, <2>1, <2>3, IdleIsLoop, HoldGoesOn
\* While a transfer waits in what a loop has to do, the loop goes on with none but a
\* transfer, and no update of it is made.
<1>8. ASSUME NEW l \in Loops, NEW e \in Events, Update(l, e) \/ TokenUpdateFails(l, e) PROVE TransfersHold'
  <2>1. cursor' = cursor /\ loop[l].pc = "work" /\ NextEvent(l, e)
    BY <1>8 DEF Update, TokenUpdateFails, noteVars
  <2>2. e \in loop[l].todo /\ Block[e] <= loop[l].end
    BY <1>0, <2>1, StepInside DEF RangeOK
  <2>3. ~Throws(e)
    <3>1. ASSUME TokenUpdateFails(l, e), Throws(e) PROVE FALSE
      <4>1. Updates(Type[e])[loop[l].step] = "token" /\ loop[l].step \in 1 .. Len(Updates(Type[e]))
        BY <2>1, <3>1, StepInside DEF TokenUpdateFails
      <4>2. ListOfType(Type[e]) = 3
        BY <4>1, TypeAssumption, UpdatesShape
      <4> QED
        BY <3>1, <4>2, TransfersAreFirst
    <3> QED
      BY <1>8, <3>1 DEF Update
  <2>4. ASSUME NEW t \in Events, Throws(t), Block[t] <= loop[l].end PROVE FALSE
    <3>1. PICK s \in loop[l].todo : Throws(s) /\ loop[l].at = NoEvent
      BY <1>0, <2>1, <2>4 DEF Barred
    <3>2. s \in Events /\ s # e
      BY <1>0, <2>3, <3>1 DEF Loop
    <3>3. Before(s, e)
      <4>1. ListOfType(Type[s]) = 1 /\ ListOfType(Type[e]) \in 1 .. 3 /\ ListOfType(Type[e]) # 1
        BY <2>3, <3>1, <3>2, TransfersAreFirst
      <4> QED
        BY <4>1 DEF Before
    <3> QED
      BY <2>1, <3>1, <3>2, <3>3 DEF NextEvent
  <2>5. PICK q \in Loop : /\ LoopBecomes(l, q) /\ q.pc = "work"
                          /\ q.start = loop[l].start /\ q.end = loop[l].end
    BY <1>8, <2>1, AfterOutcome DEF Update, TokenUpdateFails
  <2>6. Barred(q)
    BY <1>0, <2>1, <2>4, <2>5 DEF Barred
  <2>7. \A f \in Events, n \in UpdateNames : f # e => applied'[f][n] = applied[f][n]
    <3>1. CASE Update(l, e)
      BY <3>1, UpdateOutcome
    <3>2. CASE TokenUpdateFails(l, e)
      BY <3>2 DEF TokenUpdateFails, dataVars
    <3> QED
      BY <1>8, <3>1, <3>2
  <2>8. \A t \in Events : Throws(t) => ~(Block[e] >= Block[t])
    <3>1. ASSUME NEW t \in Events, Throws(t), Block[e] >= Block[t] PROVE FALSE
      <4>1. Block[t] <= loop[l].end
        BY <1>0, <2>2, <3>1, BlocksAreNumbers DEF Loop
      <4> QED
        BY <2>4, <3>1, <4>1
    <3> QED
      BY <3>1
  <2>9. NothingPassesTransfers'
    BY <1>0, <2>1, <2>7, <2>8 DEF NothingPassesTransfers
  <2> QED
    BY <2>5, <2>6, <2>9, HoldGoesOn
<1> QED
  BY <1>1, <1>4, <1>5, <1>6, <1>7, <1>8 DEF IndexNext, GraphSyncs, dataVars, noteVars, chainVars

\* The first transfer of the chain stops the indexer: the cursor never reaches its block,
\* and nothing of that block or a later one is applied, whatever loops fail or overlap and
\* wherever pages are cut (mainLoop, updateWalletBalanceFromTransfer).
THEOREM TransfersStopTheIndexer == IndexSpec => []NothingPassesTransfers
<1>1. IndexInit => TransfersHold
  BY IdleIsLoop, BlocksAreNumbers DEF IndexInit, TransfersHold, NothingPassesTransfers, Barred
<1>2. TransfersHold => NothingPassesTransfers
  BY DEF TransfersHold
<1> QED
  BY <1>1, <1>2, TransfersStep, IndexTypesHold, RangesFollowTheCursor, PTL DEF IndexSpec
=============================================================================
