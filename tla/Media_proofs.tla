------------------------------ MODULE Media_proofs ------------------------------
(***************************************************************************)
(* Proofs about livestreams and the background jobs for media.             *)
(*                                                                         *)
(* Webhooks and ends of a stream, in any number and order, leave the       *)
(* stream and Livepeer in agreement as long as no two of them overlap,     *)
(* none comes late and none fails.                                         *)
(*                                                                         *)
(* The jobs of a message list every file that was uploaded, and one more   *)
(* than once only for a failure or a death; a video that is done stays so  *)
(* as long as no process dies.                                             *)
(***************************************************************************)
EXTENDS StreamLifecycle, UploadJobs, FiniteSetTheorems, TLAPS

Smooth == \A h \in Works : ~work[h].late /\ work[h].pc # "failed"

\* A webhook or an end at work.
Changing(h) == ~Over(h) /\ work[h].kind \in {"START", "END"}

\* The handler of an idle webhook on its way from Livepeer to the stream.
Ending(k) == k.pc = "idle" \/ (k.pc \in {"log", "create", "push"} /\ k.then = "idle")

\* What a handler's place says of it.
KindOK(k) ==
  /\ k.pc = "new" => ~k.late
  /\ k.pc = "start" => k.kind = "START"
  /\ k.pc \in {"delete", "idle", "save"} => k.kind = "END"
  /\ k.then = "idle" => k.kind = "END"
  /\ k.pc = "delete" => k.then = "idle"

\* As long as all went smoothly, one webhook or end at most is at work; a start that has
\* not been stored still has its stream at Livepeer; and of a stream that is shown live
\* without one, the handler that deleted it is on its way.
InStep ==
  Smooth =>
    /\ \A g, h \in Works : Changing(g) /\ Changing(h) => g = h
    /\ \A h \in Works : work[h].pc = "start" => livepeer
    /\ stream.status = "LIVE" /\ ~livepeer => \E h \in Works : Ending(work[h])

LifeInv ==
  /\ work \in [Works -> Work] /\ \A h \in Works : KindOK(work[h])
  /\ stream \in [status : Statuses, isActive : BOOLEAN, endedAt : BOOLEAN, likes : Nat, tips : Nat]
  /\ livepeer \in BOOLEAN /\ isTest \in BOOLEAN
  /\ InStep

\* A step of one handler: its kind and late stay, unless it is new.
WorkBecomes(h, q) ==
  /\ q \in Work /\ KindOK(q)
  /\ work' = [work EXCEPT ![h] = q]
  /\ work[h].late => q.late
  /\ work[h].pc # "failed"

LEMMA HandlerSteps ==
  ASSUME LifeInv, NEW h \in Works, NEW q, WorkBecomes(h, q)
  PROVE  /\ work' \in [Works -> Work] /\ (\A g \in Works : KindOK(work'[g]))
         /\ work'[h] = q /\ \A g \in Works : g # h => work'[g] = work[g]
         /\ Smooth' => Smooth /\ ~q.late /\ q.pc # "failed"
<1>1. work' \in [Works -> Work] /\ work'[h] = q /\ \A g \in Works : g # h => work'[g] = work[g]
  BY DEF WorkBecomes, LifeInv
<1>2. \A g \in Works : KindOK(work'[g])
  BY <1>1 DEF WorkBecomes, LifeInv
<1>3. ASSUME Smooth' PROVE Smooth /\ ~q.late /\ q.pc # "failed"
  <2>1. \A g \in Works : ~work'[g].late /\ work'[g].pc # "failed"
    BY <1>3 DEF Smooth
  <2> QED
    BY <1>1, <2>1 DEF WorkBecomes, Smooth
<1> QED
  BY <1>1, <1>2, <1>3

\* A handler goes on from where it was, and neither the stream's status nor Livepeer change.
LEMMA GoesOn ==
  ASSUME LifeInv, NEW h \in Works, NEW q, WorkBecomes(h, q),
         q.kind = work[h].kind, ~Over(h), q.pc # "start",
         Ending(work[h]) => Ending(q) \/ q.pc = "failed",
         stream' \in [status : Statuses, isActive : BOOLEAN, endedAt : BOOLEAN, likes : Nat, tips : Nat],
         stream'.status = stream.status, UNCHANGED <<livepeer, isTest>>
  PROVE  LifeInv'
<1>1. /\ work' \in [Works -> Work] /\ (\A g \in Works : KindOK(work'[g]))
      /\ work'[h] = q /\ \A g \in Works : g # h => work'[g] = work[g]
      /\ Smooth' => Smooth /\ ~q.late /\ q.pc # "failed"
  BY HandlerSteps
<1>2. \A g \in Works : Changing(g)' => Changing(g)
  BY <1>1 DEF Changing, Over
<1>3. InStep'
  <2> SUFFICES ASSUME Smooth' PROVE
        /\ \A f, g \in Works : Changing(f)' /\ Changing(g)' => f = g
        /\ \A g \in Works : work'[g].pc = "start" => livepeer
        /\ stream'.status = "LIVE" /\ ~livepeer => \E g \in Works : Ending(work'[g])
    BY DEF InStep
  <2>1. /\ \A f, g \in Works : Changing(f) /\ Changing(g) => f = g
        /\ \A g \in Works : work[g].pc = "start" => livepeer
        /\ stream.status = "LIVE" /\ ~livepeer => \E g \in Works : Ending(work[g])
    BY <1>1 DEF LifeInv, InStep
  <2>2. \A g \in Works : work'[g].pc = "start" => work[g].pc = "start"
    BY <1>1
  <2>3. \A g \in Works : Ending(work[g]) => Ending(work'[g])
    BY <1>1
  <2> QED
    BY <1>2, <2>1, <2>2, <2>3
<1> QED
  BY <1>1, <1>3 DEF LifeInv

\* The fields of a handler that goes to another place.
LEMMA PlaceChanges ==
  ASSUME LifeInv, NEW h \in Works, ~Over(h),
         NEW pc \in {"log", "create", "push", "idle", "done", "count", "failed"}, WorkGoto(h, pc),
         pc = "idle" => work[h].then = "idle"
  PROVE  \E q : /\ WorkBecomes(h, q) /\ q.pc = pc /\ q.kind = work[h].kind /\ q.then = work[h].then
                /\ q.late = work[h].late
<1>1. work[h] \in Work /\ KindOK(work[h])
  BY DEF LifeInv
<1> DEFINE q == [work[h] EXCEPT !.pc = pc]
<1>2. work' = [work EXCEPT ![h] = q]
  BY DEF WorkGoto
<1>3. q \in Work /\ q.pc = pc /\ q.kind = work[h].kind /\ q.then = work[h].then /\ q.late = work[h].late
  BY <1>1 DEF Work
<1> HIDE DEF q
<1>4. WorkBecomes(h, q)
  BY <1>1, <1>2, <1>3 DEF WorkBecomes, KindOK, Over
<1> QED
  BY <1>3, <1>4

\* A request begins: one that overlaps a webhook or an end, or starts a stream that
\* Livepeer does not have, is late.
LEMMA HandleOK ==
  ASSUME LifeInv, NEW h \in Works, NEW q \in Work, KindOK(q), WorkAt(h, "new"),
         work' = [work EXCEPT ![h] = q], UNCHANGED <<isTest, stream, livepeer>>,
         q.kind \in {"START", "END"} /\ q.pc \notin {"new", "done", "refused", "failed"} /\ Overlapping(h) => q.late,
         q.pc = "start" /\ ~livepeer => q.late
  PROVE  LifeInv'
<1>1. WorkBecomes(h, q)
  BY DEF LifeInv, KindOK, WorkAt, WorkBecomes
<1>2. /\ work' \in [Works -> Work] /\ (\A g \in Works : KindOK(work'[g]))
      /\ work'[h] = q /\ \A g \in Works : g # h => work'[g] = work[g]
      /\ Smooth' => Smooth /\ ~q.late /\ q.pc # "failed"
  BY <1>1, HandlerSteps
<1>3. ASSUME Smooth'
      PROVE  /\ \A f, g \in Works : Changing(f)' /\ Changing(g)' => f = g
             /\ \A g \in Works : work'[g].pc = "start" => livepeer
             /\ stream.status = "LIVE" /\ ~livepeer => \E g \in Works : Ending(work'[g])
  <2>1. /\ \A f, g \in Works : Changing(f) /\ Changing(g) => f = g
        /\ \A g \in Works : work[g].pc = "start" => livepeer
        /\ stream.status = "LIVE" /\ ~livepeer => \E g \in Works : Ending(work[g])
        /\ ~q.late
    BY <1>2, <1>3 DEF LifeInv, InStep
  <2>2. ASSUME Changing(h)', NEW g \in Works, g # h, Changing(g)' PROVE FALSE
    <3>1. q.kind \in {"START", "END"} /\ q.pc \notin {"new", "done", "refused", "failed"}
      BY <1>2, <2>2 DEF Changing, Over
    <3>2. Overlapping(h)
      BY <1>2, <2>2 DEF Changing, Over, Overlapping
    <3> QED
      BY <2>1, <3>1, <3>2
  <2>3. \A g \in Works : g # h => (Changing(g)' => Changing(g))
    BY <1>2 DEF Changing, Over
  <2>4. \A g \in Works : Ending(work[g]) => g # h
    BY DEF Ending, WorkAt
  <2> QED
    BY <1>2, <2>1, <2>2, <2>3, <2>4
<1>4. InStep'
  BY <1>3 DEF InStep
<1> QED
  BY <1>2, <1>4 DEF LifeInv

\* Every request that begins is one of these.
LEMMA RequestsOK ==
  ASSUME LifeInv, NEW h \in Works,
         \/ WebhookStarted(h) \/ WebhookIdle(h) \/ EndStream(h) \/ Message(h)
         \/ \E a \in Fans : LikeStream(h, a) \/ HandleGift(h, a)
  PROVE  LifeInv'
<1> DEFINE q(pc, kind, then, fan, late) ==
             [pc |-> pc, kind |-> kind, then |-> then, fan |-> fan, late |-> late]
<1>1. CASE WebhookStarted(h)
  <2>1. PICK late \in BOOLEAN : late = (~livepeer \/ Overlapping(h))
    BY Zenon
  <2>2. work' = [work EXCEPT ![h] = q("start", "START", "done", "nobody", late)]
    BY <1>1, <2>1 DEF WebhookStarted, Handle
  <2>3. q("start", "START", "done", "nobody", late) \in Work
    BY DEF Work, LogKinds
  <2> QED
    BY <1>1, <2>1, <2>2, <2>3, HandleOK DEF WebhookStarted, Handle, KindOK
<1>2. CASE WebhookIdle(h)
  <2>1. PICK late \in BOOLEAN : late = Overlapping(h)
    BY Zenon DEF Overlapping
  <2>2. PICK pc \in {"log", "delete"} : pc = (IF isTest THEN "log" ELSE "delete")
    BY Zenon
  <2>3. work' = [work EXCEPT ![h] = q(pc, "END", "idle", "nobody", late)]
    BY <1>2, <2>1, <2>2 DEF WebhookIdle, Handle
  <2>4. q(pc, "END", "idle", "nobody", late) \in Work
    BY DEF Work, LogKinds
  <2> QED
    BY <1>2, <2>1, <2>3, <2>4, HandleOK DEF WebhookIdle, Handle, KindOK
<1>3. CASE EndStream(h)
  <2>1. PICK late \in BOOLEAN : late = Overlapping(h)
    BY Zenon DEF Overlapping
  <2>2. work' = [work EXCEPT ![h] = q("save", "END", "done", "nobody", late)]
    BY <1>3, <2>1 DEF EndStream, Handle
  <2>3. q("save", "END", "done", "nobody", late) \in Work
    BY DEF Work, LogKinds
  <2> QED
    BY <1>3, <2>1, <2>2, <2>3, HandleOK DEF EndStream, Handle, KindOK
<1>4. CASE Message(h)
  <2>1. work' = [work EXCEPT ![h] = q("log", "MESSAGE", "done", "nobody", FALSE)]
    BY <1>4 DEF Message, Handle
  <2>2. q("log", "MESSAGE", "done", "nobody", FALSE) \in Work
    BY DEF Work, LogKinds
  <2> QED
    BY <1>4, <2>1, <2>2, HandleOK DEF Message, Handle, KindOK
<1>5. ASSUME NEW a \in Fans, LikeStream(h, a) PROVE LifeInv'
  <2>1. PICK again \in BOOLEAN : again = (\E g \in Works : WorkAt(g, "like") /\ work[g].fan = a)
    BY Zenon
  <2>2. PICK pc \in {"like", "refused"} :
          pc = (IF stream.status = "LIVE" /\ a \notin likesRecord THEN "like" ELSE "refused")
    BY Zenon
  <2>3. /\ work' = [work EXCEPT ![h] = q(pc, "LIKE", "done", a, again)] /\ WorkAt(h, "new")
        /\ UNCHANGED <<isTest, stream, livepeer>>
    BY Zenon, <1>5, <2>1, <2>2 DEF LikeStream, Handle
  <2>4. q(pc, "LIKE", "done", a, again) \in Work
    BY DEF Work, LogKinds
  <2> QED
    BY <2>3, <2>4, HandleOK DEF KindOK
<1>6. ASSUME NEW a \in Fans, HandleGift(h, a) PROVE LifeInv'
  <2>1. PICK pc \in {"log", "refused"} : pc = (IF stream.status = "LIVE" THEN "log" ELSE "refused")
    BY Zenon
  <2>2. /\ work' = [work EXCEPT ![h] = q(pc, "TIP", "count", a, FALSE)] /\ WorkAt(h, "new")
        /\ UNCHANGED <<isTest, stream, livepeer>>
    BY Zenon, <1>6, <2>1 DEF HandleGift, Handle
  <2>3. q(pc, "TIP", "count", a, FALSE) \in Work
    BY DEF Work, LogKinds
  <2> QED
    BY <2>2, <2>3, HandleOK DEF KindOK
<1> QED
  BY <1>1, <1>2, <1>3, <1>4, <1>5, <1>6

\* A handler that changes the stream's status or Livepeer: what a start stores is
\* Livepeer's, and who deletes a stream there goes on to end it here.
LEMMA ChangesOK ==
  ASSUME LifeInv, NEW h \in Works,
         StreamStarts(h) \/ DeleteAtLivepeer(h) \/ StreamIdle(h) \/ SaveEnd(h)
  PROVE  LifeInv'
<1>1. PICK pc \in {"log", "done", "failed"} :
        /\ WorkGoto(h, pc)
        /\ DeleteAtLivepeer(h) => pc = (IF livepeer THEN "log" ELSE "failed")
  BY DEF StreamStarts, DeleteAtLivepeer, StreamIdle, SaveEnd
<1>2. ~Over(h) /\ work[h].pc \in {"start", "delete", "idle", "save"} /\ UNCHANGED isTest
  BY DEF StreamStarts, DeleteAtLivepeer, StreamIdle, SaveEnd, Over, WorkAt
<1>3. PICK q :
        /\ WorkBecomes(h, q) /\ q.pc = pc /\ q.kind = work[h].kind /\ q.then = work[h].then
        /\ q.late = work[h].late
  BY <1>1, <1>2, PlaceChanges
<1>4. /\ work' \in [Works -> Work] /\ (\A g \in Works : KindOK(work'[g]))
      /\ work'[h] = q /\ \A g \in Works : g # h => work'[g] = work[g]
      /\ Smooth' => Smooth /\ ~q.late /\ q.pc # "failed"
  BY <1>3, HandlerSteps
<1>5. Changing(h)
  BY <1>2 DEF LifeInv, KindOK, Changing
<1>6. \A g \in Works : Changing(g)' => Changing(g)
  BY <1>3, <1>4, <1>5 DEF Changing, Over
<1>7. /\ stream' \in [status : Statuses, isActive : BOOLEAN, endedAt : BOOLEAN, likes : Nat, tips : Nat]
      /\ livepeer' \in BOOLEAN
  BY DEF LifeInv, Statuses, StreamStarts, DeleteAtLivepeer, StreamIdle, SaveEnd
<1>8. ASSUME Smooth'
      PROVE  /\ \A f, g \in Works : Changing(f)' /\ Changing(g)' => f = g
             /\ \A g \in Works : work'[g].pc = "start" => livepeer'
             /\ stream'.status = "LIVE" /\ ~livepeer' => \E g \in Works : Ending(work'[g])
  <2>1. /\ \A f, g \in Works : Changing(f) /\ Changing(g) => f = g
        /\ \A g \in Works : work[g].pc = "start" => livepeer
        /\ q.pc # "failed"
    BY <1>4, <1>8 DEF LifeInv, InStep
  <2>2. \A g \in Works : work'[g].pc = "start" => Changing(g) /\ g # h
    BY <1>3, <1>4 DEF KindOK, Changing, Over
  <2>3. \A g \in Works : work'[g].pc # "start"
    BY <1>5, <2>1, <2>2
  <2>4. CASE StreamStarts(h)
    <3>1. livepeer'
      BY <2>1, <2>4 DEF StreamStarts, WorkAt
    <3> QED
      BY <1>6, <2>1, <2>3, <3>1
  <2>5. CASE DeleteAtLivepeer(h)
    <3>1. pc = "log" /\ q.then = "idle"
      BY <1>1, <1>3, <2>1, <2>5 DEF DeleteAtLivepeer, WorkAt, LifeInv, KindOK
    <3>2. Ending(work'[h])
      BY <1>3, <1>4, <3>1 DEF Ending
    <3> QED
      BY <1>6, <2>1, <2>3, <3>2
  <2>6. CASE StreamIdle(h) \/ SaveEnd(h)
    <3>1. stream'.status \in {"OFFLINE", "ENDED"}
      BY <2>6 DEF LifeInv, StreamIdle, SaveEnd
    <3> QED
      BY <1>6, <2>1, <2>3, <3>1
  <2> QED
    BY <2>4, <2>5, <2>6
<1>9. InStep'
  BY <1>8 DEF InStep
<1> QED
  BY <1>2, <1>4, <1>7, <1>9 DEF LifeInv

\* The other steps of a handler: logs, likes, gifts and failures.
LEMMA OthersOK ==
  ASSUME LifeInv, NEW h \in Works,
         LogNext \/ ApplyLike(h) \/ CountGift(h)
  PROVE  LifeInv'
<1>1. PICK g \in Works :
        \/ LogAsks(g) \/ LogCreates(g) \/ LogPushes(g) \/ WorkFails(g) \/ ApplyLike(g) \/ CountGift(g)
  BY DEF LogNext
<1>2. work[g] \in Work /\ KindOK(work[g])
  BY DEF LifeInv
<1>3. PICK pc \in {"create", "push", "idle", "done", "count", "failed"} :
        /\ WorkGoto(g, pc)
        /\ pc = "idle" => work[g].then = "idle"
        /\ Ending(work[g]) /\ pc # "failed" => work[g].then = "idle" /\ pc \in {"create", "push", "idle"}
  BY <1>1, <1>2 DEF LogAsks, LogCreates, LogPushes, WorkFails, ApplyLike, CountGift, Work, Ending, WorkAt
<1>4. ~Over(g) /\ UNCHANGED <<isTest, livepeer>>
  BY <1>1 DEF LogAsks, LogCreates, LogPushes, WorkFails, ApplyLike, CountGift, Over, WorkAt
<1>5. /\ stream' \in [status : Statuses, isActive : BOOLEAN, endedAt : BOOLEAN, likes : Nat, tips : Nat]
      /\ stream'.status = stream.status
  BY <1>1 DEF LifeInv, LogAsks, LogCreates, LogPushes, WorkFails, ApplyLike, CountGift
<1>6. PICK q : WorkBecomes(g, q) /\ q.pc = pc /\ q.kind = work[g].kind /\ q.then = work[g].then
  BY <1>3, <1>4, PlaceChanges
<1>7. Ending(work[g]) => Ending(q) \/ q.pc = "failed"
  BY <1>3, <1>6 DEF Ending
<1> QED
  BY <1>4, <1>5, <1>6, <1>7, GoesOn

LEMMA LifeStep == LifeInv /\ [LifeNext]_lifeVars => LifeInv'
<1> SUFFICES ASSUME LifeInv, [LifeNext]_lifeVars PROVE LifeInv'
  OBVIOUS
<1>1. CASE UNCHANGED <<isTest, stream, livepeer, work>>
  BY <1>1 DEF LifeInv, InStep, Smooth, Changing, Over
<1>2. CASE CreateAtLivepeer \/ SaveNewStream
  <2>1. /\ UNCHANGED <<isTest, work>> /\ livepeer'
        /\ stream' \in [status : Statuses, isActive : BOOLEAN, endedAt : BOOLEAN, likes : Nat, tips : Nat]
    BY <1>2 DEF LifeInv, CreateAtLivepeer, SaveNewStream, Statuses
  <2>2. livepeer' = TRUE
    BY <1>2 DEF LifeInv, CreateAtLivepeer, SaveNewStream
  <2> QED
    BY <2>1, <2>2 DEF LifeInv, InStep, Smooth, Changing, Over
<1>3. CASE ShowNext
  BY <1>2, <1>3, RequestsOK, ChangesOK DEF ShowNext
<1>4. CASE LogNext \/ FanNext
  BY <1>4, RequestsOK, OthersOK DEF FanNext, LogNext
<1> QED
  BY <1>1, <1>3, <1>4 DEF LifeNext, lifeVars

LEMMA LifeInitOK == LifeInit => LifeInv
<1> SUFFICES ASSUME LifeInit PROVE LifeInv
  OBVIOUS
<1>1. /\ NewWork \in Work /\ KindOK(NewWork) /\ NewWork.pc = "new"
      /\ work = [h \in Works |-> NewWork]
  BY DEF LifeInit, NewWork, Work, KindOK, LogKinds
<1>2. \A h \in Works : work[h] = NewWork /\ ~Changing(h)
  BY <1>1 DEF Changing, Over
<1>3. InStep
  BY <1>1, <1>2 DEF LifeInit, InStep
<1> QED
  BY <1>1, <1>2, <1>3 DEF LifeInit, LifeInv, Statuses

\* However webhooks, ends, likes, gifts and messages of a stream are ordered, a stream that
\* Livepeer has deleted is not shown live when all is over, unless a webhook came late or
\* over another or a handler failed (handleStreamStart, handleStreamIdle, endStream).
THEOREM LiveAtLivepeer == LifeSpec => []LiveNeedsLivepeer
<1>1. LifeInv => LiveNeedsLivepeer
  BY DEF LifeInv, InStep, Smooth, LiveNeedsLivepeer, Over, Ending, WorkAt
<1> QED
  BY <1>1, LifeInitOK, LifeStep, PTL DEF LifeSpec

-----------------------------------------------------------------------------

\* Where the message lists a file.
Places(urls, f) == {i \in DOMAIN urls : urls[i] = f}

Loaded(j) == j.pc \in {"mark", "upload", "save"}

\* What a job has seen of its document: a version that is still the message's has the
\* message's list.
SeesRight(j) ==
  Loaded(j) => j.version <= message.version /\ (j.version = message.version => j.urls = message.urls)

\* A job in its place after the save has listed its file, which its next failure pays for.
Spent(j) == IF j.pc \in {"tell", "fail", "done", "dead"} THEN 1 ELSE 0

Listed(f) ==
  /\ upload[f].pc \in {"tell", "done"} => Places(message.urls, f) # {}
  /\ Cardinality(Places(message.urls, f)) <= upload[f].tries + deaths + Spent(upload[f])

Job == [pc : {"none", "wait", "mark", "upload", "save", "tell", "fail", "done", "dead"},
        tries : Nat, status : UploadStatus, urls : Seq(Files), version : Nat, stale : BOOLEAN]

UploadInv ==
  /\ message \in [status : UploadStatus, urls : Seq(Files), version : Nat]
  /\ upload \in [Files -> Job]
  /\ deaths \in Nat
  /\ \A f \in Files :
       /\ upload[f].pc = "none" => upload[f].tries = 0
       /\ SeesRight(upload[f])
       /\ Listed(f)

LEMMA PlacesFinite ==
  ASSUME NEW S, NEW urls \in Seq(S), NEW f
  PROVE  IsFiniteSet(Places(urls, f)) /\ Cardinality(Places(urls, f)) \in Nat
<1>1. DOMAIN urls = 1 .. Len(urls) /\ Len(urls) \in Nat
  OBVIOUS
<1>2. IsFiniteSet(1 .. Len(urls))
  BY <1>1, FS_Interval
<1>3. Places(urls, f) \in SUBSET (1 .. Len(urls))
  BY <1>1 DEF Places
<1>4. IsFiniteSet(Places(urls, f))
  BY <1>2, <1>3, FS_Subset
<1> QED
  BY <1>4, FS_CardinalityType

LEMMA PlacesAppend ==
  ASSUME NEW S, NEW urls \in Seq(S), NEW f \in S, NEW g \in S
  PROVE  /\ g # f => Places(Append(urls, f), g) = Places(urls, g)
         /\ Places(Append(urls, f), f) # {}
         /\ Cardinality(Places(Append(urls, f), f)) = Cardinality(Places(urls, f)) + 1
<1> DEFINE n == Len(urls) + 1
<1>1. /\ DOMAIN urls = 1 .. Len(urls) /\ Len(urls) \in Nat
      /\ DOMAIN Append(urls, f) = 1 .. n
      /\ Append(urls, f)[n] = f
      /\ \A i \in 1 .. Len(urls) : Append(urls, f)[i] = urls[i]
  OBVIOUS
<1>2. Places(Append(urls, f), f) = Places(urls, f) \cup {n} /\ n \notin Places(urls, f)
  BY <1>1 DEF Places
<1>3. g # f => Places(Append(urls, f), g) = Places(urls, g)
  BY <1>1 DEF Places
<1>4. IsFiniteSet(Places(urls, f))
  BY PlacesFinite
<1> HIDE DEF n
<1> QED
  BY <1>2, <1>3, <1>4, FS_AddElement

LEMMA Outweighs ==
  ASSUME NEW n \in Nat, NEW d \in Nat, NEW t \in Nat, NEW a \in Nat, NEW u \in Nat, NEW b \in Nat,
         n <= t + d + a, t + a <= u + b
  PROVE  n <= u + d + b
  OBVIOUS

\* A job goes on while the message keeps its list and version: it may load the document,
\* and what it stops accounting for is paid by a try.
LEMMA JobGoesOn ==
  ASSUME UploadInv, NEW f \in Files, NEW j \in Job, upload' = [upload EXCEPT ![f] = j],
         message' \in [status : UploadStatus, urls : Seq(Files), version : Nat],
         message'.urls = message.urls, message'.version = message.version, deaths' = deaths,
         j.pc # "none",
         SeesRight(j),
         j.pc \in {"tell", "done"} => upload[f].pc \in {"tell", "done"},
         upload[f].tries + Spent(upload[f]) <= j.tries + Spent(j)
  PROVE  UploadInv'
<1>1. upload' \in [Files -> Job] /\ upload'[f] = j /\ \A g \in Files : g # f => upload'[g] = upload[g]
  BY DEF UploadInv
<1>2. \A g \in Files : SeesRight(upload[g]) /\ Listed(g) /\ (upload[g].pc = "none" => upload[g].tries = 0)
  BY DEF UploadInv
<1>3. ASSUME NEW g \in Files PROVE SeesRight(upload[g])'
  BY <1>1, <1>2 DEF SeesRight
<1>4. ASSUME NEW g \in Files PROVE Listed(g)'
  <2>1. CASE g # f
    BY <1>1, <1>2, <2>1 DEF Listed
  <2>2. CASE g = f
    <3>1. Cardinality(Places(message.urls, f)) \in Nat
      BY PlacesFinite DEF UploadInv
    <3>2. upload[f].tries \in Nat /\ j.tries \in Nat /\ deaths \in Nat
      BY DEF UploadInv, Job
    <3>3. Spent(j) \in Nat /\ Spent(upload[f]) \in Nat
      BY DEF Spent
    <3>4. Cardinality(Places(message.urls, f)) <= upload[f].tries + deaths + Spent(upload[f])
      BY <1>2 DEF Listed
    <3>5. Cardinality(Places(message.urls, f)) <= j.tries + deaths + Spent(j)
      BY <3>1, <3>2, <3>3, <3>4, Outweighs
    <3>6. j.pc \in {"tell", "done"} => Places(message.urls, f) # {}
      BY <1>2 DEF Listed
    <3>7. Spent(upload[f])' = Spent(j)
      BY <1>1 DEF Spent
    <3> QED
      BY <1>1, <2>2, <3>5, <3>6, <3>7 DEF Listed
  <2> QED
    BY <2>1, <2>2
<1> QED
  BY <1>1, <1>2, <1>3, <1>4 DEF UploadInv

\* The save of a job whose version is still the message's.
LEMMA SaveListsFile ==
  ASSUME UploadInv, NEW f \in Files, SaveMedia(f), upload[f].version = message.version
  PROVE  UploadInv'
<1> DEFINE me == upload[f]
<1> DEFINE j == [me EXCEPT !.pc = "tell", !.version = me.version + 1]
<1>1. /\ upload' = [upload EXCEPT ![f] = j]
      /\ message' = [status |-> "success", urls |-> Append(me.urls, f), version |-> me.version + 1]
      /\ me.pc = "save" /\ deaths' = deaths
  BY DEF SaveMedia, UploadAt
<1>2. me \in Job /\ me.urls = message.urls /\ SeesRight(me) /\ Listed(f)
  <2>1. me \in Job /\ SeesRight(me) /\ Listed(f)
    BY DEF UploadInv
  <2> QED
    BY <1>1, <2>1 DEF SeesRight, Loaded
<1>3. j \in Job /\ j.pc = "tell" /\ j.tries = me.tries
  <2>1. me.version + 1 \in Nat
    BY <1>2 DEF Job
  <2> QED
    BY <1>2, <2>1, Zenon DEF Job
<1> HIDE DEF j
<1>4. /\ upload' \in [Files -> Job] /\ upload'[f] = j
      /\ \A g \in Files : g # f => upload'[g] = upload[g]
  BY <1>1, <1>3 DEF UploadInv
<1>5. /\ message' \in [status : UploadStatus, urls : Seq(Files), version : Nat]
      /\ message'.urls = Append(message.urls, f) /\ message'.version = message.version + 1
  BY <1>1, <1>2 DEF UploadInv, UploadStatus, Job
<1>6. message.urls \in Seq(Files) /\ message.version \in Nat
  BY DEF UploadInv
<1>7. ASSUME NEW g \in Files PROVE SeesRight(upload[g])'
  <2>1. SeesRight(upload[g]) /\ upload[g].version \in Nat
    BY DEF UploadInv, Job
  <2>2. CASE g # f
    <3>1. Loaded(upload[g]) => upload[g].version < message'.version
      BY <1>5, <1>6, <2>1 DEF SeesRight
    <3> QED
      BY <1>4, <1>5, <1>6, <2>1, <2>2, <3>1 DEF SeesRight, Loaded
  <2>3. CASE g = f
    BY <1>3, <1>4, <2>3 DEF SeesRight, Loaded
  <2> QED
    BY <2>2, <2>3
<1>8. ASSUME NEW g \in Files PROVE Listed(g)'
  <2>1. CASE g # f
    <3>1. Places(message'.urls, g) = Places(message.urls, g)
      BY <1>5, <1>6, <2>1, PlacesAppend
    <3> QED
      BY <1>1, <1>4, <2>1, <3>1 DEF UploadInv, Listed
  <2>2. CASE g = f
    <3>1. /\ Places(message'.urls, f) # {}
          /\ Cardinality(Places(message'.urls, f)) = Cardinality(Places(message.urls, f)) + 1
      BY <1>5, <1>6, PlacesAppend
    <3>2. Cardinality(Places(message.urls, f)) \in Nat /\ me.tries \in Nat /\ deaths \in Nat
      BY <1>2, <1>6, PlacesFinite DEF UploadInv, Job
    <3>3. Cardinality(Places(message.urls, f)) <= me.tries + deaths + Spent(me) /\ Spent(me) = 0
      BY <1>1, <1>2 DEF Listed, Spent
    <3>4. Spent(upload[f])' = 1
      BY <1>3, <1>4 DEF Spent
    <3> QED
      BY <1>1, <1>3, <1>4, <2>2, <3>1, <3>2, <3>3, <3>4 DEF Listed
  <2> QED
    BY <2>1, <2>2
<1>9. \A g \in Files : upload'[g].pc = "none" => upload'[g].tries = 0
  BY <1>3, <1>4 DEF UploadInv
<1> QED
  BY <1>1, <1>4, <1>5, <1>7, <1>8, <1>9 DEF UploadInv

\* The other steps of one job.
LEMMA JobStepOK ==
  ASSUME UploadInv, NEW f \in Files,
         \/ TakeUpload(f) \/ MarkPending(f) \/ UploadMedia(f) \/ TellProgress(f) \/ SaveFailure(f)
         \/ SaveMedia(f) /\ upload[f].version # message.version
  PROVE  UploadInv'
<1> DEFINE me == upload[f]
<1>1. me \in Job /\ SeesRight(me) /\ message \in [status : UploadStatus, urls : Seq(Files), version : Nat]
  BY DEF UploadInv
<1>2. me.tries \in Nat /\ upload \in [Files -> Job]
  BY <1>1 DEF Job, UploadInv
<1>3. CASE TakeUpload(f)
  <2> DEFINE j == [pc |-> "mark", tries |-> me.tries, stale |-> FALSE,
                   status |-> message.status, urls |-> message.urls, version |-> message.version]
  <2>1. upload' = [upload EXCEPT ![f] = j] /\ UNCHANGED <<message, deaths>> /\ me.pc = "wait"
    BY <1>3 DEF TakeUpload, UploadAt
  <2>2. j \in Job /\ SeesRight(j)
    BY <1>1, <1>2 DEF Job, SeesRight
  <2>3. me.tries + Spent(me) <= j.tries + Spent(j)
    BY <1>2, <2>1 DEF Spent
  <2> QED
    BY <1>1, <2>1, <2>2, <2>3, JobGoesOn
<1>4. CASE MarkPending(f)
  <2> DEFINE j == [me EXCEPT !.pc = "upload"]
  <2>1. /\ upload' = [upload EXCEPT ![f] = j] /\ me.pc = "mark" /\ deaths' = deaths
        /\ message' \in [status : UploadStatus, urls : Seq(Files), version : Nat]
        /\ message'.urls = message.urls /\ message'.version = message.version
    BY <1>1, <1>4 DEF MarkPending, UploadAt, UploadGoto, UploadStatus
  <2>2. j \in Job /\ SeesRight(j) /\ j.pc = "upload"
    BY <1>1, <2>1 DEF Job, SeesRight, Loaded
  <2>3. me.tries + Spent(me) <= j.tries + Spent(j)
    BY <1>1, <1>2, <2>1 DEF Spent, Job
  <2> QED
    BY <2>1, <2>2, <2>3, JobGoesOn
<1>5. CASE UploadMedia(f) \/ TellProgress(f)
  <2>1. PICK pc \in {"save", "fail", "done"} :
          /\ UploadGoto(f, pc) /\ UNCHANGED <<message, deaths>>
          /\ \/ pc \in {"save", "fail"} /\ me.pc = "upload"
             \/ pc \in {"done", "fail"} /\ me.pc = "tell"
    BY <1>5 DEF UploadMedia, TellProgress, UploadAt
  <2> DEFINE j == [me EXCEPT !.pc = pc]
  <2>2. upload' = [upload EXCEPT ![f] = j]
    BY <2>1 DEF UploadGoto
  <2>3. j \in Job /\ SeesRight(j) /\ j.pc = pc /\ j.tries = me.tries
    BY <1>1, <2>1 DEF Job, SeesRight, Loaded
  <2> HIDE DEF j
  <2>4. me.tries + Spent(me) <= j.tries + Spent(j)
    BY <1>2, <2>1, <2>3 DEF Spent
  <2> QED
    BY <1>1, <2>1, <2>2, <2>3, <2>4, JobGoesOn
<1>6. CASE SaveFailure(f)
  <2>1. PICK pc \in {"wait", "dead"} : pc = Retried(me.tries)
    BY DEF Retried
  <2> DEFINE j == [me EXCEPT !.pc = pc, !.tries = me.tries + 1]
  <2>2. /\ upload' = [upload EXCEPT ![f] = j] /\ me.pc = "fail" /\ deaths' = deaths
    BY <1>1, <1>2, <1>6, <2>1 DEF SaveFailure, UploadAt
  <2>5. /\ message' \in [status : UploadStatus, urls : Seq(Files), version : Nat]
        /\ message'.urls = message.urls /\ message'.version = message.version
    BY <1>1, <1>6 DEF SaveFailure, UploadStatus
  <2>3. j \in Job /\ j.pc = pc /\ j.tries = me.tries + 1
    <3>1. me.tries + 1 \in Nat
      BY <1>2
    <3> QED
      BY <1>1, <3>1, Zenon DEF Job
  <2> HIDE DEF j
  <2>4. SeesRight(j) /\ me.tries + Spent(me) <= j.tries + Spent(j)
    BY <1>2, <2>2, <2>3 DEF Spent, SeesRight, Loaded
  <2> QED
    BY <2>2, <2>3, <2>4, <2>5, JobGoesOn
<1>7. CASE SaveMedia(f) /\ me.version # message.version
  <2> DEFINE j == [me EXCEPT !.pc = "fail", !.stale = TRUE]
  <2>1. upload' = [upload EXCEPT ![f] = j] /\ UNCHANGED <<message, deaths>> /\ me.pc = "save"
    BY <1>7 DEF SaveMedia, UploadAt
  <2>2. j \in Job /\ j.pc = "fail" /\ j.tries = me.tries
    BY <1>1 DEF Job
  <2> HIDE DEF j
  <2>3. SeesRight(j) /\ me.tries + Spent(me) <= j.tries + Spent(j)
    BY <1>2, <2>1, <2>2 DEF Spent, SeesRight, Loaded
  <2> QED
    BY <1>1, <2>1, <2>2, <2>3, JobGoesOn
<1> QED
  BY <1>3, <1>4, <1>5, <1>6, <1>7

\* The jobs of a message are queued when it has none, and none has failed yet.
LEMMA BulkAddOK ==
  ASSUME UploadInv, NEW S \in SUBSET Files, BulkAdd(S)
  PROVE  UploadInv'
<1>1. /\ upload' = [f \in Files |-> IF f \in S THEN [NoUpload EXCEPT !.pc = "wait"] ELSE NoUpload]
      /\ UNCHANGED <<message, deaths>>
      /\ \A f \in Files : upload[f].pc = "none"
  BY DEF BulkAdd, UploadAt
<1>2. ASSUME NEW f \in Files
      PROVE  /\ upload'[f] \in Job /\ upload'[f].pc \in {"none", "wait"} /\ upload'[f].tries = 0
             /\ SeesRight(upload[f])' /\ Listed(f)'
  <2>1. upload'[f] \in Job /\ upload'[f].pc \in {"none", "wait"} /\ upload'[f].tries = 0
    <3>1. <<>> \in Seq(Files)
      OBVIOUS
    <3> QED
      BY <1>1, <3>1 DEF NoUpload, Job, UploadStatus
  <2>2. Cardinality(Places(message.urls, f)) <= upload[f].tries + deaths + Spent(upload[f])
    BY DEF UploadInv, Listed
  <2>3. upload[f].tries = 0 /\ Spent(upload[f]) = 0
    BY <1>1 DEF UploadInv, Spent
  <2>4. Spent(upload[f])' = 0
    BY <2>1 DEF Spent
  <2>5. Listed(f)'
    BY <1>1, <2>1, <2>2, <2>3, <2>4 DEF Listed
  <2> QED
    BY <2>1, <2>5 DEF SeesRight, Loaded
<1>3. upload' \in [Files -> Job]
  BY <1>1, <1>2
<1> QED
  BY <1>1, <1>2, <1>3 DEF UploadInv

\* A job that runs again after a death has the death to pay for what it had listed.
LEMMA DeathsOK ==
  ASSUME UploadInv, ProcessesDie
  PROVE  UploadInv'
<1>1. PICK again \in {"wait", "dead"} :
        upload' = [f \in Files |-> IF Active(upload[f].pc) THEN [upload[f] EXCEPT !.pc = again]
                                   ELSE upload[f]]
  BY DEF ProcessesDie
<1>2. deaths' = deaths + 1 /\ message' = message
  BY DEF ProcessesDie
<1>3. ASSUME NEW f \in Files
      PROVE  /\ upload'[f] \in Job /\ (upload'[f].pc = "none" => upload'[f].tries = 0)
             /\ SeesRight(upload[f])' /\ Listed(f)'
  <2>1. upload[f] \in Job /\ SeesRight(upload[f]) /\ Listed(f)
        /\ (upload[f].pc = "none" => upload[f].tries = 0)
    BY DEF UploadInv
  <2>2. CASE ~Active(upload[f].pc)
    <3>1. upload'[f] = upload[f]
      BY <1>1, <2>2
    <3>2. Cardinality(Places(message.urls, f)) \in Nat /\ upload[f].tries \in Nat /\ deaths \in Nat
      BY PlacesFinite DEF UploadInv, Job
    <3>3. Spent(upload[f]) \in Nat /\ Spent(upload[f])' = Spent(upload[f])
      BY <3>1 DEF Spent
    <3>4. Listed(f)'
      BY <1>2, <2>1, <3>1, <3>2, <3>3 DEF Listed
    <3> QED
      BY <1>2, <2>1, <3>1, <3>4 DEF SeesRight
  <2>3. CASE Active(upload[f].pc)
    <3>1. upload'[f] = [upload[f] EXCEPT !.pc = again]
      BY <1>1, <2>3
    <3>2. upload'[f] \in Job /\ upload'[f].pc = again /\ upload'[f].tries = upload[f].tries
      BY <2>1, <3>1 DEF Job
    <3>3. Cardinality(Places(message.urls, f)) \in Nat /\ upload[f].tries \in Nat /\ deaths \in Nat
      BY PlacesFinite DEF UploadInv, Job
    <3>4. Spent(upload[f]) \in {0, 1} /\ Spent(upload[f])' \in {0, 1}
      BY DEF Spent
    <3>5. Cardinality(Places(message.urls, f)) <= upload[f].tries + (deaths + 1) + Spent(upload[f])'
      BY <2>1, <3>3, <3>4 DEF Listed
    <3>6. Listed(f)'
      BY <1>2, <3>2, <3>5 DEF Listed
    <3> QED
      BY <3>2, <3>6 DEF SeesRight, Loaded
  <2> QED
    BY <2>2, <2>3
<1>4. upload' \in [Files -> Job]
  BY <1>1, <1>3
<1> QED
  BY <1>2, <1>3, <1>4 DEF UploadInv

LEMMA UploadStep == UploadInv /\ [JobNext]_jobVars => UploadInv'
<1> SUFFICES ASSUME UploadInv, [JobNext]_jobVars PROVE UploadInv'
  OBVIOUS
<1>1. CASE UNCHANGED <<message, upload, deaths>>
  BY <1>1 DEF UploadInv, SeesRight, Listed, Spent
<1>2. CASE CreateMessage
  <2>1. /\ message' \in [status : UploadStatus, urls : Seq(Files), version : Nat]
        /\ message'.urls = message.urls /\ message'.version = message.version
        /\ UNCHANGED <<upload, deaths>>
    BY <1>2 DEF UploadInv, CreateMessage, UploadStatus
  <2>2. \A f \in Files : SeesRight(upload[f])' /\ Listed(f)'
    BY <2>1 DEF UploadInv, SeesRight, Listed, Spent
  <2> QED
    BY <2>1, <2>2 DEF UploadInv
<1>3. CASE DmNext
  BY <1>2, <1>3, BulkAddOK, SaveListsFile, JobStepOK DEF DmNext
<1>4. CASE VideoNext
  BY <1>1, <1>4 DEF VideoNext, WriteTempFile, AddJob, TakeVideo, ReadTempFile, TranscodeAndUpload,
                    SaveVideo, FinishVideo, FailVideo, dmVars
<1>5. CASE ProcessesDie
  BY <1>5, DeathsOK
<1> QED
  BY <1>1, <1>3, <1>4, <1>5 DEF JobNext, jobVars, dmVars

\* However the jobs of a message's files are interleaved, retried and killed, for any files:
\* a file whose job ended well is listed, and no more often than one more than its job
\* failed or its process died (JobProcessor.handleUploadDm, Message.save).
THEOREM UploadsAreKept == JobSpec => []UploadsKept
<1>1. ASSUME JobInit PROVE UploadInv
  <2>1. /\ message.urls = <<>> /\ deaths = 0 /\ upload = [f \in Files |-> NoUpload]
        /\ message \in [status : UploadStatus, urls : Seq(Files), version : Nat]
    BY <1>1 DEF JobInit, UploadStatus
  <2>2. NoUpload \in Job /\ NoUpload.pc = "none" /\ NoUpload.tries = 0
    BY DEF NoUpload, Job, UploadStatus
  <2>3. \A f : Places(<<>>, f) = {}
    BY DEF Places
  <2>4. Cardinality({}) = 0
    BY FS_EmptySet
  <2>5. ASSUME NEW f \in Files PROVE SeesRight(upload[f]) /\ Listed(f)
    <3>1. upload[f] = NoUpload
      BY <2>1
    <3>2. Spent(upload[f]) = 0
      BY <2>2, <3>1 DEF Spent
    <3>3. Places(message.urls, f) = {}
      BY <2>1, <2>3
    <3>4. Cardinality(Places(message.urls, f)) <= upload[f].tries + deaths + Spent(upload[f])
      <4>1. Cardinality(Places(message.urls, f)) = 0
        BY <2>4, <3>3, Zenon
      <4>2. upload[f].tries = 0
        BY <2>2, <3>1
      <4> QED
        BY <2>1, <3>2, <4>1, <4>2
    <3> QED
      BY <2>2, <3>1, <3>4 DEF SeesRight, Loaded, Listed
  <2> QED
    BY <2>1, <2>2, <2>5 DEF UploadInv
<1>2. ASSUME UploadInv PROVE UploadsKept
  <2> SUFFICES ASSUME NEW f \in Files
               PROVE  /\ upload[f].pc = "done" => Cardinality(Places(message.urls, f)) > 0
                      /\ Cardinality(Places(message.urls, f)) <= upload[f].tries + deaths + 1
    BY Zenon DEF UploadsKept, UploadAt, Places
  <2>1. Listed(f) /\ upload[f].tries \in Nat /\ deaths \in Nat /\ message.urls \in Seq(Files)
    BY <1>2 DEF UploadInv, Job
  <2>2. IsFiniteSet(Places(message.urls, f)) /\ Cardinality(Places(message.urls, f)) \in Nat
    BY <2>1, PlacesFinite
  <2>3. Spent(upload[f]) \in {0, 1}
    BY DEF Spent
  <2>4. Cardinality(Places(message.urls, f)) = 0 => Places(message.urls, f) = {}
    BY <2>2, FS_EmptySet
  <2> QED
    BY <2>1, <2>2, <2>3, <2>4 DEF Listed
<1> QED
  BY <1>1, <1>2, UploadStep, PTL DEF JobSpec

\* While no process has died, a video that is done is done with its job.
Finished ==
  /\ deaths \in Nat
  /\ video \in [status : {"none", "on", "done", "failed"}, uploaded : BOOLEAN]
  /\ transcode \in
       [pc : {"none", "queue", "wait", "read", "upload", "save", "finish", "fail", "done", "dead"},
        tries : Nat]
  /\ deaths = 0 /\ video.status = "done" => transcode.pc \in {"finish", "done"}

\* A video that was transcoded stays 'done' whatever retries follow, as long as no process
\* dies between its save and the end of its job (handleTranscode).
THEOREM VideosStayDone == JobSpec => DoneStays
<1>1. JobInit => Finished
  BY DEF JobInit, Finished
<1>2. Finished /\ [JobNext]_jobVars => Finished'
  <2> SUFFICES ASSUME Finished, [JobNext]_jobVars PROVE Finished'
    OBVIOUS
  <2>1. CASE UNCHANGED <<deaths, video, transcode>>
    BY <2>1 DEF Finished
  <2>2. CASE DmNext
    BY <2>1, <2>2 DEF DmNext, CreateMessage, BulkAdd, TakeUpload, MarkPending, UploadMedia, SaveMedia,
                      TellProgress, SaveFailure, videoVars
  <2>3. CASE FailVideo
    BY <2>3 DEF FailVideo, Retried, TranscodeAt, Finished
  <2>4. CASE VideoNext /\ ~FailVideo
    <3>1. PICK pc \in {"none", "queue", "wait", "read", "upload", "save", "finish", "fail", "done"} :
            /\ TranscodeGoto(pc) /\ UNCHANGED deaths
            /\ transcode.pc \in {"finish", "done"} => pc \in {"finish", "done"} /\ UNCHANGED video
            /\ \/ UNCHANGED video
               \/ video' = [video EXCEPT !.status = "on"]
               \/ video' = [status |-> "done", uploaded |-> TRUE] /\ pc = "finish"
      BY <2>4 DEF VideoNext, WriteTempFile, AddJob, TakeVideo, ReadTempFile, TranscodeAndUpload,
                  SaveVideo, FinishVideo, TranscodeAt
    <3>2. transcode'.pc = pc /\ transcode' \in
            [pc : {"none", "queue", "wait", "read", "upload", "save", "finish", "fail", "done", "dead"},
             tries : Nat]
      BY <3>1 DEF TranscodeGoto, Finished
    <3>3. video' \in [status : {"none", "on", "done", "failed"}, uploaded : BOOLEAN]
      <4>1. video \in [status : {"none", "on", "done", "failed"}, uploaded : BOOLEAN]
        BY DEF Finished
      <4>2. CASE video' = [video EXCEPT !.status = "on"]
        BY <4>1, <4>2
      <4>3. CASE video' = [status |-> "done", uploaded |-> TRUE]
        BY <4>3
      <4> QED
        BY <3>1, <4>1, <4>2, <4>3
    <3>4. deaths = 0 /\ video'.status = "done" => pc \in {"finish", "done"}
      BY <3>1 DEF Finished
    <3> QED
      BY <3>1, <3>2, <3>3, <3>4 DEF Finished
  <2>5. CASE ProcessesDie
    BY <2>5 DEF ProcessesDie, Finished
  <2> QED
    BY <2>1, <2>2, <2>3, <2>4, <2>5 DEF JobNext, jobVars, videoVars
<1>3. Finished /\ [JobNext]_jobVars => [video.status = "done" /\ deaths' = 0 => video.status' = "done"]_jobVars
  <2> SUFFICES ASSUME Finished, JobNext, video.status = "done", deaths' = 0 PROVE video'.status = "done"
    BY Zenon
  <2>1. CASE DmNext
    BY <2>1 DEF DmNext, CreateMessage, BulkAdd, TakeUpload, MarkPending, UploadMedia, SaveMedia,
                TellProgress, SaveFailure, videoVars
  <2>2. CASE VideoNext
    BY <2>2 DEF VideoNext, WriteTempFile, AddJob, TakeVideo, ReadTempFile, TranscodeAndUpload,
                SaveVideo, FinishVideo, FailVideo, TranscodeAt, Finished
  <2>3. CASE ProcessesDie
    BY <2>3 DEF ProcessesDie
  <2> QED
    BY <2>1, <2>2, <2>3 DEF JobNext
<1> QED
  BY <1>1, <1>2, <1>3, PTL DEF JobSpec, DoneStays

-----------------------------------------------------------------------------
(***************************************************************************)
(* Types.                                                                  *)
(***************************************************************************)

\* What the type of a stream says besides LifeInv, and whose like is on its way.
LifeRest ==
  /\ likesRecord \in SUBSET Fans
  /\ entries \in SUBSET Works /\ listed \in SUBSET entries
  /\ \A h \in Works : /\ work[h].pc = "push" => h \in entries
                      /\ work[h].pc = "like" => work[h].fan \in Fans

LEMMA HandlerRest ==
  ASSUME LifeInv, LifeRest, NEW h \in Works, NEW q, work' = [work EXCEPT ![h] = q],
         q.pc = "push" => h \in entries', q.pc = "like" => q.fan \in Fans,
         likesRecord' \in SUBSET Fans, entries' \in SUBSET Works, entries \in SUBSET entries',
         listed' \in SUBSET entries'
  PROVE  LifeRest'
<1>1. work'[h] = q /\ \A g \in Works : g # h => work'[g] = work[g]
  BY DEF LifeInv
<1> QED
  BY <1>1 DEF LifeRest

LEMMA LifeRestStep == LifeInv /\ LifeRest /\ [LifeNext]_lifeVars => LifeRest'
<1> SUFFICES ASSUME LifeInv, LifeRest, [LifeNext]_lifeVars PROVE LifeRest'
  OBVIOUS
<1>1. \A h \in Works : work[h] \in Work
  BY DEF LifeInv
<1>2. /\ likesRecord \in SUBSET Fans /\ entries \in SUBSET Works /\ listed \in SUBSET entries
      /\ \A h \in Works : work[h].pc = "push" => h \in entries
      /\ \A h \in Works : work[h].pc = "like" => work[h].fan \in Fans
  BY DEF LifeRest
<1>3. ASSUME NEW h \in Works, NEW pc, WorkGoto(h, pc), pc # "like", pc = "push" => h \in entries',
             likesRecord' \in SUBSET Fans, entries' \in SUBSET Works, entries \in SUBSET entries',
             listed' \in SUBSET entries'
      PROVE  LifeRest'
  <2> DEFINE q == [work[h] EXCEPT !.pc = pc]
  <2>1. work' = [work EXCEPT ![h] = q]
    BY <1>3, Zenon DEF WorkGoto
  <2>2. q.pc = pc
    BY <1>1 DEF Work
  <2> HIDE DEF q
  <2> QED
    BY <1>3, <2>1, <2>2, HandlerRest
<1>4. ASSUME NEW h \in Works, NEW pc, NEW kind, NEW then, NEW fan, NEW late,
             Handle(h, pc, kind, then, fan, late), pc # "push", pc = "like" => fan \in Fans
      PROVE  LifeRest'
  <2> DEFINE q == [pc |-> pc, kind |-> kind, then |-> then, fan |-> fan, late |-> late]
  <2>1. work' = [work EXCEPT ![h] = q] /\ UNCHANGED <<likesRecord, entries, listed>>
    BY <1>4 DEF Handle
  <2>2. q.pc = pc /\ q.fan = fan
    OBVIOUS
  <2> HIDE DEF q
  <2> QED
    BY <1>2, <1>4, <2>1, <2>2, HandlerRest
<1>5. ASSUME ShowNext PROVE LifeRest'
  <2>1. CASE CreateAtLivepeer \/ SaveNewStream
    BY <2>1 DEF CreateAtLivepeer, SaveNewStream, LifeRest
  <2>2. ASSUME NEW h \in Works, WebhookStarted(h) \/ WebhookIdle(h) \/ EndStream(h) PROVE LifeRest'
    BY <1>4, <2>2 DEF WebhookStarted, WebhookIdle, EndStream
  <2>3. ASSUME NEW h \in Works, StreamStarts(h) \/ DeleteAtLivepeer(h) \/ StreamIdle(h) \/ SaveEnd(h)
        PROVE  LifeRest'
    <3>1. UNCHANGED <<likesRecord, entries, listed>>
      BY <2>3 DEF StreamStarts, DeleteAtLivepeer, StreamIdle, SaveEnd
    <3>2. WorkGoto(h, "log") \/ WorkGoto(h, "failed") \/ WorkGoto(h, "done")
      BY <2>3 DEF StreamStarts, DeleteAtLivepeer, StreamIdle, SaveEnd
    <3> QED
      BY <1>2, <1>3, <3>1, <3>2
  <2> QED
    BY <1>5, <2>1, <2>2, <2>3 DEF ShowNext
<1>6. ASSUME LogNext PROVE LifeRest'
  <2>1. PICK h \in Works : LogAsks(h) \/ LogCreates(h) \/ LogPushes(h) \/ WorkFails(h)
    BY <1>6 DEF LogNext
  <2>2. work[h].then \in {"done", "idle", "count"}
    BY <1>1 DEF Work
  <2>3. CASE LogAsks(h) \/ WorkFails(h)
    <3>1. UNCHANGED <<likesRecord, entries, listed>>
      BY <2>3 DEF LogAsks, WorkFails
    <3>2. WorkGoto(h, "create") \/ WorkGoto(h, work[h].then) \/ WorkGoto(h, "failed")
      BY <2>3 DEF LogAsks, WorkFails
    <3> QED
      BY <1>2, <1>3, <2>2, <3>1, <3>2
  <2>4. CASE LogCreates(h)
    BY <1>2, <1>3, <2>4 DEF LogCreates
  <2>5. CASE LogPushes(h)
    BY <1>2, <1>3, <2>2, <2>5 DEF LogPushes, WorkAt
  <2> QED
    BY <2>1, <2>3, <2>4, <2>5
<1>7. ASSUME FanNext PROVE LifeRest'
  <2>1. ASSUME NEW h \in Works, Message(h) PROVE LifeRest'
    BY <1>4, <2>1 DEF Message
  <2>2. ASSUME NEW h \in Works, NEW a \in Fans, LikeStream(h, a) \/ HandleGift(h, a) PROVE LifeRest'
    <3>1. CASE LikeStream(h, a)
      <4>1. PICK pc \in {"like", "refused"} :
              Handle(h, pc, "LIKE", "done", a, \E g \in Works : WorkAt(g, "like") /\ work[g].fan = a)
        BY <3>1 DEF LikeStream
      <4> QED
        BY <1>4, <4>1
    <3>2. CASE HandleGift(h, a)
      <4>1. PICK pc \in {"log", "refused"} : Handle(h, pc, "TIP", "count", a, FALSE)
        BY <3>2 DEF HandleGift
      <4> QED
        BY <1>4, <4>1
    <3> QED
      BY <2>2, <3>1, <3>2
  <2>3. ASSUME NEW h \in Works, ApplyLike(h) PROVE LifeRest'
    BY <1>2, <1>3, <2>3 DEF ApplyLike, WorkAt
  <2>4. ASSUME NEW h \in Works, CountGift(h) PROVE LifeRest'
    BY <1>2, <1>3, <2>4 DEF CountGift
  <2> QED
    BY <1>7, <2>1, <2>2, <2>3, <2>4 DEF FanNext
<1>8. CASE UNCHANGED lifeVars
  BY <1>8 DEF lifeVars, LifeRest
<1> QED
  BY <1>5, <1>6, <1>7, <1>8 DEF LifeNext

\* Livestreams: the list of a stream holds entries that exist, and its likes are the fans'.
THEOREM LifeTyped == LifeSpec => []LifeTypeOK
<1>1. LifeInit => LifeRest
  BY DEF LifeInit, LifeRest, NewWork
<1>2. LifeInv /\ LifeRest => LifeTypeOK
  BY DEF LifeInv, LifeRest, LifeTypeOK
<1> QED
  BY <1>1, <1>2, LifeInitOK, LifeStep, LifeRestStep, PTL DEF LifeSpec

\* A job that has not ended for good has an attempt left.
JobShape ==
  /\ JobTypeOK
  /\ \A f \in Files : upload[f].pc # "dead" => upload[f].tries < Attempts
  /\ transcode.pc # "dead" => transcode.tries < Attempts

\* What is expected of the job that a step leaves.
Shaped(j) == j \in Upload /\ (j.pc # "dead" => j.tries < Attempts) /\ j.version <= message'.version

LEMMA ShapeOfUpload ==
  ASSUME JobShape, NEW f \in Files, NEW j, upload' = [upload EXCEPT ![f] = j], Shaped(j),
         message' \in [status : UploadStatus, urls : Seq(Files), version : Nat],
         message.version <= message'.version, UNCHANGED videoVars, deaths' = deaths
  PROVE  JobShape'
<1>1. upload' \in [Files -> Upload] /\ upload'[f] = j /\ \A g \in Files : g # f => upload'[g] = upload[g]
  BY DEF JobShape, JobTypeOK, Shaped
<1>2. message.version \in Nat /\ message'.version \in Nat /\ \A g \in Files : upload[g].version \in Nat
  BY DEF JobShape, JobTypeOK, Upload
<1>3. \A g \in Files : upload'[g].version <= message'.version
  BY <1>1, <1>2 DEF JobShape, JobTypeOK, Shaped
<1> QED
  BY <1>1, <1>3 DEF JobShape, JobTypeOK, Shaped, videoVars

\* The fields of a job that goes to another place.
LEMMA UploadGoes ==
  ASSUME JobShape, NEW f \in Files, upload[f].pc # "dead",
         NEW pc \in {"wait", "upload", "save", "tell", "fail", "done"}, UploadGoto(f, pc),
         message' \in [status : UploadStatus, urls : Seq(Files), version : Nat],
         message'.version = message.version, UNCHANGED videoVars, deaths' = deaths
  PROVE  JobShape'
<1> DEFINE j == [upload[f] EXCEPT !.pc = pc]
<1>1. upload[f] \in Upload /\ upload[f].tries < Attempts /\ upload[f].version <= message.version
  BY DEF JobShape, JobTypeOK
<1>2. upload' = [upload EXCEPT ![f] = j]
  BY Zenon DEF UploadGoto
<1>3. j \in Upload /\ j.tries = upload[f].tries /\ j.version = upload[f].version
  BY <1>1 DEF Upload
<1>4. message.version <= message'.version
  BY DEF JobShape, JobTypeOK
<1> HIDE DEF j
<1> QED
  BY <1>1, <1>2, <1>3, <1>4, ShapeOfUpload DEF Shaped

LEMMA NewUpload ==
  /\ NoUpload \in Upload /\ NoUpload.tries < Attempts /\ NoUpload.version = 0
  /\ LET new == [NoUpload EXCEPT !.pc = "wait"]
     IN new \in Upload /\ new.tries < Attempts /\ new.version = 0
<1> DEFINE new == [NoUpload EXCEPT !.pc = "wait"]
<1>1. <<>> \in Seq(Files) /\ 0 \in 0 .. Attempts /\ 0 < Attempts
  BY AttemptsAssumption
<1>2. NoUpload \in Upload /\ NoUpload.tries = 0 /\ NoUpload.version = 0
  BY <1>1 DEF NoUpload, Upload, UploadStatus
<1>3. new \in Upload /\ new.tries = 0 /\ new.version = 0
  BY <1>2 DEF Upload
<1> QED
  BY <1>1, <1>2, <1>3

LEMMA DmShape == ASSUME JobShape, DmNext PROVE JobShape'
<1>1. /\ message \in [status : UploadStatus, urls : Seq(Files), version : Nat]
      /\ \A f \in Files : /\ upload[f] \in Upload /\ upload[f].version <= message.version
                          /\ upload[f].pc # "dead" => upload[f].tries < Attempts
  BY DEF JobShape, JobTypeOK
<1>2. message.version \in Nat /\ message.version <= message.version
  BY <1>1
<1>3. CASE CreateMessage
  BY <1>3 DEF CreateMessage, JobShape, JobTypeOK, UploadStatus, videoVars
<1>4. ASSUME NEW S \in SUBSET Files, BulkAdd(S) PROVE JobShape'
  <2> DEFINE new == [NoUpload EXCEPT !.pc = "wait"]
  <2>1. \A j \in {new, NoUpload} : j \in Upload /\ j.tries < Attempts /\ j.version <= message.version
    <3>1. \A j \in {new, NoUpload} : j \in Upload /\ j.tries < Attempts /\ j.version = 0
      BY NewUpload
    <3> HIDE DEF new
    <3> QED
      BY <1>2, <1>1, <3>1
  <2>2. upload' = [f \in Files |-> IF f \in S THEN new ELSE NoUpload]
    BY <1>4, Zenon DEF BulkAdd
  <2> HIDE DEF new
  <2>3. upload' \in [Files -> Upload] /\ \A f \in Files : upload'[f] \in {new, NoUpload}
    BY <2>1, <2>2
  <2> QED
    BY <1>4, <2>1, <2>3 DEF BulkAdd, JobShape, JobTypeOK, videoVars
<1>5. ASSUME NEW f \in Files, TakeUpload(f) PROVE JobShape'
  <2> DEFINE j == [pc |-> "mark", tries |-> upload[f].tries, stale |-> FALSE,
                   status |-> message.status, urls |-> message.urls, version |-> message.version]
  <2>1. upload' = [upload EXCEPT ![f] = j]
    BY <1>5, Zenon DEF TakeUpload
  <2>2. Shaped(j) /\ message' = message
    BY <1>1, <1>2, <1>5 DEF TakeUpload, UploadAt, Shaped, Upload
  <2> HIDE DEF j
  <2> QED
    BY <1>1, <1>2, <1>5, <2>1, <2>2, ShapeOfUpload DEF TakeUpload
<1>6. ASSUME NEW f \in Files, MarkPending(f) PROVE JobShape'
  <2>1. message' \in [status : UploadStatus, urls : Seq(Files), version : Nat]
        /\ message'.version = message.version
    BY <1>1, <1>6 DEF MarkPending, UploadStatus
  <2> QED
    BY <1>6, <2>1, UploadGoes DEF MarkPending, UploadAt
<1>7. ASSUME NEW f \in Files, UploadMedia(f) \/ TellProgress(f) PROVE JobShape'
  BY <1>1, <1>7, UploadGoes DEF UploadMedia, TellProgress, UploadAt
<1>8. ASSUME NEW f \in Files, SaveMedia(f) PROVE JobShape'
  <2> DEFINE me == upload[f]
             saved == [me EXCEPT !.pc = "tell", !.version = me.version + 1]
             refused == [me EXCEPT !.pc = "fail", !.stale = TRUE]
  <2>1. me \in Upload /\ me.pc = "save" /\ me.tries < Attempts /\ me.version <= message.version
    BY <1>1, <1>8 DEF SaveMedia, UploadAt
  <2>2. CASE me.version = message.version
    <3>1. upload' = [upload EXCEPT ![f] = saved]
      BY <1>8, <2>2, Zenon DEF SaveMedia
    <3>2. message' = [status |-> "success", urls |-> Append(me.urls, f), version |-> me.version + 1]
      BY <1>8, <2>2 DEF SaveMedia
    <3>3. me.urls \in Seq(Files) /\ me.version \in Nat /\ me.version + 1 \in Nat
      BY <2>1 DEF Upload
    <3>4. message' \in [status : UploadStatus, urls : Seq(Files), version : Nat]
          /\ message.version <= message'.version /\ message'.version = me.version + 1
      BY <2>2, <3>2, <3>3 DEF UploadStatus
    <3>5. saved \in Upload /\ saved.tries = me.tries /\ saved.version = me.version + 1
      <4> DEFINE next == me.version + 1
      <4>1. next \in Nat
        BY <3>3
      <4> HIDE DEF next
      <4>2. [me EXCEPT !.pc = "tell", !.version = next] \in Upload
            /\ [me EXCEPT !.pc = "tell", !.version = next].tries = me.tries
            /\ [me EXCEPT !.pc = "tell", !.version = next].version = next
        BY <2>1, <4>1 DEF Upload
      <4> QED
        BY <4>2 DEF next
    <3> HIDE DEF saved, me
    <3>6. Shaped(saved)
      BY <2>1, <3>3, <3>4, <3>5 DEF Shaped
    <3> QED
      BY <1>8, <3>1, <3>4, <3>6, ShapeOfUpload DEF SaveMedia
  <2>3. CASE me.version # message.version
    <3>1. upload' = [upload EXCEPT ![f] = refused]
      BY <1>8, <2>3, Zenon DEF SaveMedia
    <3>2. message' = message
      BY <1>8, <2>3 DEF SaveMedia
    <3>3. refused \in Upload /\ refused.tries = me.tries /\ refused.version = me.version
      BY <2>1 DEF Upload
    <3> HIDE DEF refused, me
    <3>4. Shaped(refused)
      BY <2>1, <3>2, <3>3 DEF Shaped
    <3> QED
      BY <1>1, <1>2, <1>8, <3>1, <3>2, <3>4, ShapeOfUpload DEF SaveMedia
  <2> QED
    BY <2>2, <2>3
<1>9. ASSUME NEW f \in Files, SaveFailure(f) PROVE JobShape'
  <2> DEFINE me == upload[f]
             pc == Retried(me.tries)
             j == [me EXCEPT !.pc = pc, !.tries = me.tries + 1]
  <2>1. me \in Upload /\ me.pc = "fail" /\ me.tries < Attempts /\ me.version <= message.version
    BY <1>1, <1>9 DEF SaveFailure, UploadAt
  <2>2. upload' = [upload EXCEPT ![f] = j]
    BY <1>9, Zenon DEF SaveFailure
  <2>3. message' \in [status : UploadStatus, urls : Seq(Files), version : Nat]
        /\ message'.version = message.version
    BY <1>1, <1>9 DEF SaveFailure, UploadStatus
  <2>4. /\ me.tries \in Nat /\ me.tries + 1 \in 0 .. Attempts /\ pc \in {"wait", "dead"}
        /\ pc # "dead" => me.tries + 1 < Attempts
    BY <2>1, AttemptsAssumption DEF Upload, Retried
  <2> HIDE DEF pc
  <2>5. j \in Upload /\ j.pc = pc /\ j.tries = me.tries + 1 /\ j.version = me.version
    BY <2>1, <2>4 DEF Upload
  <2> HIDE DEF j, me
  <2>6. Shaped(j)
    BY <2>1, <2>3, <2>4, <2>5 DEF Shaped
  <2>7. message.version <= message'.version
    BY <1>2, <2>3
  <2> QED
    BY <1>9, <2>2, <2>3, <2>6, <2>7, ShapeOfUpload DEF SaveFailure
<1> QED
  BY <1>3, <1>4, <1>5, <1>6, <1>7, <1>8, <1>9 DEF DmNext

LEMMA VideoShape == ASSUME JobShape, VideoNext PROVE JobShape'
<1> DEFINE Job0 == [pc : {"none", "queue", "wait", "read", "upload", "save", "finish", "fail", "done", "dead"},
                    tries : 0 .. Attempts]
           Video0 == [status : {"none", "on", "done", "failed"}, uploaded : BOOLEAN]
<1>1. /\ transcode \in Job0 /\ video \in Video0 /\ tempFile \in BOOLEAN
      /\ transcode.pc # "dead" => transcode.tries < Attempts
  BY DEF JobShape, JobTypeOK
<1>2. UNCHANGED <<message, upload, deaths>> /\ tempFile' \in BOOLEAN /\ video' \in Video0
  <2>1. UNCHANGED <<message, upload, deaths>>
    BY DEF VideoNext, WriteTempFile, AddJob, TakeVideo, ReadTempFile, TranscodeAndUpload, SaveVideo,
           FinishVideo, FailVideo, dmVars
  <2>2. tempFile' \in BOOLEAN
    BY <1>1 DEF VideoNext, WriteTempFile, AddJob, TakeVideo, ReadTempFile, TranscodeAndUpload, SaveVideo,
                FinishVideo, FailVideo, Unlink
  <2>3. \/ UNCHANGED video
        \/ video' = [video EXCEPT !.status = "on"]
        \/ video' = [video EXCEPT !.status = "failed"]
        \/ video' = [status |-> "done", uploaded |-> TRUE]
    BY DEF VideoNext, WriteTempFile, AddJob, TakeVideo, ReadTempFile, TranscodeAndUpload, SaveVideo,
           FinishVideo, FailVideo
  <2>4. video' \in Video0
    <3>1. CASE video' = [status |-> "done", uploaded |-> TRUE]
      BY <3>1
    <3>2. CASE video' = [video EXCEPT !.status = "on"]
      BY <1>1, <3>2
    <3>3. CASE video' = [video EXCEPT !.status = "failed"]
      BY <1>1, <3>3
    <3> QED
      BY <1>1, <2>3, <3>1, <3>2, <3>3
  <2> QED
    BY <2>1, <2>2, <2>4
<1>3. transcode' \in Job0 /\ (transcode'.pc # "dead" => transcode'.tries < Attempts)
  <2>1. ASSUME NEW pc \in {"none", "queue", "wait", "read", "upload", "save", "finish", "fail", "done"},
               TranscodeGoto(pc), transcode.pc # "dead"
        PROVE  transcode' \in Job0 /\ (transcode'.pc # "dead" => transcode'.tries < Attempts)
    BY <1>1, <2>1 DEF TranscodeGoto
  <2>2. CASE FailVideo
    BY <1>1, <2>2, AttemptsAssumption DEF FailVideo, Retried, TranscodeAt
  <2>3. CASE ~FailVideo
    <3>1. transcode.pc # "dead" /\
            \E pc \in {"none", "queue", "wait", "read", "upload", "save", "finish", "fail", "done"} :
              TranscodeGoto(pc)
      BY <2>3 DEF VideoNext, WriteTempFile, AddJob, TakeVideo, ReadTempFile, TranscodeAndUpload,
                  SaveVideo, FinishVideo, TranscodeAt
    <3> QED
      BY <2>1, <3>1
  <2> QED
    BY <2>2, <2>3
<1> QED
  BY <1>2, <1>3 DEF JobShape, JobTypeOK

LEMMA DeathShape == ASSUME JobShape, ProcessesDie PROVE JobShape'
<1>1. PICK again \in {"wait", "dead"} :
        /\ upload' = [f \in Files |-> IF Active(upload[f].pc) THEN [upload[f] EXCEPT !.pc = again]
                                      ELSE upload[f]]
        /\ transcode' = IF Active(transcode.pc) THEN [transcode EXCEPT !.pc = again] ELSE transcode
  BY DEF ProcessesDie
<1>2. ASSUME NEW f \in Files
      PROVE  /\ upload'[f] \in Upload /\ upload'[f].tries = upload[f].tries
             /\ upload'[f].version = upload[f].version
             /\ upload'[f].pc # "dead" => upload[f].pc # "dead"
  <2>1. upload[f] \in Upload
    BY DEF JobShape, JobTypeOK
  <2>2. upload'[f] = IF Active(upload[f].pc) THEN [upload[f] EXCEPT !.pc = again] ELSE upload[f]
    BY <1>1
  <2> QED
    BY <2>1, <2>2 DEF Upload, Active
<1>3. upload' \in [Files -> Upload]
  <2>1. \A f \in Files : (IF Active(upload[f].pc) THEN [upload[f] EXCEPT !.pc = again]
                          ELSE upload[f]) \in Upload
    BY <1>1, <1>2
  <2> QED
    BY <1>1, <2>1
<1>4. UNCHANGED <<message, video, tempFile>> /\ deaths' \in 0 .. MaxDeaths
  BY AttemptsAssumption DEF ProcessesDie, JobShape, JobTypeOK
<1>5. /\ transcode' \in
           [pc : {"none", "queue", "wait", "read", "upload", "save", "finish", "fail", "done", "dead"},
            tries : 0 .. Attempts]
      /\ transcode'.pc # "dead" => transcode'.tries < Attempts
  BY <1>1 DEF JobShape, JobTypeOK, Active
<1> QED
  BY <1>2, <1>3, <1>4, <1>5 DEF JobShape, JobTypeOK

\* Upload jobs: no job is tried more often than its queue allows, and none holds a version
\* of its document that the document has not reached.
THEOREM JobTyped == JobSpec => []JobTypeOK
<1>1. JobInit => JobShape
  <2> SUFFICES ASSUME JobInit PROVE JobShape
    OBVIOUS
  <2>1. \A f \in Files : upload[f] = NoUpload
    BY DEF JobInit
  <2>2. upload \in [Files -> Upload]
    BY NewUpload DEF JobInit
  <2>3. message \in [status : UploadStatus, urls : Seq(Files), version : Nat] /\ message.version = 0
    BY DEF JobInit, UploadStatus
  <2>4. /\ transcode \in
             [pc : {"none", "queue", "wait", "read", "upload", "save", "finish", "fail", "done", "dead"},
              tries : 0 .. Attempts]
        /\ transcode.tries < Attempts /\ deaths \in 0 .. MaxDeaths
        /\ video \in [status : {"none", "on", "done", "failed"}, uploaded : BOOLEAN]
        /\ tempFile \in BOOLEAN
    <3>1. 0 \in 0 .. Attempts /\ 0 < Attempts /\ 0 \in 0 .. MaxDeaths
      BY AttemptsAssumption
    <3>2. transcode = [pc |-> "none", tries |-> 0] /\ deaths = 0 /\ tempFile = FALSE
          /\ video = [status |-> "none", uploaded |-> FALSE]
      BY DEF JobInit
    <3> QED
      BY <3>1, <3>2
  <2> QED
    BY <2>1, <2>2, <2>3, <2>4, NewUpload DEF JobShape, JobTypeOK
<1>2. JobShape /\ [JobNext]_jobVars => JobShape'
  <2>1. CASE UNCHANGED jobVars
    BY <2>1 DEF jobVars, dmVars, videoVars, JobShape, JobTypeOK
  <2> QED
    BY <2>1, DmShape, VideoShape, DeathShape DEF JobNext
<1>3. JobShape => JobTypeOK
  BY DEF JobShape
<1> QED
  BY <1>1, <1>2, <1>3, PTL DEF JobSpec
=============================================================================
