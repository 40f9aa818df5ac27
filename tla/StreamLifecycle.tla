---------------------------- MODULE StreamLifecycle ----------------------------
(***************************************************************************)
(* One livestream from its creation to its end: Livepeer's webhooks, the   *)
(* owner's end of stream, likes, gifts and messages (livestream.service.ts *)
(* and chat.gateway.ts).                                                   *)
(*                                                                         *)
(* Webhooks come in any order, more than once, and are handled side by     *)
(* side with everything else; a handler that throws stops where it stands. *)
(* What handlers log goes through recordActivity, which asks again whether *)
(* the stream is live.                                                     *)
(***************************************************************************)
EXTENDS Integers, FiniteSets

CONSTANTS
  Fans,      \* the accounts that like and give
  Works      \* bound: the handlers ever started

ASSUME WorksAssumption == IsFiniteSet(Works) /\ IsFiniteSet(Fans)

Statuses == {"none", "OFFLINE", "SCHEDULED", "LIVE", "ENDED"}
LogKinds == {"START", "END", "TIP", "MESSAGE"}

VARIABLES
  isTest,      \* LiveStream.isTest
  stream,      \* the fields of LiveStream that handlers change
  livepeer,    \* Livepeer has a stream for it
  likesRecord, \* the accounts in LiveStream.likesRecord
  entries,     \* the StreamActivity documents, by the handler that created them
  listed,      \* LiveStream.activities
  work         \* the handlers

lifeVars == <<isTest, stream, livepeer, likesRecord, entries, listed, work>>

\* late: a webhook of a stream that Livepeer no longer has, or one that
\* overlapped another.  then: where recordActivity returns to.
Work ==
  [pc : {"new", "start", "log", "create", "push", "delete", "idle", "save", "like", "gift", "count",
         "done", "refused", "failed"},
   kind : LogKinds \union {"none", "LIKE"}, then : {"done", "idle", "count"},
   fan : Fans \union {"nobody"}, late : BOOLEAN]

NewWork == [pc |-> "new", kind |-> "none", then |-> "done", fan |-> "nobody", late |-> FALSE]

LifeTypeOK ==
  /\ isTest \in BOOLEAN
  /\ stream \in [status : Statuses, isActive : BOOLEAN, endedAt : BOOLEAN, likes : Nat, tips : Nat]
  /\ livepeer \in BOOLEAN
  /\ likesRecord \in SUBSET Fans
  /\ entries \in SUBSET Works /\ listed \in SUBSET entries
  /\ work \in [Works -> Work]
  /\ \A h \in Works : work[h].pc = "push" => h \in entries

LifeInit ==
  /\ isTest \in BOOLEAN
  /\ stream = [status |-> "none", isActive |-> FALSE, endedAt |-> FALSE, likes |-> 0, tips |-> 0]
  /\ livepeer = FALSE
  /\ likesRecord = {} /\ entries = {} /\ listed = {}
  /\ work = [h \in Works |-> NewWork]

-----------------------------------------------------------------------------

WorkAt(h, pc) == work[h].pc = pc

WorkGoto(h, pc) == work' = [work EXCEPT ![h].pc = pc]

Over(h) == work[h].pc \in {"new", "done", "refused", "failed"}

\* createStream: Livepeer first, the document last.
CreateAtLivepeer ==
  /\ stream.status = "none"
  /\ livepeer' = TRUE
  /\ UNCHANGED <<isTest, stream, likesRecord, entries, listed, work>>

SaveNewStream ==
  /\ stream.status = "none" /\ livepeer
  /\ \E s \in {"OFFLINE", "SCHEDULED"} : stream' = [stream EXCEPT !.status = s]
  /\ UNCHANGED <<isTest, livepeer, likesRecord, entries, listed, work>>

Handle(h, pc, kind, then, fan, late) ==
  /\ WorkAt(h, "new") /\ stream.status # "none"
  /\ work' = [work EXCEPT ![h] = [pc |-> pc, kind |-> kind, then |-> then, fan |-> fan, late |-> late]]
  /\ UNCHANGED <<isTest, stream, livepeer, likesRecord, entries, listed>>

Overlapping(h) == \E g \in Works \ {h} : ~Over(g) /\ work[g].kind \in {"START", "END"}

\* handleWebhook finds the stream by its playback id.
WebhookStarted(h) == Handle(h, "start", "START", "done", "nobody", ~livepeer \/ Overlapping(h))

WebhookIdle(h) == Handle(h, IF isTest THEN "log" ELSE "delete", "END", "idle", "nobody", Overlapping(h))

StreamStarts(h) ==
  /\ WorkAt(h, "start")
  /\ stream' = [stream EXCEPT !.status = "LIVE", !.isActive = TRUE]
  /\ WorkGoto(h, "log")
  /\ UNCHANGED <<isTest, livepeer, likesRecord, entries, listed>>

\* Livepeer refuses to delete what it does not have.
DeleteAtLivepeer(h) ==
  /\ WorkAt(h, "delete")
  /\ livepeer' = FALSE
  /\ WorkGoto(h, IF livepeer THEN "log" ELSE "failed")
  /\ UNCHANGED <<isTest, stream, likesRecord, entries, listed>>

\* Slip: the end is stamped, the status is left to the owner.
StreamIdleStamped(h) ==
  /\ WorkAt(h, "idle")
  /\ stream' = [stream EXCEPT !.isActive = FALSE, !.endedAt = @ \/ ~isTest]
  /\ WorkGoto(h, "done")
  /\ UNCHANGED <<isTest, livepeer, likesRecord, entries, listed>>

StreamIdle(h) ==
  /\ WorkAt(h, "idle")
  /\ stream' = [stream EXCEPT !.status = IF isTest THEN "OFFLINE" ELSE "ENDED", !.isActive = FALSE,
                              !.endedAt = @ \/ ~isTest]
  /\ WorkGoto(h, "done")
  /\ UNCHANGED <<isTest, livepeer, likesRecord, entries, listed>>

\* endStream, the owner's: a save of the document it loaded, which Livepeer and
\* isActive know nothing of.  Its own log entry comes too late: the stream is
\* no longer live.
EndStream(h) == Handle(h, "save", "END", "done", "nobody", Overlapping(h))

SaveEnd(h) ==
  /\ WorkAt(h, "save")
  /\ stream' = [stream EXCEPT !.status = IF isTest THEN "OFFLINE" ELSE "ENDED", !.endedAt = ~isTest]
  /\ WorkGoto(h, "log")
  /\ UNCHANGED <<isTest, livepeer, likesRecord, entries, listed>>

-----------------------------------------------------------------------------

\* recordActivity: asks, creates the entry, puts it in front of the list.
LogAsks(h) ==
  /\ WorkAt(h, "log")
  /\ WorkGoto(h, IF stream.status = "LIVE" THEN "create" ELSE work[h].then)
  /\ UNCHANGED <<isTest, stream, livepeer, likesRecord, entries, listed>>

LogCreates(h) ==
  /\ WorkAt(h, "create")
  /\ entries' = entries \union {h}
  /\ WorkGoto(h, "push")
  /\ UNCHANGED <<isTest, stream, livepeer, likesRecord, listed>>

LogPushes(h) ==
  /\ WorkAt(h, "push")
  /\ listed' = listed \union {h}
  /\ WorkGoto(h, work[h].then)
  /\ UNCHANGED <<isTest, stream, livepeer, likesRecord, entries>>

Message(h) == Handle(h, "log", "MESSAGE", "done", "nobody", FALSE)

\* likeStream: the stream is live and the account not in the record; late:
\* another like of the account had seen the same.
LikeStream(h, a) ==
  LET again == \E g \in Works : WorkAt(g, "like") /\ work[g].fan = a
  IN Handle(h, IF stream.status = "LIVE" /\ a \notin likesRecord THEN "like" ELSE "refused",
           "LIKE", "done", a, again)

ApplyLike(h) ==
  /\ WorkAt(h, "like")
  /\ stream' = [stream EXCEPT !.likes = @ + 1]
  /\ likesRecord' = likesRecord \union {work[h].fan}
  /\ WorkGoto(h, "done")
  /\ UNCHANGED <<isTest, livepeer, entries, listed>>

\* handleGift: the entry first, the total after it.
HandleGift(h, a) == Handle(h, IF stream.status = "LIVE" THEN "log" ELSE "refused", "TIP", "count", a, FALSE)

CountGift(h) ==
  /\ WorkAt(h, "count")
  /\ stream' = [stream EXCEPT !.tips = @ + 1]
  /\ WorkGoto(h, "done")
  /\ UNCHANGED <<isTest, livepeer, likesRecord, entries, listed>>

WorkFails(h) ==
  /\ ~Over(h)
  /\ WorkGoto(h, "failed")
  /\ UNCHANGED <<isTest, stream, livepeer, likesRecord, entries, listed>>

ShowNext ==
  \/ CreateAtLivepeer
  \/ SaveNewStream
  \/ \E h \in Works :
       \/ WebhookStarted(h)
       \/ StreamStarts(h)
       \/ WebhookIdle(h)
       \/ DeleteAtLivepeer(h)
       \/ StreamIdle(h)
       \/ EndStream(h)
       \/ SaveEnd(h)

LogNext ==
  \E h \in Works :
    \/ LogAsks(h)
    \/ LogCreates(h)
    \/ LogPushes(h)
    \/ WorkFails(h)

FanNext ==
  \E h \in Works :
    \/ Message(h)
    \/ \E a \in Fans : LikeStream(h, a) \/ HandleGift(h, a)
    \/ ApplyLike(h)
    \/ CountGift(h)

LifeNext == ShowNext \/ LogNext \/ FanNext

LifeSpec == LifeInit /\ [][LifeNext]_lifeVars

-----------------------------------------------------------------------------

(***************************************************************************)
(* A stream that Livepeer has deleted is not shown live, unless a webhook  *)
(* came late or over another, a handler failed, or one is still at work:   *)
(* webhooks and ends in any order otherwise leave the two in agreement     *)
(* (handleStreamStart, handleStreamIdle, endStream).                       *)
(***************************************************************************)
LiveNeedsLivepeer ==
  (\A h \in Works : Over(h) /\ ~work[h].late /\ ~WorkAt(h, "failed"))
    => (stream.status = "LIVE" => livepeer)
=============================================================================
