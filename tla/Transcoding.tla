----------------------------- MODULE Transcoding -----------------------------
(***************************************************************************)
(* The sessions of videos transcoded for the web                           *)
(* (src/business/services/media_transcode.rs).  Two maps lead to a         *)
(* session, by its id and by the key of what it transcodes; its job ends   *)
(* it, and whoever calls removes the sessions whose time is up.            *)
(***************************************************************************)
EXTENDS Naturals, FiniteSets

CONSTANTS
    VideoKeys,        \* user, path and settings of a transcoding
    NoSession,
    VideoRequests,
    MaxTasks,         \* max_concurrent_tasks
    MaxSessions,      \* bound on the sessions ever made
    MaxLapses         \* bound on how often a time to live passes

SessionIds == 1..MaxSessions

ASSUME SessionAssumption == MaxTasks \in Nat /\ MaxSessions \in Nat /\ NoSession \notin SessionIds

VARIABLES
    byId,        \* VIDEO_SESSION_BY_ID
    byKey,       \* VIDEO_SESSION_BY_KEY: key -> id
    session,     \* id -> the record, which outlives its entries in the maps
    asking,      \* request -> its progress
    lapses,
    overlapped   \* two requests have been under way at once
sessionVars == <<byId, byKey, session, asking, lapses, overlapped>>

\* touched: answered or made ready, and no time to live has passed since.
NoRecord == [state |-> "none", key |-> NoSession, expired |-> FALSE, touched |-> FALSE, dir |-> FALSE]
NotAsking == [pc |-> "new", op |-> "none", key |-> NoSession, id |-> NoSession, judge |-> {}, victim |-> NoSession]

SessionInit ==
    /\ byId = {} /\ byKey = [k \in VideoKeys |-> NoSession]
    /\ session = [i \in SessionIds |-> NoRecord]
    /\ asking = [r \in VideoRequests |-> NotAsking]
    /\ lapses = 0 /\ overlapped = FALSE

-----------------------------------------------------------------------------
PendingSessions == {i \in byId : session[i].state = "pending"}
WithTouch(i) == [session EXCEPT ![i].expired = FALSE, ![i].touched = TRUE]

AskStep(r, from, to) == asking[r].pc = from /\ asking' = [asking EXCEPT ![r].pc = to]
AskEnd(r, from) == asking[r].pc = from /\ asking' = [asking EXCEPT ![r] = NotAsking]

\* Every call first looks through the sessions there are for some whose time is up.
BeginAsking(r, fields) ==
    /\ asking[r].pc = "new"
    /\ asking' = [asking EXCEPT ![r] = [fields EXCEPT !.pc = "judge", !.judge = byId]]
    /\ overlapped' = (overlapped \/ \E s \in VideoRequests : asking[s].pc # "new")
    /\ UNCHANGED <<byId, byKey, session, lapses>>
BeginEnsureSession(r, k) == BeginAsking(r, [NotAsking EXCEPT !.op = "ensure", !.key = k])
BeginResolveAsset(r, i) == i \in byId /\ BeginAsking(r, [NotAsking EXCEPT !.op = "asset", !.id = i])

TimeIsUp(i) == session[i].expired /\ session[i].state # "pending"

\* cleanup_expired_video_sessions: the next session is judged.
JudgeSession(r, i) ==
    /\ asking[r].pc = "judge" /\ i \in asking[r].judge
    /\ asking' = [asking EXCEPT ![r].judge = @ \ {i},
                     ![r].pc = IF TimeIsUp(i) THEN "remove" ELSE "judge",
                     ![r].victim = IF TimeIsUp(i) THEN i ELSE NoSession]
    /\ UNCHANGED <<byId, byKey, session, lapses, overlapped>>

\* remove_video_session_record: the key is forgotten, whatever session it leads to.
RemoveSession(r) ==
    /\ LET i == asking[r].victim IN
       /\ \/ AskStep(r, "remove", "rmdir")
          \/ AskStep(r, "replace", "redir")
       /\ byId' = byId \ {i}
       /\ byKey' = [byKey EXCEPT ![session[i].key] = NoSession]
    /\ UNCHANGED <<session, lapses, overlapped>>
RemoveDirectory(r) ==
    /\ asking[r].pc \in {"rmdir", "redir"}
    /\ asking' = [asking EXCEPT ![r].pc = IF @ = "rmdir" THEN "judge" ELSE "count", ![r].victim = NoSession]
    /\ session' = [session EXCEPT ![asking[r].victim].dir = FALSE]
    /\ UNCHANGED <<byId, byKey, lapses, overlapped>>

Judged(r, op) == asking[r].pc = "judge" /\ asking[r].judge = {} /\ asking[r].op = op

\* ensure_web_video_hls_session: a session found by its key is touched and looked at.
FindSession(r) ==
    /\ Judged(r, "ensure")
    /\ LET i == byKey[asking[r].key] IN
       IF i = NoSession THEN AskStep(r, "judge", "count") /\ UNCHANGED session
       ELSE asking' = [asking EXCEPT ![r].pc = "look", ![r].victim = i] /\ session' = WithTouch(i)
    /\ UNCHANGED <<byId, byKey, lapses, overlapped>>

\* It is the answer if it is being made, or ready and its manifest is there.
LookAtSession(r) ==
    /\ asking[r].pc = "look"
    /\ LET i == asking[r].victim IN
       IF (session[i].state = "pending" \/ (session[i].state = "ready" /\ session[i].dir))
       THEN AskEnd(r, "look") ELSE AskStep(r, "look", "replace")
    /\ UNCHANGED <<byId, byKey, session, lapses, overlapped>>

\* (of a mutant: one more than the limit)
OneMore == Cardinality(PendingSessions) <= MaxTasks
SlotFree == Cardinality(PendingSessions) < MaxTasks
CountJobs(r) ==
    /\ IF SlotFree THEN AskStep(r, "count", "insert") ELSE AskEnd(r, "count")
    /\ UNCHANGED <<byId, byKey, session, lapses, overlapped>>

\* The session is entered and its job spawned; a new id is the next number.
InsertSession(r) ==
    /\ AskEnd(r, "insert") /\ UNCHANGED <<lapses, overlapped>>
    /\ \E i \in SessionIds :
         /\ session[i].state = "none" /\ \A j \in SessionIds : j < i => session[j].state # "none"
         /\ byId' = byId \cup {i} /\ byKey' = [byKey EXCEPT ![asking[r].key] = i]
         /\ session' = [session EXCEPT ![i] = [NoRecord EXCEPT !.state = "pending", !.key = asking[r].key]]

\* resolve_web_video_hls_asset: a session that is known is touched, and serves when it
\* is ready and the file is there (which changes nothing).
ServeAsset(r) ==
    /\ Judged(r, "asset") /\ AskEnd(r, "judge")
    /\ session' = IF asking[r].id \in byId THEN WithTouch(asking[r].id) ELSE session
    /\ UNCHANGED <<byId, byKey, lapses, overlapped>>

-----------------------------------------------------------------------------
(* The jobs and the clock                                                   *)

\* (of a mutant: the time to live is that of the start)
ReadyUntouched(i) == [session EXCEPT ![i].state = "ready", ![i].dir = TRUE, ![i].touched = TRUE]
ReadyRecord(i) == [WithTouch(i) EXCEPT ![i].state = "ready", ![i].dir = TRUE]
\* The directory was made, the file downloaded and transcoded; the manifest is there.
EndTranscoding(i) ==
    /\ session[i].state = "pending"
    /\ session' = ReadyRecord(i)
    /\ UNCHANGED <<byId, byKey, asking, lapses, overlapped>>
\* A call or ffmpeg fails, the hardware and, where it may be tried, the software; or the
\* job's time is up.
FailTranscoding(i) ==
    /\ session[i].state = "pending"
    /\ session' = [session EXCEPT ![i].state = "failed", ![i].dir = TRUE]
    /\ UNCHANGED <<byId, byKey, asking, lapses, overlapped>>

PassTimeToLive(i) ==
    /\ i \in byId /\ ~session[i].expired
    /\ lapses < MaxLapses /\ lapses' = lapses + 1
    /\ session' = [session EXCEPT ![i].expired = TRUE, ![i].touched = FALSE]
    /\ UNCHANGED <<byId, byKey, asking, overlapped>>

-----------------------------------------------------------------------------
\* What a job works on can be found and answered: the maps hold every pending session.
\* While requests come one at a time, no more sessions are pending than there are slots,
\* and a key leads to the one session there is of it; so no video is transcoded twice at
\* once.  Two requests at once both find no session, and a session that is removed takes
\* the key of a newer one with it.
OneSessionPerKey ==
    /\ \A i \in SessionIds : session[i].state = "pending" => i \in byId
    /\ ~overlapped =>
       /\ Cardinality(PendingSessions) <= MaxTasks
       /\ \A i \in byId : byKey[session[i].key] = i \/ \E r \in VideoRequests : asking[r].victim = i
       /\ \A k \in VideoKeys : byKey[k] = NoSession \/ byKey[k] \in byId

\* A session that was answered, or has become ready, is kept for its time to live: none is
\* chosen for removal before, but one that failed or has lost its directory.  (Between the
\* choice and the removal it may be answered once more.)
TouchedSessionsStay ==
    [][\A r \in VideoRequests : LET i == asking'[r].victim IN
          /\ asking[r].pc # "remove" /\ asking'[r].pc = "remove" => ~session[i].touched
          /\ asking[r].pc # "replace" /\ asking'[r].pc = "replace" => session[i].state = "failed" \/ ~session[i].dir
      ]_sessionVars
=============================================================================
