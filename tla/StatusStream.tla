----------------------------- MODULE StatusStream -----------------------------
(***************************************************************************)
(* One viewer of one job: the socket handler of api/websocket.py beside    *)
(* the tasks, which are seen as module StatusSource has them.  A task      *)
(* commits a status and then publishes it (workers/notify.py); Redis hands *)
(* the message to whoever is subscribed at that moment and keeps nothing.  *)
(* The handler reads the row, sends it, subscribes, reads the row again,   *)
(* and then relays.  Viewers share nothing: one of them stands for all.    *)
(***************************************************************************)
EXTENDS StatusSource, Naturals, Sequences

CONSTANT MaxUnread  \* bound: messages a slow handler has not read yet

ASSUME MaxUnreadAssumption == MaxUnread \in Nat \ {0}

VARIABLES
  due,      \* the status that is committed and not yet published, or "none"
  viewer,   \* the client at the other end of the socket
  ws,       \* how far the handler has got
  held,     \* the status it has read and not yet sent
  shown,    \* the last status the client was sent, while it is there
  inbox,    \* published messages its subscription has received
  skipped,  \* history: a status was published after the first read and before
            \* the subscription, and none has been relayed since
  lost      \* history: a status was committed and never published

stream  == <<viewer, ws, held, shown, inbox, skipped>>
vars == <<sourceVars, due, stream, lost>>

\* _TERMINAL; of these generate_report writes pass and error, nobody the others.
Terminal == {"pass", "report_failed", "fail", "error"}

HandlerPoints == {"none", "accepted", "greeting", "subscribing", "checking",
                  "settling", "listening", "closed", "broken"}

Subscribed == ws \in {"checking", "settling", "listening"}
Ended == ws \in {"closed", "broken"}

TypeOK ==
  /\ SourceTypeOK
  /\ due \in JobStatus \cup {"none"}
  /\ viewer \in {"away", "connected", "left"}
  /\ ws \in HandlerPoints
  /\ held \in JobStatus \cup {"absent", "none"}
  /\ shown \in JobStatus \cup {"not_found", "none"}
  /\ inbox \in Seq(JobStatus)
  /\ skipped \in BOOLEAN /\ lost \in BOOLEAN

Init ==
  /\ SourceInit
  /\ due = "none"
  /\ viewer = "away" /\ ws = "none" /\ held = "none" /\ shown = "none"
  /\ inbox = <<>>
  /\ skipped = FALSE /\ lost = FALSE

-----------------------------------------------------------------------------
(* The workers.                                                            *)

\* Mutant: the tasks publish in the background and go on.
WriteOn(s) ==
  /\ Written(s)
  /\ due' = IF due = "none" THEN s ELSE due
  /\ UNCHANGED <<stream, lost>>

\* _update_job, commit; the next write of the job comes after the publication.
Write(s) ==
  /\ due = "none"
  /\ Written(s)
  /\ due' = s
  /\ UNCHANGED <<stream, lost>>

Working ==
  /\ due = "none" /\ Unseen
  /\ UNCHANGED <<due, stream, lost>>

\* r.publish(...): heard by those who are subscribed, by nobody else.
Publish ==
  /\ due # "none"
  /\ Subscribed => Len(inbox) < MaxUnread
  /\ due' = "none"
  /\ inbox' = IF Subscribed THEN Append(inbox, due) ELSE inbox
  /\ skipped' = (skipped \/ ws \in {"greeting", "subscribing"})
  /\ UNCHANGED <<sourceVars, viewer, ws, held, shown, lost>>

\* publish raises, or the task dies between the commit and the publication.
PublishFails ==
  /\ due # "none"
  /\ due' = "none" /\ lost' = TRUE
  /\ busy' \in {busy, FALSE}
  /\ UNCHANGED <<life, status, earned, stream>>

\* The jobs router publishes nothing, neither a new job nor a deleted one.
Router ==
  /\ Dispatched \/ Committed \/ Deleted
  /\ UNCHANGED <<due, stream, lost>>

-----------------------------------------------------------------------------
(* ws_job_status.                                                          *)

\* A viewer knows the job's id from the answer to its creation.
Connect ==
  /\ ws = "none" /\ life # "unborn"
  /\ viewer' = "connected" /\ ws' = "accepted"
  /\ UNCHANGED <<sourceVars, due, held, shown, inbox, skipped, lost>>

ReadFirst ==
  /\ ws = "accepted"
  /\ held' = status /\ ws' = "greeting"
  /\ UNCHANGED <<sourceVars, due, viewer, shown, inbox, skipped, lost>>

\* Sending to a client that is gone raises, and that ends the handler; when it
\* ends, its subscription ends with it.
Send(s, next, rest) ==
  /\ IF viewer = "left" THEN ws' = "closed" /\ UNCHANGED shown
                        ELSE shown' = s /\ ws' = next
  /\ inbox' = IF ws' = "closed" THEN <<>> ELSE rest

\* Mutant: a job that is not there is greeted like any other.
GreetUnknown ==
  /\ ws = "greeting"
  /\ Send(held, IF held \in Terminal THEN "closed" ELSE "subscribing", <<>>)
  /\ held' = "none"
  /\ UNCHANGED <<sourceVars, due, viewer, skipped, lost>>

Greet ==
  /\ ws = "greeting"
  /\ IF held = "absent" THEN Send("not_found", "closed", <<>>)
     ELSE Send(held, IF held \in Terminal THEN "closed" ELSE "subscribing", <<>>)
  /\ held' = "none"
  /\ UNCHANGED <<sourceVars, due, viewer, skipped, lost>>

\* Mutant: the row is not read again after the subscription.
SubscribeOnly ==
  /\ ws = "subscribing"
  /\ ws' = "listening"
  /\ UNCHANGED <<sourceVars, due, viewer, held, shown, inbox, skipped, lost>>

Subscribe ==
  /\ ws = "subscribing"
  /\ ws' = "checking"
  /\ UNCHANGED <<sourceVars, due, viewer, held, shown, inbox, skipped, lost>>

\* The second read looks for a terminal status only.
Recheck ==
  /\ ws = "checking"
  /\ IF status \in Terminal THEN held' = status /\ ws' = "settling"
                            ELSE ws' = "listening" /\ UNCHANGED held
  /\ UNCHANGED <<sourceVars, due, viewer, shown, inbox, skipped, lost>>

Settle ==
  /\ ws = "settling"
  /\ Send(held, "closed", <<>>)
  /\ held' = "none"
  /\ UNCHANGED <<sourceVars, due, viewer, skipped, lost>>

Relay ==
  /\ ws = "listening" /\ inbox # <<>>
  /\ Send(Head(inbox), IF Head(inbox) \in Terminal THEN "closed" ELSE "listening",
          Tail(inbox))
  /\ skipped' = FALSE
  /\ UNCHANGED <<sourceVars, due, viewer, held, lost>>

\* The database or Redis fails the handler: it ends, and says nothing.
Break ==
  /\ ws \notin {"none"} /\ ~Ended
  /\ ws' = "broken"
  /\ inbox' = <<>>
  /\ UNCHANGED <<sourceVars, due, viewer, held, shown, skipped, lost>>

\* The client goes away; the handler is not told, it finds out when it sends.
Leave ==
  /\ viewer = "connected"
  /\ viewer' = "left" /\ shown' = "none"
  /\ UNCHANGED <<sourceVars, due, ws, held, inbox, skipped, lost>>

-----------------------------------------------------------------------------
HandlerGoes == ReadFirst \/ Greet \/ Subscribe \/ Recheck \/ Settle \/ Relay

WorkersGo == Publish \/ PublishFails

Next ==
  \/ Router \/ Working \/ WorkersGo \/ \E s \in JobStatus : Write(s)
  \/ HandlerGoes
  \/ Connect \/ Leave \/ Break

\* What is committed is published or its publication fails, and the handler goes
\* on while it has something to do.  Nothing is assumed of the client.
Fairness == WF_vars(WorkersGo) /\ WF_vars(HandlerGoes)

Spec == Init /\ [][Next]_vars
FairSpec == Spec /\ Fairness

-----------------------------------------------------------------------------
(* Properties.                                                             *)

\* What the client will have been sent when the subscription is drained.
Latest == IF inbox = <<>> THEN shown ELSE inbox[Len(inbox)]

\* A viewer who listens is at most the messages under way behind the job.  The
\* exception is a status published between the first read and the subscription:
\* it is not sent later, unless it is terminal (the second read, websocket.py:86).
UpToDate ==
  ws = "listening" /\ viewer = "connected" /\ due = "none" /\ ~lost /\ life = "live" =>
    \/ Latest = status
    \/ skipped /\ status \notin Terminal

\* Whatever was published, lost or retried, a client is told "pass" only of a job
\* judged passed whose report exists: the message follows the commit of the
\* status, and that follows the INSERT of the report.
PassShownIsEarned ==
  "pass" \in {shown, held, due} \cup {inbox[i] : i \in DOMAIN inbox} =>
    earned \/ life = "gone"

Finished == ~busy /\ due = "none" /\ ~lost /\ status \in Terminal

\* A stream of a job that has ended in a terminal status is closed, and a client
\* that is still there has been told so, wherever in the handshake it stood.
StreamCloses ==
  (ws # "none" /\ Finished) ~>
    \/ Ended /\ (ws = "closed" /\ viewer = "connected" => shown \in Terminal)
    \/ life = "gone"

\* websocket.py:9: the stream ends when the client disconnects.
LeavingEnds == viewer = "left" ~> Ended

-----------------------------------------------------------------------------
(* What these rest on, step by step.                                       *)

\* What waits to be published is the status, and "pass" is the status only of a job
\* that has earned it.
SourceInv ==
  /\ life = "live" => status # "absent" /\ (due # "none" => due = status)
  /\ life # "live" => status = "absent"
  /\ status = "pass" => earned

\* Everything committed is published, and the row is still there.
Calm == due = "none" /\ ~lost /\ life = "live"

HandshakeInv ==
  /\ life = "unborn" => ws = "none" /\ due = "none"
  /\ ws = "none" => held = "none" /\ shown = "none"
  /\ ws = "settling" => held # "absent"
  /\ ~Subscribed => inbox = <<>>
  /\ Calm /\ inbox # <<>> => Latest = status
  /\ Calm /\ viewer = "connected" =>
       /\ ws = "greeting" => held = status \/ skipped
       /\ ws \in {"subscribing", "checking"} => Latest = status \/ skipped

StreamInv == TypeOK /\ SourceInv /\ HandshakeInv /\ UpToDate /\ PassShownIsEarned
=============================================================================
