--------------------------- MODULE StatusStreamProofs ---------------------------
(***************************************************************************)
(* Theorems about module StatusStream: its workers are those of module     *)
(* StatusSource, and what a viewer is shown follows what they committed,   *)
(* however many messages may wait for a slow handler.                      *)
(***************************************************************************)
EXTENDS StatusStream, SequenceTheorems, TLAPS

\* What publishing and relaying do to the subscription's queue.
LEMMA AppendTypes ==
  ASSUME NEW S, NEW q \in Seq(S), NEW x \in S
  PROVE  /\ Append(q, x) \in Seq(S) /\ Append(q, x) # <<>>
         /\ Append(q, x)[Len(Append(q, x))] = x
         /\ {Append(q, x)[i] : i \in DOMAIN Append(q, x)} = {q[i] : i \in DOMAIN q} \cup {x}
<1>1. /\ Append(q, x) \in Seq(S) /\ Len(Append(q, x)) = Len(q) + 1
      /\ \A i \in 1..Len(q) : Append(q, x)[i] = q[i]
      /\ Append(q, x)[Len(q) + 1] = x
  BY AppendProperties
<1>2. DOMAIN q = 1..Len(q) /\ DOMAIN Append(q, x) = 1..(Len(q) + 1) /\ Len(q) \in Nat
  BY <1>1
<1> QED
  BY <1>1, <1>2

LEMMA ReadTypes ==
  ASSUME NEW S, NEW q \in Seq(S), q # <<>>
  PROVE  /\ Head(q) \in S /\ Tail(q) \in Seq(S)
         /\ Head(q) \in {q[i] : i \in DOMAIN q}
         /\ {Tail(q)[i] : i \in DOMAIN Tail(q)} \subseteq {q[i] : i \in DOMAIN q}
         /\ Tail(q) = <<>> => q[Len(q)] = Head(q)
         /\ Tail(q) # <<>> => Tail(q)[Len(Tail(q))] = q[Len(q)]
<1>1. /\ Head(q) = q[1] /\ Len(Tail(q)) = Len(q) - 1 /\ Tail(q) \in Seq(S)
      /\ \A i \in 1..Len(Tail(q)) : Tail(q)[i] = q[i + 1]
  BY HeadTailProperties
<1>2. DOMAIN q = 1..Len(q) /\ DOMAIN Tail(q) = 1..Len(Tail(q)) /\ Len(q) \in Nat \ {0}
  BY <1>1
<1>3. Head(q) \in S
  BY <1>1, <1>2
<1>4. Tail(q) = <<>> => Len(q) = 1
  <2>1. Tail(q) = <<>> => Len(Tail(q)) = 0
    BY <1>1, EmptySeq
  <2> QED
    BY <1>1, <1>2, <2>1
<1>5. Tail(q) # <<>> => Len(Tail(q)) \in 1..Len(Tail(q))
  BY <1>1, <1>2
<1> QED
  BY <1>1, <1>2, <1>3, <1>4, <1>5

LEMMA StreamInit == Init => StreamInv
<1> SUFFICES ASSUME Init PROVE StreamInv
  OBVIOUS
<1>1. inbox \in Seq(JobStatus) /\ DOMAIN inbox = {}
  BY DEF Init
<1> QED
  BY <1>1 DEF Init, SourceInit, StreamInv, TypeOK, SourceTypeOK, HandlerPoints, SourceInv,
     HandshakeInv, UpToDate, PassShownIsEarned, Calm, Subscribed

\* Every action keeps the variables in their sets.
LEMMA TypeStep == StreamInv /\ [Next]_vars => TypeOK'
<1> SUFFICES ASSUME StreamInv, [Next]_vars PROVE TypeOK'
  OBVIOUS
<1> USE DEF StreamInv, TypeOK, SourceTypeOK, HandlerPoints, sourceVars, stream
<1>1. ASSUME NEW s \in JobStatus, Write(s) PROVE TypeOK'
  BY <1>1 DEF Write, Written
<1>2. CASE Working
  <2>1. busy' \in BOOLEAN /\ earned' \in BOOLEAN
    <3>1. earned \in BOOLEAN /\ busy' \in BOOLEAN /\ earned' \in {earned, life = "live"}
      BY <1>2 DEF Working, Unseen
    <3>2. (life = "live") \in BOOLEAN
      OBVIOUS
    <3> QED
      BY <3>1, <3>2, Zenon
  <2>2. UNCHANGED <<life, status, due, stream, lost>>
    BY <1>2 DEF Working, Unseen
  <2> QED
    BY <2>1, <2>2
<1>3. CASE Publish
  <2>1. inbox' \in Seq(JobStatus)
    BY <1>3, AppendTypes DEF Publish
  <2> QED
    BY <1>3, <2>1 DEF Publish
<1>4. CASE PublishFails
  <2>1. busy' \in BOOLEAN
    <3>1. busy \in BOOLEAN /\ busy' \in {busy, FALSE}
      BY <1>4 DEF PublishFails
    <3> QED
      BY <3>1, Zenon
  <2>2. UNCHANGED <<life, status, earned, stream>> /\ due' = "none" /\ lost' = TRUE
    BY <1>4 DEF PublishFails
  <2> QED
    BY <2>1, <2>2
<1>5. CASE Router
  <2>1. CASE Dispatched
    BY <1>5, <2>1 DEF Router, Dispatched
  <2>2. CASE Committed
    BY <1>5, <2>2 DEF Router, Committed, JobStatus
  <2>3. CASE Deleted
    <3>1. life' = "gone" /\ status' = "absent" /\ earned' = FALSE /\ busy' = busy
      BY <2>3 DEF Deleted
    <3>2. UNCHANGED <<due, stream, lost>>
      BY <1>5 DEF Router
    <3> QED
      BY <3>1, <3>2
  <2> QED
    BY <1>5, <2>1, <2>2, <2>3 DEF Router
<1>6. CASE ReadFirst
  BY <1>6 DEF ReadFirst
<1>7. CASE Greet
  <2>1. held' = "none" /\ UNCHANGED <<sourceVars, due, viewer, skipped, lost>>
    BY <1>7 DEF Greet
  <2>2. /\ ws' \in {"closed", "subscribing"} /\ inbox' = <<>>
        /\ shown' \in {shown, "not_found"} \/ (held # "absent" /\ shown' = held)
    BY <1>7 DEF Greet, Send
  <2>3. shown' \in JobStatus \cup {"not_found", "none"}
    <3>1. CASE shown' \in {shown, "not_found"}
      BY <3>1
    <3>2. CASE held # "absent" /\ shown' = held
      BY <3>2
    <3> QED
      BY <2>2, <3>1, <3>2
  <2> QED
    BY <2>1, <2>2, <2>3
<1>8. CASE Subscribe
  BY <1>8 DEF Subscribe
<1>9. CASE Recheck
  BY <1>9 DEF Recheck
<1>10. CASE Settle
  <2>1. held' = "none" /\ UNCHANGED <<sourceVars, due, viewer, skipped, lost>>
    BY <1>10 DEF Settle
  <2>2. /\ ws' = "closed" /\ inbox' = <<>>
        /\ shown' \in {shown, held} /\ held # "absent"
    BY <1>10 DEF Settle, Send, HandshakeInv
  <2> QED
    BY <2>1, <2>2
<1>11. CASE Relay
  <2>1. Head(inbox) \in JobStatus /\ Tail(inbox) \in Seq(JobStatus)
    BY <1>11, ReadTypes DEF Relay
  <2>2. skipped' = FALSE /\ UNCHANGED <<sourceVars, due, viewer, held, lost>>
    BY <1>11 DEF Relay
  <2>3. /\ ws' \in {"closed", "listening"}
        /\ inbox' \in {<<>>, Tail(inbox)}
        /\ shown' \in {shown, Head(inbox)}
    BY <1>11 DEF Relay, Send
  <2>4. inbox' \in Seq(JobStatus)
    BY <2>1, <2>3, EmptySeq
  <2>5. shown' \in JobStatus \cup {"not_found", "none"}
    BY <2>1, <2>3
  <2> QED
    BY <2>2, <2>3, <2>4, <2>5
<1>12. CASE Connect
  BY <1>12 DEF Connect
<1>13. CASE Leave
  BY <1>13 DEF Leave
<1>14. CASE Break
  BY <1>14 DEF Break
<1>15. CASE UNCHANGED vars
  BY <1>15 DEF vars
<1> QED
  BY <1>1, <1>2, <1>3, <1>4, <1>5, <1>6, <1>7, <1>8, <1>9, <1>10, <1>11, <1>12, <1>13, <1>14, <1>15 DEF Next, WorkersGo, HandlerGoes

\* A publication follows its commit and precedes the next one.
LEMMA SourceStep == StreamInv /\ [Next]_vars => SourceInv'
<1> SUFFICES ASSUME StreamInv, [Next]_vars PROVE SourceInv'
  OBVIOUS
<1> USE DEF StreamInv, TypeOK, SourceTypeOK, HandlerPoints, SourceInv, Follows, JobStatus, sourceVars, stream
<1>1. ASSUME NEW s \in JobStatus, Write(s) PROVE SourceInv'
  BY <1>1 DEF Write, Written
<1>2. CASE Working
  BY <1>2 DEF Working, Unseen
<1>3. CASE Publish
  BY <1>3 DEF Publish
<1>4. CASE PublishFails
  BY <1>4 DEF PublishFails
<1>5. CASE Router
  <2>1. CASE Dispatched
    BY <1>5, <2>1 DEF Router, Dispatched
  <2>2. CASE Committed
    BY <1>5, <2>2 DEF Router, Committed, HandshakeInv
  <2>3. CASE Deleted
    BY <1>5, <2>3 DEF Router, Deleted
  <2> QED
    BY <1>5, <2>1, <2>2, <2>3 DEF Router
<1>6. CASE ReadFirst
  BY <1>6 DEF ReadFirst
<1>7. CASE Greet
  BY <1>7 DEF Greet, Send
<1>8. CASE Subscribe
  BY <1>8 DEF Subscribe
<1>9. CASE Recheck
  BY <1>9 DEF Recheck
<1>10. CASE Settle
  BY <1>10 DEF Settle, Send
<1>11. CASE Relay
  BY <1>11 DEF Relay, Send
<1>12. CASE Connect
  BY <1>12 DEF Connect
<1>13. CASE Leave
  BY <1>13 DEF Leave
<1>14. CASE Break
  BY <1>14 DEF Break
<1>15. CASE UNCHANGED vars
  BY <1>15 DEF vars
<1> QED
  BY <1>1, <1>2, <1>3, <1>4, <1>5, <1>6, <1>7, <1>8, <1>9, <1>10, <1>11, <1>12, <1>13, <1>14, <1>15 DEF Next, WorkersGo, HandlerGoes

\* From the first read to the last message: what is committed is on its way, or
\* it was published between the first read and the subscription.
LEMMA HandshakeStep == StreamInv /\ [Next]_vars => (HandshakeInv /\ UpToDate)'
<1> SUFFICES ASSUME StreamInv, [Next]_vars PROVE (HandshakeInv /\ UpToDate)'
  OBVIOUS
<1> USE DEF StreamInv, TypeOK, SourceTypeOK, HandlerPoints, SourceInv, HandshakeInv, UpToDate, Terminal, Latest, Subscribed, Calm, sourceVars, stream
<1>1. ASSUME NEW s \in JobStatus, Write(s) PROVE (HandshakeInv /\ UpToDate)'
  BY <1>1 DEF Write, Written, JobStatus
<1>2. CASE Working
  BY <1>2 DEF Working, Unseen
<1>3. CASE Publish
  <2>1. /\ due # "none" /\ due' = "none" /\ due \in JobStatus
        /\ UNCHANGED <<life, status, viewer, ws, held, shown, lost>>
    BY <1>3 DEF Publish
  <2>2. CASE Subscribed
    <3>1. inbox' # <<>> /\ inbox'[Len(inbox')] = due
      BY <1>3, <2>1, <2>2, AppendTypes DEF Publish
    <3>2. Latest' = due
      BY <3>1
    <3> QED
      BY <2>1, <2>2, <3>1, <3>2
  <2>3. CASE ~Subscribed
    <3>1. inbox' = inbox /\ (ws \in {"greeting", "subscribing"} => skipped')
      BY <1>3, <2>3 DEF Publish
    <3> QED
      BY <2>1, <2>3, <3>1
  <2> QED
    BY <2>2, <2>3
<1>4. CASE PublishFails
  BY <1>4 DEF PublishFails
<1>5. CASE Router
  <2>1. CASE Dispatched
    BY <1>5, <2>1 DEF Router, Dispatched
  <2>2. CASE Committed
    BY <1>5, <2>2 DEF Router, Committed
  <2>3. CASE Deleted
    BY <1>5, <2>3 DEF Router, Deleted
  <2> QED
    BY <1>5, <2>1, <2>2, <2>3 DEF Router
<1>6. CASE ReadFirst
  BY <1>6 DEF ReadFirst
<1>7. CASE Greet
  BY <1>7 DEF Greet, Send
<1>8. CASE Subscribe
  BY <1>8 DEF Subscribe
<1>9. CASE Recheck
  BY <1>9 DEF Recheck
<1>10. CASE Settle
  BY <1>10 DEF Settle, Send
<1>11. CASE Relay
  <2>1. /\ ws = "listening" /\ inbox # <<>>
        /\ UNCHANGED <<life, status, due, viewer, held, lost>>
    BY <1>11 DEF Relay
  <2>2. /\ Tail(inbox) = <<>> => inbox[Len(inbox)] = Head(inbox)
        /\ Tail(inbox) # <<>> => Tail(inbox)[Len(Tail(inbox))] = inbox[Len(inbox)]
    BY <2>1, ReadTypes
  <2>3. CASE ws' = "closed"
    <3>1. inbox' = <<>>
      BY <1>11, <2>3 DEF Relay, Send
    <3> QED
      BY <2>1, <2>3, <3>1
  <2>4. CASE ws' # "closed"
    <3>1. ws' = "listening" /\ shown' = Head(inbox) /\ inbox' = Tail(inbox)
      BY <1>11, <2>4 DEF Relay, Send
    <3>2. Latest' = Latest
      BY <2>1, <2>2, <3>1
    <3> QED
      BY <2>1, <3>1, <3>2
  <2> QED
    BY <2>3, <2>4
<1>12. CASE Connect
  BY <1>12 DEF Connect
<1>13. CASE Leave
  BY <1>13 DEF Leave
<1>14. CASE Break
  BY <1>14 DEF Break
<1>15. CASE UNCHANGED vars
  BY <1>15 DEF vars
<1> QED
  BY <1>1, <1>2, <1>3, <1>4, <1>5, <1>6, <1>7, <1>8, <1>9, <1>10, <1>11, <1>12, <1>13, <1>14, <1>15 DEF Next, WorkersGo, HandlerGoes

\* "pass" is read or published only after it was committed.
LEMMA EarnedStep == StreamInv /\ [Next]_vars => PassShownIsEarned'
<1> SUFFICES ASSUME StreamInv, [Next]_vars PROVE PassShownIsEarned'
  OBVIOUS
<1> USE DEF StreamInv, TypeOK, SourceTypeOK, HandlerPoints, SourceInv, PassShownIsEarned, sourceVars, stream
<1>1. ASSUME NEW s \in JobStatus, Write(s) PROVE PassShownIsEarned'
  BY <1>1 DEF Write, Written
<1>2. CASE Working
  <2>1. UNCHANGED <<life, due, held, shown, inbox>>
    BY <1>2 DEF Working, Unseen
  <2>2. earned' \/ earned' = earned \/ life # "live"
    <3>1. earned' \in {earned, life = "live"}
      BY <1>2 DEF Working, Unseen
    <3> QED
      BY <3>1, Zenon
  <2>3. life = "unborn" => "pass" \notin {shown, held, due} \cup {inbox[i] : i \in DOMAIN inbox}
    BY DEF HandshakeInv, Subscribed
  <2> QED
    BY <2>1, <2>2, <2>3
<1>3. CASE Publish
  BY <1>3 DEF Publish
<1>4. CASE PublishFails
  BY <1>4 DEF PublishFails
<1>5. CASE Router
  BY <1>5 DEF Router, Dispatched, Committed, Deleted
<1>6. CASE ReadFirst
  BY <1>6 DEF ReadFirst
<1>7. CASE Greet
  BY <1>7 DEF Greet, Send
<1>8. CASE Subscribe
  BY <1>8 DEF Subscribe
<1>9. CASE Recheck
  BY <1>9 DEF Recheck
<1>10. CASE Settle
  BY <1>10 DEF Settle, Send
<1>11. CASE Relay
  BY <1>11 DEF Relay, Send
<1>12. CASE Connect
  BY <1>12 DEF Connect
<1>13. CASE Leave
  BY <1>13 DEF Leave
<1>14. CASE Break
  BY <1>14 DEF Break
<1>15. CASE UNCHANGED vars
  BY <1>15 DEF vars
<1> QED
  BY <1>1, <1>2, <1>3, <1>4, <1>5, <1>6, <1>7, <1>8, <1>9, <1>10, <1>11, <1>12, <1>13, <1>14, <1>15 DEF Next, WorkersGo, HandlerGoes

\* StreamInv holds of every behaviour.
THEOREM StreamInductive == Spec => []StreamInv
<1>1. StreamInv /\ [Next]_vars => StreamInv'
  BY TypeStep, SourceStep, HandshakeStep, EarnedStep DEF StreamInv
<1> QED
  BY StreamInit, <1>1, PTL DEF Spec

\* The variables keep their types: TypeOK.
THEOREM StreamTypeCorrect == Spec => []TypeOK
<1>1. StreamInv => TypeOK
  BY DEF StreamInv
<1> QED
  BY StreamInductive, <1>1, PTL

\* A listening viewer is shown the status of the job, or a message on its way will
\* show it, or it was skipped by the handshake: UpToDate.
THEOREM ViewersAreUpToDate == Spec => []UpToDate
<1>1. StreamInv => UpToDate
  BY DEF StreamInv
<1> QED
  BY StreamInductive, <1>1, PTL

\* No viewer is told "pass" of a job without a report that passed: PassShownIsEarned.
THEOREM ShownPassIsEarned == Spec => []PassShownIsEarned
<1>1. StreamInv => PassShownIsEarned
  BY DEF StreamInv
<1> QED
  BY StreamInductive, <1>1, PTL

\* The tasks a viewer sees are those of module StatusSource: whatever happens to the
\* messages, the status changes as SourceSpec allows.
THEOREM WorkersAreTheSource == Spec => SourceSpec
<1>1. Init => SourceInit
  BY DEF Init
<1>2. TypeOK /\ [Next]_vars => [SourceNext]_sourceVars
  <2> SUFFICES ASSUME TypeOK, [Next]_vars PROVE [SourceNext]_sourceVars
    OBVIOUS
  <2>1. ASSUME NEW s \in JobStatus, Write(s) PROVE SourceNext
    BY <2>1 DEF Write, SourceNext
  <2>2. CASE Working \/ Router
    BY <2>2 DEF Working, Router, SourceNext
  <2>3. CASE PublishFails
    BY <2>3 DEF PublishFails, TypeOK, SourceTypeOK, SourceNext, Unseen, sourceVars
  <2>4. CASE Publish \/ HandlerGoes \/ Connect \/ Leave \/ Break
    BY <2>4 DEF Publish, HandlerGoes, ReadFirst, Greet, Subscribe, Recheck, Settle, Relay,
       Connect, Leave, Break
  <2>5. CASE UNCHANGED vars
    BY <2>5 DEF vars
  <2> QED
    BY <2>1, <2>2, <2>3, <2>4, <2>5 DEF Next, WorkersGo
<1> QED
  BY <1>1, <1>2, StreamTypeCorrect, PTL DEF Spec, SourceSpec
=============================================================================
