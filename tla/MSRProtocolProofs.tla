------------------------- MODULE MSRProtocolProofs -------------------------
(***************************************************************************)
(* The protocol with the managed resolver keeps what MSR.cpp promises, for *)
(* any number of client threads, starts of the client and heart beats.     *)
(***************************************************************************)
EXTENDS MSRProtocol, TLAPS

-----------------------------------------------------------------------------
(* The inductive invariant. *)

\* The lock is held by the thread that waits for an answer.
OneAsker ==
  /\ \A t \in Thread : op[t] # Null <=> lock = t
  /\ phase \in {"off", "connect"} => lock = Null
  /\ phase # "attached" /\ ~early => lock = Null

\* Where READY is read the resolver works on nothing.
ReadyIsIdle == id = "READY" => rpc = "receive" \/ Gone

\* The resolver has been sent a message it has not taken, has taken it, waits for the
\* answer to a heart beat, or has answered.
Sent(mid) == rpc = "receive" /\ id = mid /\ event_out /\ ~event_in
Taken(mid) == rpc = "work" /\ job.id = mid /\ ~event_out /\ ~event_in
Beating(mid) ==
  /\ rpc = "beat" /\ job.id = mid
  /\ \/ id = "WAIT" /\ event_in /\ ~event_out
     \/ id = "CONFIRM" /\ ~event_in /\ event_out
Idle == rpc = "receive" /\ ~event_out

\* Between connect() and attach().
Connecting ==
  phase = "connected" =>
    \/ Gone
    \/ Sent("CONNECT")
    \/ Taken("CONNECT")
    \/ Idle /\ event_in /\ id = "CONFIRM"

\* attach() waits for ATTACHED, which comes for its own process only.
Attaching ==
  phase = "heartbeat" =>
    \/ Gone /\ (id = "ATTACHED" => Mine)
    \/ Sent("ATTACH") /\ buffer.of = starts
    \/ Taken("ATTACH") /\ job.buffer.of = starts /\ id \in {"ATTACH", "CONFIRM"}
    \/ Beating("ATTACH") /\ job.buffer.of = starts
    \/ Idle /\ event_in /\ (id = "EXIT" \/ (id = "ATTACHED" /\ Mine))

\* No thread has asked: nothing is under way but the EXIT of a resolver that stopped.
Quiet ==
  \/ rpc = "stopped"
  \/ ~event_in /\ (Gone \/ Idle)

\* The resolver has carried out the request of t and answered it.
Replied(t) ==
  /\ served = t
  /\ IF op[t] \in {"IP", "SEARCHSYMS"} THEN buffer = [of |-> t, answer |-> TRUE]
     ELSE id = "CONFIRM"

\* Thread t waits for the answer to its request, of a resolver in its loop ...
Waiting(t) ==
  \/ Sent(op[t]) /\ buffer = [of |-> t, answer |-> FALSE]
  \/ /\ Taken(op[t]) /\ job.buffer = [of |-> t, answer |-> FALSE]
     /\ id = op[t] \/ (op[t] = "LOADSYMS" /\ id = "CONFIRM")
  \/ /\ op[t] = "LOADSYMS"
     /\ Beating("LOADSYMS") /\ job.buffer = [of |-> t, answer |-> FALSE]
  \/ Idle /\ event_in /\ Replied(t)
  \/ Idle /\ ~event_in /\ op[t] = "SEARCHSYMS" /\ id = op[t]

\* ... or of one that has left it.
Forsaken(t) ==
  \/ rpc = "leave" /\ IF event_in THEN Replied(t) ELSE id = op[t]
  \/ /\ rpc = "killed"
     /\ event_in => Replied(t) \/ (op[t] = "LOADSYMS" /\ id = "WAIT")
     /\ op[t] = "UNLOADSYMS" /\ id = "CONFIRM" => served = t
  \/ rpc = "stopped" /\ id \in {op[t], "EXIT"}

\* An attached client: the resolver reads its symbols, and serves one thread at most.
Serving ==
  phase = "attached" =>
    /\ Mine
    /\ lock = Null => Quiet
    /\ \A t \in Thread : lock = t => Waiting(t) \/ Forsaken(t)

\* What process_msgs() has a handler for.
Handled == rpc \in {"work", "beat"} => job.id \in Request \cup {"CONNECT", "ATTACH", "EXIT"}

\* The part that makes the types inductive.
MTypes == Types /\ Handled

MInv ==
  /\ MTypes
  /\ OneAsker
  /\ ReadyIsIdle
  /\ Sound => Connecting /\ Attaching /\ Serving

-----------------------------------------------------------------------------
(* Type correctness. *)

\* Messages and their contents.
LEMMA ContentTypes ==
  /\ Empty \in Content
  /\ NoJob \in [id : SMDataID, buffer : Content]
  /\ \A t \in Thread, a \in BOOLEAN : [of |-> t, answer |-> a] \in Content
  /\ \A n \in 1..MaxStarts : [of |-> n, answer |-> FALSE] \in Content
  /\ \A c \in Content : /\ c.of \in Thread \cup (1..MaxStarts) \cup {Null}
                        /\ c.answer \in BOOLEAN
                        /\ [of |-> c.of, answer |-> ~c.answer] \in Content
BY DEF Content, Empty, NoJob, SMDataID

LEMMA MTypeInit == MInit => MTypes
<1> SUFFICES ASSUME MInit PROVE MTypes
  OBVIOUS
<1>1. 1 \in 1..MaxStarts /\ 0 \in 0..MaxBeats
  BY MaxStartsAssumption, MaxBeatsAssumption
<1> QED BY <1>1, ContentTypes DEF MInit, MTypes, Types, Handled, SMDataID, Request, NoJob

\* Steps of the client.
LEMMA MTypeClient ==
  ASSUME MTypes,
         Start \/ connect \/ ConnectFails \/ attach \/ attached \/ Exit \/ Crash
  PROVE  MTypes'
<1> USE DEF MTypes, Handled, Types, slot, resolver, client, flags
<1>1. CASE Start
  <2>1. starts' \in 1..MaxStarts
    BY <1>1, MaxStartsAssumption DEF Start
  <2> QED BY <1>1, <2>1 DEF Start
<1>2. CASE connect
  <2>1. id' \in SMDataID /\ event_out' \in BOOLEAN
    BY <1>2 DEF connect, Send, SMDataID
  <2>2. event_in' \in BOOLEAN /\ late' \in BOOLEAN
    BY <1>2 DEF connect, Received, TimedOut, GaveUp
  <2>3. phase' \in {"off", "connect", "connected"}
    BY <1>2 DEF connect
  <2> QED BY <1>2, <2>1, <2>2, <2>3 DEF connect
<1>3. CASE ConnectFails
  BY <1>3 DEF ConnectFails
<1>4. CASE attach
  <2>1. event_in' \in BOOLEAN /\ late' \in BOOLEAN
    BY <1>4 DEF attach, Received, TimedOut, GaveUp
  <2>2. /\ id' \in SMDataID /\ event_out' \in BOOLEAN
        /\ phase' \in {"heartbeat", "reset"}
    BY <1>4 DEF attach, Send, SMDataID
  <2>3. buffer' \in Content
    BY <1>4, ContentTypes DEF attach
  <2> QED BY <1>4, <2>1, <2>2, <2>3 DEF attach
<1>5. CASE attached
  <2>1. event_in' \in BOOLEAN /\ late' \in BOOLEAN
    BY <1>5 DEF attached, Received, TimedOut, GaveUp
  <2>2. /\ id' \in SMDataID /\ event_out' \in BOOLEAN
        /\ phase' \in {"heartbeat", "attached", "reset"}
    BY <1>5 DEF attached, Send, SMDataID
  <2> QED BY <1>5, <2>1, <2>2 DEF attached
<1>6. CASE Exit
  BY <1>6 DEF Exit, Send, SMDataID
<1>7. CASE Crash
  BY <1>7 DEF Crash
<1> QED BY <1>1, <1>2, <1>3, <1>4, <1>5, <1>6, <1>7

\* Requests.
LEMMA MTypeRequest ==
  ASSUME MTypes, NEW t \in Thread,
         (\E k \in Request : Ask(t, k)) \/ Answer(t) \/ NoAnswer(t) \/ LateAnswer(t)
  PROVE  MTypes'
<1> USE DEF MTypes, Handled, Types, slot, resolver, client, flags
<1>1. ASSUME NEW k \in Request, Ask(t, k) PROVE MTypes'
  <2>1. id' \in SMDataID /\ event_out' \in BOOLEAN
    BY <1>1 DEF Ask, Send, SMDataID
  <2>2. buffer' \in Content
    BY <1>1, ContentTypes DEF Ask
  <2>3. op' \in [Thread -> Request \cup {Null}] /\ early' \in BOOLEAN
    BY <1>1 DEF Ask
  <2> QED BY <1>1, <2>1, <2>2, <2>3 DEF Ask
<1>2. ASSUME NEW c \in Content, Return(t, c)
      PROVE  /\ id' = id /\ event_out' = event_out
             /\ op' \in [Thread -> Request \cup {Null}]
             /\ got' \in [Thread -> Content]
             /\ lock' \in Thread \cup {Null}
  BY <1>2, ContentTypes DEF Return
<1>3. CASE Answer(t)
  <2>1. event_in' \in BOOLEAN /\ late' = late
    BY <1>3 DEF Answer, Received
  <2>2. CASE op[t] = "LOADSYMS" /\ id = "WAIT"
    BY <1>3, <2>1, <2>2 DEF Answer, Send, SMDataID
  <2>3. CASE ~(op[t] = "LOADSYMS" /\ id = "WAIT")
    <3>1. Return(t, buffer)
      BY <1>3, <2>3 DEF Answer
    <3> QED BY <1>2, <1>3, <2>1, <3>1 DEF Answer
  <2> QED BY <2>2, <2>3
<1>4. CASE NoAnswer(t)
  BY <1>2, <1>4, ContentTypes DEF NoAnswer, TimedOut
<1>5. CASE LateAnswer(t)
  BY <1>2, <1>5, ContentTypes DEF LateAnswer, GaveUp
<1> QED BY <1>1, <1>3, <1>4, <1>5

\* Steps of the resolver.
LEMMA MTypeResolver ==
  ASSUME MTypes, ResolverStep \/ Beat \/ Interrupt \/ Stop \/ Killed
  PROVE  MTypes'
<1>0. 0 \in 0..MaxBeats /\ MaxBeats \in 0..MaxBeats
  BY MaxBeatsAssumption
<1> USE DEF MTypes, Handled, Types, slot, resolver, client, flags
<1>1. CASE process_msgs
  <2>1. [id |-> id, buffer |-> buffer] \in [id : SMDataID, buffer : Content]
    OBVIOUS
  <2>2. /\ rpc' \in {"receive", "work", "leave"} /\ _keep_running' \in BOOLEAN /\ target' = target
        /\ job' \in [id : SMDataID, buffer : Content] /\ beats' \in 0..MaxBeats
        /\ Handled'
    <3>1. CASE id \in Request \cup {"CONNECT", "ATTACH", "EXIT"}
      <4>1. /\ rpc' = "work" /\ job' = [id |-> id, buffer |-> buffer]
            /\ beats' = 0 /\ UNCHANGED <<_keep_running, target>>
        BY <1>1, <3>1 DEF process_msgs, Request
      <4> QED BY <1>0, <2>1, <3>1, <4>1
    <3>2. CASE id \notin Request \cup {"CONNECT", "ATTACH", "EXIT"} /\ id = "CONFIRM"
      BY <1>0, <1>1, <3>2, ContentTypes DEF process_msgs, NextTurn
    <3>3. CASE id \notin Request \cup {"CONNECT", "ATTACH", "EXIT"} /\ id # "CONFIRM"
      BY <1>0, <1>1, <3>3, ContentTypes DEF process_msgs, NextTurn
    <3> QED BY <3>1, <3>2, <3>3
  <2>3. event_out' = FALSE /\ UNCHANGED <<id, buffer, event_in, served, client, flags>>
    BY <1>1 DEF process_msgs
  <2>4. Types'
    BY <2>2, <2>3
  <2> QED BY <2>2, <2>4
<1>2. CASE BeatAnswered
  <2>1. beats' \in 0..MaxBeats /\ _keep_running' \in BOOLEAN
    BY <1>0, <1>2 DEF BeatAnswered
  <2>2. event_out' = FALSE /\ rpc' = "work" /\ rpc = "beat"
        /\ UNCHANGED <<id, buffer, event_in, job, target, served, client, flags>>
    BY <1>2 DEF BeatAnswered
  <2>3. Types'
    BY <2>1, <2>2
  <2>4. Handled'
    BY <2>2
  <2> QED BY <2>3, <2>4
<1>3. CASE BeatMissed
  <2>1. late' \in BOOLEAN
    BY <1>3 DEF BeatMissed, ClientAnswers
  <2> QED BY <1>0, <1>3, <2>1 DEF BeatMissed
<1>4. CASE Done
  <2>1. job.buffer \in Content /\ job.id \in SMDataID
    OBVIOUS
  <2>2. id' \in SMDataID /\ event_in' \in BOOLEAN /\ buffer' \in Content
    <3>1. CASE job.id \notin {"IP", "SEARCHSYMS"} /\ ReplyId
      <4>1. job.id \in {"CONNECT", "LOADSYMS", "UNLOADSYMS", "ATTACH", "EXIT"}
        BY <1>4, <3>1 DEF Done, Request
      <4>2. id' \in {"CONFIRM", "ATTACHED", "EXIT", "READY"} /\ event_in' = TRUE
        BY <3>1, <4>1 DEF ReplyId, Reply
      <4> QED BY <3>1, <4>2 DEF ReplyId, SMDataID
    <3>2. CASE ReplySymbols
      BY <3>2, <2>1, ContentTypes DEF ReplySymbols, Reply
    <3>3. CASE NoReply
      BY <3>3 DEF NoReply
    <3> QED BY <1>4, <3>1, <3>2, <3>3 DEF Done
  <2>3. job.buffer.of \in Thread \cup (1..MaxStarts) \cup {Null}
    BY <2>1, ContentTypes
  <2>4. target' \in {job.buffer.of, Null, target} /\ served' = job.buffer.of
    BY <1>4 DEF Done
  <2>5. /\ _keep_running' \in BOOLEAN /\ rpc' \in {"receive", "leave"}
        /\ job' \in [id : SMDataID, buffer : Content] /\ beats' \in 0..MaxBeats
    BY <1>0, <1>4, ContentTypes DEF Done, NextTurn
  <2> QED BY <1>4, <2>2, <2>3, <2>4, <2>5 DEF Done
<1>5. CASE AttachFails
  BY <1>0, <1>5, ContentTypes DEF AttachFails
<1>9. CASE Interrupt
  <2>1. _keep_running' = FALSE /\ target' = Null
        /\ UNCHANGED <<slot, rpc, job, beats, served, client, flags>>
    BY <1>9 DEF Interrupt
  <2>2. target' \in Thread \cup (1..MaxStarts) \cup {Null}
    BY <2>1
  <2>3. _keep_running' \in BOOLEAN
    BY <2>1
  <2>4. Types'
    BY <2>1, <2>2, <2>3
  <2>5. Handled'
    BY <2>1
  <2> QED BY <2>4, <2>5
<1>6. CASE Stop
  BY <1>6 DEF Stop, Reply, SMDataID
<1>7. CASE Beat
  <2>1. beats' \in 0..MaxBeats
    BY <1>7, MaxBeatsAssumption DEF Beat
  <2> QED BY <1>7, <2>1 DEF Beat, Reply, SMDataID
<1>8. CASE Killed
  BY <1>0, <1>8, ContentTypes DEF Killed
<1> QED BY <1>1, <1>2, <1>3, <1>4, <1>5, <1>6, <1>7, <1>8, <1>9 DEF ResolverStep

LEMMA MTypeStep == MTypes /\ [MNext]_msrVars => MTypes'
<1> SUFFICES ASSUME MTypes, [MNext]_msrVars PROVE MTypes'
  OBVIOUS
<1>1. CASE UNCHANGED msrVars
  BY <1>1 DEF msrVars, MTypes, Types, Handled, slot, resolver, client, flags
<1>2. CASE MNext
  BY <1>2, MTypeClient, MTypeRequest, MTypeResolver DEF MNext
<1> QED BY <1>1, <1>2

-----------------------------------------------------------------------------
(* The invariant. *)

LEMMA MInvInit == MInit => MInv
<1> SUFFICES ASSUME MInit PROVE MInv
  OBVIOUS
<1>1. MTypes
  BY MTypeInit
<1>2. OneAsker /\ ReadyIsIdle
  BY NullAssumption DEF MInit, OneAsker, ReadyIsIdle
<1>3. Connecting /\ Attaching /\ Serving
  BY DEF MInit, Connecting, Attaching, Serving
<1> QED BY <1>1, <1>2, <1>3 DEF MInv

\* What a step has to keep, apart from the types.
Protocol == OneAsker /\ ReadyIsIdle /\ (Sound => Connecting /\ Attaching /\ Serving)

LEMMA StartKept ==
  ASSUME MInv, Start \/ ConnectFails \/ Exit \/ Crash
  PROVE  Protocol'
<1>1. OneAsker'
  BY NullAssumption
     DEF MInv, OneAsker, Start, ConnectFails, Exit, Crash, slot, resolver, flags
<1>2. ReadyIsIdle'
  BY DEF MInv, ReadyIsIdle, Gone, Start, ConnectFails, Exit, Crash, Send, slot, resolver
<1>3. Connecting' /\ Attaching' /\ Serving'
  BY DEF Connecting, Attaching, Serving, Start, ConnectFails, Exit, Crash
<1> QED BY <1>1, <1>2, <1>3 DEF Protocol

\* A turn of the loop of connect() ends with CONNECT under way to an idle resolver.
LEMMA ConnectKept ==
  ASSUME MInv, connect
  PROVE  Protocol'
<1>1. OneAsker'
  BY DEF MInv, OneAsker, connect, Received, TimedOut, GaveUp
<1>2. ReadyIsIdle'
  BY DEF MInv, ReadyIsIdle, connect, Send
<1>3. ASSUME Sound' PROVE Connecting'
  BY <1>3 DEF MInv, ReadyIsIdle, connect, Received, TimedOut, GaveUp, NothingComes, Send,
              Sound, Connecting, Sent, Gone, resolver
<1>4. Attaching' /\ Serving'
  BY DEF Attaching, Serving, connect
<1> QED BY <1>1, <1>2, <1>3, <1>4 DEF Protocol

\* attach() sends ATTACH for this start of the client.
LEMMA AttachKept ==
  ASSUME MInv, attach
  PROVE  Protocol'
<1>1. OneAsker'
  BY DEF MInv, OneAsker, attach
<1>2. ReadyIsIdle'
  BY DEF MInv, ReadyIsIdle, attach, Send, resolver
<1>3. Connecting' /\ Serving'
  BY DEF Connecting, Serving, attach
<1>4. ASSUME Sound' PROVE Attaching'
  <2>1. Connecting /\ Sound
    BY <1>4 DEF MInv, Sound, attach, Received, TimedOut, GaveUp
  <2>2. CASE id = "CONFIRM"
    BY <1>4, <2>1, <2>2 DEF Connecting, Attaching, attach, Received, TimedOut, GaveUp,
         NothingComes, Send, Sent, Taken, Idle, Gone, Sound, resolver
  <2>3. CASE id # "CONFIRM"
    BY <2>3 DEF Attaching, attach
  <2> QED BY <2>2, <2>3
<1> QED BY <1>1, <1>2, <1>3, <1>4 DEF Protocol

\* wait_heart_beat() goes on, or ends with the answer to ATTACH.
LEMMA AttachedKept ==
  ASSUME MInv, attached
  PROVE  Protocol'
<1>1. OneAsker'
  BY DEF MInv, OneAsker, attached
<1>2. ReadyIsIdle'
  BY DEF MInv, ReadyIsIdle, attached, Send, resolver
<1>3. Connecting'
  BY DEF Connecting, attached
<1>4. ASSUME Sound' PROVE Attaching' /\ Serving'
  <2>1. Sound /\ Attaching /\ phase = "heartbeat" /\ (~early => lock = Null)
    BY <1>4 DEF MInv, OneAsker, Sound, attached, Received, TimedOut, GaveUp
  <2>2. Attaching'
    BY <1>4, <2>1 DEF Attaching, attached, Received, TimedOut, GaveUp, Sound,
         NothingComes, Send, Sent, Taken, Beating, Idle, Gone, Mine, resolver
  <2>3. Serving'
    <3> SUFFICES ASSUME phase' = "attached" PROVE Serving'
      BY DEF Serving
    <3>1. id = "ATTACHED" /\ (Received \/ TimedOut) /\ UNCHANGED <<id, event_out>>
      BY <1>4 DEF attached, GaveUp, Sound
    <3>2. Mine /\ (Gone \/ Idle)
      BY <2>1, <3>1 DEF Attaching, Sent, Taken, Beating
    <3>3. ~event_in'
      BY <3>1 DEF Received, TimedOut, NothingComes
    <3>4. UNCHANGED <<rpc, _keep_running, target, starts, lock>> /\ lock = Null
      BY <1>4, <2>1 DEF attached, resolver, Sound
    <3> QED BY <3>1, <3>2, <3>3, <3>4, NullAssumption DEF Serving, Quiet, Idle, Gone, Mine
  <2> QED BY <2>2, <2>3
<1> QED BY <1>1, <1>2, <1>3, <1>4 DEF Protocol

\* A request is sent to a resolver that has nothing to do.
LEMMA AskKept ==
  ASSUME MInv, NEW t \in Thread, NEW k \in Request, Ask(t, k)
  PROVE  Protocol'
<1>0. op \in [Thread -> Request \cup {Null}]
  BY DEF MInv, MTypes, Types
<1>1. /\ lock = Null /\ lock' = t /\ op' = [op EXCEPT ![t] = k]
      /\ id' = k /\ event_out' = TRUE /\ buffer' = [of |-> t, answer |-> FALSE]
      /\ UNCHANGED <<event_in, rpc, job, _keep_running, target, phase, starts, late>>
      /\ early' = (early \/ phase # "attached")
      /\ phase = "attached" \/ phase \in {"connected", "heartbeat"}
  BY DEF Ask, Send, resolver
<1>2. k # Null
  BY NullAssumption
<1>3. OneAsker'
  BY <1>0, <1>1, <1>2, NullAssumption DEF MInv, OneAsker
<1>4. ReadyIsIdle'
  BY <1>1 DEF ReadyIsIdle, Request
<1>5. ASSUME Sound' PROVE Connecting' /\ Attaching' /\ Serving'
  <2>1. Sound /\ phase = "attached" /\ Serving
    BY <1>1, <1>5 DEF MInv, Sound
  <2>2. Quiet /\ Mine
    BY <1>1, <2>1 DEF Serving
  <2>3. op'[t] = k
    BY <1>0, <1>1
  <2>4. Waiting(t)' \/ Forsaken(t)'
    BY <1>1, <2>2, <2>3 DEF Waiting, Forsaken, Quiet, Idle, Gone, Sent, Request
  <2>5. Serving'
    BY <1>1, <2>1, <2>2, <2>4, NullAssumption DEF Serving, Mine
  <2> QED BY <1>1, <2>1, <2>5 DEF Connecting, Attaching
<1> QED BY <1>3, <1>4, <1>5 DEF Protocol

\* The end of a request: op and lock.
LEMMA ReturnAsker ==
  ASSUME MInv, NEW t \in Thread, op[t] # Null, op' = [op EXCEPT ![t] = Null], lock' = Null,
         UNCHANGED <<phase, early>>
  PROVE  OneAsker' /\ lock = t /\ (~early => phase = "attached")
<1>1. op \in [Thread -> Request \cup {Null}]
  BY DEF MInv, MTypes, Types
<1>2. lock = t /\ \A s \in Thread \ {t} : op[s] = Null
  BY DEF MInv, OneAsker
<1>3. ~early => phase = "attached"
  BY <1>2, NullAssumption DEF MInv, OneAsker
<1> QED BY <1>1, <1>2, <1>3, NullAssumption DEF OneAsker

LEMMA AnswerKept ==
  ASSUME MInv, NEW t \in Thread, Answer(t)
  PROVE  Protocol'
<1>0. /\ op[t] # Null /\ event_in /\ event_in' = FALSE
      /\ UNCHANGED <<buffer, rpc, job, _keep_running, target, served, phase, starts, late, early>>
  BY DEF Answer, Received, resolver
<1>1. CASE op[t] = "LOADSYMS" /\ id = "WAIT"
  <2>1. id' = "CONFIRM" /\ event_out' = TRUE /\ UNCHANGED <<lock, op>>
    BY <1>1 DEF Answer, Send
  <2>2. OneAsker' /\ ReadyIsIdle'
    BY <1>0, <2>1 DEF MInv, OneAsker, ReadyIsIdle
  <2>3. ASSUME Sound' PROVE Connecting' /\ Attaching' /\ Serving'
    <3>1. Sound /\ lock = t /\ phase = "attached"
      BY <1>0, <2>3, NullAssumption DEF Sound, MInv, OneAsker
    <3>2. Mine /\ (Waiting(t) \/ Forsaken(t))
      BY <3>1 DEF MInv, Serving
    <3>3. Waiting(t)' \/ Forsaken(t)'
      BY <1>0, <1>1, <2>1, <3>2
         DEF Waiting, Forsaken, Sent, Taken, Beating, Idle, Replied
    <3> QED BY <1>0, <2>1, <3>1, <3>2, <3>3, NullAssumption
            DEF Connecting, Attaching, Serving, Mine
  <2> QED BY <2>2, <2>3 DEF Protocol
<1>2. CASE ~(op[t] = "LOADSYMS" /\ id = "WAIT")
  <2>1. Return(t, buffer)
    BY <1>2 DEF Answer
  <2>2. op' = [op EXCEPT ![t] = Null] /\ lock' = Null /\ UNCHANGED <<id, event_out>>
    BY <2>1 DEF Return
  <2>3. OneAsker' /\ lock = t /\ (~early => phase = "attached")
    BY <1>0, <2>2, ReturnAsker
  <2>4. ReadyIsIdle'
    BY <1>0, <2>2 DEF MInv, ReadyIsIdle, Gone
  <2>5. ASSUME Sound' PROVE Connecting' /\ Attaching' /\ Serving'
    <3>1. Sound /\ phase = "attached"
      BY <1>0, <2>3, <2>5 DEF Sound
    <3>2. Mine /\ (Waiting(t) \/ Forsaken(t))
      BY <2>3, <3>1 DEF MInv, Serving
    <3>3. Quiet'
      BY <1>0, <1>2, <2>2, <3>2 DEF Waiting, Forsaken, Sent, Taken, Beating, Idle, Gone, Quiet
    <3> QED BY <1>0, <2>2, <3>1, <3>2, <3>3, NullAssumption
            DEF Connecting, Attaching, Serving, Mine
  <2> QED BY <2>3, <2>4, <2>5 DEF Protocol
<1> QED BY <1>1, <1>2

\* A wait that runs to its end leaves nothing under way.
LEMMA NoAnswerKept ==
  ASSUME MInv, NEW t \in Thread, NoAnswer(t) \/ LateAnswer(t)
  PROVE  Protocol'
<1>0. /\ op[t] # Null /\ Return(t, Empty) /\ event_in' = event_in
      /\ UNCHANGED <<buffer, rpc, job, _keep_running, target, served, phase, starts, early>>
      /\ (NothingComes /\ late' = late) \/ late' = TRUE
  BY DEF NoAnswer, LateAnswer, TimedOut, GaveUp, resolver
<1>1. op' = [op EXCEPT ![t] = Null] /\ lock' = Null /\ UNCHANGED <<id, event_out>>
  BY <1>0 DEF Return
<1>2. OneAsker' /\ lock = t /\ (~early => phase = "attached")
  BY <1>0, <1>1, ReturnAsker
<1>3. ReadyIsIdle'
  BY <1>0, <1>1 DEF MInv, ReadyIsIdle, Gone
<1>4. ASSUME Sound' PROVE Connecting' /\ Attaching' /\ Serving'
  <2>1. Sound /\ phase = "attached" /\ NothingComes
    BY <1>0, <1>2, <1>4 DEF Sound
  <2>2. Mine
    BY <1>2, <2>1 DEF MInv, Serving
  <2>3. Quiet'
    BY <1>0, <1>1, <2>1 DEF Idle, Gone, Quiet, NothingComes
  <2> QED BY <1>0, <1>1, <2>1, <2>2, <2>3, NullAssumption
          DEF Connecting, Attaching, Serving, Mine
<1> QED BY <1>2, <1>3, <1>4 DEF Protocol

-----------------------------------------------------------------------------
(* The resolver.  Its steps leave the client alone. *)

\* A message is taken while nothing else is under way.
LEMMA TakeKept ==
  ASSUME MInv, process_msgs
  PROVE  Protocol'
<1>0. /\ rpc = "receive" /\ event_out /\ event_out' = FALSE
      /\ UNCHANGED <<id, buffer, event_in, served, target, phase, lock, op, starts, late, early>>
  <2>1. target' = target
    BY DEF process_msgs, resolver
  <2> QED BY <2>1 DEF process_msgs, client, flags
<1>1. \/ /\ id \in Request \cup {"CONNECT", "ATTACH", "EXIT"}
         /\ rpc' = "work" /\ job' = [id |-> id, buffer |-> buffer]
         /\ _keep_running' = _keep_running
      \/ /\ id \notin Request \cup {"CONNECT", "ATTACH", "EXIT"}
         /\ rpc' \in {"receive", "leave"} /\ (_keep_running' => _keep_running)
  BY <1>0 DEF process_msgs, NextTurn, resolver, Request
<1>2. OneAsker' /\ ReadyIsIdle'
  BY <1>0, <1>1 DEF MInv, OneAsker, ReadyIsIdle, Gone, Request
<1>3. ASSUME Sound' PROVE Connecting' /\ Attaching' /\ Serving'
  <2>1. Sound /\ Connecting /\ Attaching /\ Serving
    BY <1>0, <1>3 DEF MInv, Sound
  <2>2. Connecting'
    BY <1>0, <1>1, <2>1 DEF Connecting, Sent, Taken, Idle, Gone
  <2>3. Attaching'
    BY <1>0, <1>1, <2>1 DEF Attaching, Sent, Taken, Beating, Idle, Gone, Mine
  <2>4. Serving'
    <3> SUFFICES ASSUME phase = "attached" PROVE Serving'
      BY <1>0 DEF Serving
    <3>1. /\ Mine /\ (lock = Null => Quiet)
          /\ \A t \in Thread : lock = t => Waiting(t) \/ Forsaken(t)
      BY <2>1 DEF Serving
    <3>2. lock # Null
      BY <1>0, <3>1 DEF Quiet, Idle, Gone
    <3>3. ASSUME NEW t \in Thread, lock = t PROVE Waiting(t)'
      <4>1. Sent(op[t]) /\ buffer = [of |-> t, answer |-> FALSE]
        BY <1>0, <3>1, <3>3 DEF Waiting, Forsaken, Sent, Taken, Beating, Idle
      <4>2. op[t] \in Request
        BY <3>3, NullAssumption DEF MInv, MTypes, Types, OneAsker
      <4>3. id = op[t] /\ ~event_in /\ rpc' = "work"
        BY <1>0, <1>1, <4>1, <4>2 DEF Sent
      <4>4. job'.id = op[t] /\ job'.buffer = [of |-> t, answer |-> FALSE]
        BY <1>1, <4>1, <4>2, <4>3
      <4>5. Taken(op[t])'
        BY <1>0, <4>3, <4>4 DEF Taken
      <4> QED BY <1>0, <4>3, <4>4, <4>5 DEF Waiting
    <3>4. Mine'
      BY <1>0, <1>1, <3>1 DEF Mine
    <3> QED BY <1>0, <3>2, <3>3, <3>4 DEF Serving
  <2> QED BY <2>2, <2>3, <2>4
<1> QED BY <1>2, <1>3 DEF Protocol

\* WAIT is sent and answered; a missed answer is one that comes too late.
LEMMA BeatKept ==
  ASSUME MInv, Beat \/ BeatAnswered \/ BeatMissed
  PROVE  Protocol'
<1>0. UNCHANGED <<buffer, job, served, target, phase, lock, op, starts, early>>
  BY DEF Beat, BeatAnswered, BeatMissed, client, flags, slot
<1>1. CASE Beat
  <2>1. /\ rpc = "work" /\ job.id \in {"ATTACH", "LOADSYMS"}
        /\ rpc' = "beat" /\ id' = "WAIT" /\ event_in' = TRUE
        /\ UNCHANGED <<event_out, _keep_running, late>>
    BY <1>1 DEF Beat, Reply, flags
  <2>2. OneAsker' /\ ReadyIsIdle'
    BY <1>0, <2>1 DEF MInv, OneAsker, ReadyIsIdle, Gone
  <2>3. ASSUME Sound' PROVE Connecting' /\ Attaching' /\ Serving'
    <3>1. Sound /\ Connecting /\ Attaching /\ Serving
      BY <1>0, <2>1, <2>3 DEF MInv, Sound
    <3>2. Connecting' /\ Attaching'
      BY <1>0, <2>1, <3>1 DEF Connecting, Attaching, Sent, Taken, Beating, Idle, Gone, Mine
    <3>3. Serving'
      <4> SUFFICES ASSUME phase = "attached" PROVE Serving'
        BY <1>0 DEF Serving
      <4>1. lock # Null
        BY <2>1, <3>1 DEF Serving, Quiet, Idle, Gone
      <4>2. ASSUME NEW t \in Thread, lock = t PROVE Waiting(t)'
        <5>1. (Waiting(t) \/ Forsaken(t)) /\ op[t] \in Request
          BY <3>1, <4>2, NullAssumption DEF Serving, MInv, MTypes, Types, OneAsker
        <5>2. Taken(op[t]) /\ job.buffer = [of |-> t, answer |-> FALSE]
          BY <2>1, <5>1 DEF Waiting, Forsaken, Sent, Beating, Idle
        <5>3. op[t] = "LOADSYMS"
          BY <2>1, <5>1, <5>2 DEF Taken, Request
        <5>4. Beating("LOADSYMS")'
          BY <1>0, <2>1, <5>2, <5>3 DEF Taken, Beating
        <5> QED BY <1>0, <2>1, <5>2, <5>3, <5>4 DEF Waiting
      <4> QED BY <1>0, <2>1, <3>1, <4>1, <4>2 DEF Serving, Mine
    <3> QED BY <3>2, <3>3
  <2> QED BY <2>2, <2>3 DEF Protocol
<1>2. CASE BeatAnswered
  <2>1. /\ rpc = "beat" /\ event_out /\ event_out' = FALSE /\ rpc' = "work"
        /\ ~_keep_running => ~_keep_running'
        /\ UNCHANGED <<id, event_in, late>>
    BY <1>2 DEF BeatAnswered, flags
  <2>2. OneAsker' /\ ReadyIsIdle'
    BY <1>0, <2>1 DEF MInv, OneAsker, ReadyIsIdle, Gone
  <2>3. ASSUME Sound' PROVE Connecting' /\ Attaching' /\ Serving'
    <3>1. Sound /\ Connecting /\ Attaching /\ Serving
      BY <1>0, <2>1, <2>3 DEF MInv, Sound
    <3>2. Connecting' /\ Attaching'
      BY <1>0, <2>1, <3>1 DEF Connecting, Attaching, Sent, Taken, Beating, Idle, Gone, Mine
    <3>3. Serving'
      BY <1>0, <2>1, <3>1 DEF Serving, Quiet, Waiting, Forsaken, Sent, Taken, Beating, Idle,
           Gone, Mine
    <3> QED BY <3>2, <3>3
  <2> QED BY <2>2, <2>3 DEF Protocol
<1>3. CASE BeatMissed
  <2>1. /\ rpc = "beat" /\ ~event_out /\ rpc' = "work"
        /\ UNCHANGED <<id, event_in, event_out>>
        /\ late' = (late \/ ClientAnswers)
    BY <1>3 DEF BeatMissed, slot
  <2>2. OneAsker' /\ ReadyIsIdle'
    BY <1>0, <2>1 DEF MInv, OneAsker, ReadyIsIdle, Gone
  <2>3. ASSUME Sound' PROVE Connecting' /\ Attaching' /\ Serving'
    <3>1. Sound /\ Connecting /\ Attaching /\ Serving /\ ~ClientAnswers
      BY <1>0, <2>1, <2>3 DEF MInv, Sound
    <3>2. Connecting' /\ Attaching'
      BY <1>0, <2>1, <3>1
         DEF Connecting, Attaching, Sent, Taken, Beating, Idle, Gone, Mine, ClientAnswers
    <3>3. Serving'
      <4> SUFFICES ASSUME phase = "attached" PROVE FALSE
        BY <1>0 DEF Serving
      <4>1. lock # Null
        BY <2>1, <3>1 DEF Serving, Quiet, Idle, Gone
      <4>2. PICK t \in Thread : lock = t
        BY <4>1 DEF MInv, MTypes, Types
      <4>3. Waiting(t) \/ Forsaken(t)
        BY <3>1, <4>2 DEF Serving
      <4> QED BY <2>1, <3>1, <4>3 DEF Waiting, Forsaken, Sent, Taken, Beating, Idle, ClientAnswers
    <3> QED BY <3>2, <3>3
  <2> QED BY <2>2, <2>3 DEF Protocol
<1> QED BY <1>1, <1>2, <1>3

\* A thread that waits for an answer is the one the invariant speaks of.
LEMMA WaitingOne ==
  ASSUME MInv, Sound, phase = "attached", NEW t \in Thread, lock = t
  PROVE  Mine /\ (Waiting(t) \/ Forsaken(t)) /\ op[t] \in Request
BY NullAssumption DEF MInv, MTypes, Types, OneAsker, Serving

\* A resolver that works, works for a thread.
LEMMA WorksForOne ==
  ASSUME MInv, Sound, phase = "attached", rpc = "work"
  PROVE  \E t \in Thread : /\ lock = t /\ op[t] \in Request
                           /\ Taken(op[t]) /\ job.buffer = [of |-> t, answer |-> FALSE]
                           /\ id = op[t] \/ (op[t] = "LOADSYMS" /\ id = "CONFIRM")
<1>1. lock # Null
  BY DEF MInv, Serving, Quiet, Idle, Gone
<1>2. PICK t \in Thread : lock = t
  BY <1>1 DEF MInv, MTypes, Types
<1>3. (Waiting(t) \/ Forsaken(t)) /\ op[t] \in Request
  BY <1>2, WaitingOne
<1> QED BY <1>2, <1>3 DEF Waiting, Forsaken, Sent, Beating, Idle

\* The end of the resolver: by a failure, on Ctrl-C, behind its loop, or at any moment.
LEMMA FailKept ==
  ASSUME MInv, AttachFails
  PROVE  Protocol'
<1>0. /\ rpc = "work" /\ job.id = "ATTACH" /\ rpc' = "leave"
      /\ UNCHANGED <<id, buffer, event_in, event_out, _keep_running, target, served>>
      /\ UNCHANGED <<phase, lock, op, starts, late, early>>
  BY DEF AttachFails, client, flags, slot
<1>1. OneAsker' /\ ReadyIsIdle'
  BY <1>0 DEF MInv, OneAsker, ReadyIsIdle, Gone
<1>2. ASSUME Sound' PROVE Connecting' /\ Attaching' /\ Serving'
  <2>1. Sound /\ Connecting /\ Attaching
    BY <1>0, <1>2 DEF MInv, Sound
  <2>2. Connecting' /\ Attaching'
    BY <1>0, <2>1 DEF Connecting, Attaching, Sent, Taken, Beating, Idle, Gone, Mine
  <2>3. phase # "attached"
    BY <1>0, <2>1, WorksForOne DEF Taken, Request
  <2> QED BY <1>0, <2>2, <2>3 DEF Serving
<1> QED BY <1>1, <1>2 DEF Protocol

LEMMA InterruptKept ==
  ASSUME MInv, Interrupt
  PROVE  Protocol'
<1>0. /\ ~Gone /\ _keep_running' = FALSE /\ target' = Null
      /\ UNCHANGED <<id, buffer, event_in, event_out, rpc, job, served>>
      /\ UNCHANGED <<phase, lock, op, starts, late, early>>
  BY DEF Interrupt, client, flags, slot
<1>1. OneAsker' /\ ReadyIsIdle' /\ Mine'
  BY <1>0 DEF MInv, OneAsker, ReadyIsIdle, Gone, Mine
<1>2. ASSUME Sound' PROVE Connecting' /\ Attaching' /\ Serving'
  <2>1. Sound /\ Connecting /\ Attaching /\ Serving
    BY <1>0, <1>2 DEF MInv, Sound
  <2>2. Connecting' /\ Attaching'
    BY <1>0, <1>1, <2>1 DEF Connecting, Attaching, Sent, Taken, Beating, Idle, Gone
  <2>3. Serving'
    BY <1>0, <1>1, <2>1
       DEF Serving, Quiet, Waiting, Forsaken, Replied, Sent, Taken, Beating, Idle, Gone
  <2> QED BY <2>2, <2>3
<1> QED BY <1>1, <1>2 DEF Protocol

LEMMA StopKept ==
  ASSUME MInv, Stop
  PROVE  Protocol'
<1>0. /\ rpc \in {"leave", "receive"} /\ rpc' = "stopped" /\ id' = "EXIT" /\ event_in'
      /\ UNCHANGED <<_keep_running, target, phase, lock, op, starts, late, early>>
  BY DEF Stop, Reply, client, flags
<1>1. OneAsker' /\ ReadyIsIdle'
  BY <1>0 DEF MInv, OneAsker, ReadyIsIdle, Gone
<1>2. ASSUME Sound' PROVE Connecting' /\ Attaching' /\ Serving'
  BY <1>0, <1>2 DEF MInv, Sound, Connecting, Attaching, Serving, Mine, Quiet, Forsaken, Gone
<1> QED BY <1>1, <1>2 DEF Protocol

LEMMA KilledKept ==
  ASSUME MInv, Killed
  PROVE  Protocol'
<1>0. /\ rpc \notin {"stopped", "killed"} /\ rpc' = "killed"
      /\ UNCHANGED <<id, buffer, event_in, event_out, _keep_running, target, served>>
      /\ UNCHANGED <<phase, lock, op, starts, late, early>>
  BY DEF Killed, client, flags, slot
<1>1. OneAsker' /\ ReadyIsIdle'
  BY <1>0 DEF MInv, OneAsker, ReadyIsIdle, Gone
<1>2. ASSUME Sound' PROVE Connecting' /\ Attaching' /\ Serving'
  <2>1. Sound /\ Connecting /\ Attaching /\ Serving
    BY <1>0, <1>2 DEF MInv, Sound
  <2>2. Connecting' /\ Attaching'
    BY <1>0, <2>1 DEF Connecting, Attaching, Sent, Taken, Beating, Idle, Gone, Mine
  <2>3. ASSUME phase = "attached", NEW t \in Thread, lock = t PROVE Forsaken(t)'
    <3>1. (Waiting(t) \/ Forsaken(t)) /\ op[t] \in Request
      BY <2>1, <2>3, WaitingOne
    <3>2. event_in => Replied(t) \/ (op[t] = "LOADSYMS" /\ id = "WAIT")
      BY <1>0, <3>1 DEF Waiting, Forsaken, Sent, Taken, Beating, Idle
    <3>3. op[t] = "UNLOADSYMS" /\ id = "CONFIRM" => served = t
      BY <1>0, <3>1 DEF Waiting, Forsaken, Sent, Taken, Beating, Idle, Replied
    <3> QED BY <1>0, <3>2, <3>3 DEF Forsaken, Replied
  <2>4. Serving'
    BY <1>0, <2>1, <2>3 DEF Serving, Quiet, Idle, Gone, Mine
  <2> QED BY <2>2, <2>4
<1> QED BY <1>1, <1>2 DEF Protocol

\* The answer to what has been asked.
LEMMA DoneKept ==
  ASSUME MInv, Done
  PROVE  Protocol'
<1>0. /\ rpc = "work" /\ rpc' \in {"receive", "leave"} /\ served' = job.buffer.of
      /\ UNCHANGED <<event_out, phase, lock, op, starts, late, early>>
      /\ ~_keep_running => ~_keep_running'
  BY DEF Done, NextTurn, client, flags
<1>1. OneAsker' /\ ReadyIsIdle'
  BY <1>0 DEF MInv, OneAsker, ReadyIsIdle, Gone
<1>2. ASSUME Sound' PROVE Connecting' /\ Attaching' /\ Serving'
  <2>1. Sound /\ Connecting /\ Attaching /\ Serving
    BY <1>0, <1>2 DEF MInv, Sound
  <2>2. CASE phase = "connected"
    <3>1. Taken("CONNECT")
      BY <1>0, <2>1, <2>2 DEF Connecting, Sent, Idle, Gone
    <3>2. id' = "CONFIRM" /\ event_in' = TRUE /\ ~event_out
      BY <3>1 DEF Done, Taken, ReplyId, ReplySymbols, NoReply, Reply
    <3> QED BY <1>0, <2>2, <3>2 DEF Idle, Gone, Connecting, Attaching, Serving
  <2>3. CASE phase = "heartbeat"
    <3>1. Taken("ATTACH") /\ job.buffer.of = starts /\ id \in {"ATTACH", "CONFIRM"}
      BY <1>0, <2>1, <2>3 DEF Attaching, Sent, Beating, Idle, Gone
    <3>2. id' \in {"ATTACHED", "EXIT"} /\ event_in' = TRUE /\ ~event_out
      BY <3>1 DEF Done, Taken, ReplyId, ReplySymbols, NoReply, Reply
    <3>3. id' = "ATTACHED" => Mine'
      <4> SUFFICES ASSUME id' = "ATTACHED" PROVE Mine'
        OBVIOUS
      <4>1. target' = job.buffer.of \/ (~_keep_running /\ target' = Null)
        BY <3>1 DEF Done, Taken
      <4> QED BY <1>0, <3>1, <4>1 DEF Mine
    <3> QED BY <1>0, <2>3, <3>2, <3>3 DEF Idle, Gone, Connecting, Attaching, Serving
  <2>4. CASE phase = "attached"
    <3>1. PICK t \in Thread : /\ lock = t /\ op[t] \in Request
                              /\ Taken(op[t]) /\ job.buffer = [of |-> t, answer |-> FALSE]
                              /\ id = op[t] \/ (op[t] = "LOADSYMS" /\ id = "CONFIRM")
      BY <1>0, <2>1, <2>4, WorksForOne
    <3>2. Mine'
      <4>1. target' = target
        BY <3>1 DEF Done, Taken, Request
      <4> QED BY <1>0, <2>1, <2>4, <4>1 DEF Serving, Mine
    <3>3. served' = t /\ ~event_out' /\ op'[t] = op[t]
      BY <1>0, <3>1 DEF Taken
    <3>4. \/ event_in' /\ Replied(t)'
          \/ op[t] = "SEARCHSYMS" /\ ~event_in' /\ id' = op[t]
      <4>1. CASE op[t] \in {"LOADSYMS", "UNLOADSYMS"}
        <5>1. id' = "CONFIRM" /\ event_in' = TRUE
          BY <3>1, <4>1 DEF Done, Taken, ReplyId, ReplySymbols, NoReply, Reply
        <5> QED BY <3>3, <4>1, <5>1 DEF Replied
      <4>2. CASE ReplySymbols /\ op[t] \in {"IP", "SEARCHSYMS"}
        <5>1. event_in' = TRUE
              /\ buffer' = [of |-> job.buffer.of, answer |-> ~job.buffer.answer]
          BY <4>2 DEF ReplySymbols, Reply
        <5>2. job.buffer.of = t /\ job.buffer.answer = FALSE
          BY <3>1
        <5>3. buffer' = [of |-> t, answer |-> TRUE]
          BY <5>1, <5>2
        <5> QED BY <3>3, <4>2, <5>1, <5>3 DEF Replied
      <4>3. CASE NoReply
        BY <3>1, <4>3 DEF NoReply, Taken
      <4> QED BY <3>1, <4>1, <4>2, <4>3 DEF Done, Taken, Request
    <3>5. Waiting(t)' \/ Forsaken(t)'
      BY <1>0, <3>3, <3>4 DEF Waiting, Forsaken, Idle
    <3> QED BY <1>0, <2>4, <3>1, <3>2, <3>5, NullAssumption DEF Connecting, Attaching, Serving
  <2> QED BY <1>0, <2>2, <2>3, <2>4 DEF Connecting, Attaching, Serving
<1> QED BY <1>1, <1>2 DEF Protocol

LEMMA MInvStep == MInv /\ [MNext]_msrVars => MInv'
<1> SUFFICES ASSUME MInv, [MNext]_msrVars PROVE MInv'
  OBVIOUS
<1>1. MTypes'
  BY MTypeStep DEF MInv
<1>2. CASE UNCHANGED msrVars
  <2>1. UNCHANGED <<id, buffer, event_in, event_out, rpc, job, _keep_running, target, served,
                    phase, lock, op, starts, late, early>>
    BY <1>2 DEF msrVars, slot, resolver, client, flags
  <2>2. OneAsker' /\ ReadyIsIdle'
    BY <2>1 DEF MInv, OneAsker, ReadyIsIdle, Gone
  <2>3. Sound' => Connecting' /\ Attaching'
    BY <2>1 DEF MInv, Sound, Connecting, Attaching, Sent, Taken, Beating, Idle, Gone, Mine
  <2>4. Sound' => Serving'
    BY <2>1 DEF MInv, Sound, Serving, Quiet, Waiting, Forsaken, Replied, Sent, Taken, Beating,
         Idle, Gone, Mine
  <2> QED BY <1>1, <2>2, <2>3, <2>4 DEF MInv
<1>3. CASE MNext
  <2>1. Protocol'
    BY <1>3, StartKept, ConnectKept, AttachKept, AttachedKept, AskKept, AnswerKept,
       NoAnswerKept, TakeKept, BeatKept, FailKept, InterruptKept, StopKept,
       KilledKept, DoneKept DEF MNext, ResolverStep
  <2> QED BY <1>1, <2>1 DEF MInv, Protocol
<1> QED BY <1>2, <1>3

LEMMA MInvAlways == MSpec => []MInv
BY MInvInit, MInvStep, PTL DEF MSpec

-----------------------------------------------------------------------------
(* What follows. *)

\* Both processes and the slot between them are well typed, however often the client is
\* killed and started again, and the driver's mutex is held while an answer is awaited
\* and no longer.
THEOREM MSRTypeCorrect == MSpec => []MTypeOK
<1>1. MInv => MTypeOK
  BY DEF MInv, MTypes, OneAsker, MTypeOK
<1> QED BY <1>1, MInvAlways, PTL

\* A client that has attached reads its own symbols, however often clients were killed
\* in the middle of a request before.
THEOREM AttachedToOwnProcess == MSpec => []AttachedToMe
<1>1. MInv => AttachedToMe
  BY DEF MInv, Serving, AttachedToMe
<1> QED BY <1>1, MInvAlways, PTL

\* When a request returns.
LEMMA Returns ==
  ASSUME MInv, [MNext]_msrVars, NEW t \in Thread,
         op[t] # Null, op'[t] = Null, phase' = phase, Sound'
  PROVE  /\ phase = "attached" /\ Sound /\ lock = t /\ (Waiting(t) \/ Forsaken(t))
         /\ \/ /\ Answer(t) /\ event_in /\ Return(t, buffer)
               /\ ~(op[t] = "LOADSYMS" /\ id = "WAIT")
            \/ NoAnswer(t) /\ NothingComes /\ Return(t, Empty)
<1>0. op \in [Thread -> Request \cup {Null}]
  BY DEF MInv, MTypes, Types
<1>1. ~UNCHANGED op
  OBVIOUS
<1>2. \/ \E s \in Thread : \E k \in Request : Ask(s, k)
      \/ \E s \in Thread : Answer(s) \/ NoAnswer(s) \/ LateAnswer(s)
  <2>1. ~UNCHANGED msrVars
    BY <1>1 DEF msrVars, client
  <2>2. ~(Start \/ connect \/ ConnectFails \/ attach \/ attached)
    BY <1>1 DEF Start, connect, ConnectFails, attach, attached
  <2>3. ~(Exit \/ Crash)
    BY DEF Exit, Crash
  <2>4. ~(ResolverStep \/ Beat \/ Interrupt \/ Stop \/ Killed)
    BY <1>1 DEF ResolverStep, process_msgs, BeatAnswered, BeatMissed, Done, AttachFails,
                Beat, Interrupt, Stop, Killed, client
  <2> QED BY <2>1, <2>2, <2>3, <2>4 DEF MNext
<1>3. ~ \E s \in Thread : \E k \in Request : Ask(s, k)
  BY <1>0, NullAssumption DEF Ask
<1>4. PICK s \in Thread : Answer(s) \/ NoAnswer(s) \/ LateAnswer(s)
  BY <1>2, <1>3
<1>5. s = t
  <2>1. op'[t] = op[t] \/ op' = [op EXCEPT ![s] = Null]
    BY <1>4 DEF Answer, NoAnswer, LateAnswer, Return
  <2> QED BY <1>0, <2>1
<1>6. ~LateAnswer(t)
  BY DEF LateAnswer, GaveUp, Sound
<1>7. late' = late /\ early' = early
  BY <1>4, <1>5, <1>6 DEF Answer, NoAnswer, Received, TimedOut
<1>8. Sound
  BY <1>7 DEF Sound
<1>9. lock = t /\ phase = "attached"
  BY <1>8, NullAssumption DEF MInv, OneAsker, Sound
<1>10. Waiting(t) \/ Forsaken(t)
  BY <1>8, <1>9 DEF MInv, Serving
<1>11. CASE Answer(t)
  <2>1. event_in
    BY <1>11 DEF Answer, Received
  <2>2. ~(op[t] = "LOADSYMS" /\ id = "WAIT")
    BY <1>11 DEF Answer
  <2> QED BY <1>8, <1>9, <1>10, <1>11, <2>1, <2>2 DEF Answer
<1>12. CASE NoAnswer(t)
  BY <1>8, <1>9, <1>10, <1>12 DEF NoAnswer, TimedOut
<1> QED BY <1>4, <1>5, <1>6, <1>11, <1>12

\* What a request that returns can have got.
LEMMA Result ==
  ASSUME MInv, [MNext]_msrVars, NEW t \in Thread,
         op[t] # Null, op'[t] = Null, phase' = phase, Sound'
  PROVE  /\ rpc # "stopped" => got'[t] \in {Empty, [of |-> t, answer |-> TRUE]}
         /\ got'[t] # Empty => \/ served = t
                               \/ op[t] = "LOADSYMS" /\ rpc = "killed"
                               \/ op[t] \in {"IP", "SEARCHSYMS"} /\ rpc = "stopped"
         /\ op[t] = "UNLOADSYMS" /\ ~Gone => id = "CONFIRM"
<1>0. /\ got \in [Thread -> Content] /\ op[t] \in Request
  BY DEF MInv, MTypes, Types
<1>1. Waiting(t) \/ Forsaken(t)
  BY Returns
<1>2. CASE event_in /\ Return(t, buffer) /\ ~(op[t] = "LOADSYMS" /\ id = "WAIT")
  <2>1. CASE rpc = "stopped"
    <3>1. id # "CONFIRM"
      BY <1>0, <1>1, <2>1 DEF Waiting, Forsaken, Sent, Taken, Beating, Idle, Request
    <3> QED BY <1>0, <1>2, <2>1, <3>1 DEF Return, Gone, Request
  <2>2. CASE rpc # "stopped"
    <3>1. Replied(t)
      BY <1>1, <1>2, <2>2 DEF Waiting, Forsaken, Sent, Taken, Beating, Idle
    <3> QED BY <1>0, <1>2, <2>2, <3>1 DEF Return, Replied, Request
  <2> QED BY <2>1, <2>2
<1>3. CASE NothingComes /\ Return(t, Empty)
  <2>1. got'[t] = IF op[t] \in {"IP", "SEARCHSYMS"} THEN Empty
                  ELSE IF id = "CONFIRM" THEN [of |-> t, answer |-> TRUE] ELSE Empty
    BY <1>0, <1>3 DEF Return
  <2>2. ~event_in /\ (Gone \/ (rpc = "receive" /\ ~event_out))
    BY <1>3 DEF NothingComes
  <2>3. ~Gone => op[t] = "SEARCHSYMS"
    BY <1>1, <2>2 DEF Waiting, Forsaken, Sent, Taken, Beating, Idle, Gone
  <2>4. Gone /\ op[t] \in {"LOADSYMS", "UNLOADSYMS"} /\ id = "CONFIRM"
          => rpc = "killed" /\ (op[t] = "UNLOADSYMS" => served = t)
    BY <1>1, <2>2 DEF Waiting, Forsaken, Sent, Taken, Beating, Idle, Gone
  <2> QED BY <1>0, <2>1, <2>3, <2>4 DEF Request
<1> QED BY <1>2, <1>3, Returns

\* What a thread gets for its request was done for it, unless a resolver that was killed
\* has left the client's own CONFIRM in the slot, or a lookup meets the EXIT of one that
\* was stopped.
THEOREM OnlyServedAnswered == MSpec => AnsweredIsServed
<1>1. MInv /\ [MNext]_msrVars =>
        [\A t \in Thread :
           op[t] # Null /\ op'[t] = Null /\ phase' = phase /\ Sound' /\ got'[t] # Empty
             => \/ served = t
                \/ op[t] = "LOADSYMS" /\ rpc = "killed"
                \/ op[t] \in {"IP", "SEARCHSYMS"} /\ rpc = "stopped"]_msrVars
  BY Result
<1> QED BY <1>1, MInvAlways, PTL DEF MSpec, AnsweredIsServed

\* The assertion of unload_symbols() holds with every resolver that is in its loop and in
\* time.
THEOREM UnloadAsserted == MSpec => UnloadConfirmed
<1>1. MInv /\ [MNext]_msrVars =>
        [\A t \in Thread :
           op[t] = "UNLOADSYMS" /\ op'[t] = Null /\ phase' = phase /\ Sound'
             /\ ~Gone => id = "CONFIRM"]_msrVars
  BY Result, NullAssumption DEF Request
<1> QED BY <1>1, MInvAlways, PTL DEF MSpec, UnloadConfirmed

-----------------------------------------------------------------------------
(* The protocol implements the service.                                    *)

ServiceResult == [t \in Thread |-> View(t)]

\* Steps that end no request leave all results alone.
LEMMA ResultsSame == got' = got => ServiceResult' = ServiceResult
BY DEF ServiceResult, View

LEMMA ServiceStart == MInit => Service!SSInit
<1> SUFFICES ASSUME MInit PROVE Service!SSInit
  OBVIOUS
<1>1. \A t \in Thread : View(t) = "nothing"
  BY DEF MInit, View
<1> QED BY <1>1 DEF MInit, Sound, Service!SSInit

\* Does the service's promise hold?
Promise == Sound /\ rpc # "stopped"

\* Once a wait was given up, a thread asked too early, or the resolver has stopped, that is
\* never undone.
LEMMA SoundOnlyBreaks ==
  ASSUME MTypes, [MNext]_msrVars
  PROVE  Promise' \in BOOLEAN /\ (Promise' = Promise \/ Promise' = FALSE)
<1>1. late \in BOOLEAN /\ early \in BOOLEAN /\ late' \in BOOLEAN /\ early' \in BOOLEAN
  BY MTypeStep DEF MTypes, Types
<1>2. late => late'
  BY <1>1 DEF MNext, msrVars, flags, Start, connect, ConnectFails, attach, attached, Exit, Crash, Ask,
         Answer, NoAnswer, LateAnswer, ResolverStep, process_msgs, BeatAnswered, BeatMissed,
         Done, AttachFails, Beat, Interrupt, Stop, Killed, Received, TimedOut, GaveUp
<1>3. early => early'
  BY <1>1 DEF MNext, msrVars, flags, Start, connect, ConnectFails, attach, attached, Exit, Crash, Ask,
         Answer, NoAnswer, LateAnswer, ResolverStep, process_msgs, BeatAnswered, BeatMissed,
         Done, AttachFails, Beat, Interrupt, Stop, Killed
<1>4. rpc = "stopped" => rpc' = "stopped"
  BY DEF MNext, msrVars, resolver, Start, connect, ConnectFails, attach, attached, Exit, Crash,
         Ask, Answer, NoAnswer, LateAnswer, ResolverStep, process_msgs, BeatAnswered,
         BeatMissed, Done, AttachFails, Beat, Interrupt, Stop, Killed, Gone
<1> QED BY <1>1, <1>2, <1>3, <1>4 DEF Promise, Sound

\* A request that returns is the service's Finish.
LEMMA ReturnFinishes ==
  ASSUME MInv, [MNext]_msrVars, NEW t \in Thread, NEW c, op[t] # Null, Return(t, c),
         phase' = phase
  PROVE  Service!Finish(t)
<1>1. lock = t /\ lock' = Null
  BY DEF MInv, OneAsker, Return
<1>2. op'[t] = Null /\ \A s \in Thread \ {t} : got'[s] = got[s]
  BY DEF MInv, MTypes, Types, Return
<1>3. Promise' => View(t)' # "wrong"
  <2> SUFFICES ASSUME Promise' PROVE View(t)' # "wrong"
    OBVIOUS
  <2>1. Sound' /\ rpc' # "stopped" /\ rpc # "stopped"
    BY SoundOnlyBreaks DEF Promise, MInv
  <2> QED BY <1>2, <2>1, Result DEF View
<1>4. View(t)' \in {"nothing", "own", "wrong"}
  BY DEF View
<1>5. ServiceResult' = [ServiceResult EXCEPT ![t] = View(t)']
  BY <1>2 DEF ServiceResult, View
<1>6. Promise' = Promise \/ Promise' = FALSE
  BY SoundOnlyBreaks DEF MInv
<1> QED BY <1>1, <1>3, <1>4, <1>5, <1>6 DEF Service!Finish, Service!MayBreak, ServiceResult, Promise

LEMMA ServiceStep ==
  ASSUME MInv, [MNext]_msrVars
  PROVE  [Service!SSNext]_(Service!ssVars)
<1>0. Promise' \in BOOLEAN /\ (Promise' = Promise \/ Promise' = FALSE)
  BY SoundOnlyBreaks DEF MInv
<1>1. ASSUME UNCHANGED <<lock, got>>
      PROVE  [Service!SSNext]_(Service!ssVars)
  BY <1>0, <1>1, ResultsSame DEF Service!SSNext, Service!ssVars, Service!Break, ServiceResult, Promise
<1>2. ASSUME lock' = Null, got' = got
      PROVE  [Service!SSNext]_(Service!ssVars)
  BY <1>0, <1>2, ResultsSame
     DEF Service!SSNext, Service!ssVars, Service!Abandon, Service!MayBreak, ServiceResult, Promise
<1>3. ASSUME NEW t \in Thread, NEW k \in Request, Ask(t, k)
      PROVE  [Service!SSNext]_(Service!ssVars)
  <2>1. lock = Null /\ lock' = t /\ got' = got
    BY <1>3 DEF Ask
  <2> QED BY <1>0, <2>1, ResultsSame
          DEF Service!SSNext, Service!ssVars, Service!Serve, Service!MayBreak, ServiceResult, Promise
<1>4. ASSUME NEW t \in Thread, Answer(t) \/ NoAnswer(t) \/ LateAnswer(t)
      PROVE  [Service!SSNext]_(Service!ssVars)
  <2>1. op[t] # Null /\ phase' = phase
    BY <1>4 DEF Answer, NoAnswer, LateAnswer
  <2>2. CASE Return(t, buffer) \/ Return(t, Empty)
    BY <2>1, <2>2, ReturnFinishes DEF Service!SSNext, Service!ssVars
  <2>3. CASE UNCHANGED <<lock, got>>
    BY <1>1, <2>3
  <2> QED BY <1>4, <2>2, <2>3 DEF Answer, NoAnswer, LateAnswer
<1>5. ASSUME Start \/ connect \/ ConnectFails \/ attach \/ attached
      PROVE  UNCHANGED <<lock, got>>
  BY <1>5 DEF Start, connect, ConnectFails, attach, attached
<1>6. ASSUME Exit \/ Crash PROVE lock' = Null /\ got' = got
  BY <1>6 DEF Exit, Crash
<1>7. ASSUME ResolverStep \/ Beat \/ Interrupt \/ Stop \/ Killed
      PROVE  UNCHANGED <<lock, got>>
  BY <1>7 DEF ResolverStep, process_msgs, BeatAnswered, BeatMissed, Done, AttachFails, Beat,
              Interrupt, Stop, Killed, client
<1>8. UNCHANGED msrVars => UNCHANGED <<lock, got>>
  BY DEF msrVars, client
<1> QED BY <1>1, <1>2, <1>3, <1>4, <1>5, <1>6, <1>7, <1>8 DEF MNext

\* The safety part of ServiceKept: requests are served one at a time, and none returns
\* the answer to another.  That every request returns is left to the runs.
THEOREM ServiceImplemented ==
  MSpec => Service!SSInit /\ [][Service!SSNext]_(Service!ssVars)
BY ServiceStart, ServiceStep, MInvAlways, PTL DEF MSpec

=============================================================================
