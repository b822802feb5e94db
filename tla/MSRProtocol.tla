---------------------------- MODULE MSRProtocol ----------------------------
(***************************************************************************)
(* The protocol between the DRace client (MSR.cpp) and the managed symbol  *)
(* resolver (ProtocolHandler.cpp): one message slot in shared memory with  *)
(* an auto-reset event for each direction (SharedMemory.h,                 *)
(* SyncSHMDriver.h, MtSyncSHMDriver.h).                                    *)
(*                                                                         *)
(* A request's content is the thread that sent it, an answer's the thread  *)
(* it is for; CONFIRM, WAIT and the like set only the id and leave the     *)
(* content of the slot alone.  The client process may crash and be started *)
(* again, the resolver may fail, be killed or be stopped by its user.  The *)
(* process loads one CLR, so attach() is called once after a connect().    *)
(***************************************************************************)
EXTENDS Naturals, FiniteSets

CONSTANTS
  Thread,      \* threads of the client
  ExecOnce,    \* is the resolver started with --once?
  MaxBeats,    \* bound on the WAIT messages of one request
  MaxStarts,   \* bound on the starts of the client process
  Null

ASSUME ExecOnceAssumption == ExecOnce \in BOOLEAN
ASSUME MaxBeatsAssumption == MaxBeats \in Nat
ASSUME MaxStartsAssumption == MaxStarts \in Nat \ {0}

\* What a thread asks under the lock of the driver.
Request == {"IP", "LOADSYMS", "UNLOADSYMS", "SEARCHSYMS"}
SMDataID == Request \cup
  {"READY", "CONNECT", "ATTACH", "ATTACHED", "WAIT", "CONFIRM", "EXIT"}

ASSUME NullAssumption == Null \notin Thread \cup Request

VARIABLES
  id, buffer,     \* the slot
  event_in,       \* set by the resolver, waited for by the client
  event_out,      \* set by the client, waited for by the resolver
  rpc,            \* resolver: receive, work, beat (WAIT sent), leave (out of the
                  \* loop), stopped (has said EXIT) or killed
  job,            \* the message it works on, if it does
  beats,          \* WAIT messages sent for it
  _keep_running,
  target,         \* the process its debugging interface is open on
  served,         \* the thread whose request it has carried out last
  phase,          \* client: off, connect, connected, heartbeat, attached, reset
  lock,           \* owner of the driver's mutex
  op,             \* per thread, the request it waits for
  got,            \* per thread, what the last request returned
  starts,
  late,           \* has one side given up waiting for an answer that came later?
  early           \* has a thread asked before the resolver was attached?

slot == <<id, buffer, event_in, event_out>>
resolver == <<rpc, job, beats, _keep_running, target>>
client == <<phase, lock, op, got, starts>>
flags == <<late, early>>
msrVars == <<slot, resolver, served, client, flags>>

Empty == [of |-> Null, answer |-> FALSE]
NoJob == [id |-> "READY", buffer |-> Empty]

\* The resolver has started and said READY; the client is about to connect().
MInit ==
  /\ id = "READY" /\ buffer = Empty
  /\ event_in = TRUE /\ event_out = FALSE
  /\ rpc = "receive" /\ job = NoJob /\ beats = 0
  /\ _keep_running = TRUE /\ target = Null /\ served = Null
  /\ phase = "connect" /\ lock = Null
  /\ op = [t \in Thread |-> Null] /\ got = [t \in Thread |-> Empty]
  /\ starts = 1
  /\ late = FALSE /\ early = FALSE

-----------------------------------------------------------------------------
(* The client. *)

\* id() and commit() of the client.
Send(mid) == id' = mid /\ event_out' = TRUE

\* The resolver takes no message any more.
Gone == rpc \in {"leave", "stopped", "killed"}

\* Is there no answer under way?  Only then a wait runs to its end while both sides
\* are in time.
NothingComes == ~event_in /\ (Gone \/ (rpc = "receive" /\ ~event_out))

\* wait_receive(): the event, or the end of the time.
Received == event_in /\ event_in' = FALSE /\ UNCHANGED late
TimedOut == NothingComes /\ UNCHANGED <<event_in, late>>
GaveUp == ~event_in /\ ~NothingComes /\ late' = TRUE /\ UNCHANGED event_in

\* Start of the application under DRace.
Start ==
  /\ phase = "off"
  /\ starts < MaxStarts
  /\ starts' = starts + 1
  /\ phase' = "connect"
  /\ UNCHANGED <<slot, resolver, served, lock, op, got, flags>>

\* One turn of the loop of connect().  A driver that is given up says EXIT.
\* A wait that runs to its end uses up the time for another turn.
connect ==
  /\ phase = "connect"
  /\ rpc \notin {"stopped", "killed"}
  /\ IF id = "READY" THEN Send("CONNECT") ELSE Send("EXIT")
  /\ \/ Received /\ phase' = IF id = "READY" THEN "connected" ELSE "connect"
     \/ /\ TimedOut \/ GaveUp
        /\ phase' = IF id = "READY" THEN "connected" ELSE "off"
  /\ UNCHANGED <<buffer, resolver, served, lock, op, got, starts, early>>

\* There is no shared memory to open: the client aborts.
ConnectFails ==
  /\ phase = "connect"
  /\ rpc \in {"stopped", "killed"}
  /\ phase' = "off"
  /\ UNCHANGED <<slot, resolver, served, lock, op, got, starts, flags>>

\* attach(), on the load of the CLR and without the lock: the answer to CONNECT is
\* taken, ATTACH is sent.
attach ==
  /\ phase = "connected"
  /\ \/ Received
     \/ TimedOut
     \/ GaveUp
  /\ IF id = "CONFIRM" THEN Send("ATTACH") /\ phase' = "heartbeat"
     ELSE Send("EXIT") /\ phase' = "reset"
  /\ buffer' = IF id = "CONFIRM" THEN [of |-> starts, answer |-> FALSE] ELSE buffer
  /\ UNCHANGED <<resolver, served, lock, op, got, starts, early>>

\* Mutant of attached: the answer is not looked at.
MutAnyAnswer ==
  /\ phase = "heartbeat"
  /\ \/ /\ Received
        /\ id = "WAIT"
        /\ Send("CONFIRM")
        /\ UNCHANGED phase
     \/ /\ (Received /\ id # "WAIT") \/ TimedOut \/ GaveUp
        /\ phase' = "attached"
        /\ UNCHANGED <<id, event_out>>
  /\ UNCHANGED <<buffer, resolver, served, lock, op, got, starts, early>>

\* wait_heart_beat() and the rest of attach().
attached ==
  /\ phase = "heartbeat"
  /\ \/ /\ Received
        /\ id = "WAIT"
        /\ Send("CONFIRM")
        /\ UNCHANGED phase
     \/ /\ (Received /\ id # "WAIT") \/ TimedOut \/ GaveUp
        /\ IF id = "ATTACHED" THEN phase' = "attached" /\ UNCHANGED <<id, event_out>>
           ELSE phase' = "reset" /\ Send("EXIT")
  /\ UNCHANGED <<buffer, resolver, served, lock, op, got, starts, early>>

\* Mutant of Ask: the lock is not taken.
MutNoLock(t, k) ==
  /\ phase = "attached"
  /\ op[t] = Null
  /\ lock' = t
  /\ op' = [op EXCEPT ![t] = k]
  /\ Send(k)
  /\ buffer' = [of |-> t, answer |-> FALSE]
  /\ served' = Null
  /\ UNCHANGED <<event_in, resolver, phase, got, starts, flags>>

\* request_symbols(), unload_symbols(), lookup_address() and search_symbol(), up to
\* the wait.  Code outside every module is looked up as soon as there is a driver.
Ask(t, k) ==
  /\ phase = "attached" \/ (k = "IP" /\ phase \in {"connected", "heartbeat"})
  /\ op[t] = Null
  /\ lock = Null
  /\ lock' = t
  /\ op' = [op EXCEPT ![t] = k]
  /\ Send(k)
  /\ buffer' = [of |-> t, answer |-> FALSE]
  /\ served' = Null
  /\ early' = (early \/ phase # "attached")
  /\ UNCHANGED <<event_in, resolver, phase, got, starts, late>>

\* The end of a request: what the slot holds, or whether the id is CONFIRM.
Return(t, content) ==
  /\ got' = [got EXCEPT ![t] =
       IF op[t] \in {"IP", "SEARCHSYMS"} THEN content
       ELSE IF id = "CONFIRM" THEN [of |-> t, answer |-> TRUE] ELSE Empty]
  /\ op' = [op EXCEPT ![t] = Null]
  /\ lock' = Null
  /\ UNCHANGED <<id, event_out>>

\* The heart beat of request_symbols() is answered, any other message is the answer.
Answer(t) ==
  /\ op[t] # Null
  /\ Received
  /\ IF op[t] = "LOADSYMS" /\ id = "WAIT"
     THEN Send("CONFIRM") /\ UNCHANGED <<lock, op, got>>
     ELSE Return(t, buffer)
  /\ UNCHANGED <<buffer, resolver, served, phase, starts, early>>

\* Mutant of NoAnswer: the slot is read although nothing has come.
MutReadAnyway(t) ==
  /\ op[t] # Null
  /\ TimedOut
  /\ Return(t, buffer)
  /\ UNCHANGED <<buffer, resolver, served, phase, starts, early>>

\* Mutant of NoAnswer: the early return keeps the driver's mutex.
MutLockKept(t) ==
  /\ op[t] # Null
  /\ TimedOut
  /\ op' = [op EXCEPT ![t] = Null]
  /\ UNCHANGED <<id, event_out, lock, got>>
  /\ UNCHANGED <<buffer, resolver, served, phase, starts, early>>

\* "Timeout expired".
NoAnswer(t) ==
  /\ op[t] # Null
  /\ TimedOut
  /\ Return(t, Empty)
  /\ UNCHANGED <<buffer, resolver, served, phase, starts, early>>

LateAnswer(t) ==
  /\ op[t] # Null
  /\ GaveUp
  /\ Return(t, Empty)
  /\ UNCHANGED <<buffer, resolver, served, phase, starts, early>>

\* The application ends; the driver is destroyed and says EXIT.
Exit ==
  /\ phase \in {"connected", "attached"}
  /\ Send("EXIT")
  /\ phase' = "off"
  /\ lock' = Null
  /\ op' = [t \in Thread |-> Null]
  /\ UNCHANGED <<buffer, event_in, resolver, served, got, starts, flags>>

\* The application is killed, or ends without a driver.
Crash ==
  /\ phase # "off"
  /\ phase' = "off"
  /\ lock' = Null
  /\ op' = [t \in Thread |-> Null]
  /\ UNCHANGED <<slot, resolver, served, got, starts, flags>>

-----------------------------------------------------------------------------
(* The resolver. *)

\* id() and commit() of the resolver.
Reply(mid) == id' = mid /\ event_in' = TRUE

\* The end of a turn of the loop of process_msgs().
NextTurn(running) ==
  /\ _keep_running' = running
  /\ rpc' = IF running THEN "receive" ELSE "leave"
  /\ job' = NoJob /\ beats' = 0

\* process_msgs(): a message is taken.  CONFIRM is ignored, one that is not a
\* request ends the resolver.
process_msgs ==
  /\ rpc = "receive"
  /\ event_out
  /\ event_out' = FALSE
  /\ CASE id \in Request \cup {"CONNECT", "ATTACH", "EXIT"} ->
            /\ rpc' = "work"
            /\ job' = [id |-> id, buffer |-> buffer]
            /\ beats' = 0
            /\ UNCHANGED <<_keep_running, target>>
       [] id = "CONFIRM" -> NextTurn(_keep_running) /\ UNCHANGED target
       [] OTHER -> NextTurn(FALSE) /\ UNCHANGED target
  /\ UNCHANGED <<id, buffer, event_in, served, client, flags>>

\* waitHeartbeat(): the download is not ready after a second.
Beat ==
  /\ rpc = "work"
  /\ job.id \in {"ATTACH", "LOADSYMS"}
  /\ beats < MaxBeats
  /\ beats' = beats + 1
  /\ Reply("WAIT")
  /\ rpc' = "beat"
  /\ UNCHANGED <<buffer, event_out, job, _keep_running, target, served, client, flags>>

\* No answer but CONFIRM within two seconds goes on with the download.  quit() does
\* not leave the handler, but there is no further WAIT.
BeatAnswered ==
  /\ rpc = "beat"
  /\ event_out
  /\ event_out' = FALSE
  /\ rpc' = "work"
  /\ IF id = "CONFIRM" THEN UNCHANGED <<_keep_running, beats>>
     ELSE _keep_running' = FALSE /\ beats' = MaxBeats
  /\ UNCHANGED <<id, buffer, event_in, job, target, served, client, flags>>

\* A client that waits for the heart beat answers it.
ClientAnswers == event_in /\ (phase = "heartbeat" \/ \E t \in Thread : op[t] = "LOADSYMS")

\* Mutant of BeatMissed: the resolver waits for the client without end.
MutWaitOn == rpc = "beat" /\ ~event_out /\ UNCHANGED msrVars

BeatMissed ==
  /\ rpc = "beat"
  /\ ~event_out
  /\ rpc' = "work"
  /\ _keep_running' = FALSE
  /\ beats' = MaxBeats
  /\ late' = (late \/ ClientAnswers)
  /\ UNCHANGED <<slot, job, target, served, client, early>>

\* Mutant of ReplyId: unloaded symbols are not confirmed.
MutUnloadSilent ==
  /\ CASE job.id \in {"CONNECT", "LOADSYMS"} -> Reply("CONFIRM")
       [] job.id = "UNLOADSYMS" -> UNCHANGED <<id, event_in>>
       [] job.id = "ATTACH" -> Reply("ATTACHED") \/ Reply("EXIT")
       [] job.id = "EXIT" -> Reply("READY")
  /\ UNCHANGED buffer

\* The reply of connect(), attachProcess(), loadSymbols(), unloadSymbols() and
\* detachProcess(), which sets the id; the process may have an unknown CLR ...
ReplyId ==
  /\ CASE job.id \in {"CONNECT", "LOADSYMS", "UNLOADSYMS"} -> Reply("CONFIRM")
       [] job.id = "ATTACH" -> Reply("ATTACHED") \/ Reply("EXIT")
       [] job.id = "EXIT" -> Reply("READY")
  /\ UNCHANGED buffer

\* ... and that of resolveIP() and searchSymbols(), which fills the slot.
ReplySymbols ==
  /\ job.id \in {"IP", "SEARCHSYMS"}
  /\ Reply(job.id)
  /\ buffer' = [of |-> job.buffer.of, answer |-> ~job.buffer.answer]

\* symsearch() fails: there is no reply.
NoReply == job.id = "SEARCHSYMS" /\ UNCHANGED <<id, buffer, event_in>>

\* The handler returns.  Where CtrlHandler() has closed the resolver meanwhile, the
\* process just attached may be among what it closed.
Done ==
  /\ rpc = "work"
  /\ \/ job.id \notin {"IP", "SEARCHSYMS"} /\ ReplyId
     \/ ReplySymbols
     \/ NoReply
  /\ NextTurn(_keep_running /\ ~(ExecOnce /\ job.id = "EXIT"))
  /\ CASE job.id = "ATTACH" /\ id' = "ATTACHED" ->
            target' = job.buffer.of \/ (~_keep_running /\ target' = Null)
       [] job.id = "EXIT" -> target' = Null
       [] OTHER -> target' = target
  /\ served' = job.buffer.of
  /\ UNCHANGED <<event_out, client, flags>>

\* The process, or its debugging interface, cannot be opened: the exception leaves
\* the loop.
AttachFails ==
  /\ rpc = "work"
  /\ job.id = "ATTACH"
  /\ rpc' = "leave"
  /\ job' = NoJob /\ beats' = 0
  /\ UNCHANGED <<slot, _keep_running, target, served, client, flags>>

\* CtrlHandler(): on Ctrl-C the handler is destroyed, whatever main()'s thread is just
\* doing in it.  That thread goes on to the end of its turn, or crashes (Killed); with
\* --once there is no controller to stop, and Ctrl-C is a crash.
Interrupt ==
  /\ ~ExecOnce
  /\ ~Gone
  /\ _keep_running' = FALSE
  /\ target' = Null
  /\ UNCHANGED <<slot, rpc, job, beats, served, client, flags>>

\* The last owner of the driver goes, and the driver says EXIT: behind the loop, when
\* main() ends or with the handler on Ctrl-C.
Stop ==
  /\ rpc = "leave" \/ (rpc = "receive" /\ ~_keep_running)
  /\ rpc' = "stopped"
  /\ Reply("EXIT")
  /\ UNCHANGED <<buffer, event_out, job, beats, _keep_running, target, served, client, flags>>

\* The resolver is killed, or crashes.
Killed ==
  /\ rpc \notin {"stopped", "killed"}
  /\ rpc' = "killed"
  /\ job' = NoJob /\ beats' = 0
  /\ UNCHANGED <<slot, _keep_running, target, served, client, flags>>

-----------------------------------------------------------------------------

ResolverStep == process_msgs \/ BeatAnswered \/ BeatMissed \/ Done \/ AttachFails

MNext ==
  \/ Start \/ connect \/ ConnectFails \/ attach \/ attached \/ Exit \/ Crash
  \/ \E t \in Thread : \E k \in Request : Ask(t, k)
  \/ \E t \in Thread : Answer(t)
  \/ \E t \in Thread : NoAnswer(t)
  \/ \E t \in Thread : LateAnswer(t)
  \/ ResolverStep \/ Beat \/ Interrupt \/ Stop \/ Killed

\* The resolver's thread runs, and a wait ends by its event or its time.
MFairness ==
  /\ WF_msrVars(ResolverStep)
  /\ WF_msrVars(connect \/ ConnectFails)
  /\ WF_msrVars(attached)
  /\ \A t \in Thread : WF_msrVars(Answer(t) \/ NoAnswer(t))

MSpec == MInit /\ [][MNext]_msrVars /\ MFairness

-----------------------------------------------------------------------------
(* Properties. *)

Content == [of : Thread \cup (1..MaxStarts) \cup {Null}, answer : BOOLEAN]

\* Types of the slot, the two processes and the history.
Types ==
  /\ id \in SMDataID
  /\ buffer \in Content
  /\ event_in \in BOOLEAN /\ event_out \in BOOLEAN
  /\ rpc \in {"receive", "work", "beat", "leave", "stopped", "killed"}
  /\ job \in [id : SMDataID, buffer : Content]
  /\ beats \in 0..MaxBeats
  /\ _keep_running \in BOOLEAN
  /\ target \in Thread \cup (1..MaxStarts) \cup {Null}
  /\ served \in Thread \cup (1..MaxStarts) \cup {Null}
  /\ phase \in {"off", "connect", "connected", "heartbeat", "attached", "reset"}
  /\ lock \in Thread \cup {Null}
  /\ op \in [Thread -> Request \cup {Null}]
  /\ got \in [Thread -> Content]
  /\ starts \in 1..MaxStarts
  /\ late \in BOOLEAN /\ early \in BOOLEAN

\* The types, and the mutex of the driver is held by the thread that waits for an
\* answer and by no other: no way out of a request keeps it.
MTypeOK == Types /\ \A t \in Thread : op[t] # Null <=> lock = t

Sound == ~late /\ ~early

\* The resolver's debugging interface is open on this start of the client, or closed by
\* CtrlHandler().
Mine == target = starts \/ (target = Null /\ ~_keep_running)

\* The resolver reads the symbols of no other process than the one that has attached,
\* also when that was started after another had been killed in the middle of a request.
AttachedToMe == Sound /\ phase = "attached" => Mine

\* "Symbols downloaded" and symbols returned mean that the resolver has carried out
\* this request.  Excepted are two ends of the resolver: killed after a heart beat it
\* leaves the client's own CONFIRM, which is then taken for the answer; and the EXIT of
\* one that is stopped ends the wait of the lookups, which take their own request for
\* the answer (LookupsResolved).
AnsweredIsServed ==
  [][\A t \in Thread :
       op[t] # Null /\ op'[t] = Null /\ phase' = phase /\ Sound' /\ got'[t] # Empty
         => \/ served = t
            \/ op[t] = "LOADSYMS" /\ rpc = "killed"
            \/ op[t] \in {"IP", "SEARCHSYMS"} /\ rpc = "stopped"]_msrVars

\* A lookup ends with what a message has brought, in the process that has asked.
PassedBack(t) ==
  op[t] \in {"IP", "SEARCHSYMS"} /\ op'[t] = Null /\ phase' = phase /\ got'[t] # Empty

Resolved(t) == got'[t] = [of |-> t, answer |-> TRUE]

\* "The resolved symbols are passed back to DRace": what lookup_address() and
\* search_symbol() return once a message has come is the resolver's answer to them,
\* also when the resolver is stopped.
LookupsResolved == [][\A t \in Thread : PassedBack(t) /\ Sound' => Resolved(t)]_msrVars

\* The same for a resolver in its loop whose answers all come in time, whether or not
\* a thread has looked up an address before attach() has run.
EarlyLookups ==
  [][\A t \in Thread : PassedBack(t) /\ ~late' /\ ~Gone => Resolved(t)]_msrVars

\* The same for a resolver in its loop, whether or not a wait has ended before its
\* answer came ("Timeout expired").
LateLookups ==
  [][\A t \in Thread : PassedBack(t) /\ ~early' /\ ~Gone => Resolved(t)]_msrVars

\* The assertion of unload_symbols(): from a resolver that is in its loop and in time,
\* CONFIRM comes within the wait.
UnloadConfirmed ==
  [][\A t \in Thread :
       op[t] = "UNLOADSYMS" /\ op'[t] = Null /\ phase' = phase /\ Sound' /\ ~Gone
         => id = "CONFIRM"]_msrVars

\* Whatever becomes of the client, the resolver gets back to its loop, or ends.
ResolverFree == rpc \in {"work", "beat"} ~> (rpc = "receive" \/ Gone)

View(t) ==
  IF got[t] = Empty THEN "nothing"
  ELSE IF got[t] = [of |-> t, answer |-> TRUE] THEN "own" ELSE "wrong"

\* The EXIT of a resolver that is stopped ends the promise.
Service == INSTANCE SymbolService
             WITH asking <- lock, result <- [t \in Thread |-> View(t)],
                  sound <- Sound /\ rpc # "stopped"

\* The protocol implements the service its callers rely on.
ServiceKept == Service!SSSpec

=============================================================================
