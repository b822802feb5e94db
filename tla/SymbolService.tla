--------------------------- MODULE SymbolService ---------------------------
(***************************************************************************)
(* What MSR.cpp promises to the threads of the client: requests are served *)
(* one at a time and every one returns, with the resolver's answer to it   *)
(* or with nothing.  The promise ends for good when a wait is given up     *)
(* although the answer comes, when a thread asks too early, or when the    *)
(* resolver is stopped and says so.                                        *)
(***************************************************************************)

CONSTANTS Thread, Null

VARIABLES
  asking,   \* the thread that is served
  result,   \* per thread, what the last request returned
  sound     \* does the promise still hold?

ssVars == <<asking, result, sound>>

SSInit ==
  /\ asking = Null
  /\ result = [t \in Thread |-> "nothing"]
  /\ sound = TRUE

MayBreak == sound' = sound \/ sound' = FALSE

Serve(t) ==
  /\ asking = Null
  /\ asking' = t
  /\ MayBreak
  /\ UNCHANGED result

Finish(t) ==
  /\ asking = t
  /\ asking' = Null
  /\ MayBreak
  /\ \E r \in {"nothing", "own", "wrong"} :
       /\ sound' => r # "wrong"
       /\ result' = [result EXCEPT ![t] = r]

\* The process ends with the request.
Abandon == asking' = Null /\ MayBreak /\ UNCHANGED result

Break == sound' = FALSE /\ UNCHANGED <<asking, result>>

SSNext == (\E t \in Thread : Serve(t) \/ Finish(t)) \/ Abandon \/ Break

SSSpec ==
  /\ SSInit
  /\ [][SSNext]_ssVars
  /\ \A t \in Thread : WF_ssVars(Finish(t))

=============================================================================
