------------------------------ MODULE Detector ------------------------------
(***************************************************************************)
(* The interface every race-detector back-end of DRace implements          *)
(* (common/detector/Detector.h): the identifiers its calls range over and  *)
(* the race record handed to the callback.  Stack traces and access sizes  *)
(* of a race are left out: no rule of a detector depends on them.          *)
(***************************************************************************)
EXTENDS Integers

CONSTANTS
  Tid,         \* tid_t of the threads the program may run
  Mutex,       \* addresses handed to acquire() and release()
  Identifier,  \* identifiers handed to happens_before() and happens_after()
  Addr,        \* memory locations handed to read() and write()
  Block        \* <<begin, size>> of the blocks handed to allocate()

\* Tid 0 is never a running thread: it is the idle process on Windows, and
\* the code uses 0 for "no thread" and for "never accessed".
ASSUME TidAssumption == Tid \subseteq Nat \ {0}
ASSUME AddrAssumption == Addr \subseteq Nat
ASSUME BlockAssumption == Block \subseteq Addr \X (Nat \ {0})

Race == [addr : Addr, first : Tid, second : Tid,
         wr1 : BOOLEAN, wr2 : BOOLEAN]

\* The locations of a memory block.
Within(b, n) == {x \in Addr : b <= x /\ x < b + n}

=============================================================================
