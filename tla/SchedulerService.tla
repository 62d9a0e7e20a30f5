-------------------------- MODULE SchedulerService --------------------------
(***************************************************************************)
(* The service that runs the domain drivers in ticks (service.js).         *)
(*                                                                         *)
(* Callers are the run() loops and the direct callers of runOnce(), each   *)
(* with its abort signal.  They share the tick under way; close() waits    *)
(* for it before it closes drivers and store.  A driver is any             *)
(* asynchronous code that returns or throws.  The state of a tick is kept  *)
(* per caller that began it, so that a second tick could be seen.          *)
(***************************************************************************)
EXTENDS Naturals, FiniteSets

CONSTANTS
  Callers,
  None,
  DriverCount

ASSUME ServiceAssumption == DriverCount \in Nat \ {0} /\ None \notin Callers

VARIABLES
  at,           \* where a caller stands
  position,     \* the driver its tick is at
  ran,          \* drivers that ran in its tick
  aborted,      \* its signal
  tickPromise,  \* caller that began the tick under way
  phase,        \* of close()
  closed        \* drivers whose close() was called

tickVars == <<at, position, ran, aborted, tickPromise>>
vars == <<tickVars, phase, closed>>

Drivers == 1..DriverCount

Init ==
  /\ at = [c \in Callers |-> "idle"]
  /\ position = [c \in Callers |-> 1]
  /\ ran = [c \in Callers |-> {}]
  /\ aborted = [c \in Callers |-> FALSE]
  /\ tickPromise = None
  /\ phase = "open"
  /\ closed = {}

-----------------------------------------------------------------------------

BeginTick(c) ==
  /\ at' = [at EXCEPT ![c] = "between"]
  /\ position' = [position EXCEPT ![c] = 1]
  /\ ran' = [ran EXCEPT ![c] = {}]
  /\ tickPromise' = c

\* Faulty variant: every call begins a tick.
RunOnceAlone(c) ==
  /\ at[c] = "idle"
  /\ \/ phase = "open" /\ ~ aborted[c] /\ BeginTick(c)
     \/ /\ phase # "open" /\ at' = [at EXCEPT ![c] = "refused"]
        /\ UNCHANGED <<position, ran, tickPromise>>
  /\ UNCHANGED <<aborted, phase, closed>>

\* Share the tick under way, even while closing; else begin one.  A caller
\* that is aborted gets an empty summary, which changes nothing.
RunOnce(c) ==
  /\ at[c] = "idle"
  /\ \/ /\ tickPromise # None /\ at' = [at EXCEPT ![c] = "waiting"]
        /\ UNCHANGED <<position, ran, tickPromise>>
     \/ tickPromise = None /\ phase = "open" /\ ~ aborted[c] /\ BeginTick(c)
     \/ /\ tickPromise = None /\ phase # "open"
        /\ at' = [at EXCEPT ![c] = "refused"]
        /\ UNCHANGED <<position, ran, tickPromise>>
  /\ UNCHANGED <<aborted, phase, closed>>

Abort(c) ==
  /\ ~ aborted[c]
  /\ aborted' = [aborted EXCEPT ![c] = TRUE]
  /\ UNCHANGED <<at, position, ran, tickPromise, phase, closed>>

RunDriver(c) ==
  /\ at[c] = "between" /\ position[c] \in Drivers /\ ~ aborted[c]
  /\ at' = [at EXCEPT ![c] = "driving"]
  /\ ran' = [ran EXCEPT ![c] = @ \cup {position[c]}]
  /\ UNCHANGED <<position, aborted, tickPromise, phase, closed>>

\* Faulty variant: the tick ends with the first driver that throws.
DriverFailureEndsTick(c) ==
  /\ at[c] = "driving"
  /\ at' = [at EXCEPT ![c] = "between"]
  /\ \/ position' = [position EXCEPT ![c] = @ + 1]
     \/ position' = [position EXCEPT ![c] = DriverCount + 1]
  /\ UNCHANGED <<ran, aborted, tickPromise, phase, closed>>

\* A driver returns or throws; the next one has its turn either way.
DriverSettles(c) ==
  /\ at[c] = "driving"
  /\ at' = [at EXCEPT ![c] = "between"]
  /\ position' = [position EXCEPT ![c] = @ + 1]
  /\ UNCHANGED <<ran, aborted, tickPromise, phase, closed>>

\* Faulty variant: an aborted tick leaves its promise behind.
EndTickUnlessAborted(c) ==
  /\ at[c] = "between"
  /\ position[c] \notin Drivers \/ aborted[c]
  /\ at' = [d \in Callers |->
              IF d = c \/ at[d] = "waiting" THEN "idle" ELSE at[d]]
  /\ tickPromise' = IF aborted[c] THEN tickPromise ELSE None
  /\ UNCHANGED <<position, ran, aborted, phase, closed>>

\* Faulty variant: only the caller that began the tick gets its summary.
EndTickForOne(c) ==
  /\ at[c] = "between"
  /\ position[c] \notin Drivers \/ aborted[c]
  /\ at' = [at EXCEPT ![c] = "idle"]
  /\ tickPromise' = None
  /\ UNCHANGED <<position, ran, aborted, phase, closed>>

\* The promise is cleared before those who wait for it go on.
EndTick(c) ==
  /\ at[c] = "between"
  /\ position[c] \notin Drivers \/ aborted[c]
  /\ at' = [d \in Callers |->
              IF d = c \/ at[d] = "waiting" THEN "idle" ELSE at[d]]
  /\ tickPromise' = None
  /\ UNCHANGED <<position, ran, aborted, phase, closed>>

Close ==
  /\ phase = "open"
  /\ phase' = "awaiting"
  /\ UNCHANGED <<tickVars, closed>>

\* Faulty variant: close() does not wait for the tick.
CloseUnderTick ==
  /\ phase = "awaiting"
  /\ phase' = "closing"
  /\ UNCHANGED <<tickVars, closed>>

AwaitTick ==
  /\ phase = "awaiting" /\ tickPromise = None
  /\ phase' = "closing"
  /\ UNCHANGED <<tickVars, closed>>

\* Last driver first, whether or not closing it fails.
CloseDriver ==
  /\ phase = "closing"
  /\ \E d \in Drivers \ closed :
       /\ \A e \in Drivers : e > d => e \in closed
       /\ closed' = closed \cup {d}
  /\ UNCHANGED <<tickVars, phase>>

\* Faulty variant: a driver that fails to close is the last one closed.
DisposeAfterFailure ==
  /\ phase = "closing" /\ closed # {}
  /\ phase' = "disposed"
  /\ UNCHANGED <<tickVars, closed>>

Dispose ==
  /\ phase = "closing" /\ closed = Drivers
  /\ phase' = "disposed"
  /\ UNCHANGED <<tickVars, closed>>

-----------------------------------------------------------------------------

TickStep(c) == RunDriver(c) \/ DriverSettles(c) \/ EndTick(c)

CloseStep == AwaitTick \/ CloseDriver \/ Dispose

Next ==
  \/ \E c \in Callers : RunOnce(c) \/ Abort(c) \/ TickStep(c)
  \/ Close
  \/ CloseStep

Spec == Init /\ [][Next]_vars

\* Promises that were settled are awaited; every driver returns in the end.
Fairness ==
  /\ \A c \in Callers : WF_vars(TickStep(c))
  /\ WF_vars(CloseStep)

FairSpec == Spec /\ Fairness

-----------------------------------------------------------------------------
(* Properties.                                                             *)

\* Whoever calls runOnce() and run(), one driver runs at a time.
OneDriverAtATime ==
  Cardinality({c \in Callers : at[c] = "driving"}) <= 1

\* "Do not dispose the shared store underneath an active domain driver": no
\* driver runs once close() went past the tick, however calls race.
NoDriverAfterClose ==
  phase \in {"closing", "disposed"} =>
    \A c \in Callers : at[c] \notin {"between", "driving"}

\* The store is disposed after every driver was asked to close.
DriversCloseFirst == phase = "disposed" => closed = Drivers

\* A tick that was not aborted ran every driver, whichever of them threw.
TicksAreComplete ==
  [][\A c \in Callers :
       at[c] = "between" /\ at'[c] = "idle" /\ ~ aborted[c]
         => ran[c] = Drivers]_vars

\* close() ends, although others keep calling runOnce() meanwhile.
CloseEnds == phase = "awaiting" ~> phase = "disposed"

\* Those who share a tick get its summary.
WaitersAreAnswered == \A c \in Callers : at[c] = "waiting" ~> at[c] # "waiting"
=============================================================================
