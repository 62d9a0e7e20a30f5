------------------------ MODULE SchedulerServiceProofs -----------------------
(***************************************************************************)
(* Theorems about SchedulerService: for every set of callers and any       *)
(* number of drivers, drivers do not overlap, and close() does not pull    *)
(* drivers or store away from a tick.                                      *)
(*                                                                         *)
(* The argument: a tick exists exactly while its promise is stored, so     *)
(* there is at most one, and close() goes on only when there is none and   *)
(* none can begin.  The drivers that ran in a tick are those before its    *)
(* position, so that it can only end complete, or aborted.                 *)
(***************************************************************************)
EXTENDS SchedulerService, FiniteSetTheorems, TLAPS

Ticking(c) == at[c] \in {"between", "driving"}

TickTypes ==
  /\ at \in [Callers ->
               {"idle", "waiting", "between", "driving", "refused"}]
  /\ tickPromise \in Callers \cup {None}
  /\ phase \in {"open", "awaiting", "closing", "disposed"}
  /\ closed \subseteq Drivers

\* Whoever is in a tick holds the promise, and after the wait there is none.
TickHoldsPromise ==
  /\ \A c \in Callers : Ticking(c) => tickPromise = c
  /\ phase \in {"closing", "disposed"} => tickPromise = None

\* A tick takes the drivers in their order and skips none.
TickIsInOrder ==
  /\ position \in [Callers -> 1..(DriverCount + 1)]
  /\ ran \in [Callers -> SUBSET Drivers]
  /\ \A c \in Callers :
       /\ at[c] = "between" => ran[c] = 1..(position[c] - 1)
       /\ at[c] = "driving" => position[c] \in Drivers /\ ran[c] = 1..position[c]

ServiceInvariant == TickTypes /\ TickHoldsPromise /\ DriversCloseFirst

\* A service begins without a tick.
LEMMA InitEstablishes == Init => ServiceInvariant
  BY DEF Init, ServiceInvariant, TickTypes, TickHoldsPromise, Ticking,
         DriversCloseFirst

\* No step of a caller, a driver or close() leaves the invariant.
LEMMA StepPreserves == ServiceInvariant /\ [Next]_vars => ServiceInvariant'
<1> SUFFICES ASSUME ServiceInvariant, [Next]_vars
             PROVE  ServiceInvariant'
  OBVIOUS
<1> USE ServiceAssumption
    DEF ServiceInvariant, TickTypes, TickHoldsPromise, Ticking,
        DriversCloseFirst
<1>1. CASE \E c \in Callers : RunOnce(c)
  BY <1>1 DEF RunOnce, BeginTick
<1>2. CASE \E c \in Callers : Abort(c)
  BY <1>2 DEF Abort
<1>3. CASE \E c \in Callers : RunDriver(c)
  BY <1>3 DEF RunDriver
<1>4. CASE \E c \in Callers : DriverSettles(c)
  BY <1>4 DEF DriverSettles
<1>5. CASE \E c \in Callers : EndTick(c)
  BY <1>5 DEF EndTick
<1>6. CASE Close
  BY <1>6 DEF Close, tickVars
<1>7. CASE AwaitTick
  BY <1>7 DEF AwaitTick, tickVars
<1>8. CASE CloseDriver
  BY <1>8 DEF CloseDriver, tickVars
<1>9. CASE Dispose
  BY <1>9 DEF Dispose, tickVars
<1>10. CASE UNCHANGED vars
  BY <1>10 DEF vars, tickVars
<1> QED
  BY <1>1, <1>2, <1>3, <1>4, <1>5, <1>6, <1>7, <1>8, <1>9, <1>10
  DEF Next, TickStep, CloseStep

\* The invariant holds in every state of the service.
LEMMA ServiceInvariantHolds == Spec => []ServiceInvariant
  BY InitEstablishes, StepPreserves, PTL DEF Spec

\* Drivers do not overlap: runOnce() shares the tick under way, whoever calls.
THEOREM DriversDoNotOverlap == Spec => []OneDriverAtATime
<1>1. ServiceInvariant => OneDriverAtATime
  <2> DEFINE Driving == {c \in Callers : at[c] = "driving"}
  <2> SUFFICES ASSUME ServiceInvariant
               PROVE  Cardinality(Driving) <= 1
    BY DEF OneDriverAtATime
  <2>1. Driving \subseteq {tickPromise}
    BY DEF ServiceInvariant, TickHoldsPromise, Ticking
  <2>2. IsFiniteSet({tickPromise}) /\ Cardinality({tickPromise}) = 1
    BY FS_Singleton
  <2>3. IsFiniteSet(Driving) /\ Cardinality(Driving) <= Cardinality({tickPromise})
    BY <2>1, <2>2, FS_Subset
  <2> QED
    BY <2>2, <2>3
<1> QED
  BY <1>1, ServiceInvariantHolds, PTL

\* close() does not go past a tick: no driver runs, or is about to, once
\* drivers are closed or the store is disposed.
THEOREM NoDriverOutlivesTheStore == Spec => []NoDriverAfterClose
<1>1. ServiceInvariant => NoDriverAfterClose
  BY ServiceAssumption
  DEF ServiceInvariant, TickHoldsPromise, Ticking, NoDriverAfterClose
<1> QED
  BY <1>1, ServiceInvariantHolds, PTL

\* The store is disposed last, whatever goes wrong in closing the drivers.
THEOREM StoreIsDisposedLast == Spec => []DriversCloseFirst
<1>1. ServiceInvariant => DriversCloseFirst
  BY DEF ServiceInvariant
<1> QED
  BY <1>1, ServiceInvariantHolds, PTL

\* Whoever may end a tick, in whatever order its drivers return or throw, the
\* drivers that ran in it are the ones before its position.
LEMMA TickOrderHolds == Spec => []TickIsInOrder
<1>1. Init => TickIsInOrder
  BY ServiceAssumption DEF Init, TickIsInOrder, Drivers
<1>2. TickTypes /\ TickIsInOrder /\ [Next]_vars => TickIsInOrder'
  <2> SUFFICES ASSUME TickTypes, TickIsInOrder, [Next]_vars
               PROVE  TickIsInOrder'
    OBVIOUS
  <2> USE ServiceAssumption DEF TickTypes, TickIsInOrder, Drivers
  <2>1. CASE \E c \in Callers : RunOnce(c)
    <3>1. PICK c \in Callers : RunOnce(c)
      BY <2>1
    <3>2. CASE BeginTick(c)
      <4>1. position' = [position EXCEPT ![c] = 1] /\ ran' = [ran EXCEPT ![c] = {}]
            /\ at' = [at EXCEPT ![c] = "between"]
        BY <3>2 DEF BeginTick
      <4>2. 1 \in 1..(DriverCount + 1) /\ 1..(1 - 1) = {}
        OBVIOUS
      <4> QED
        BY <4>1, <4>2
    <3>3. CASE /\ UNCHANGED <<position, ran>>
               /\ \/ at' = [at EXCEPT ![c] = "waiting"]
                  \/ at' = [at EXCEPT ![c] = "refused"]
      BY <3>3
    <3> QED
      BY <3>1, <3>2, <3>3 DEF RunOnce
  <2>2. CASE \E c \in Callers : RunDriver(c)
    <3>1. PICK c \in Callers : RunDriver(c)
      BY <2>2
    <3>2. 1..position[c] = 1..(position[c] - 1) \cup {position[c]}
      BY <3>1 DEF RunDriver
    <3> QED
      BY <3>1, <3>2 DEF RunDriver
  <2>3. CASE \E c \in Callers : DriverSettles(c)
    <3>1. PICK c \in Callers : DriverSettles(c)
      BY <2>3
    <3>2. /\ position[c] + 1 \in 1..(DriverCount + 1)
          /\ (position[c] + 1) - 1 = position[c]
      BY <3>1 DEF DriverSettles
    <3> QED
      BY <3>1, <3>2 DEF DriverSettles
  <2>4. CASE \E c \in Callers : EndTick(c)
    BY <2>4 DEF EndTick
  <2>5. CASE UNCHANGED <<at, position, ran>>
    BY <2>5
  <2> QED
    BY <2>1, <2>2, <2>3, <2>4, <2>5
    DEF Next, TickStep, CloseStep, Abort, Close, AwaitTick, CloseDriver,
        Dispose, vars, tickVars
<1> QED
  BY <1>1, <1>2, ServiceInvariantHolds, PTL DEF Spec, ServiceInvariant

\* A tick that is not aborted ends only after every driver ran in it, the ones
\* after a driver that threw too.
THEOREM TicksRunEveryDriver == Spec => TicksAreComplete
<1>1. ASSUME TickTypes, TickIsInOrder, [Next]_vars, NEW c \in Callers,
             at[c] = "between", at'[c] = "idle", ~ aborted[c]
      PROVE  ran[c] = Drivers
  <2> USE DEF TickTypes
  <2>1. CASE \E d \in Callers : EndTick(d)
    <3>1. EndTick(c)
      BY <1>1, <2>1 DEF EndTick
    <3> QED
      BY <1>1, <3>1, ServiceAssumption DEF EndTick, TickIsInOrder, Drivers
  <2>2. CASE \E d \in Callers : RunOnce(d) \/ RunDriver(d) \/ DriverSettles(d)
    BY <1>1, <2>2 DEF RunOnce, BeginTick, RunDriver, DriverSettles
  <2>3. CASE UNCHANGED at
    BY <1>1, <2>3
  <2> QED
    BY <1>1, <2>1, <2>2, <2>3
    DEF Next, TickStep, CloseStep, Abort, Close, AwaitTick, CloseDriver,
        Dispose, vars, tickVars
<1>2. TickTypes /\ TickIsInOrder /\ [Next]_vars
        => [\A c \in Callers :
              at[c] = "between" /\ at'[c] = "idle" /\ ~ aborted[c]
                => ran[c] = Drivers]_vars
  BY <1>1
<1> QED
  BY <1>2, TickOrderHolds, ServiceInvariantHolds, PTL
  DEF Spec, ServiceInvariant, TicksAreComplete
=============================================================================
