----------------------------- MODULE Snowflake -----------------------------
(***************************************************************************)
(* The id generator of pkg/snowflake, which numbers the actor processes:   *)
(* goroutines call GenId of one instance while the clock of the machine    *)
(* advances, stands still or is set back.  The instance's bit widths       *)
(* appear as the largest value of each field.                              *)
(***************************************************************************)
EXTENDS Integers, Sequences

CONSTANTS
  Goroutine,     \* callers of GenId
  maxSequence,   \* 2^SequenceBits - 1
  maxMachineID,  \* 2^MachineIDBits - 1
  machineID,     \* this instance's
  offsetTime,    \* Config.StartTime
  MaxTime,       \* bound on the clock
  MaxIds         \* bound on the ids drawn

ASSUME LayoutAssumption ==
  /\ maxSequence \in Nat /\ maxMachineID \in Nat /\ machineID \in 0..maxMachineID
  /\ offsetTime \in Nat /\ MaxTime \in Nat /\ MaxIds \in Nat

VARIABLES
  clock,     \* time.Now().UnixMilli()
  lastTime, lastSeq,
  waiting,   \* per goroutine: the millisecond waitForMillis waits to pass
  ids        \* the ids handed out, in the order of the mutex

snowVars == <<clock, lastTime, lastSeq, waiting, ids>>
NotWaiting == -1

SnowTypeOK ==
  /\ clock \in Nat /\ lastTime \in Nat /\ lastSeq \in 0..maxSequence
  /\ waiting \in [Goroutine -> Nat \cup {NotWaiting}]
  /\ ids \in Seq(Nat)

\* New refuses a start time in the future; a new instance has lastTime 0,
\* which no clock after the start time shows.
SnowInit ==
  /\ clock = offsetTime /\ lastTime = 0 /\ lastSeq = 0
  /\ waiting = [g \in Goroutine |-> NotWaiting]
  /\ ids = <<>>

\* The machine's clock, which may be set back.
Tick ==
  /\ clock < MaxTime /\ clock' = clock + 1
  /\ UNCHANGED <<lastTime, lastSeq, waiting, ids>>
SetBack ==
  /\ clock > offsetTime /\ clock' \in offsetTime..(clock - 1)
  /\ UNCHANGED <<lastTime, lastSeq, waiting, ids>>

Id(now, seq) ==
  (now - offsetTime) * ((maxMachineID + 1) * (maxSequence + 1)) + machineID * (maxSequence + 1) + seq

\* Mutant of Now: a clock that was set back is used as it is.
NowBack == clock
\* The time GenId works with: never before the last id's.
Now == IF clock < lastTime THEN lastTime ELSE clock

Exhausted == Now = lastTime /\ lastSeq >= maxSequence

\* One pass of GenId's loop under the mutex that draws an id.
GenId(g) ==
  /\ waiting[g] = NotWaiting /\ ~Exhausted /\ Len(ids) < MaxIds
  /\ lastTime' = Now
  /\ lastSeq' = IF Now = lastTime THEN lastSeq + 1 ELSE 0
  /\ ids' = Append(ids, Id(Now, lastSeq'))
  /\ UNCHANGED <<clock, waiting>>

\* The other pass: the mutex is released while waitForMillis polls the clock.
GenIdWaits(g) ==
  /\ waiting[g] = NotWaiting /\ Exhausted /\ Len(ids) < MaxIds
  /\ waiting' = [waiting EXCEPT ![g] = lastTime]
  /\ UNCHANGED <<clock, lastTime, lastSeq, ids>>

WaitForMillis(g) ==
  /\ waiting[g] # NotWaiting /\ clock > waiting[g]
  /\ waiting' = [waiting EXCEPT ![g] = NotWaiting]
  /\ UNCHANGED <<clock, lastTime, lastSeq, ids>>

SnowNext ==
  Tick \/ SetBack \/ \E g \in Goroutine : GenId(g) \/ GenIdWaits(g) \/ WaitForMillis(g)

SnowSpec == SnowInit /\ [][SnowNext]_snowVars

-----------------------------------------------------------------------------
\* However goroutines and clock steps interleave, and also where a millisecond
\* runs out of numbers, GenId's ids increase in the order of its mutex: no two
\* actors of a system get the same id.
IdsIncrease == \A i, j \in 1..Len(ids) : i < j => ids[i] < ids[j]

=============================================================================
