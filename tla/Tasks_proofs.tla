----------------------------- MODULE Tasks_proofs -----------------------------
(***************************************************************************)
(* Theorems of Tasks, for every value of its constants.  They follow from  *)
(* one inductive invariant with two parts: Clocks relates what the loop    *)
(* measures with moment.now() to the ticks that have passed, and Rows      *)
(* relates what each sender holds to the last row of its table.            *)
(***************************************************************************)
EXTENDS Tasks, TLAPS

(* elapsed is off by one tick per setting of the clock at most; it is      *)
(* exact for a call during which the clock was not set, and then the sleep *)
(* makes up for what the call left of the interval.                        *)
Clocks ==
  \A k \in Task :
    /\ -sets <= elapsed[k] /\ elapsed[k] <= Late + sets
    /\ timer[k] <= Interval + sets
    /\ k \notin clockSet =>
         /\ Running(k) => elapsed[k] = since[k]
         /\ step[k] = "sleeping" => since[k] + timer[k] >= Interval
         /\ step[k] = "calling" => since[k] >= Interval

(* A source only grows, and one loop saves the rows of a table: what is    *)
(* fetched is not older than the last row.                                 *)
RowOf(k) ==
  /\ shown[k] <= row[k] /\ row[k] <= source[k]
  /\ step[k] = "replied" => row[k] <= value[k] /\ value[k] <= source[k]
  /\ step[k] = "saved" => value[k] = row[k]

Rows ==
  /\ \A k \in Saving : RowOf(k)
  /\ \A k \in Task : step[k] = "saved" => k \in Saving
  /\ \A h \in Handler : reads[h] # "idle" => held[h] <= row[reads[h]]

IInv == TypeOK /\ Clocks /\ Rows /\ RoomShowsLastRow

(* The bounds of the types, as facts about integers. *)
LEMMA Bounds ==
  /\ Interval \in Int /\ Interval > 0
  /\ MaxChange \in Int /\ MaxChange > 0
  /\ MaxSets \in Int /\ MaxSets >= 0 /\ MaxRestarts \in Int /\ MaxRestarts >= 0
  /\ Late \in Int /\ Late > Interval
  /\ Change \subseteq Int
BY TasksAssumption DEF Late, Change

LEMMA Numbers ==
  ASSUME TypeOK, NEW k \in Task
  PROVE  /\ source[k] \in Int /\ row[k] \in Int /\ shown[k] \in Int /\ value[k] \in Int
         /\ elapsed[k] \in Int /\ since[k] \in Int /\ timer[k] \in Int /\ timer[k] >= 0
         /\ since[k] <= Late
<1>1. /\ source[k] \in Change /\ row[k] \in Change /\ shown[k] \in Change /\ value[k] \in Change
      /\ elapsed[k] \in (-MaxSets)..(Late + MaxSets) /\ since[k] \in 0..Late
      /\ timer[k] \in 0..(Interval + MaxSets)
  BY DEF TypeOK
<1> QED
  BY <1>1, Bounds DEF Change

LEMMA InitIInv == Init => IInv
BY TasksAssumption, Bounds
   DEF Init, IInv, TypeOK, Clocks, Rows, RowOf, RoomShowsLastRow, Running, Change, Late

-----------------------------------------------------------------------------
(* Each part of the invariant, action by action.                           *)

(* The end of a call keeps the types and the clocks, whatever it sent. *)
LEMMA SettleKeeps ==
  ASSUME TypeOK, Clocks, NEW k \in Task, Running(k), Settle(k),
         UNCHANGED <<since, sets, clockSet>>
  PROVE  /\ step' \in [Task -> {"calling", "fetching", "replied", "saved", "sleeping", "hung"}]
         /\ value' \in [Task -> Change]
         /\ elapsed' \in [Task -> (-MaxSets)..(Late + MaxSets)]
         /\ timer' \in [Task -> 0..(Interval + MaxSets)]
         /\ Clocks'
<1>1. CASE elapsed[k] < Interval
  <2>1. Interval - elapsed[k] \in 0..(Interval + MaxSets)
    BY <1>1, Bounds DEF TypeOK, Clocks
  <2> QED
    BY <1>1, <2>1, Bounds DEF Settle, Goto, TypeOK, Clocks, Running, Change
<1>2. CASE ~(elapsed[k] < Interval)
  BY <1>2, Bounds DEF Settle, Goto, TypeOK, Clocks, Running, Change
<1> QED
  BY <1>1, <1>2

LEMMA TickKeeps == ASSUME IInv, Tick PROVE IInv'
<1>1. TypeOK'
  BY Bounds DEF Tick, IInv, TypeOK, data, senders
<1>2. Clocks'
  <2> SUFFICES ASSUME NEW k \in Task
               PROVE  /\ -sets <= elapsed'[k] /\ elapsed'[k] <= Late + sets
                      /\ timer'[k] <= Interval + sets
                      /\ k \notin clockSet =>
                           /\ Running(k) => elapsed'[k] = since'[k]
                           /\ step[k] = "sleeping" => since'[k] + timer'[k] >= Interval
                           /\ step[k] = "calling" => since'[k] >= Interval
    BY DEF Tick, Clocks, Running
  <2>1. step[k] # "calling" /\ sets \in Int /\ sets >= 0
    BY Bounds DEF Tick, IInv, TypeOK
  <2>2. /\ elapsed'[k] = IF Running(k) /\ elapsed[k] < Late THEN elapsed[k] + 1 ELSE elapsed[k]
        /\ timer'[k] = IF timer[k] > 0 THEN timer[k] - 1 ELSE 0
        /\ since'[k] = IF since[k] < Late THEN since[k] + 1 ELSE Late
    BY DEF Tick
  <2>3. step[k] = "sleeping" => ~Running(k)
    BY DEF Running
  <2> QED
    BY <2>1, <2>2, <2>3, Numbers, Bounds DEF IInv, Clocks
<1>3. Rows' /\ RoomShowsLastRow'
  BY DEF Tick, IInv, Rows, RowOf, RoomShowsLastRow, data, senders
<1> QED
  BY <1>1, <1>2, <1>3 DEF IInv

LEMMA SetClockKeeps == ASSUME IInv, NEW d \in {-1, 1}, SetClock(d) PROVE IInv'
<1>1. sets' \in 0..MaxSets /\ sets' = sets + 1
  BY Bounds DEF SetClock, IInv, TypeOK
<1>2. ASSUME NEW k \in Task
      PROVE  -sets' <= elapsed'[k] /\ elapsed'[k] <= Late + sets' /\ elapsed'[k] \in Int
  BY <1>1, Bounds DEF SetClock, IInv, TypeOK, Clocks
<1>3. elapsed' \in [Task -> (-MaxSets)..(Late + MaxSets)]
  BY <1>1, <1>2, Bounds DEF SetClock
<1>4. clockSet' \subseteq Task
  BY DEF SetClock, IInv, TypeOK
<1>5. TypeOK'
  BY <1>1, <1>3, <1>4 DEF SetClock, IInv, TypeOK, data, senders
<1>6. Clocks'
  BY <1>1, <1>2, Bounds DEF SetClock, IInv, TypeOK, Clocks, Running
<1>7. Rows' /\ RoomShowsLastRow'
  BY DEF SetClock, IInv, Rows, RowOf, RoomShowsLastRow, data, senders
<1> QED
  BY <1>5, <1>6, <1>7 DEF IInv

LEMMA RestartKeeps == ASSUME IInv, Restart PROVE IInv'
<1>1. TypeOK'
  BY Bounds, TasksAssumption DEF Restart, IInv, TypeOK, Change
<1>2. Clocks'
  BY Bounds DEF Restart, IInv, TypeOK, Clocks, Running
<1>3. Rows' /\ RoomShowsLastRow'
  BY TasksAssumption DEF Restart, IInv, TypeOK, Rows, RowOf, RoomShowsLastRow
<1> QED
  BY <1>1, <1>2, <1>3 DEF IInv

LEMMA SourceKeeps == ASSUME IInv, NEW k \in Task, SourceChanges(k) PROVE IInv'
<1>1. source' \in [Task -> Change] /\ \A j \in Task : source[j] <= source'[j]
  BY Bounds DEF SourceChanges, IInv, TypeOK, Change
<1>2. TypeOK'
  BY <1>1 DEF SourceChanges, IInv, TypeOK, data, loops, senders
<1>3. Clocks'
  BY DEF SourceChanges, IInv, Clocks, Running, loops
<1>4. ASSUME NEW j \in Saving PROVE RowOf(j)'
  <2>1. j \in Task /\ source'[j] \in Int
    BY <1>1, Bounds, TasksAssumption
  <2> QED
    BY <1>1, <2>1, Numbers DEF SourceChanges, IInv, Rows, RowOf, data, loops
<1>5. Rows' /\ RoomShowsLastRow'
  BY <1>4 DEF SourceChanges, IInv, Rows, RoomShowsLastRow, data, loops, senders
<1> QED
  BY <1>2, <1>3, <1>5 DEF IInv

LEMMA LoopKeeps == ASSUME IInv, NEW k \in Task, Loop(k) PROVE IInv'
<1>1. CASE Call(k)
  <2>1. TypeOK' /\ Clocks'
    BY <1>1, Bounds DEF Call, Goto, IInv, TypeOK, Clocks, Running, data, senders
  <2>2. Rows' /\ RoomShowsLastRow'
    BY <1>1 DEF Call, Goto, IInv, TypeOK, Rows, RowOf, RoomShowsLastRow, data, senders
  <2> QED
    BY <2>1, <2>2 DEF IInv
<1>2. CASE Wake(k)
  <2>1. TypeOK' /\ Clocks'
    BY <1>2, Bounds DEF Wake, Goto, IInv, TypeOK, Clocks, Running, data, senders
  <2>2. Rows' /\ RoomShowsLastRow'
    BY <1>2 DEF Wake, Goto, IInv, TypeOK, Rows, RowOf, RoomShowsLastRow, data, senders
  <2> QED
    BY <2>1, <2>2 DEF IInv
<1>3. CASE Fetch(k)
  <2>1. TypeOK' /\ Clocks'
    BY <1>3, Bounds DEF Fetch, Goto, IInv, TypeOK, Clocks, Running, senders
  <2>2. ASSUME NEW j \in Saving PROVE RowOf(j)'
    <3>1. j \in Task
      BY TasksAssumption
    <3> QED
      BY <1>3, <3>1, Numbers DEF Fetch, Goto, IInv, TypeOK, Rows, RowOf
  <2>3. Rows' /\ RoomShowsLastRow'
    BY <1>3, <2>2 DEF Fetch, Goto, IInv, TypeOK, Rows, RoomShowsLastRow, senders
  <2> QED
    BY <2>1, <2>3 DEF IInv
<1>4. CASE Save(k)
  <2>1. TypeOK' /\ Clocks'
    BY <1>4, Bounds DEF Save, Goto, IInv, TypeOK, Clocks, Running, senders
  <2>2. ASSUME NEW j \in Saving
        PROVE  RowOf(j)' /\ row[j] <= row'[j] /\ row'[j] \in Int
    <3>1. j \in Task
      BY TasksAssumption
    <3> QED
      BY <1>4, <3>1, Numbers DEF Save, Goto, IInv, TypeOK, Rows, RowOf
  <2>3. \A h \in Handler : reads[h] # "idle" => held[h] <= row'[reads[h]]
    <3> SUFFICES ASSUME NEW h \in Handler, reads[h] # "idle"
                 PROVE  held[h] <= row'[reads[h]]
      OBVIOUS
    <3>1. reads[h] \in Saving /\ held[h] <= row[reads[h]] /\ held[h] \in Int
      BY TasksAssumption, Bounds DEF IInv, TypeOK, Rows
    <3>2. row[reads[h]] \in Int
      BY <3>1, Numbers, TasksAssumption DEF IInv
    <3> QED
      BY <2>2, <3>1, <3>2
  <2>4. Rows' /\ RoomShowsLastRow'
    BY <1>4, <2>2, <2>3 DEF Save, Goto, IInv, TypeOK, Rows, RoomShowsLastRow, senders
  <2> QED
    BY <2>1, <2>4 DEF IInv
<1>5. CASE Send(k)
  <2>1. Running(k)
    BY <1>5 DEF Send, Running
  <2>2. shown' \in [Task -> Change]
    BY <1>5 DEF Send, IInv, TypeOK
  <2>3. TypeOK' /\ Clocks'
    BY <1>5, <2>1, <2>2, SettleKeeps DEF Send, IInv, TypeOK, senders
  <2>4. /\ \/ step' = [step EXCEPT ![k] = "sleeping"]
           \/ step' = [step EXCEPT ![k] = "calling"]
        /\ value' = [value EXCEPT ![k] = 0]
    BY <1>5 DEF Send, Settle, Goto
  <2>5. ASSUME NEW j \in Saving
        PROVE  RowOf(j)' /\ (shown'[j] = row[j] \/ step'[j] = "saved" \/ j \in behind')
    <3>1. j \in Task
      BY TasksAssumption
    <3> QED
      BY <1>5, <2>4, <3>1, Numbers DEF Send, IInv, TypeOK, Rows, RowOf, RoomShowsLastRow
  <2>6. Rows' /\ RoomShowsLastRow'
    BY <1>5, <2>4, <2>5 DEF Send, IInv, TypeOK, Rows, RoomShowsLastRow, senders
  <2> QED
    BY <2>3, <2>6 DEF IInv
<1>6. CASE Reject(k)
  <2>1. Running(k)
    BY <1>6 DEF Reject, Running
  <2>2. TypeOK' /\ Clocks'
    BY <1>6, <2>1, SettleKeeps DEF Reject, IInv, TypeOK, senders
  <2>3. Rows' /\ RoomShowsLastRow'
    BY <1>6, Bounds, TasksAssumption
       DEF Reject, Settle, Goto, IInv, TypeOK, Rows, RowOf, RoomShowsLastRow, senders
  <2> QED
    BY <2>2, <2>3 DEF IInv
<1>7. CASE Hang(k)
  <2>1. TypeOK' /\ Clocks'
    BY <1>7, Bounds DEF Hang, Goto, IInv, TypeOK, Clocks, Running, data, senders
  <2>2. Rows' /\ RoomShowsLastRow'
    BY <1>7 DEF Hang, Goto, IInv, TypeOK, Rows, RowOf, RoomShowsLastRow, data, senders
  <2> QED
    BY <2>1, <2>2 DEF IInv
<1> QED
  BY <1>1, <1>2, <1>3, <1>4, <1>5, <1>6, <1>7 DEF Loop

LEMMA HandlerKeeps ==
  ASSUME IInv, NEW h \in Handler, (\E k \in Task : ReadRow(h, k)) \/ SendRow(h)
  PROVE  IInv'
<1>1. ASSUME NEW k \in Task, ReadRow(h, k) PROVE IInv'
  <2>1. TypeOK' /\ Clocks'
    BY <1>1, Bounds, TasksAssumption
       DEF ReadRow, IInv, TypeOK, Clocks, Running, data, loops
  <2>2. row[k] \in Int /\ k # "idle"
    BY <1>1, Numbers, TasksAssumption DEF ReadRow, IInv
  <2>3. ASSUME NEW j \in Handler, reads'[j] # "idle" PROVE held'[j] <= row[reads'[j]]
    BY <1>1, <2>2, <2>3 DEF ReadRow, IInv, TypeOK, Rows
  <2>4. Rows' /\ RoomShowsLastRow'
    BY <1>1, <2>3 DEF ReadRow, IInv, Rows, RowOf, RoomShowsLastRow, data, loops
  <2> QED
    BY <2>1, <2>4 DEF IInv
<1>2. CASE SendRow(h)
  <2>1. reads[h] \in Saving /\ held[h] \in Change /\ held[h] <= row[reads[h]]
    BY <1>2, TasksAssumption DEF SendRow, IInv, TypeOK, Rows
  <2>2. shown' \in [Task -> Change] /\ behind' \subseteq Saving
    BY <1>2, <2>1, TasksAssumption DEF SendRow, IInv, TypeOK
  <2>3. TypeOK' /\ Clocks'
    BY <1>2, <2>2, Bounds DEF SendRow, IInv, TypeOK, Clocks, Running, loops, Change
  <2>4. Rows' /\ RoomShowsLastRow'
    BY <1>2, <2>1, TasksAssumption
       DEF SendRow, IInv, TypeOK, Rows, RowOf, RoomShowsLastRow, loops
  <2> QED
    BY <2>3, <2>4 DEF IInv
<1> QED
  BY <1>1, <1>2

LEMMA NextIInv == IInv /\ [Next]_vars => IInv'
<1>1. ASSUME IInv, UNCHANGED vars PROVE IInv'
  BY <1>1 DEF vars, data, loops, senders, IInv, TypeOK, Clocks, Rows, RowOf, RoomShowsLastRow, Running
<1> QED
  BY <1>1, TickKeeps, SetClockKeeps, RestartKeeps, SourceKeeps, LoopKeeps, HandlerKeeps DEF Next

LEMMA InvariantHolds == Spec => []IInv
<1>1. Init => IInv
  BY InitIInv
<1>2. IInv /\ [Next]_vars => IInv'
  BY NextIInv
<1> QED
  BY <1>1, <1>2, PTL DEF Spec

(* The variables of Tasks always have their types: a loop never sleeps for *)
(* a negative time, and a call is off by the settings of the clock only.   *)
THEOREM TypeCorrect == Spec => []TypeOK
<1>1. IInv => TypeOK
  BY DEF IInv
<1> QED
  BY <1>1, InvariantHolds, PTL

(* A client that asks the API after a message is never answered with an    *)
(* older value, whichever of the two senders the message was from.         *)
THEOREM RoomNeverAhead == Spec => []ApiIsNotBehindRoom
<1>1. IInv => ApiIsNotBehindRoom
  BY DEF IInv, Rows, RowOf, ApiIsNotBehindRoom
<1> QED
  BY <1>1, InvariantHolds, PTL

(* A room is left with an older row only by a restart or by a handler that *)
(* overtook the task.                                                      *)
THEOREM RoomCurrent == Spec => []RoomShowsLastRow
<1>1. IInv => RoomShowsLastRow
  BY DEF IInv
<1> QED
  BY <1>1, InvariantHolds, PTL

(* However long a call takes and however it ends, the next one starts an   *)
(* interval later at least, unless the clock was set meanwhile.            *)
THEOREM Spaced == Spec => CallsAreSpaced
<1>1. ASSUME IInv, NEW k \in Task, step[k] = "calling"
      PROVE  since[k] >= Interval \/ k \in clockSet
  BY <1>1 DEF IInv, Clocks
<1>2. IInv => \A k \in Task : step[k] = "calling" /\ step'[k] = "fetching"
                => since[k] >= Interval \/ k \in clockSet
  BY <1>1
<1> QED
  BY <1>2, InvariantHolds, PTL DEF CallsAreSpaced

-----------------------------------------------------------------------------
(* Tasks implements Notifier.                                              *)

Sender == Saving \cup Handler
Pending == [s \in Sender |-> Owed(s)]

(* A step that changes no saved row, no room and no debt is a stutter. *)
LEMMA Stutter ==
  ASSUME \A k \in Saving : row'[k] = row[k] /\ shown'[k] = shown[k],
         \A s \in Sender : Owed(s)' = Owed(s)
  PROVE  UNCHANGED Notified!vars
BY DEF Notified!vars, Sender

LEMMA OwedByHandler ==
  ASSUME NEW h \in Handler
  PROVE  Owed(h) = [k \in {reads[h]} \ {"idle"} |-> held[h]]
BY TasksAssumption DEF Owed

LEMMA OwedByTask ==
  ASSUME NEW k \in Saving
  PROVE  /\ step[k] = "saved" => Owed(k) = [j \in {k} |-> value[k]]
         /\ step[k] # "saved" => Owed(k) = Notified!Done
<1>1. Owed(k) = [j \in {i \in {k} : step[i] = "saved"} |-> value[j]]
  BY DEF Owed
<1> QED
  BY <1>1 DEF Notified!Done

(* A step of the loop of k leaves what the others owe. *)
LEMMA OthersOwe ==
  ASSUME NEW k \in Task, UNCHANGED <<reads, held>>,
         \A j \in Task \ {k} : step'[j] = step[j] /\ value'[j] = value[j]
  PROVE  \A s \in Sender \ {k} : Owed(s)' = Owed(s)
<1> TAKE s \in Sender \ {k}
<1>1. CASE s \in Saving
  BY <1>1, TasksAssumption DEF Owed
<1>2. CASE s \notin Saving
  BY <1>2 DEF Owed
<1> QED
  BY <1>1, <1>2

LEMMA InitMaps == Init => Notified!Init
<1> SUFFICES ASSUME Init PROVE Notified!Init
  OBVIOUS
<1>1. \A s \in Sender : Owed(s) = Notified!Done
  <2> TAKE s \in Sender
  <2>1. CASE s \in Saving
    BY <2>1, OwedByTask, TasksAssumption DEF Init
  <2>2. CASE s \notin Saving
    <3>1. s \in Handler /\ reads[s] = "idle"
      BY <2>2 DEF Sender, Init
    <3> QED
      BY <3>1, OwedByHandler DEF Notified!Done
  <2> QED
    BY <2>1, <2>2
<1> QED
  BY <1>1, TasksAssumption DEF Notified!Init, Init, Sender

(* The save of a row: its task owes its room the row from now on. *)
LEMMA SaveMaps ==
  ASSUME IInv, NEW k \in Saving, Save(k)
  PROVE  [Notified!Next]_(Notified!vars)
<1>1. k \in Task
  BY TasksAssumption
<1>2. \A j \in Saving : /\ j \in Task /\ row[j] \in Nat /\ value[j] \in Nat
                        /\ row'[j] = IF j = k THEN value[k] ELSE row[j]
  BY TasksAssumption DEF Save, IInv, TypeOK, Change
<1>3. row[k] <= value[k]
  BY DEF Save, IInv, Rows, RowOf
<1>4. Notified!Commit({k})
  BY <1>2, <1>3 DEF Notified!Commit, Notified!Version
<1>5. Owed(k) = Notified!Done
  BY OwedByTask DEF Save
<1>6. Owed(k)' = [j \in {k} |-> value[k]]
  <2>1. step'[k] = "saved" /\ value' = value
    BY <1>1 DEF Save, Goto, IInv, TypeOK
  <2>2. Owed(k)' = [j \in {i \in {k} : step'[i] = "saved"} |-> value'[j]]
    BY DEF Owed
  <2> QED
    BY <2>1, <2>2
<1>7. \A s \in Sender \ {k} : Owed(s)' = Owed(s)
  BY <1>1, OthersOwe DEF Save, Goto, IInv, TypeOK, senders
<1>8. Pending' = [Pending EXCEPT ![k] = [j \in {k} |-> value[k]]]
  BY <1>6, <1>7 DEF Pending, Sender
<1>9. Notified!Begin(k, {k})
  <2>1. [j \in {k} |-> value[k]] = [j \in {k} |-> row'[j]]
    BY <1>2
  <2>2. Notified!Idle(k)
    BY <1>5 DEF Notified!Idle, Sender
  <2>3. UNCHANGED shown
    BY DEF Save
  <2> QED
    BY <1>2, <1>4, <1>8, <2>1, <2>2, <2>3 DEF Notified!Begin, Pending, Sender
<1> QED
  <2>1. {k} \in (SUBSET Saving) \ {{}}
    OBVIOUS
  <2> QED
    BY <1>9, <2>1 DEF Notified!Next, Notified!Begin, Notified!Commit, Sender

(* The message that follows the save. *)
LEMMA SendMaps ==
  ASSUME IInv, NEW k \in Saving, Send(k)
  PROVE  [Notified!Next]_(Notified!vars)
<1>1. k \in Task /\ k \in Sender
  BY TasksAssumption DEF Sender
<1>2. value[k] = row[k] /\ step[k] = "saved" /\ row[k] \in Nat
  BY TasksAssumption DEF Send, IInv, Rows, RowOf, TypeOK, Change
<1>3. Owed(k) = [j \in {k} |-> value[k]]
  BY <1>2, OwedByTask
<1>4. \/ step' = [step EXCEPT ![k] = "sleeping"]
      \/ step' = [step EXCEPT ![k] = "calling"]
  BY DEF Send, Settle, Goto
<1>5. Owed(k)' = Notified!Done
  <2>1. step'[k] # "saved"
    BY <1>1, <1>4 DEF IInv, TypeOK
  <2> QED
    BY <2>1 DEF Owed, Notified!Done
<1>6. \A s \in Sender \ {k} : Owed(s)' = Owed(s)
  BY <1>1, <1>4, OthersOwe DEF Send, Settle, IInv, TypeOK, senders
<1>7. Pending' = [Pending EXCEPT ![k] = Notified!Done]
  BY <1>5, <1>6 DEF Pending
<1>8. \A j \in Saving : /\ shown'[j] = IF j = k THEN value[k] ELSE shown[j]
                        /\ shown'[j] \in Nat /\ row'[j] = row[j]
  BY <1>2, TasksAssumption DEF Send, IInv, TypeOK, Change
<1>9. Notified!Tell(k, {k})
  BY <1>1, <1>2, <1>3, <1>7, <1>8 DEF Notified!Tell, Notified!Version, Pending, Sender
<1> QED
  <2>1. {k} \in SUBSET DOMAIN Pending[k]
    BY <1>1, <1>3 DEF Pending, Sender
  <2> QED
    BY <1>1, <1>9, <2>1 DEF Notified!Next, Notified!Tell, Pending, Sender

(* eventHandler reads the last row: it owes the room that row. *)
LEMMA ReadRowMaps ==
  ASSUME IInv, NEW h \in Handler, NEW k \in Task, ReadRow(h, k)
  PROVE  [Notified!Next]_(Notified!vars)
<1>1. k \in Saving /\ k # "idle"
  BY TasksAssumption DEF ReadRow
<1>2. Owed(h) = Notified!Done
  BY OwedByHandler DEF ReadRow, Notified!Done
<1>3. reads'[h] = k /\ held'[h] = row[k]
  BY DEF ReadRow, IInv, TypeOK
<1>4. Owed(h)' = [j \in {k} |-> row[k]]
  <2>1. {reads'[h]} \ {"idle"} = {k}
    BY <1>1, <1>3
  <2>2. Owed(h)' = [j \in {reads'[h]} \ {"idle"} |-> held'[h]]
    BY TasksAssumption DEF Owed
  <2> QED
    BY <1>3, <2>1, <2>2
<1>5. ASSUME NEW s \in Sender, s # h PROVE Owed(s)' = Owed(s)
  BY <1>5, TasksAssumption DEF ReadRow, IInv, TypeOK, Owed, Sender, loops, data
<1>6. Pending' = [Pending EXCEPT ![h] = [j \in {k} |-> row[k]]]
  BY <1>4, <1>5 DEF Pending, Sender
<1>7. Notified!Begin(h, {k})
  <2>1. row' = row /\ shown' = shown
    BY DEF ReadRow, data
  <2>2. \A j \in Saving : row[j] \in Nat
    BY TasksAssumption DEF IInv, TypeOK, Change
  <2>3. Notified!Idle(h)
    BY <1>2 DEF Notified!Idle, Sender
  <2>4. [j \in {k} |-> row[k]] = [j \in {k} |-> row'[j]]
    BY <2>1
  <2>5. Notified!Commit({k})
    BY <2>1, <2>2 DEF Notified!Commit, Notified!Version
  <2> QED
    BY <1>1, <1>6, <2>1, <2>3, <2>4, <2>5 DEF Notified!Begin, Pending, Sender
<1> QED
  BY <1>1, <1>7 DEF Notified!Next, Notified!Begin, Notified!Commit, Sender

(* And sends it. *)
LEMMA SendRowMaps ==
  ASSUME IInv, NEW h \in Handler, SendRow(h)
  PROVE  [Notified!Next]_(Notified!vars)
<1> DEFINE k == reads[h]
<1>1. k \in Saving /\ k # "idle" /\ held[h] <= row[k]
  BY TasksAssumption DEF SendRow, IInv, TypeOK, Rows
<1>2. Owed(h) = [j \in {k} |-> held[h]]
  BY <1>1, OwedByHandler
<1>3. Owed(h)' = Notified!Done
  <2>1. reads'[h] = "idle"
    BY DEF SendRow, IInv, TypeOK
  <2> QED
    BY <2>1, TasksAssumption DEF Owed, Notified!Done
<1>4. ASSUME NEW s \in Sender, s # h PROVE Owed(s)' = Owed(s)
  BY <1>4, TasksAssumption DEF SendRow, IInv, TypeOK, Owed, Sender, loops
<1>5. Pending' = [Pending EXCEPT ![h] = Notified!Done]
  BY <1>3, <1>4 DEF Pending
<1>6. \A j \in Saving : /\ shown'[j] = IF j = k THEN held[h] ELSE shown[j]
                        /\ shown'[j] \in Nat /\ row'[j] = row[j]
  BY TasksAssumption DEF SendRow, IInv, TypeOK, Change
<1>7. held[h] \in Nat /\ UNCHANGED row
  BY DEF SendRow, IInv, TypeOK, Change
<1>8. Notified!Tell(h, {k})
  BY <1>1, <1>2, <1>5, <1>6, <1>7 DEF Notified!Tell, Notified!Version, Pending, Sender
<1> QED
  <2>1. {k} \in SUBSET DOMAIN Pending[h]
    BY <1>1, <1>2 DEF Pending, Sender
  <2> QED
    BY <1>8, <2>1 DEF Notified!Next, Notified!Tell, Pending, Sender

LEMMA RestartMaps ==
  ASSUME IInv, Restart
  PROVE  [Notified!Next]_(Notified!vars)
<1>1. ASSUME NEW s \in Sender PROVE Owed(s)' = Notified!Done
  <2>1. CASE s \in Saving
    BY <2>1, TasksAssumption DEF Restart, Owed, Notified!Done
  <2>2. CASE s \notin Saving
    <3>1. reads'[s] = "idle"
      BY <2>2 DEF Restart, Sender
    <3> QED
      BY <2>2, <3>1 DEF Owed, Notified!Done
  <2> QED
    BY <2>1, <2>2
<1>2. Notified!DropAll
  BY <1>1 DEF Notified!DropAll, Restart, Sender
<1> QED
  BY <1>2 DEF Notified!Next

(* The other steps of a loop neither make a debt nor pay one. *)
LEMMA LoopMaps ==
  ASSUME IInv, NEW k \in Task, Loop(k)
  PROVE  [Notified!Next]_(Notified!vars)
<1>1. CASE Call(k) \/ Wake(k) \/ Fetch(k) \/ Reject(k) \/ Hang(k) \/ (Send(k) /\ k \notin Saving)
  <2>1. /\ step[k] # "saved" \/ k \notin Saving
        /\ step'[k] # "saved"
        /\ \A j \in Task \ {k} : step'[j] = step[j] /\ value'[j] = value[j]
    BY <1>1 DEF Call, Wake, Fetch, Reject, Hang, Send, Settle, Goto, IInv, TypeOK, data
  <2>2. UNCHANGED <<reads, held, row>>
    BY <1>1 DEF Call, Wake, Fetch, Reject, Hang, Send, data, senders
  <2>3. \A j \in Saving : shown'[j] = shown[j]
    BY <1>1, TasksAssumption DEF Call, Wake, Fetch, Reject, Hang, Send, IInv, TypeOK, data
  <2>4. \A s \in Sender \ {k} : Owed(s)' = Owed(s)
    BY <2>1, <2>2, OthersOwe
  <2>5. k \in Sender => k \in Saving
    BY TasksAssumption DEF Sender
  <2>6. k \in Saving => Owed(k)' = Owed(k)
    BY <2>1 DEF Owed
  <2> QED
    BY <2>2, <2>3, <2>4, <2>5, <2>6, Stutter
<1>2. CASE Save(k)
  BY <1>2, SaveMaps DEF Save
<1>3. CASE Send(k) /\ k \in Saving
  BY <1>3, SendMaps
<1> QED
  BY <1>1, <1>2, <1>3 DEF Loop

LEMMA NextMaps ==
  ASSUME IInv, [Next]_vars
  PROVE  [Notified!Next]_(Notified!vars)
<1>1. CASE (\E k \in Task : SourceChanges(k)) \/ Tick \/ (\E d \in {-1, 1} : SetClock(d)) \/ UNCHANGED vars
  <2>1. UNCHANGED <<row, shown, step, value, reads, held>>
    BY <1>1 DEF SourceChanges, Tick, SetClock, vars, data, loops, senders
  <2>2. \A s \in Sender : Owed(s)' = Owed(s)
    BY <2>1 DEF Owed
  <2> QED
    BY <2>1, <2>2, Stutter
<1> QED
  BY <1>1, LoopMaps, RestartMaps, ReadRowMaps, SendRowMaps DEF Next

(* Both senders of a room together keep the promise of Notifier: a saved   *)
(* row is sent or lost with the process, and only what is saved is sent.   *)
THEOREM TasksImplementNotifier == Spec => ImplementsNotifier
<1>1. Init => Notified!Init
  BY InitMaps
<1>2. IInv /\ [Next]_vars => [Notified!Next]_(Notified!vars)
  BY NextMaps
<1> QED
  BY <1>1, <1>2, InvariantHolds, PTL DEF Spec, ImplementsNotifier, Notified!Spec

-----------------------------------------------------------------------------
(* What follows from the promise of Notifier, which this module's senders  *)
(* and those of LiveFeed keep, for any rooms, any senders and any values   *)
(* of its variables.                                                       *)

CONSTANTS AnyRoom, AnySender
VARIABLES anyStore, anyShown, anyPending

Any == INSTANCE Notifier WITH
  Room <- AnyRoom,
  Sender <- AnySender,
  store <- anyStore,
  shown <- anyShown,
  pending <- anyPending

(* Pending obligations are functions of their own domain, so one fact      *)
(* about each value of `pending` is enough.                                *)
Owing == UNION {[K -> Any!Version] : K \in SUBSET AnyRoom}

LEMMA DoneType == Any!Done \in Owing
<1>1. Any!Done \in [{} -> Any!Version]
  BY DEF Any!Done
<1> QED
  BY <1>1 DEF Owing

LEMMA OwingType ==
  ASSUME NEW p \in Owing, NEW k \in DOMAIN p
  PROVE  k \in AnyRoom /\ p[k] \in Any!Version
<1> PICK K \in SUBSET AnyRoom : p \in [K -> Any!Version]
  BY DEF Owing
<1> QED
  OBVIOUS

PromiseInv == Any!TypeOK /\ Any!ShownIsCommitted

LEMMA PromiseInit == Any!Init => PromiseInv
<1> SUFFICES ASSUME Any!Init PROVE PromiseInv
  OBVIOUS
<1>1. 0 \in Any!Version
  BY DEF Any!Version
<1>2. anyPending \in [AnySender -> Owing]
  BY DoneType DEF Any!Init
<1>3. \A s \in AnySender : \A k \in DOMAIN anyPending[s] : anyPending[s][k] <= anyStore[k]
  <2> TAKE s \in AnySender
  <2>1. DOMAIN anyPending[s] = {}
    BY DEF Any!Init, Any!Done
  <2> QED
    BY <2>1
<1> QED
  BY <1>1, <1>2, <1>3 DEF Any!Init, PromiseInv, Any!TypeOK, Any!ShownIsCommitted, Owing

(* A commit only raises versions. *)
LEMMA CommitGrows ==
  ASSUME NEW K, PromiseInv, Any!Commit(K)
  PROVE  /\ anyStore' \in [AnyRoom -> Any!Version]
         /\ \A k \in AnyRoom : anyStore[k] <= anyStore'[k]
         /\ \A k \in AnyRoom : anyShown[k] <= anyStore'[k]
<1> SUFFICES ASSUME NEW k \in AnyRoom PROVE anyStore[k] <= anyStore'[k] /\ anyShown[k] <= anyStore'[k]
  BY DEF Any!Commit
<1>1. anyStore[k] \in Int /\ anyShown[k] \in Int
  BY DEF PromiseInv, Any!TypeOK, Any!Version
<1>2. anyStore'[k] \in Int
  BY DEF Any!Commit, Any!Version
<1>3. anyStore[k] <= anyStore'[k]
  BY <1>1 DEF Any!Commit
<1> QED
  BY <1>1, <1>2, <1>3 DEF PromiseInv, Any!ShownIsCommitted

(* Whoever is done, keeps nothing that is ahead of the store. *)
LEMMA DropKeeps ==
  ASSUME PromiseInv, UNCHANGED <<anyStore, anyShown>>,
         anyPending' \in [AnySender -> Owing],
         \A s \in AnySender : anyPending'[s] = anyPending[s] \/ anyPending'[s] = Any!Done
  PROVE  PromiseInv'
<1>1. ASSUME NEW s \in AnySender, NEW k \in DOMAIN anyPending'[s]
      PROVE  anyPending'[s][k] <= anyStore'[k]
  <2>1. anyPending'[s] # Any!Done
    BY <1>1 DEF Any!Done
  <2> QED
    BY <1>1, <2>1 DEF PromiseInv, Any!TypeOK
<1> QED
  BY <1>1 DEF PromiseInv, Any!TypeOK, Any!ShownIsCommitted, Owing

LEMMA PromiseNext == PromiseInv /\ [Any!Next]_(Any!vars) => PromiseInv'
<1> SUFFICES ASSUME PromiseInv, [Any!Next]_(Any!vars) PROVE PromiseInv'
  OBVIOUS
<1>t. anyPending \in [AnySender -> Owing] /\ \A s \in AnySender : DOMAIN anyPending[s] \subseteq AnyRoom
  BY DEF PromiseInv, Any!TypeOK, Owing
<1>v. Any!Version \subseteq Int
  BY DEF Any!Version
<1>1. ASSUME NEW k \in AnyRoom, Any!Write(k) PROVE PromiseInv'
  <2>1. /\ anyStore' \in [AnyRoom -> Any!Version]
        /\ \A j \in AnyRoom : anyStore[j] <= anyStore'[j]
    BY <1>1, CommitGrows DEF Any!Write
  <2>2. \A j \in AnyRoom : anyShown[j] <= anyStore'[j]
    BY <1>1, CommitGrows DEF Any!Write
  <2>3. \A s \in AnySender : \A j \in DOMAIN anyPending[s] : anyPending[s][j] <= anyStore'[j]
    <3> SUFFICES ASSUME NEW s \in AnySender, NEW j \in DOMAIN anyPending[s]
                 PROVE  anyPending[s][j] <= anyStore'[j]
      OBVIOUS
    <3>1. j \in AnyRoom /\ anyPending[s][j] \in Int
      BY <1>t, <1>v, OwingType
    <3>2. anyStore[j] \in Int /\ anyStore'[j] \in Int
      BY <3>1, <2>1, <1>v DEF PromiseInv, Any!TypeOK
    <3> QED
      BY <3>1, <3>2, <2>1 DEF PromiseInv, Any!TypeOK
  <2> QED
    BY <1>1, <2>1, <2>2, <2>3 DEF Any!Write, PromiseInv, Any!TypeOK, Any!ShownIsCommitted
<1>2. ASSUME NEW s \in AnySender, NEW K \in SUBSET AnyRoom, Any!Begin(s, K) PROVE PromiseInv'
  <2>1. /\ anyStore' \in [AnyRoom -> Any!Version]
        /\ \A j \in AnyRoom : anyStore[j] <= anyStore'[j]
    BY <1>2, CommitGrows DEF Any!Begin
  <2>2. [k \in K |-> anyStore'[k]] \in Owing
    <3>1. [k \in K |-> anyStore'[k]] \in [K -> Any!Version]
      BY <2>1
    <3> QED
      BY <3>1 DEF Owing
  <2>3. anyPending' \in [AnySender -> Owing]
    BY <1>2, <1>t, <2>2 DEF Any!Begin
  <2>4. ASSUME NEW r \in AnySender, NEW j \in DOMAIN anyPending'[r]
        PROVE  anyPending'[r][j] <= anyStore'[j]
    <3>1. CASE r = s
      <4>1. anyPending'[r] = [k \in K |-> anyStore'[k]]
        BY <1>2, <1>t, <3>1 DEF Any!Begin
      <4>2. j \in K /\ anyStore'[j] \in Int
        BY <4>1, <2>4, <2>1, <1>v
      <4> QED
        BY <4>1, <4>2
    <3>2. CASE r # s
      <4>1. anyPending'[r] = anyPending[r]
        BY <1>2, <1>t, <3>2 DEF Any!Begin
      <4>2. j \in AnyRoom /\ anyPending[r][j] \in Int
        BY <4>1, <2>4, <1>t, <1>v, OwingType
      <4>3. anyStore[j] \in Int /\ anyStore'[j] \in Int
        BY <4>2, <2>1, <1>v DEF PromiseInv, Any!TypeOK
      <4> QED
        BY <4>1, <4>2, <4>3, <2>1, <2>4 DEF PromiseInv, Any!TypeOK
    <3> QED
      BY <3>1, <3>2
  <2>5. \A j \in AnyRoom : anyShown[j] <= anyStore'[j]
    BY <1>2, CommitGrows DEF Any!Begin
  <2> QED
    BY <1>2, <2>1, <2>3, <2>4, <2>5 DEF Any!Begin, PromiseInv, Any!TypeOK, Any!ShownIsCommitted, Owing
<1>3. ASSUME NEW s \in AnySender, NEW K \in SUBSET DOMAIN anyPending[s], Any!Tell(s, K)
      PROVE  PromiseInv'
  <2>1. anyPending' \in [AnySender -> Owing]
    BY <1>3, <1>t, DoneType DEF Any!Tell
  <2>2. \A r \in AnySender : anyPending'[r] = anyPending[r] \/ anyPending'[r] = Any!Done
    BY <1>3, <1>t DEF Any!Tell
  <2>3. ASSUME NEW r \in AnySender, NEW j \in DOMAIN anyPending'[r]
        PROVE  anyPending'[r][j] <= anyStore'[j]
    <3>1. anyPending'[r] # Any!Done
      BY <2>3 DEF Any!Done
    <3> QED
      BY <1>3, <2>2, <2>3, <3>1 DEF Any!Tell, PromiseInv, Any!TypeOK
  <2>4. \A j \in AnyRoom : anyShown'[j] <= anyStore'[j]
    BY <1>3 DEF Any!Tell, PromiseInv, Any!ShownIsCommitted
  <2> QED
    BY <1>3, <2>1, <2>3, <2>4 DEF Any!Tell, PromiseInv, Any!TypeOK, Any!ShownIsCommitted, Owing
<1>4. CASE Any!DropAll
  <2>1. anyPending' \in [AnySender -> Owing]
    BY <1>4, DoneType DEF Any!DropAll
  <2> QED
    BY <1>4, <2>1, DropKeeps DEF Any!DropAll
<1>5. CASE UNCHANGED Any!vars
  BY <1>5 DEF Any!vars, PromiseInv, Any!TypeOK, Any!ShownIsCommitted
<1> QED
  BY <1>1, <1>2, <1>3, <1>4, <1>5 DEF Any!Next

(* Whoever keeps the promise of Notifier never shows a room anything that  *)
(* is not committed: there is no step at which a client of the room could  *)
(* ask the API and be answered with something older.                       *)
THEOREM RoomsShowCommitted == Any!Spec => []Any!ShownIsCommitted
<1>1. Any!Init => PromiseInv
  BY PromiseInit
<1>2. PromiseInv /\ [Any!Next]_(Any!vars) => PromiseInv'
  BY PromiseNext
<1>3. PromiseInv => Any!ShownIsCommitted
  BY DEF PromiseInv
<1> QED
  BY <1>1, <1>2, <1>3, PTL DEF Any!Spec
=============================================================================
