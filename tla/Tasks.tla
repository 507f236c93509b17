------------------------------- MODULE Tasks -------------------------------
(***************************************************************************)
(* The periodic tasks of live-app: the loops of TaskService, and the       *)
(* functions of CacheService they call to refresh the confirmation times,  *)
(* the treasury totals and the price.  A function fetches a value, saves   *)
(* it as a new row when its kind has a table, and then sends it to a room. *)
(* The room of the confirmation times has a second sender: eventHandler of *)
(* MysqlLiveService reads the last row and sends it (LiveFeed).            *)
(*                                                                         *)
(* A value is known by the change of its source it was taken from.  Time   *)
(* is counted in ticks: Interval of them are the sixty seconds of a loop.  *)
(* moment.now() is the wall clock, which may be set; a timer counts down   *)
(* whatever the wall clock shows.                                          *)
(***************************************************************************)
EXTENDS Integers

CONSTANTS
  Task,       \* the loops
  Saving,     \* the tasks that save a row before they send
  Shared,     \* those whose room eventHandler sends to, too
  Http,       \* those that wait for an HTTP request, which has no timeout
  Handler,    \* invocations of eventHandler that may run at the same time
  Interval,   \* minIntervalInSeconds, in ticks
  MaxChange,  \* bound: the last change of a source; 0 is no value yet
  MaxRestarts,\* bound: restarts of the process
  MaxSets     \* bound: times the wall clock is set, each by one tick

ASSUME TasksAssumption ==
  /\ Task \cap Handler = {} /\ "idle" \notin Task
  /\ Saving \subseteq Task /\ Shared \subseteq Saving /\ Http \subseteq Task
  /\ Interval \in Nat \ {0}
  /\ MaxChange \in Nat \ {0} /\ MaxRestarts \in Nat /\ MaxSets \in Nat

VARIABLES
  source,   \* source[k]: what the task's query or request answers now
  row,      \* row[k]: the last row of the task's table, 0 for none
  shown,    \* shown[k]: the last value sent to the task's room
  step,     \* step[k]: where the loop of task k is
  value,    \* value[k]: what the running call has fetched
  elapsed,  \* elapsed[k]: moment.now() - lastActivationTime of the running call
  timer,    \* timer[k]: what is left of sleep()
  reads,    \* reads[h]: the task whose last row handler h holds, or "idle"
  held,     \* held[h]: that row
  restarts, sets,
  \* history variables: the code keeps none of them
  since,    \* since[k]: ticks since the last call
  clockSet, \* tasks that were running when the clock was set
  behind    \* tasks whose room was left with an older row

data == <<row, shown, value>>
loops == <<step, elapsed, timer, since, clockSet>>
senders == <<reads, held>>
vars == <<source, row, shown, step, value, elapsed, timer, reads, held, restarts, sets,
          since, clockSet, behind>>

Change == 0..MaxChange

(* Beyond this many ticks, one more makes no difference: a call that took  *)
(* as long is followed by the next one at once, clock set back or not.     *)
Late == Interval + MaxSets + 1

Init ==
  /\ source = [k \in Task |-> 1]
  /\ row = [k \in Task |-> 0]
  /\ shown = [k \in Task |-> 0]
  /\ step = [k \in Task |-> "calling"]
  /\ value = [k \in Task |-> 0]
  /\ elapsed = [k \in Task |-> 0]
  /\ timer = [k \in Task |-> 0]
  /\ reads = [h \in Handler |-> "idle"]
  /\ held = [h \in Handler |-> 0]
  /\ restarts = 0 /\ sets = 0
  /\ since = [k \in Task |-> Late]
  /\ clockSet = {}
  /\ behind = {}

Running(k) == step[k] \in {"fetching", "replied", "saved"}

Goto(k, s) == step' = [step EXCEPT ![k] = s]

-----------------------------------------------------------------------------
(* The environment.                                                        *)

SourceChanges(k) ==
  /\ source[k] < MaxChange
  /\ source' = [source EXCEPT ![k] = @ + 1]
  /\ UNCHANGED <<data, loops, senders, restarts, sets, behind>>

(* A continuation takes no time: a loop that is about to call does so      *)
(* before the next tick.                                                   *)
Tick ==
  /\ \A k \in Task : step[k] # "calling"
  /\ elapsed' = [k \in Task |-> IF Running(k) /\ elapsed[k] < Late THEN elapsed[k] + 1 ELSE elapsed[k]]
  /\ timer' = [k \in Task |-> IF timer[k] > 0 THEN timer[k] - 1 ELSE 0]
  /\ since' = [k \in Task |-> IF since[k] < Late THEN since[k] + 1 ELSE Late]
  /\ UNCHANGED <<source, data, senders, step, restarts, sets, clockSet, behind>>

(* The wall clock is set. *)
SetClock(d) ==
  /\ sets < MaxSets
  /\ sets' = sets + 1
  /\ elapsed' = [k \in Task |-> IF Running(k) THEN elapsed[k] + d ELSE elapsed[k]]
  /\ clockSet' = clockSet \cup {k \in Task : Running(k)}
  /\ UNCHANGED <<source, data, senders, step, timer, since, restarts, behind>>

(* The process ends and is started again: onModuleInit() starts the loops. *)
Restart ==
  /\ restarts < MaxRestarts
  /\ restarts' = restarts + 1
  /\ step' = [k \in Task |-> "calling"]
  /\ value' = [k \in Task |-> 0]
  /\ elapsed' = [k \in Task |-> 0]
  /\ timer' = [k \in Task |-> 0]
  /\ reads' = [h \in Handler |-> "idle"]
  /\ held' = [h \in Handler |-> 0]
  /\ since' = [k \in Task |-> Late]
  /\ clockSet' = {}
  /\ behind' = {k \in Saving : shown[k] # row[k]}
  /\ UNCHANGED <<source, row, shown, sets>>

-----------------------------------------------------------------------------
(* runEveryXSeconds.                                                       *)

Call(k) ==
  /\ step[k] = "calling"
  /\ Goto(k, "fetching")
  /\ elapsed' = [elapsed EXCEPT ![k] = 0]
  /\ since' = [since EXCEPT ![k] = 0]
  /\ clockSet' = clockSet \ {k}
  /\ UNCHANGED <<source, data, senders, timer, restarts, sets, behind>>

(* Mutation: the loop sleeps for the time the call took. *)
Settle_SleepsElapsed(k) ==
  /\ IF elapsed[k] < Interval
     THEN /\ Goto(k, "sleeping")
          /\ timer' = [timer EXCEPT ![k] = elapsed[k]]
     ELSE /\ Goto(k, "calling")
          /\ UNCHANGED timer
  /\ value' = [value EXCEPT ![k] = 0]
  /\ elapsed' = [elapsed EXCEPT ![k] = 0]

(* Mutation: sleep() is called whatever is left of the interval. *)
Settle_Always(k) ==
  /\ Goto(k, "sleeping")
  /\ timer' = [timer EXCEPT ![k] = Interval - elapsed[k]]
  /\ value' = [value EXCEPT ![k] = 0]
  /\ elapsed' = [elapsed EXCEPT ![k] = 0]

(* The promise of the call settles: the loop sleeps for what is left of    *)
(* the interval, or calls again when nothing is.                           *)
Settle(k) ==
  /\ IF elapsed[k] < Interval
     THEN /\ Goto(k, "sleeping")
          /\ timer' = [timer EXCEPT ![k] = Interval - elapsed[k]]
     ELSE /\ Goto(k, "calling")
          /\ UNCHANGED timer
  /\ value' = [value EXCEPT ![k] = 0]
  /\ elapsed' = [elapsed EXCEPT ![k] = 0]

Wake(k) ==
  /\ step[k] = "sleeping"
  /\ timer[k] = 0
  /\ Goto(k, "calling")
  /\ UNCHANGED <<source, data, senders, elapsed, timer, since, clockSet, restarts, sets, behind>>

(* Mutation: the rejection of a fetch is not caught by exec() in the loop, *)
(* and the loop terminates.                                                *)
Reject_Terminates(k) ==
  /\ \/ step[k] = "fetching"
     \/ step[k] = "replied" /\ k \in Saving
  /\ Goto(k, "hung")
  /\ value' = [value EXCEPT ![k] = 0]
  /\ elapsed' = [elapsed EXCEPT ![k] = 0]
  /\ UNCHANGED <<source, row, shown, timer, senders, since, clockSet, restarts, sets, behind>>

(* The query, the request or the save fails: the function throws, and the  *)
(* loop logs the error.                                                    *)
Reject(k) ==
  /\ \/ step[k] = "fetching"
     \/ step[k] = "replied" /\ k \in Saving
  /\ Settle(k)
  /\ UNCHANGED <<source, row, shown, senders, since, clockSet, restarts, sets, behind>>

(* An HTTP request that is never answered: nothing ends it. *)
Hang(k) ==
  /\ k \in Http
  /\ step[k] = "fetching"
  /\ Goto(k, "hung")
  /\ UNCHANGED <<source, data, senders, elapsed, timer, since, clockSet, restarts, sets, behind>>

-----------------------------------------------------------------------------
(* The functions of CacheService.                                          *)

Fetch(k) ==
  /\ step[k] = "fetching"
  /\ value' = [value EXCEPT ![k] = source[k]]
  /\ Goto(k, "replied")
  /\ UNCHANGED <<source, row, shown, senders, elapsed, timer, since, clockSet, restarts, sets, behind>>

Save(k) ==
  /\ step[k] = "replied" /\ k \in Saving
  /\ row' = [row EXCEPT ![k] = value[k]]
  /\ Goto(k, "saved")
  /\ UNCHANGED <<source, shown, value, senders, elapsed, timer, since, clockSet, restarts, sets, behind>>

(* Mutation: the value is sent while it is being saved. *)
Send_WhileSaving(k) ==
  /\ step[k] \in {"saved", "replied"}
  /\ shown' = [shown EXCEPT ![k] = value[k]]
  /\ behind' = behind \ {k}
  /\ Settle(k)
  /\ UNCHANGED <<source, row, senders, since, clockSet, restarts, sets>>

(* Mutation: the function returns once the row is saved. *)
Send_Nothing(k) ==
  /\ step[k] = IF k \in Saving THEN "saved" ELSE "replied"
  /\ behind' = behind \ {k}
  /\ Settle(k)
  /\ UNCHANGED <<source, row, shown, senders, since, clockSet, restarts, sets>>

(* Mutation: the message carries what is fetched once more. *)
Send_FetchesAgain(k) ==
  /\ step[k] = IF k \in Saving THEN "saved" ELSE "replied"
  /\ shown' = [shown EXCEPT ![k] = source[k]]
  /\ behind' = behind \ {k}
  /\ Settle(k)
  /\ UNCHANGED <<source, row, senders, since, clockSet, restarts, sets>>

Send(k) ==
  /\ step[k] = IF k \in Saving THEN "saved" ELSE "replied"
  /\ shown' = [shown EXCEPT ![k] = value[k]]
  /\ behind' = behind \ {k}
  /\ Settle(k)
  /\ UNCHANGED <<source, row, senders, since, clockSet, restarts, sets>>

-----------------------------------------------------------------------------
(* eventHandler: getConfirmationTime, then the message.                    *)

ReadRow(h, k) ==
  /\ k \in Shared /\ row[k] > 0
  /\ reads[h] = "idle"
  /\ reads' = [reads EXCEPT ![h] = k]
  /\ held' = [held EXCEPT ![h] = row[k]]
  /\ UNCHANGED <<source, data, loops, restarts, sets, behind>>

SendRow(h) ==
  /\ reads[h] # "idle"
  /\ shown' = [shown EXCEPT ![reads[h]] = held[h]]
  /\ behind' = IF held[h] = row[reads[h]] THEN behind \ {reads[h]} ELSE behind \cup {reads[h]}
  /\ reads' = [reads EXCEPT ![h] = "idle"]
  /\ held' = [held EXCEPT ![h] = 0]
  /\ UNCHANGED <<source, row, value, loops, restarts, sets>>

Loop(k) == Call(k) \/ Wake(k) \/ Fetch(k) \/ Save(k) \/ Send(k) \/ Reject(k) \/ Hang(k)

Next ==
  \/ \E k \in Task : SourceChanges(k) \/ Loop(k)
  \/ Tick
  \/ \E d \in {-1, 1} : SetClock(d)
  \/ Restart
  \/ \E h \in Handler : (\E k \in Task : ReadRow(h, k)) \/ SendRow(h)

Spec == Init /\ [][Next]_vars

(* Time passes, and a continuation that may run does.  A query or an HTTP  *)
(* request settles, or, the request, never does: Hang is one way on.       *)
FairSpec ==
  /\ Spec
  /\ WF_vars(Tick)
  /\ \A k \in Task : WF_vars(Loop(k))

-----------------------------------------------------------------------------
(* Properties.                                                             *)

TypeOK ==
  /\ source \in [Task -> Change]
  /\ row \in [Task -> Change]
  /\ shown \in [Task -> Change]
  /\ step \in [Task -> {"calling", "fetching", "replied", "saved", "sleeping", "hung"}]
  /\ value \in [Task -> Change]
  /\ elapsed \in [Task -> (-MaxSets)..(Late + MaxSets)]
  /\ timer \in [Task -> 0..(Interval + MaxSets)]
  /\ reads \in [Handler -> Shared \cup {"idle"}]
  /\ held \in [Handler -> Change]
  /\ restarts \in 0..MaxRestarts
  /\ sets \in 0..MaxSets
  /\ since \in [Task -> 0..Late]
  /\ clockSet \subseteq Task
  /\ behind \subseteq Saving

(* What a room shows has been saved: a client that asks the API for the    *)
(* last row after a message is never answered with an older value, also    *)
(* when a save fails or the process ends between the row and the message.  *)
ApiIsNotBehindRoom == \A k \in Saving : shown[k] <= row[k]

(* A room shows the last row but between the save and the message, unless  *)
(* the process ended there or eventHandler sent a row it had read before a *)
(* later one was saved: the next call then puts it right.                  *)
RoomShowsLastRow ==
  \A k \in Saving : shown[k] = row[k] \/ step[k] = "saved" \/ k \in behind

(* The senders to the rooms of saved rows as senders of Notifier: a task   *)
(* owes its room the row it has saved, eventHandler the row it has read.   *)
Owed(s) ==
  IF s \in Saving
  THEN [k \in {j \in {s} : step[j] = "saved"} |-> value[k]]
  ELSE [k \in {reads[s]} \ {"idle"} |-> held[s]]

Notified == INSTANCE Notifier WITH
  Room <- Saving,
  Sender <- Saving \cup Handler,
  store <- [k \in Saving |-> row[k]],
  shown <- [k \in Saving |-> shown[k]],
  pending <- [s \in Saving \cup Handler |-> Owed(s)]

(* The tasks and eventHandler together keep the promise of Notifier to the *)
(* rooms they share: what a task saves it sends or loses with the process, *)
(* and neither sends a value that is not saved yet.                        *)
ImplementsNotifier == Notified!Spec

(* Two calls of a task start an interval apart at least, however long the  *)
(* first one takes and however it ends; sooner only when the wall clock is *)
(* set while it runs.                                                      *)
CallsAreSpaced ==
  [][\A k \in Task : step[k] = "calling" /\ step'[k] = "fetching"
       => since[k] >= Interval \/ k \in clockSet]_vars

(* A loop goes on for ever, whatever fails, unless one of its requests is  *)
(* never answered; a loop that waits for such a request stops no other.    *)
LoopsGoOn ==
  \A k \in Task : []<>(step[k] = "calling") \/ (k \in Http /\ <>[](step[k] = "hung"))
=============================================================================
