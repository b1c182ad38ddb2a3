------------------------- MODULE PlaybackCoordinator -------------------------
(***************************************************************************)
(* The playback coordinator of the integration (broker.py) with its        *)
(* LatestPlaybackQueue (media.py), for one config entry between its setup  *)
(* and its unload, and what is left of it after that.                      *)
(*                                                                         *)
(* The tasks are asyncio coroutines: an action is the code between two     *)
(* awaits.  A command of the Bridge runs in a dispatch task of its own     *)
(* (async_bridge_command_changed), which waits for mutation_lock and       *)
(* submits.  A worker task calls the player, waits for a track to show up, *)
(* takes the lock and sends the final result to the Bridge.  asyncio.Lock  *)
(* serves its waiters in order; a newcomer queues behind them even in the  *)
(* moment in which the lock has been released and its next owner has not   *)
(* run.  hass.async_create_task starts a task at once.                     *)
(*                                                                         *)
(* Of a command only the kind matters: a track (kind 5) is confirmed by    *)
(* the state of the player, everything else by the return of the call.     *)
(***************************************************************************)
EXTENDS Integers, Sequences, SequencesExt

CONSTANT MaxCommands   \* bound on the commands of the Bridge

ASSUME MaxCommandsAssumption == MaxCommands \in Nat

VARIABLES
  generation,  \* LatestPlaybackQueue._generation
  latest,      \* LatestPlaybackQueue._latest, NoCommand for None
  lock,        \* mutation_lock: the worker inside it, 0 = free
  waiting,     \* tasks waiting for mutation_lock, in order
  workers,     \* worker tasks that have not ended
  task,        \* _PlaybackCoordinator.task: its worker, 0 = None
  stopped,     \* _PlaybackCoordinator.stopped
  issued,      \* history: generation of the last call to the player
  answered,    \* history: generations the Bridge has received a result for
  lost         \* history: generations whose result could not be sent

vars == <<generation, latest, lock, waiting, workers, task, stopped,
          issued, answered, lost>>

NoCommand == [generation |-> 0, track |-> FALSE]
Commands  == [generation : Nat, track : BOOLEAN]

(* A worker is named by the generation it was started for. *)
Workers == [id : Nat \ {0}, command : Commands, attempt : {1, 2},
            pc : {"calling", "confirming", "locking", "completing"},
            succeeded : BOOLEAN]
(* A task in the queue of the lock: a worker, or (0) one that submits. *)
Waiters == [worker : Nat, track : BOOLEAN]

------------------------------------------------------------------------------
(* LatestPlaybackQueue *)

Submitted(track)   == [generation |-> generation + 1, track |-> track]
NewerThanNext(g)   == latest.generation > g + 1   \* mutant: off by one
NewerThan(g)       == latest.generation > g       \* latest_after is not None
IsCurrent(command) == latest.generation = command.generation

------------------------------------------------------------------------------
(* Steps of a worker *)

Worker(id, command) ==
  [id |-> id, command |-> command, attempt |-> 1, pc |-> "calling", succeeded |-> FALSE]

Become(w, v) == workers' = (workers \ {w}) \cup {v}

(* A worker calls the player for a command. *)
Run(w, command) ==
  /\ Become(w, Worker(w.id, command))
  /\ issued' = command.generation
  /\ UNCHANGED task

End(w) ==
  /\ workers' = workers \ {w}
  /\ task' = 0
  /\ UNCHANGED issued

(* The head of the worker's loop; none newer ends the task. *)
Advance(w) ==
  IF NewerThan(w.command.generation) THEN Run(w, latest) ELSE End(w)

(* Mutant: the result is sent without asking again inside the lock. *)
EnterUnchecked(w, ok) ==
  /\ lock' = w.id
  /\ Become(w, [w EXCEPT !.pc = "completing", !.succeeded = ok])
  /\ UNCHANGED <<task, issued>>

(* Inside the lock: a superseded command is not answered. *)
Enter(w, ok) ==
  IF IsCurrent(w.command)
  THEN /\ lock' = w.id
       /\ Become(w, [w EXCEPT !.pc = "completing", !.succeeded = ok])
       /\ UNCHANGED <<task, issued>>
  ELSE Advance(w) /\ UNCHANGED lock

Unlocked == TRUE                     \* mutant: no mutual exclusion
Free == lock = 0 /\ waiting = <<>>

(* The attempt is over: take the lock or queue for it. *)
Leave(w, ok) ==
  IF Free
  THEN Enter(w, ok) /\ UNCHANGED waiting
  ELSE /\ waiting' = Append(waiting, [worker |-> w.id, track |-> FALSE])
       /\ Become(w, [w EXCEPT !.pc = "locking", !.succeeded = ok])
       /\ UNCHANGED <<lock, task, issued>>

queueVars   == <<generation, latest>>
historyVars == <<answered, lost>>

(* The blocking play_media call comes back. *)
CallReturns(w) ==
  /\ w.pc = "calling"
  /\ IF w.command.track
     THEN /\ Become(w, [w EXCEPT !.pc = "confirming"])
          /\ UNCHANGED <<lock, waiting, task, issued>>
     ELSE Leave(w, IsCurrent(w.command))
  /\ UNCHANGED <<queueVars, stopped, historyVars>>

(* The call, or the validation of its target, raises. *)
CallRaises(w) ==
  /\ w.pc = "calling"
  /\ Leave(w, FALSE)
  /\ UNCHANGED <<queueVars, stopped, historyVars>>

(* _async_wait_for_track: the player has shown the track for long enough. *)
TrackConfirmed(w) ==
  /\ w.pc = "confirming" /\ IsCurrent(w.command)
  /\ Leave(w, TRUE)
  /\ UNCHANGED <<queueVars, stopped, historyVars>>

TrackSuperseded(w) ==
  /\ w.pc = "confirming" /\ ~ IsCurrent(w.command)
  /\ Leave(w, FALSE)
  /\ UNCHANGED <<queueVars, stopped, historyVars>>

(* Mutant: the retry does not ask whether the command is still wanted. *)
RetryRegardless(w, observable) ==
  /\ w.pc = "confirming"
  /\ IF observable /\ w.attempt = 1
     THEN /\ Become(w, [w EXCEPT !.pc = "calling", !.attempt = 2])
          /\ issued' = w.command.generation
          /\ UNCHANGED <<lock, waiting, task>>
     ELSE Leave(w, ~ observable)
  /\ UNCHANGED <<queueVars, stopped, historyVars>>

(* Mutant: the retries are not counted out. *)
RetryOnceMore(w, observable) ==
  /\ w.pc = "confirming" /\ IsCurrent(w.command)
  /\ IF observable /\ w.attempt <= 2
     THEN /\ Become(w, [w EXCEPT !.pc = "calling", !.attempt = @ + 1])
          /\ issued' = w.command.generation
          /\ UNCHANGED <<lock, waiting, task>>
     ELSE Leave(w, ~ observable)
  /\ UNCHANGED <<queueVars, stopped, historyVars>>

(* The track has not shown up for 10 s.  A player that never named what it *)
(* plays counts as confirmed; otherwise the call is repeated once.         *)
TrackTimeout(w, observable) ==
  /\ w.pc = "confirming" /\ IsCurrent(w.command)
  /\ IF observable /\ w.attempt = 1
     THEN /\ Become(w, [w EXCEPT !.pc = "calling", !.attempt = 2])
          /\ issued' = w.command.generation
          /\ UNCHANGED <<lock, waiting, task>>
     ELSE Leave(w, ~ observable)
  /\ UNCHANGED <<queueVars, stopped, historyVars>>

AcquireWorker(w) ==
  /\ lock = 0 /\ waiting # <<>> /\ Head(waiting).worker = w.id
  /\ w.pc = "locking"
  /\ waiting' = Tail(waiting)
  /\ Enter(w, w.succeeded)
  /\ UNCHANGED <<queueVars, stopped, historyVars>>

(* The Bridge has the final result; the queue forgets the command. *)
CompleteSent(w) ==
  /\ w.pc = "completing"
  /\ answered' = answered \cup {w.command.generation}
  /\ latest' = IF IsCurrent(w.command) THEN NoCommand ELSE latest
  /\ lock' = 0
  /\ IF latest'.generation > w.command.generation THEN Run(w, latest') ELSE End(w)
  /\ UNCHANGED <<generation, waiting, stopped, lost>>

(* Mutant: the failing send leaves the lock taken. *)
RaisesLocked(w) ==
  /\ w.pc = "completing"
  /\ lost' = lost \cup {w.command.generation}
  /\ End(w)
  /\ UNCHANGED <<queueVars, lock, waiting, stopped, answered>>

(* The action of the Bridge is unavailable: the worker dies of it, unless  *)
(* its finally clause finds a newer command.                               *)
CompleteRaises(w) ==
  /\ w.pc = "completing"
  /\ lost' = lost \cup {w.command.generation}
  /\ lock' = 0
  /\ IF stopped THEN End(w) ELSE Advance(w)
  /\ UNCHANGED <<queueVars, waiting, stopped, answered>>

------------------------------------------------------------------------------
(* Commands of the Bridge *)

AlwaysIdle == TRUE                   \* mutant: a worker for every command
NoTask == \A w \in workers : w.id # task   \* task is None or done()

Submit(track) ==
  /\ generation' = generation + 1
  /\ latest' = Submitted(track)
  /\ IF NoTask
     THEN /\ workers' = workers \cup {Worker(generation + 1, latest')}
          /\ task' = generation + 1
          /\ issued' = generation + 1
     ELSE UNCHANGED <<workers, task, issued>>

(* async_handle_command reaches _async_play_media without an await. *)
Deliver(track) ==
  /\ ~ stopped
  /\ generation + Len(waiting) < MaxCommands
  /\ IF Free
     THEN Submit(track) /\ UNCHANGED waiting
     ELSE /\ waiting' = Append(waiting, [worker |-> 0, track |-> track])
          /\ UNCHANGED <<queueVars, workers, task, issued>>
  /\ UNCHANGED <<lock, stopped, historyVars>>

(* A dispatch task gets the lock.  Unloading does not cancel it. *)
AcquireSubmit ==
  /\ lock = 0 /\ waiting # <<>> /\ Head(waiting).worker = 0
  /\ waiting' = Tail(waiting)
  /\ Submit(Head(waiting).track)
  /\ UNCHANGED <<lock, stopped, historyVars>>

(* Unload: the CancelledError reaches the worker at its await, before the  *)
(* entry can be set up again; a result being sent may still go out.        *)
CancelWorker(w, delivered) ==
  /\ w.id = task
  /\ delivered => w.pc = "completing"
  /\ workers' = workers \ {w}
  /\ task' = 0
  /\ lock' = IF lock = w.id THEN 0 ELSE lock
  /\ waiting' = IF \E i \in 1..Len(waiting) : waiting[i].worker = w.id
                THEN RemoveAt(waiting, CHOOSE i \in 1..Len(waiting) : waiting[i].worker = w.id)
                ELSE waiting
  /\ answered' = IF delivered THEN answered \cup {w.command.generation} ELSE answered

Unload ==
  /\ ~ stopped /\ stopped' = TRUE
  /\ IF NoTask
     THEN UNCHANGED <<workers, task, lock, waiting, answered>>
     ELSE \E w \in workers, delivered \in BOOLEAN : CancelWorker(w, delivered)
  /\ UNCHANGED <<queueVars, issued, lost>>

------------------------------------------------------------------------------
Init ==
  /\ generation = 0 /\ latest = NoCommand
  /\ lock = 0 /\ waiting = <<>>
  /\ workers = {} /\ task = 0 /\ stopped = FALSE
  /\ issued = 0 /\ answered = {} /\ lost = {}

WorkerStep(w) ==
  \/ CallReturns(w)
  \/ CallRaises(w)
  \/ TrackConfirmed(w)
  \/ TrackSuperseded(w)
  \/ \E observable \in BOOLEAN : TrackTimeout(w, observable)
  \/ AcquireWorker(w)
  \/ CompleteSent(w)
  \/ CompleteRaises(w)

Next ==
  \/ \E track \in BOOLEAN : Deliver(track)
  \/ AcquireSubmit
  \/ \E w \in workers : WorkerStep(w)
  \/ Unload

Spec == Init /\ [][Next]_vars

(* Every await ends: service calls return or raise, the confirmation loop  *)
(* has a deadline, and the event loop serves the waiters of the lock.      *)
FairSpec ==
  /\ Spec
  /\ WF_vars(AcquireSubmit)
  /\ WF_vars(\E w \in workers : WorkerStep(w))

------------------------------------------------------------------------------
(* Types of all variables. *)
TypeOK ==
  /\ generation \in Nat /\ latest \in Commands
  /\ lock \in Nat /\ waiting \in Seq(Waiters)
  /\ workers \subseteq Workers /\ task \in Nat /\ stopped \in BOOLEAN
  /\ issued \in Nat /\ answered \subseteq Nat /\ lost \subseteq Nat

(* docs/dual-mcu-ha-bridge.md:185: one service call runs at a time.  Two   *)
(* commands that arrive together must not start two workers.               *)
OneCallAtATime == \A v, w \in workers : v = w

(* While the final result of a command is on its way to the Bridge, the    *)
(* lock keeps newer commands out: the result still belongs to the choice.  *)
CompletionIsNewest ==
  \A w \in workers : w.pc = "completing" =>
    lock = w.id /\ IsCurrent(w.command) /\ latest.generation = generation

(* No lost wakeup: when no worker runs, the player was last asked for the  *)
(* newest command, whatever was submitted while the last worker ended.     *)
NewestAtRest == ~ stopped /\ workers = {} => issued = generation

(* The player is never asked for anything but the newest command: neither  *)
(* a retry nor a worker that resumes may bring back an older choice.       *)
CallsAreNewest ==
  [][\A w \in workers' :
       w.pc = "calling" /\ w \notin workers => w.command.generation = generation']_vars

(* The coordinator implements the promise of LatestWins. *)
Promise == INSTANCE LatestWins
             WITH wanted <- generation, playing <- issued, answered <- answered
ImplementsLatestWins == Promise!Spec

(* Every command is answered in the end, unless a newer one took its place, *)
(* the Bridge could not be reached, or the entry was unloaded; and no       *)
(* dispatch task waits for the lock for ever.                               *)
EveryCommandEnds ==
  /\ \A g \in 1..MaxCommands :
       (generation = g) ~> (g \in answered \cup lost \/ generation > g \/ stopped)
  /\ []<>Free

(* broker.py:131 "Cancel and remove one entry's transient playback worker": *)
(* an unloaded coordinator calls the player no more.                        *)
StoppedIsQuiet == stopped => workers = {}

=============================================================================
