---------------------- MODULE PlaybackCoordinatorProofs ----------------------
(***************************************************************************)
(* The playback coordinator for every number of commands: one call at a    *)
(* time, only for the newest command, one answer at most, no lost wakeup,  *)
(* and with all that an implementation of LatestWins.                      *)
(***************************************************************************)
EXTENDS PlaybackCoordinator, SequenceTheorems, TLAPS

------------------------------------------------------------------------------
(* The inductive invariant *)

(* The worker that runs is the one the coordinator knows. *)
Owned == \A w \in workers : w.id = task

(* The queue holds the newest command or, once that is answered, none. *)
Queued ==
  /\ latest.generation \in {0, generation}
  /\ latest.generation = 0 => issued = generation

(* A worker serves the command of the last call. *)
Serving ==
  /\ issued <= generation
  /\ \A w \in workers : w.command.generation = issued /\ issued # 0

(* Nothing that is still to be answered has been answered.  An unloaded    *)
(* coordinator may hold a command whose result went out while it died.     *)
Unanswered ==
  /\ \A g \in answered : g # 0 /\ g <= generation
  /\ workers # {} \/ ~ stopped => latest.generation \notin answered
  /\ workers # {} => issued \notin answered

IInv == /\ TypeOK /\ OneCallAtATime /\ Owned /\ Queued /\ Serving
        /\ CompletionIsNewest /\ NewestAtRest /\ Unanswered

------------------------------------------------------------------------------
(* What a step of a worker can be *)

(* It goes on with the same command; a call it makes is for the newest. *)
Stays(w) ==
  \E v \in Workers :
    /\ workers' = {v} /\ v.id = w.id /\ v.command = w.command
    /\ v.pc # "completing"
    /\ v.pc = "calling" => IsCurrent(w.command)
    /\ UNCHANGED <<latest, lock, task, issued, answered>>

(* It holds the lock and sends the result. *)
Completes(w) ==
  \E v \in Workers :
    /\ workers' = {v} /\ v.id = w.id /\ v.command = w.command
    /\ v.pc = "completing" /\ lock' = w.id /\ IsCurrent(w.command)
    /\ UNCHANGED <<latest, task, issued, answered>>

(* It turns to a newer command. *)
Turns(w) ==
  /\ NewerThan(w.command.generation)
  /\ workers' = {Worker(w.id, latest)}
  /\ issued' = latest.generation
  /\ UNCHANGED <<latest, lock, task, answered>>

(* It ends, unanswered: there is no newer command. *)
Retires(w) ==
  /\ ~ NewerThan(w.command.generation)
  /\ workers' = {} /\ task' = 0 /\ lock' \in {lock, 0}
  /\ UNCHANGED <<latest, issued, answered>>

(* It ends with its command answered. *)
Answers(w) ==
  /\ w.pc = "completing"
  /\ answered' = answered \cup {w.command.generation}
  /\ latest' = NoCommand
  /\ workers' = {} /\ task' = 0 /\ lock' = 0
  /\ UNCHANGED issued

Shape(w) == Stays(w) \/ Completes(w) \/ Turns(w) \/ Retires(w) \/ Answers(w)

Around == UNCHANGED <<generation, stopped>> /\ lost' \subseteq Nat /\ waiting' \in Seq(Waiters)

(* The only worker is replaced as a whole. *)
LEMMA Alone ==
  ASSUME OneCallAtATime, NEW w \in workers
  PROVE  /\ workers = {w} /\ workers \ {w} = {}
         /\ \A v : (workers \ {w}) \cup {v} = {v}
BY DEF OneCallAtATime

(* The head of the loop either turns to a newer command or ends the task. *)
LEMMA AdvanceShape ==
  ASSUME IInv, NEW w \in workers, Advance(w), lock' \in {lock, 0},
         NewerThan(w.command.generation) => lock' = lock,
         UNCHANGED <<latest, answered>>
  PROVE  Turns(w) \/ Retires(w)
BY Alone DEF IInv, Advance, Run, End, Become, Turns, Retires

(* A new phase is again a worker. *)
LEMMA PhaseType ==
  ASSUME NEW w \in Workers, NEW ok \in BOOLEAN
  PROVE  /\ \A p \in {"confirming", "locking", "completing"} :
              LET v == [w EXCEPT !.pc = p, !.succeeded = ok]
              IN  v \in Workers /\ v.id = w.id /\ v.command = w.command /\ v.pc = p
         /\ LET v == [w EXCEPT !.pc = "confirming"]
            IN  v \in Workers /\ v.id = w.id /\ v.command = w.command /\ v.pc = "confirming"
         /\ LET v == [w EXCEPT !.pc = "calling", !.attempt = 2]
            IN  v \in Workers /\ v.id = w.id /\ v.command = w.command /\ v.pc = "calling"
BY DEF Workers

(* The critical section up to its first await. *)
LEMMA EnterShape ==
  ASSUME IInv, NEW w \in workers, NEW ok \in BOOLEAN, Enter(w, ok),
         UNCHANGED <<latest, answered>>
  PROVE  Completes(w) \/ Turns(w) \/ Retires(w)
<1>1. w \in Workers
  BY DEF IInv, TypeOK
<1>2. CASE IsCurrent(w.command)
  <2> DEFINE v == [w EXCEPT !.pc = "completing", !.succeeded = ok]
  <2>1. v \in Workers /\ v.id = w.id /\ v.command = w.command /\ v.pc = "completing"
    BY <1>1, PhaseType
  <2>2. lock' = w.id /\ Become(w, v) /\ UNCHANGED <<task, issued>>
    BY <1>2 DEF Enter
  <2> HIDE DEF v
  <2>3. workers' = {v}
    BY <2>2, Alone DEF IInv, Become
  <2> QED BY <1>2, <2>1, <2>2, <2>3 DEF Completes
<1>3. CASE ~ IsCurrent(w.command)
  BY <1>3, AdvanceShape DEF Enter
<1> QED BY <1>2, <1>3

(* Leaving an attempt: into the critical section or into the queue. *)
LEMMA LeaveShape ==
  ASSUME IInv, NEW w \in workers, NEW ok \in BOOLEAN, Leave(w, ok),
         UNCHANGED <<latest, answered>>
  PROVE  Shape(w) /\ waiting' \in Seq(Waiters)
<1>1. w \in Workers /\ waiting \in Seq(Waiters)
  BY DEF IInv, TypeOK
<1>2. CASE Free
  BY <1>1, <1>2, EnterShape DEF Leave, Shape
<1>3. CASE ~ Free
  <2>1. [worker |-> w.id, track |-> FALSE] \in Waiters
    BY <1>1 DEF Workers, Waiters
  <2> DEFINE v == [w EXCEPT !.pc = "locking", !.succeeded = ok]
  <2>2. v \in Workers /\ v.id = w.id /\ v.command = w.command /\ v.pc = "locking"
    BY <1>1, PhaseType
  <2>3. Become(w, v) /\ UNCHANGED <<lock, task, issued>>
    BY <1>3 DEF Leave
  <2> HIDE DEF v
  <2>4. workers' = {v}
    BY <2>3, Alone DEF IInv, Become
  <2>5. Stays(w)
    BY <2>2, <2>3, <2>4 DEF Stays
  <2> QED BY <1>1, <1>3, <2>1, <2>5 DEF Leave, Shape
<1> QED BY <1>2, <1>3

(* Every step of a worker has one of the five shapes. *)
LEMMA WorkerShape ==
  ASSUME IInv, NEW w \in workers, WorkerStep(w)
  PROVE  Shape(w) /\ Around
<1>1. w \in Workers /\ waiting \in Seq(Waiters) /\ lost \subseteq Nat
  BY DEF IInv, TypeOK
<1>2. w.command \in Commands /\ w.succeeded \in BOOLEAN /\ w.command.generation \in Nat
  BY <1>1 DEF Workers, Commands
<1>3. IsCurrent(w.command) \in BOOLEAN
  BY DEF IsCurrent
<1>4. CASE CallReturns(w)
  <2>1. CASE w.command.track
    <3> DEFINE v == [w EXCEPT !.pc = "confirming"]
    <3>1. v \in Workers /\ v.id = w.id /\ v.command = w.command /\ v.pc = "confirming"
      BY <1>1, <1>2, PhaseType
    <3>2. Become(w, v) /\ UNCHANGED <<lock, waiting, task, issued>>
      BY <1>4, <2>1 DEF CallReturns
    <3> HIDE DEF v
    <3>3. workers' = {v}
      BY <3>2, Alone DEF IInv, Become
    <3> QED BY <1>1, <1>4, <3>1, <3>2, <3>3
            DEF CallReturns, Stays, Shape, Around, queueVars, historyVars
  <2>2. CASE ~ w.command.track
    BY <1>1, <1>3, <1>4, <2>2, LeaveShape DEF CallReturns, Around, queueVars, historyVars
  <2> QED BY <2>1, <2>2
<1>5. CASE CallRaises(w)
  BY <1>1, <1>5, LeaveShape DEF CallRaises, Around, queueVars, historyVars
<1>6. CASE TrackConfirmed(w)
  BY <1>1, <1>6, LeaveShape DEF TrackConfirmed, Around, queueVars, historyVars
<1>7. CASE TrackSuperseded(w)
  BY <1>1, <1>7, LeaveShape DEF TrackSuperseded, Around, queueVars, historyVars
<1>8. ASSUME NEW observable \in BOOLEAN, TrackTimeout(w, observable)
      PROVE  Shape(w) /\ Around
  <2>1. CASE observable /\ w.attempt = 1
    <3> DEFINE v == [w EXCEPT !.pc = "calling", !.attempt = 2]
    <3>1. v \in Workers /\ v.id = w.id /\ v.command = w.command /\ v.pc = "calling"
      BY <1>1, <1>2, PhaseType
    <3>2. /\ Become(w, v) /\ issued' = w.command.generation
          /\ UNCHANGED <<lock, waiting, task>> /\ IsCurrent(w.command)
      BY <1>8, <2>1 DEF TrackTimeout
    <3>3. issued' = issued
      BY <3>2 DEF IInv, Serving
    <3> HIDE DEF v
    <3>4. workers' = {v}
      BY <3>2, Alone DEF IInv, Become
    <3> QED BY <1>1, <1>8, <3>1, <3>2, <3>3, <3>4
            DEF TrackTimeout, Stays, Shape, Around, queueVars, historyVars
  <2>2. CASE ~ (observable /\ w.attempt = 1)
    <3>1. (~ observable) \in BOOLEAN
      OBVIOUS
    <3> QED BY <1>1, <1>8, <2>2, <3>1, LeaveShape
            DEF TrackTimeout, Around, queueVars, historyVars
  <2> QED BY <2>1, <2>2
<1>9. CASE AcquireWorker(w)
  <2>1. waiting' \in Seq(Waiters)
    BY <1>1, <1>9, HeadTailProperties DEF AcquireWorker
  <2> QED BY <1>1, <1>2, <1>9, <2>1, EnterShape
          DEF AcquireWorker, Shape, Around, queueVars, historyVars
<1>10. CASE CompleteSent(w)
  <2>1. IsCurrent(w.command) /\ latest' = NoCommand
    BY <1>10 DEF IInv, CompletionIsNewest, CompleteSent
  <2>2. ~ (latest'.generation > w.command.generation)
    BY <1>2, <2>1 DEF NoCommand
  <2> QED BY <1>1, <1>10, <2>1, <2>2, Alone
          DEF IInv, CompleteSent, End, Answers, Shape, Around
<1>11. CASE CompleteRaises(w)
  <2>1. IsCurrent(w.command) /\ ~ NewerThan(w.command.generation)
    BY <1>2, <1>11 DEF IInv, CompletionIsNewest, CompleteRaises, IsCurrent, NewerThan
  <2>2. End(w)
    BY <1>11, <2>1 DEF CompleteRaises, Advance
  <2> QED BY <1>1, <1>2, <1>11, <2>1, <2>2, Alone
          DEF IInv, CompleteRaises, End, Retires, Shape, Around, queueVars
<1> QED BY <1>4, <1>5, <1>6, <1>7, <1>8, <1>9, <1>10, <1>11 DEF WorkerStep

------------------------------------------------------------------------------
(* Every step keeps the invariant *)

(* Steps of a worker, shape by shape. *)
LEMMA WorkerKeeps ==
  ASSUME IInv, NEW w \in workers, Shape(w), Around
  PROVE  IInv'
<1> USE DEF Around
<1>1. /\ w \in Workers /\ w.id \in Nat \ {0} /\ w.command \in Commands
      /\ w.command.generation \in Nat
  BY DEF IInv, TypeOK, Workers, Commands
<1>2. /\ w.id = task /\ w.command.generation = issued /\ issued # 0
      /\ workers # {} /\ issued \notin answered /\ latest.generation \notin answered
      /\ generation \in Nat /\ issued \in Nat /\ latest \in Commands /\ latest.generation \in Nat
      /\ issued <= generation /\ lock \in Nat /\ task \in Nat
      /\ answered \subseteq Nat /\ stopped \in BOOLEAN
      /\ latest.generation \in {0, generation}
      /\ latest.generation = 0 => issued = generation
      /\ \A g \in answered : g # 0 /\ g <= generation
  BY DEF IInv, TypeOK, Owned, Serving, Unanswered, Queued, Commands
<1>3. CASE Stays(w)
  <2>1. PICK v \in Workers :
          /\ workers' = {v} /\ v.id = w.id /\ v.command = w.command
          /\ v.pc # "completing"
          /\ UNCHANGED <<latest, lock, task, issued, answered>>
    BY <1>3 DEF Stays
  <2> QED BY <1>1, <1>2, <2>1
          DEF IInv, TypeOK, OneCallAtATime, Owned, Queued, Serving,
              CompletionIsNewest, NewestAtRest, Unanswered
<1>4. CASE Completes(w)
  <2>1. PICK v \in Workers :
          /\ workers' = {v} /\ v.id = w.id /\ v.command = w.command
          /\ lock' = w.id /\ IsCurrent(w.command)
          /\ UNCHANGED <<latest, task, issued, answered>>
    BY <1>4 DEF Completes
  <2> QED BY <1>1, <1>2, <2>1
          DEF IInv, TypeOK, OneCallAtATime, Owned, Queued, Serving,
              CompletionIsNewest, NewestAtRest, Unanswered, IsCurrent
<1>5. CASE Turns(w)
  <2>1. latest.generation = generation /\ issued' = generation
    BY <1>1, <1>2, <1>5 DEF Turns, NewerThan
  <2> DEFINE v == Worker(w.id, latest)
  <2>2. /\ v \in Workers /\ v.id = w.id /\ v.command = latest /\ v.pc = "calling"
        /\ workers' = {v}
    BY <1>1, <1>2, <1>5 DEF Turns, Worker, Workers
  <2> HIDE DEF v
  <2>3. UNCHANGED <<latest, lock, task, answered>> /\ generation # 0
    BY <1>1, <1>2, <1>5, <2>1 DEF Turns, NewerThan
  <2> QED BY <1>1, <1>2, <2>1, <2>2, <2>3
          DEF IInv, TypeOK, OneCallAtATime, Owned, Queued, Serving,
              CompletionIsNewest, NewestAtRest, Unanswered
<1>6. CASE Retires(w)
  <2>1. issued = generation
    BY <1>1, <1>2, <1>6 DEF Retires, NewerThan
  <2> QED BY <1>1, <1>2, <1>6, <2>1
          DEF Retires, IInv, TypeOK, OneCallAtATime, Owned, Queued, Serving,
              CompletionIsNewest, NewestAtRest, Unanswered
<1>7. CASE Answers(w)
  <2>1. latest.generation = w.command.generation /\ issued = generation
    BY <1>1, <1>2, <1>7 DEF Answers, IInv, CompletionIsNewest, IsCurrent
  <2>2. NoCommand \in Commands /\ NoCommand.generation = 0
    BY DEF NoCommand, Commands
  <2> QED BY <1>1, <1>2, <1>7, <2>1, <2>2
          DEF Answers, IInv, TypeOK, OneCallAtATime, Owned, Queued, Serving,
              CompletionIsNewest, NewestAtRest, Unanswered
<1> QED BY <1>3, <1>4, <1>5, <1>6, <1>7 DEF Shape

(* A submission happens only while the lock is free, so no result is on    *)
(* its way, and starts a worker exactly when there is none.                *)
LEMMA SubmitKeeps ==
  ASSUME IInv, NEW track \in BOOLEAN, Submit(track), lock = 0,
         UNCHANGED <<lock, stopped, answered, lost>>, waiting' \in Seq(Waiters)
  PROVE  IInv'
<1>1. /\ generation \in Nat /\ issued \in Nat /\ issued <= generation
      /\ workers \subseteq Workers /\ answered \subseteq Nat /\ lost \subseteq Nat
      /\ task \in Nat /\ stopped \in BOOLEAN /\ lock \in Nat
      /\ \A g \in answered : g # 0 /\ g <= generation
  BY DEF IInv, TypeOK, Serving, Unanswered
<1>2. /\ latest' \in Commands /\ latest'.generation = generation + 1
      /\ generation' = generation + 1
  BY <1>1 DEF Submit, Submitted, Commands
<1>3. generation + 1 \notin answered /\ generation + 1 # 0
  BY <1>1
<1>4. \A w \in workers : w.pc # "completing"
  BY <1>1 DEF IInv, CompletionIsNewest, Workers
<1>5. CASE NoTask
  <2>1. workers = {}
    BY <1>5 DEF NoTask, IInv, Owned
  <2> DEFINE v == Worker(generation + 1, latest')
  <2>2. v \in Workers /\ v.id = generation + 1 /\ v.command = latest' /\ v.pc = "calling"
    BY <1>1, <1>2 DEF Worker, Workers
  <2>3. workers' = {v} /\ task' = generation + 1 /\ issued' = generation + 1
    BY <1>5, <2>1 DEF Submit
  <2> HIDE DEF v
  <2> QED BY <1>1, <1>2, <1>3, <2>2, <2>3
          DEF IInv, TypeOK, OneCallAtATime, Owned, Queued, Serving,
              CompletionIsNewest, NewestAtRest, Unanswered
<1>6. CASE ~ NoTask
  <2>1. UNCHANGED <<workers, task, issued>> /\ workers # {}
    BY <1>6 DEF Submit, NoTask
  <2> QED BY <1>1, <1>2, <1>3, <1>4, <2>1
          DEF IInv, TypeOK, OneCallAtATime, Owned, Queued, Serving,
              CompletionIsNewest, NewestAtRest, Unanswered
<1> QED BY <1>5, <1>6

(* Taking one task out of the queue of the lock leaves a queue. *)
LEMMA RemoveAtType ==
  ASSUME NEW i \in 1..Len(waiting), waiting \in Seq(Waiters)
  PROVE  RemoveAt(waiting, i) \in Seq(Waiters)
<1>1. SubSeq(waiting, 1, i - 1) \in Seq(Waiters)
  OBVIOUS
<1>2. SubSeq(waiting, i + 1, Len(waiting)) \in Seq(Waiters)
  OBVIOUS
<1> QED BY <1>1, <1>2, ConcatProperties DEF RemoveAt

(* Unloading takes the worker away, wherever it waits. *)
LEMMA UnloadKeeps ==
  ASSUME IInv, Unload
  PROVE  IInv'
<1>1. /\ generation \in Nat /\ issued \in Nat /\ issued <= generation
      /\ waiting \in Seq(Waiters) /\ latest \in Commands
      /\ workers \subseteq Workers /\ answered \subseteq Nat /\ lost \subseteq Nat
      /\ task \in Nat /\ lock \in Nat
      /\ \A g \in answered : g # 0 /\ g <= generation
  BY DEF IInv, TypeOK, Serving, Unanswered
<1>2. UNCHANGED <<generation, latest, issued, lost>> /\ stopped' = TRUE
  BY DEF Unload, queueVars
<1>3. CASE NoTask
  <2>1. workers = {}
    BY <1>3 DEF NoTask, IInv, Owned
  <2>2. UNCHANGED <<workers, task, lock, waiting, answered>>
    BY <1>3 DEF Unload
  <2> QED BY <1>1, <1>2, <2>1, <2>2
          DEF IInv, TypeOK, OneCallAtATime, Owned, Queued, Serving,
              CompletionIsNewest, NewestAtRest, Unanswered
<1>4. CASE ~ NoTask
  <2>1. PICK w \in workers, delivered \in BOOLEAN : CancelWorker(w, delivered)
    BY <1>4 DEF Unload
  <2>2. workers' = {} /\ task' = 0 /\ lock' \in Nat
    BY <1>1, <2>1, Alone DEF IInv, CancelWorker
  <2>3. waiting' \in Seq(Waiters)
    <3>1. CASE \E i \in 1..Len(waiting) : waiting[i].worker = w.id
      <4> DEFINE j == CHOOSE i \in 1..Len(waiting) : waiting[i].worker = w.id
      <4>1. j \in 1..Len(waiting) /\ waiting' = RemoveAt(waiting, j)
        BY <2>1, <3>1 DEF CancelWorker
      <4> HIDE DEF j
      <4> QED BY <1>1, <4>1, RemoveAtType
    <3>2. CASE ~ \E i \in 1..Len(waiting) : waiting[i].worker = w.id
      BY <1>1, <2>1, <3>2 DEF CancelWorker
    <3> QED BY <3>1, <3>2
  <2>4. answered' \subseteq answered \cup {issued} /\ issued # 0
    BY <2>1 DEF CancelWorker, IInv, Serving
  <2>5. answered' \subseteq Nat /\ \A g \in answered' : g # 0 /\ g <= generation
    BY <1>1, <2>4
  <2> QED BY <1>1, <1>2, <2>2, <2>3, <2>5
          DEF IInv, TypeOK, OneCallAtATime, Owned, Queued, Serving,
              CompletionIsNewest, NewestAtRest, Unanswered
<1> QED BY <1>3, <1>4

(* Any step, stuttering included. *)
LEMMA StepKeeps ==
  ASSUME IInv, [Next]_vars
  PROVE  IInv'
<1>1. waiting \in Seq(Waiters)
  BY DEF IInv, TypeOK
<1>2. ASSUME NEW track \in BOOLEAN, Deliver(track)
      PROVE  IInv'
  <2>1. CASE Free
    BY <1>1, <1>2, <2>1, SubmitKeeps DEF Deliver, Free, historyVars
  <2>2. CASE ~ Free
    <3> DEFINE e == [worker |-> 0, track |-> track]
    <3>0. e \in Waiters
      BY DEF Waiters
    <3> HIDE DEF e
    <3>1. waiting' \in Seq(Waiters)
      <4>1. waiting' = Append(waiting, e)
        BY <1>2, <2>2 DEF Deliver, e
      <4> QED BY <1>1, <3>0, <4>1
    <3>2. UNCHANGED <<generation, latest, workers, task, issued, lock, stopped, answered, lost>>
      BY <1>2, <2>2 DEF Deliver, queueVars, historyVars
    <3> QED BY <3>1, <3>2
            DEF IInv, TypeOK, OneCallAtATime, Owned, Queued, Serving,
                CompletionIsNewest, NewestAtRest, Unanswered, IsCurrent
  <2> QED BY <2>1, <2>2
<1>3. CASE AcquireSubmit
  <2>1. waiting' \in Seq(Waiters) /\ Head(waiting) \in Waiters
    BY <1>1, <1>3, HeadTailProperties DEF AcquireSubmit
  <2>2. Head(waiting).track \in BOOLEAN
    BY <2>1 DEF Waiters
  <2> QED BY <1>3, <2>1, <2>2, SubmitKeeps DEF AcquireSubmit, historyVars
<1>4. ASSUME NEW w \in workers, WorkerStep(w)
      PROVE  IInv'
  BY <1>4, WorkerShape, WorkerKeeps
<1>5. CASE Unload
  BY <1>5, UnloadKeeps
<1>6. CASE UNCHANGED vars
  BY <1>6 DEF vars, IInv, TypeOK, OneCallAtATime, Owned, Queued, Serving,
              CompletionIsNewest, NewestAtRest, Unanswered, IsCurrent
<1> QED BY <1>2, <1>3, <1>4, <1>5, <1>6 DEF Next

(* The invariant holds throughout. *)
THEOREM Inductive == Spec => []IInv
<1>1. Init => IInv
  <2> SUFFICES ASSUME Init PROVE IInv
    OBVIOUS
  <2>1. NoCommand \in Commands /\ NoCommand.generation = 0
    BY DEF NoCommand, Commands
  <2>2. TypeOK
    <3>1. waiting \in Seq(Waiters)
      BY EmptySeq DEF Init
    <3> QED BY <2>1, <3>1 DEF Init, TypeOK
  <2>3. Queued /\ Unanswered /\ NewestAtRest
    BY <2>1 DEF Init, Queued, Unanswered, NewestAtRest
  <2>4. OneCallAtATime /\ Owned /\ Serving /\ CompletionIsNewest
    BY DEF Init, OneCallAtATime, Owned, Serving, CompletionIsNewest
  <2> QED BY <2>2, <2>3, <2>4 DEF IInv
<1> QED BY <1>1, StepKeeps, PTL DEF Spec

------------------------------------------------------------------------------
(* What follows *)

(* All variables keep their types, for any number of commands. *)
THEOREM TypeCorrect == Spec => []TypeOK
<1>1. IInv => TypeOK
  BY DEF IInv
<1> QED BY <1>1, Inductive, PTL

(* The coordinator never has two workers, and so never two service calls. *)
THEOREM OneCall == Spec => []OneCallAtATime
<1>1. IInv => OneCallAtATime
  BY DEF IInv
<1> QED BY <1>1, Inductive, PTL

(* A result on its way to the Bridge is that of the newest command. *)
THEOREM CompletionSafe == Spec => []CompletionIsNewest
<1>1. IInv => CompletionIsNewest
  BY DEF IInv
<1> QED BY <1>1, Inductive, PTL

(* A coordinator at rest has called the player for the newest command. *)
THEOREM NoLostWakeup == Spec => []NewestAtRest
<1>1. IInv => NewestAtRest
  BY DEF IInv
<1> QED BY <1>1, Inductive, PTL

(* What a submission does to the player and the answers. *)
LEMMA SubmitPromise ==
  ASSUME IInv, NEW track \in BOOLEAN, Submit(track), UNCHANGED answered
  PROVE  /\ Promise!Choose
         /\ \A v \in workers' :
              v.pc = "calling" /\ v \notin workers => v.command.generation = generation'
<1>1. generation' = generation + 1 /\ latest'.generation = generation + 1
  BY DEF Submit, Submitted
<1>2. CASE NoTask
  <2>1. workers' = workers \cup {Worker(generation + 1, latest')} /\ issued' = generation + 1
    BY <1>2 DEF Submit
  <2>2. Worker(generation + 1, latest').command = latest'
    BY DEF Worker
  <2> QED BY <1>1, <2>1, <2>2 DEF Promise!Choose
<1>3. CASE ~ NoTask
  BY <1>1, <1>3 DEF Submit, Promise!Choose
<1> QED BY <1>2, <1>3

(* Every step is one of LatestWins or invisible there, and starts calls    *)
(* for the newest command only.                                            *)
LEMMA StepPromise ==
  ASSUME IInv, [Next]_vars
  PROVE  /\ Promise!Next \/ UNCHANGED Promise!vars
         /\ \A v \in workers' :
              v.pc = "calling" /\ v \notin workers => v.command.generation = generation'
<1> DEFINE Newest == \A v \in workers' :
             v.pc = "calling" /\ v \notin workers => v.command.generation = generation'
<1>1. ASSUME NEW track \in BOOLEAN, Deliver(track)
      PROVE  (Promise!Next \/ UNCHANGED Promise!vars) /\ Newest
  <2>1. CASE Free
    BY <1>1, <2>1, SubmitPromise DEF Deliver, historyVars, Promise!Next
  <2>2. CASE ~ Free
    BY <1>1, <2>2 DEF Deliver, queueVars, historyVars, Promise!vars
  <2> QED BY <2>1, <2>2
<1>2. CASE AcquireSubmit
  <2>1. Head(waiting) \in Waiters
    BY <1>2, HeadTailProperties DEF AcquireSubmit, IInv, TypeOK
  <2>2. Head(waiting).track \in BOOLEAN
    BY <2>1 DEF Waiters
  <2> QED BY <1>2, <2>2, SubmitPromise DEF AcquireSubmit, historyVars, Promise!Next
<1>3. ASSUME NEW w \in workers, WorkerStep(w)
      PROVE  (Promise!Next \/ UNCHANGED Promise!vars) /\ Newest
  <2>1. Shape(w) /\ generation' = generation
    BY <1>3, WorkerShape DEF Around
  <2>2. /\ generation \in Nat /\ issued \in Nat /\ issued <= generation
        /\ latest.generation \in {0, generation}
        /\ w.command.generation = issued /\ issued # 0 /\ issued \notin answered
    BY DEF IInv, TypeOK, Queued, Serving, Unanswered
  <2>3. CASE Stays(w)
    <3>1. PICK v \in Workers :
            /\ workers' = {v} /\ v.command = w.command
            /\ v.pc = "calling" => IsCurrent(w.command)
            /\ UNCHANGED <<issued, answered>>
      BY <2>3 DEF Stays
    <3>2. Newest
      BY <2>1, <2>2, <3>1 DEF IsCurrent
    <3> QED BY <2>1, <3>1, <3>2 DEF Promise!vars
  <2>4. CASE Completes(w)
    BY <2>1, <2>4 DEF Completes, Promise!vars
  <2>5. CASE Turns(w)
    <3>1. latest.generation = generation /\ issued < generation
      BY <2>2, <2>5 DEF Turns, NewerThan
    <3>2. Promise!Play
      BY <2>1, <2>5, <3>1 DEF Turns, Promise!Play
    <3>3. Newest
      BY <2>1, <2>5, <3>1 DEF Turns, Worker
    <3> QED BY <3>2, <3>3 DEF Promise!Next
  <2>6. CASE Retires(w)
    BY <2>1, <2>6 DEF Retires, Promise!vars
  <2>7. CASE Answers(w)
    <3>1. issued = generation
      BY <2>2, <2>7 DEF Answers, IInv, CompletionIsNewest, IsCurrent
    <3>2. Promise!Answer
      BY <2>1, <2>2, <2>7, <3>1 DEF Answers, Promise!Answer
    <3> QED BY <2>7, <3>2 DEF Answers, Promise!Next
  <2> QED BY <2>1, <2>3, <2>4, <2>5, <2>6, <2>7 DEF Shape
<1>4. CASE Unload
  <2>1. UNCHANGED <<generation, issued>> /\ workers' \subseteq workers
    BY <1>4 DEF Unload, CancelWorker, queueVars
  <2>2. CASE UNCHANGED answered
    BY <2>1, <2>2 DEF Promise!vars
  <2>3. CASE ~ UNCHANGED answered
    <3>1. PICK w \in workers, delivered \in BOOLEAN : CancelWorker(w, delivered)
      BY <1>4, <2>3 DEF Unload
    <3>2. w.pc = "completing" /\ answered' = answered \cup {w.command.generation}
      BY <2>3, <3>1 DEF CancelWorker
    <3>3. issued = w.command.generation /\ issued = generation /\ issued \notin answered
      BY <3>2 DEF IInv, Serving, CompletionIsNewest, IsCurrent, Unanswered
    <3>4. Promise!Answer
      BY <2>1, <3>2, <3>3 DEF Promise!Answer
    <3> QED BY <2>1, <3>4 DEF Promise!Next
  <2> QED BY <2>2, <2>3
<1>5. CASE UNCHANGED vars
  BY <1>5 DEF vars, Promise!vars
<1> QED BY <1>1, <1>2, <1>3, <1>4, <1>5 DEF Next

(* Every call to the player is made for the newest command. *)
THEOREM NewestCalled == Spec => CallsAreNewest
<1>1. IInv /\ [Next]_vars =>
        [\A w \in workers' :
           w.pc = "calling" /\ w \notin workers => w.command.generation = generation']_vars
  BY StepPromise
<1> QED BY <1>1, Inductive, PTL DEF Spec, CallsAreNewest

(* The coordinator implements LatestWins. *)
THEOREM Implementation == Spec => ImplementsLatestWins
<1>1. Init => Promise!Init
  BY DEF Init, Promise!Init
<1>2. IInv /\ [Next]_vars => [Promise!Next]_(Promise!vars)
  BY StepPromise
<1> QED BY <1>1, <1>2, Inductive, PTL DEF Spec, ImplementsLatestWins, Promise!Spec

=============================================================================
