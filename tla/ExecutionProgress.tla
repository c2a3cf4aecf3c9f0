-------------------------- MODULE ExecutionProgress --------------------------
(***************************************************************************)
(* The progress registry of execution_progress.py and the calls that feed  *)
(* and read it: api_execute_plan_start and its one-thread pool,            *)
(* api_execute_plan on a request thread, execute_plan_by_id seen from the  *)
(* registry, and a client that polls api_run_progress until it is told     *)
(* that the run has ended.                                                 *)
(*                                                                         *)
(* Every update of the registry is one step, under its lock; so is every   *)
(* commit to the run's row.  What happens to files between them is module  *)
(* RunLedger.                                                              *)
(***************************************************************************)
EXTENDS Integers, Sequences, FiniteSets

CONSTANTS
  Runs,        \* run ids, in the order that breaks ties between timestamps
  MaxEntries,  \* MAX_PROGRESS_ENTRIES
  MaxItems,    \* bound: items selected by one request
  MaxClock,    \* bound: seconds that pass
  MaxFaults    \* bound: database writes that raise

ASSUME ConstantsAssumption ==
  /\ Runs \subseteq Nat /\ IsFiniteSet(Runs)
  /\ MaxEntries \in Nat /\ MaxItems \in Nat \ {0}
  /\ MaxClock \in Nat /\ MaxFaults \in Nat

VARIABLES
  registry,  \* _PROGRESS: entries of the runs it knows
  call,      \* each run's execute_plan_by_id: next step, items, how it ran
  queue,     \* runs submitted to EXECUTION_POOL
  history,   \* state of each run's row in the database
  client,    \* what the caller of execute/start has been told
  clock,     \* utc_now_iso, in whole seconds
  faults

vars == <<registry, call, queue, history, client, clock, faults>>

\* "success" stands for partial_success too: nothing here tells them apart.
TerminalStates == {"success", "failed"}
Entry == [state : {"running"} \cup TerminalStates, total : 0..MaxItems, done : 0..MaxItems,
          at : {-1} \cup 0..MaxClock]
Steps == {"new", "queued", "start", "create", "item", "work", "report", "plan",
          "raise", "ended"}

Terminal(entry) == entry.state \in TerminalStates
Known == DOMAIN registry

\* Runs that are between the answer to their request and the end of their call.
Going == {"queued", "start", "create", "item", "work"}

TypeOK ==
  /\ Known \subseteq Runs /\ registry \in [Known -> Entry]
  /\ call \in [Runs -> [pc : Steps, size : 0..MaxItems, at : 0..MaxItems, pool : BOOLEAN]]
  /\ queue \in Seq(Runs)
  /\ history \in [Runs -> {"none", "running"} \cup TerminalStates]
  /\ client \in [Runs -> {"none", "polling", "told", "not_found"}]
  /\ clock \in 0..MaxClock /\ faults \in 0..MaxFaults

Init ==
  /\ registry = [r \in {} |-> 0]
  /\ call = [r \in Runs |-> [pc |-> "new", size |-> 0, at |-> 0, pool |-> FALSE]]
  /\ queue = <<>>
  /\ history = [r \in Runs |-> "none"]
  /\ client = [r \in Runs |-> "none"]
  /\ clock = 0 /\ faults = 0

-----------------------------------------------------------------------------
\* The registry.

\* Variant: entries of any state are removed, the oldest update first.
Surplus_AnyState(reg) ==
  LET over == Cardinality(DOMAIN reg) - MaxEntries
      earlier(r) == {q \in DOMAIN reg : reg[q].at < reg[r].at \/ (reg[q].at = reg[r].at /\ q < r)}
  IN {r \in DOMAIN reg : Cardinality(earlier(r)) < over}

\* Variant: one entry too few is removed.
Surplus_Short(reg) ==
  LET over == Cardinality(DOMAIN reg) - MaxEntries - 1
      ended == {r \in DOMAIN reg : Terminal(reg[r])}
      earlier(r) == {q \in ended : reg[q].at < reg[r].at \/ (reg[q].at = reg[r].at /\ q < r)}
  IN {r \in ended : Cardinality(earlier(r)) < over}

\* The terminal entries that ended first, as many as the registry has too many.
Surplus(reg) ==
  LET over == Cardinality(DOMAIN reg) - MaxEntries
      ended == {r \in DOMAIN reg : Terminal(reg[r])}
      earlier(r) == {q \in ended : reg[q].at < reg[r].at \/ (reg[q].at = reg[r].at /\ q < r)}
  IN {r \in ended : Cardinality(earlier(r)) < over}

\* _prune_terminal_progress_locked
Pruned(reg) == [r \in DOMAIN reg \ Surplus(reg) |-> reg[r]]

Put(r, entry) ==
  registry' = Pruned([q \in Known \cup {r} |-> IF q = r THEN entry ELSE registry[q]])

\* start_progress replaces whatever was known of the run.
Start(r) == Put(r, [state |-> "running", total |-> call[r].size, done |-> 0, at |-> -1])

\* update_progress: an entry that was pruned is made again from its defaults.
Update(r, state, total, done) ==
  LET old == IF r \in Known THEN registry[r] ELSE [state |-> "running", total |-> 0, done |-> 0, at |-> -1]
      at == IF state \in TerminalStates /\ old.at = -1 THEN clock ELSE old.at
  IN Put(r, [state |-> state, total |-> total, done |-> done, at |-> at])

\* Variant: the failure is recorded in a fresh entry.
Fail_Fresh(r) == Update(r, "failed", 0, 0)

\* The same with only the state given.
Fail(r) ==
  IF r \in Known THEN Update(r, "failed", registry[r].total, registry[r].done)
                 ELSE Update(r, "failed", 0, 0)

-----------------------------------------------------------------------------
\* execute/start, the pool, and the synchronous execute.

At(r, s) == call[r].pc = s
Goto(r, s) == call' = [call EXCEPT ![r].pc = s]

\* api_execute_plan_start: start_progress announces the run, the pool gets it, and
\* the answer carries its id. validate_execute_request has passed before.
Submit(r) ==
  /\ At(r, "new")
  /\ \E n \in 1..MaxItems :
       /\ call' = [call EXCEPT ![r] = [pc |-> "queued", size |-> n, at |-> 0, pool |-> TRUE]]
       /\ Put(r, [state |-> "running", total |-> n, done |-> 0, at |-> -1])
  /\ queue' = Append(queue, r)
  /\ client' = [client EXCEPT ![r] = "polling"]
  /\ UNCHANGED <<history, clock, faults>>

\* api_execute_plan: the call runs on the request's own thread.
Execute(r) ==
  /\ At(r, "new")
  /\ \E n \in 1..MaxItems :
       call' = [call EXCEPT ![r] = [pc |-> "start", size |-> n, at |-> 0, pool |-> FALSE]]
  /\ UNCHANGED <<registry, queue, history, client, clock, faults>>

\* The only thread of the pool takes the next run when it is free.
Take ==
  /\ queue # <<>>
  /\ \A r \in Runs : call[r].pool => call[r].pc \in {"new", "queued", "ended"}
  /\ Goto(Head(queue), "start")
  /\ queue' = Tail(queue)
  /\ UNCHANGED <<registry, history, client, clock, faults>>

-----------------------------------------------------------------------------
\* execute_plan_by_id, as the registry and the run's row see it.

Keeping == UNCHANGED <<queue, client, clock, faults>>

\* The plan has changed since it was submitted: a request without a run id just ends.
ValidateFails(r) ==
  /\ At(r, "start")
  /\ Goto(r, "raise")
  /\ IF call[r].pool THEN Fail(r) ELSE UNCHANGED registry
  /\ UNCHANGED history /\ Keeping

\* validate_execute_request passes again, and start_progress replaces the entry.
Restart(r) ==
  /\ At(r, "start")
  /\ Start(r)
  /\ Goto(r, "create")
  /\ UNCHANGED history /\ Keeping

CreateRun(r) ==
  /\ At(r, "create")
  /\ history' = [history EXCEPT ![r] = "running"]
  /\ Goto(r, "item")
  /\ UNCHANGED registry /\ Keeping

StartItem(r) ==
  /\ At(r, "item") /\ call[r].at < call[r].size
  /\ Update(r, "running", call[r].size, call[r].at)
  /\ Goto(r, "work")
  /\ UNCHANGED history /\ Keeping

CompleteItem(r) ==
  /\ At(r, "work")
  /\ call' = [call EXCEPT ![r].pc = "item", ![r].at = @ + 1]
  /\ Update(r, registry[r].state, call[r].size, call[r].at + 1)
  /\ UNCHANGED history /\ Keeping

\* Variant: the registry is told before the row is committed.
EndRun_Told(r) ==
  /\ At(r, "item") /\ call[r].at = call[r].size
  /\ \E state \in TerminalStates : Update(r, state, registry[r].total, call[r].at)
  /\ Goto(r, "report")
  /\ UNCHANGED history /\ Keeping

\* update_run_state with the final state.
EndRun(r) ==
  /\ At(r, "item") /\ call[r].at = call[r].size
  /\ \E state \in TerminalStates : history' = [history EXCEPT ![r] = state]
  /\ Goto(r, "report")
  /\ UNCHANGED registry /\ Keeping

\* Variant: the items of the summary are added to those already counted.
Report_Twice(r) ==
  /\ At(r, "report")
  /\ Update(r, history[r], registry[r].total, registry[r].done + call[r].at)
  /\ Goto(r, "plan")
  /\ UNCHANGED history /\ Keeping

\* finish_progress: the summary counts every item once.
Report(r) ==
  /\ At(r, "report")
  /\ Update(r, history[r], registry[r].total, call[r].at)
  /\ Goto(r, "plan")
  /\ UNCHANGED history /\ Keeping

\* update_plan_state is the last thing a call does.
EndCall(r) ==
  /\ At(r, "plan")
  /\ Goto(r, "ended")
  /\ UNCHANGED <<registry, history>> /\ Keeping

\* Variant: the pool drops the exception.
Raise_Silent(r) ==
  /\ At(r, "raise")
  /\ Goto(r, "ended")
  /\ UNCHANGED <<registry, history>> /\ Keeping

\* The handler of _run_execute_background; a request thread has none.
Raise(r) ==
  /\ At(r, "raise")
  /\ Goto(r, "ended")
  /\ IF call[r].pool THEN Fail(r) ELSE UNCHANGED registry
  /\ UNCHANGED history /\ Keeping

\* A write to the database raises: create_run, upsert_run_item of an item and of
\* its failure, update_run_state, update_plan_state.
WriteFails(r) ==
  /\ call[r].pc \in {"create", "work", "plan"} \/ (At(r, "item") /\ call[r].at = call[r].size)
  /\ faults < MaxFaults /\ faults' = faults + 1
  /\ Goto(r, "raise")
  /\ UNCHANGED <<registry, queue, history, client, clock>>

Step(r) ==
  \/ ValidateFails(r) \/ Restart(r) \/ CreateRun(r) \/ StartItem(r)
  \/ CompleteItem(r) \/ EndRun(r) \/ Report(r) \/ EndCall(r) \/ Raise(r)

-----------------------------------------------------------------------------
\* api_run_progress, and waitForExecutionProgress of app.js.

\* Variant: the history is asked first.
Answer_HistoryFirst(r) ==
  IF history[r] # "none" THEN "told"
  ELSE IF r \in Known THEN IF Terminal(registry[r]) THEN "told" ELSE "polling" ELSE "not_found"

\* Variant: only the registry is asked.
Answer_NoHistory(r) ==
  IF r \in Known THEN IF Terminal(registry[r]) THEN "told" ELSE "polling" ELSE "not_found"

\* Without an entry the run's row answers, and says that the run has ended.
Answer(r) ==
  IF r \in Known THEN IF Terminal(registry[r]) THEN "told" ELSE "polling"
  ELSE IF history[r] # "none" THEN "told" ELSE "not_found"

Poll(r) ==
  /\ client[r] = "polling"
  /\ client' = [client EXCEPT ![r] = Answer(r)]
  /\ UNCHANGED <<registry, call, queue, history, clock, faults>>

Tick ==
  /\ clock < MaxClock /\ clock' = clock + 1
  /\ UNCHANGED <<registry, call, queue, history, client, faults>>

Next ==
  \/ Take \/ Tick
  \/ \E r \in Runs : Submit(r) \/ Execute(r) \/ Step(r) \/ WriteFails(r) \/ Poll(r)

\* The pool's thread and the request threads run on; the client polls every 700 ms.
Fairness ==
  /\ WF_vars(Take)
  /\ \A r \in Runs : WF_vars(Step(r)) /\ WF_vars(Poll(r))

Spec == Init /\ [][Next]_vars
FairSpec == Spec /\ Fairness

-----------------------------------------------------------------------------
(* A run that has been announced and has not ended is in the registry, and not as
   ended, however many runs have been pruned around it: otherwise api_run_progress
   would answer for it from a history that always says "terminal" (app.py:740-760). *)
RunningIsKnown ==
  \A r \in Runs : call[r].pool /\ call[r].pc \in Going => r \in Known /\ ~Terminal(registry[r])

(* The client is told that a run has ended only when none of its items is still to
   be worked on, so that the report it then reads is complete (app.js:3334). *)
ToldWhenOver == \A r \in Runs : client[r] = "told" => call[r].pc \notin Going

(* The client of a run that has a row is never told that there is no such run. *)
FoundWhenRecorded == \A r \in Runs : client[r] = "not_found" => history[r] = "none"

(* What the registry calls a success the history already calls the same: the row is
   committed first (executor.py:194-195). *)
HistoryFirst ==
  \A r \in Known : registry[r].state = "success" => history[r] = "success"

(* Whatever was pruned, what the client is told by its last answer is true of the
   run: that it is over, and in the history already, or that nobody knows it. *)
AnswersAreTrue == ToldWhenOver /\ FoundWhenRecorded /\ HistoryFirst

(* The registry exceeds its limit only with runs that have not ended. *)
Bounded == Cardinality(Known) > MaxEntries => \A r \in Known : ~Terminal(registry[r])

(* Pruning takes what it must and nothing else (execution_progress.py:43-52). *)
PruningIsFair == RunningIsKnown /\ Bounded

(* The bar never goes back, not even when the worker starts a queued run again or
   an exception ends it (execution_progress.py:55, app.py:725). *)
NeverBack == [][\A r \in Known \cap DOMAIN registry' : registry'[r].done >= registry[r].done]_vars

(* Every client that was given a run's id stops polling. *)
PollingEnds == \A r \in Runs : client[r] = "polling" ~> client[r] # "polling"
==============================================================================
