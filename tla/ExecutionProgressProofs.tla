----------------------- MODULE ExecutionProgressProofs -----------------------
(***************************************************************************)
(* Proofs about ExecutionProgress, for any number of runs, items and       *)
(* entries, any clock and any number of failing writes.                    *)
(*                                                                         *)
(* What a step does to the registry, to the rows and to the clients        *)
(* concerns one run, except that any update may prune ended entries of     *)
(* others.  So the invariant is a conjunction over the runs (RunOK) that   *)
(* asks for an entry only while a run has not ended.                       *)
(***************************************************************************)
EXTENDS ExecutionProgress, TLAPS, SequenceTheorems, FiniteSetTheorems

Busy == {"create", "item", "work", "report"}

\* Runs that the registry must know: an accepted one, and one that works.
Announced(r) ==
  call[r].pc \in Busy \/ (call[r].pool /\ call[r].pc \in {"queued", "start"})

EntryOK(r) ==
  /\ Announced(r) => r \in Known /\ registry[r].state = "running"
  /\ call[r].pc = "new" => r \notin Known
  /\ call[r].pc \in {"queued", "start"} /\ r \in Known => registry[r].done = 0
  /\ call[r].pc \in Busy /\ r \in Known => registry[r].done <= call[r].at
  /\ r \in Known /\ registry[r].state = "success" => history[r] = "success"

CallOK(r) ==
  /\ call[r].pc = "queued" => call[r].pool
  /\ call[r].pc = "work" => call[r].at < call[r].size
  /\ call[r].pc = "report" => history[r] \in TerminalStates

ClientOK(r) ==
  /\ call[r].pc = "new" => client[r] = "none"
  /\ client[r] # "none" => call[r].pool
  /\ client[r] \in {"told", "not_found"} => call[r].pc \notin Going
  /\ client[r] = "not_found" => history[r] = "none"

RunOK(r) == EntryOK(r) /\ CallOK(r) /\ ClientOK(r)

\* Who is queued waits there once.
QueueOK ==
  /\ \A i \in 1..Len(queue) : call[queue[i]].pc = "queued"
  /\ \A i, j \in 1..Len(queue) : i # j => queue[i] # queue[j]

IInv == TypeOK /\ QueueOK /\ \A r \in Runs : RunOK(r)

-----------------------------------------------------------------------------
(* The registry. *)

\* An update of a run's entry: others stay, unless they have ended.
LEMMA PutFacts ==
  ASSUME TypeOK, NEW r \in Runs, NEW e \in Entry, Put(r, e)
  PROVE  /\ registry' \in [Known' -> Entry]
         /\ Known' \subseteq Known \cup {r}
         /\ r \in Known' => registry'[r] = e
         /\ \A q \in Known' \ {r} : q \in Known /\ registry'[q] = registry[q]
         /\ ~Terminal(e) => r \in Known'
         /\ \A q \in Known \ {r} : ~Terminal(registry[q]) => q \in Known'
<1> DEFINE reg == [q \in Known \cup {r} |-> IF q = r THEN e ELSE registry[q]]
<1>1. registry' = [q \in DOMAIN reg \ Surplus(reg) |-> reg[q]]
  BY DEF Put, Pruned
<1>2. \A q \in Surplus(reg) : q \in DOMAIN reg /\ Terminal(reg[q])
  BY DEF Surplus
<1>3. /\ DOMAIN reg = Known \cup {r} /\ reg[r] = e
      /\ \A q \in Known \ {r} : reg[q] = registry[q]
  OBVIOUS
<1>4. registry \in [Known -> Entry]
  BY DEF TypeOK
<1> HIDE DEF reg
<1>5. Known' = DOMAIN reg \ Surplus(reg) /\ \A q \in Known' : registry'[q] = reg[q]
  BY <1>1 DEF Known
<1>6. \A q \in DOMAIN reg : reg[q] \in Entry
  BY <1>3, <1>4
<1>7. registry' \in [Known' -> Entry]
  BY <1>1, <1>5, <1>6
<1> QED
  BY <1>2, <1>3, <1>5, <1>7

\* update_progress writes an entry with the state and the counts it is given.
LEMMA UpdateFacts ==
  ASSUME TypeOK, NEW r \in Runs, NEW state \in {"running"} \cup TerminalStates,
         NEW total \in 0..MaxItems, NEW done \in 0..MaxItems,
         Update(r, state, total, done)
  PROVE  \E e \in Entry : Put(r, e) /\ e.state = state /\ e.done = done
<1> DEFINE old == IF r \in Known THEN registry[r]
                  ELSE [state |-> "running", total |-> 0, done |-> 0, at |-> -1]
           at == IF state \in TerminalStates /\ old.at = -1 THEN clock ELSE old.at
           e == [state |-> state, total |-> total, done |-> done, at |-> at]
<1>1. old.at \in {-1} \cup 0..MaxClock
  BY DEF TypeOK, Entry
<1>2. at \in {-1} \cup 0..MaxClock
  BY <1>1 DEF TypeOK
<1> HIDE DEF at
<1>3. e \in Entry
  BY <1>2 DEF Entry
<1>4. Put(r, e)
  BY DEF Update, at
<1> QED
  BY <1>3, <1>4

LEMMA FailFacts ==
  ASSUME TypeOK, NEW r \in Runs, Fail(r)
  PROVE  /\ \E e \in Entry : Put(r, e)
         /\ r \in Known' => registry'[r].state = "failed"
         /\ r \in Known /\ r \in Known' => registry'[r].done = registry[r].done
<1>1. \E e \in Entry : /\ Put(r, e) /\ e.state = "failed"
                       /\ r \in Known => e.done = registry[r].done
  <2>1. CASE r \in Known
    <3>1. registry[r].total \in 0..MaxItems /\ registry[r].done \in 0..MaxItems
      BY <2>1 DEF TypeOK, Entry
    <3> QED
      BY <2>1, <3>1, UpdateFacts DEF Fail, TerminalStates
  <2>2. CASE r \notin Known
    <3>1. 0 \in 0..MaxItems
      BY ConstantsAssumption DEF ConstantsAssumption
    <3> QED
      BY <2>2, <3>1, UpdateFacts DEF Fail, TerminalStates
  <2> QED
    BY <2>1, <2>2
<1>2. \A e \in Entry : Put(r, e) => (r \in Known' => registry'[r] = e)
  BY PutFacts DEF Known
<1> QED
  BY <1>1, <1>2 DEF Known

\* A step of one run leaves the others as they have to be.
LEMMA OthersKept ==
  ASSUME IInv, NEW r \in Runs,
         UNCHANGED registry \/ (\E e \in Entry : Put(r, e)),
         \A q \in Runs \ {r} : /\ call'[q] = call[q] /\ history'[q] = history[q]
                               /\ client'[q] = client[q]
  PROVE  \A q \in Runs \ {r} : RunOK(q)'
<1> SUFFICES ASSUME NEW q \in Runs \ {r} PROVE RunOK(q)'
  OBVIOUS
<1>1. /\ q \in Known' => q \in Known /\ registry'[q] = registry[q]
      /\ q \in Known /\ registry[q].state = "running" => q \in Known'
  BY PutFacts DEF IInv, Known, Terminal, TerminalStates
<1>2. RunOK(q)
  BY DEF IInv
<1>3. call'[q] = call[q] /\ history'[q] = history[q] /\ client'[q] = client[q]
  OBVIOUS
<1>4. EntryOK(q)'
  BY <1>1, <1>2, <1>3 DEF RunOK, EntryOK, Announced
<1>5. CallOK(q)' /\ ClientOK(q)'
  BY <1>2, <1>3 DEF RunOK, CallOK, ClientOK
<1> QED
  BY <1>4, <1>5 DEF RunOK

\* The calls' records.
Calls == [pc : Steps, size : 0..MaxItems, at : 0..MaxItems, pool : BOOLEAN]
RowStates == {"none", "running"} \cup TerminalStates

\* What NeverBack asks of a step.
Forward == \A q \in Known \cap DOMAIN registry' : registry'[q].done >= registry[q].done

\* A step updates one entry, and prunes, or leaves the registry alone.
Changed == UNCHANGED registry \/ (\E r \in Runs, e \in Entry : Put(r, e))

\* What is left to show of a step of a run's call: that the run itself ends up
\* as it has to be.
LEMMA StepKeeps ==
  ASSUME IInv, NEW r \in Runs, call[r].pc # "queued",
         UNCHANGED registry \/ (\E e \in Entry : Put(r, e)),
         call' \in [Runs -> Calls], history' \in [Runs -> RowStates],
         \A q \in Runs \ {r} : call'[q] = call[q] /\ history'[q] = history[q],
         UNCHANGED <<queue, client, clock>>, faults' \in 0..MaxFaults,
         RunOK(r)',
         r \in Known /\ r \in Known' => registry'[r].done >= registry[r].done
  PROVE  IInv' /\ Forward /\ Changed
<1>1. TypeOK'
  <2>1. Known' \subseteq Runs /\ registry' \in [Known' -> Entry]
    BY PutFacts DEF IInv, TypeOK, Known
  <2> QED
    BY <2>1 DEF IInv, TypeOK, Calls, RowStates
<1>2. \A q \in Runs \ {r} : /\ call'[q] = call[q] /\ history'[q] = history[q]
                             /\ client'[q] = client[q]
  BY DEF IInv, TypeOK
<1>3. QueueOK'
  <2>1. \A i \in 1..Len(queue) : queue[i] \in Runs \ {r} /\ call[queue[i]].pc = "queued"
    BY DEF IInv, QueueOK, TypeOK
  <2> QED
    BY <1>2, <2>1 DEF IInv, QueueOK
<1>4. \A q \in Runs : RunOK(q)'
  BY <1>2, OthersKept
<1>5. Forward
  <2> SUFFICES ASSUME NEW q \in Known, q \in Known'
               PROVE registry'[q].done >= registry[q].done
    BY DEF Forward, Known
  <2>1. registry[q].done \in Nat
    BY DEF IInv, TypeOK, Entry
  <2>2. CASE q # r
    <3>1. registry'[q] = registry[q]
      BY <2>2, PutFacts DEF IInv
    <3> QED
      BY <2>1, <3>1
  <2> QED
    BY <2>2
<1> QED
  BY <1>1, <1>3, <1>4, <1>5 DEF IInv, Changed

\* Where a step of a call leads.
LEMMA GotoFacts ==
  ASSUME TypeOK, NEW r \in Runs, NEW s \in Steps, Goto(r, s)
  PROVE  /\ call' \in [Runs -> Calls]
         /\ \A q \in Runs \ {r} : call'[q] = call[q]
         /\ call'[r].pc = s /\ call'[r].pool = call[r].pool
         /\ call'[r].size = call[r].size /\ call'[r].at = call[r].at
BY DEF Goto, TypeOK, Calls

\* A step that leaves the rows alone, or writes that of its run.
LEMMA RowFacts ==
  ASSUME TypeOK, NEW r \in Runs,
         UNCHANGED history \/ (\E h \in RowStates : history' = [history EXCEPT ![r] = h])
  PROVE  /\ history' \in [Runs -> RowStates]
         /\ \A q \in Runs \ {r} : history'[q] = history[q]
BY DEF TypeOK, RowStates

-----------------------------------------------------------------------------
(* The steps of a call. *)

LEMMA ValidateFailsKeeps ==
  ASSUME IInv, NEW r \in Runs, ValidateFails(r)
  PROVE  IInv' /\ Forward /\ Changed
<1>0. TypeOK /\ RunOK(r)
  BY DEF IInv
<1>1. call[r].pc = "start" /\ UNCHANGED <<history, queue, client, clock, faults>>
  BY DEF ValidateFails, At, Keeping
<1>2. Goto(r, "raise") /\ "raise" \in Steps
  BY DEF ValidateFails, Steps
<1>3. UNCHANGED registry \/ \E e \in Entry : Put(r, e)
  BY <1>0, FailFacts DEF ValidateFails
<1>4. r \in Known /\ r \in Known' => registry'[r].done >= registry[r].done
  BY <1>0, FailFacts DEF ValidateFails, TypeOK, Entry
<1>5. r \in Known' /\ registry'[r].state = "success" => r \in Known /\ registry' = registry
  BY <1>0, FailFacts DEF ValidateFails, Known
<1>6. RunOK(r)'
  <2>1. EntryOK(r)'
    BY <1>0, <1>1, <1>2, <1>5, GotoFacts DEF RunOK, EntryOK, Announced, Busy
  <2> QED
    BY <1>0, <1>1, <1>2, <2>1, GotoFacts DEF RunOK, CallOK, ClientOK, Going
<1>7. faults' \in 0..MaxFaults
  BY <1>0, <1>1 DEF TypeOK
<1> QED
  BY <1>0, <1>1, <1>2, <1>3, <1>4, <1>6, <1>7, GotoFacts, RowFacts, StepKeeps

LEMMA RestartKeeps ==
  ASSUME IInv, NEW r \in Runs, Restart(r)
  PROVE  IInv' /\ Forward /\ Changed
<1>0. TypeOK /\ RunOK(r)
  BY DEF IInv
<1>1. call[r].pc = "start" /\ UNCHANGED <<history, queue, client, clock, faults>>
  BY DEF Restart, At, Keeping
<1>2. Goto(r, "create") /\ "create" \in Steps
  BY DEF Restart, Steps
<1> DEFINE e == [state |-> "running", total |-> call[r].size, done |-> 0, at |-> -1]
<1>3. e \in Entry /\ Put(r, e)
  BY <1>0, ConstantsAssumption DEF ConstantsAssumption, Restart, Start, TypeOK, Entry
<1>4. r \in Known' /\ registry'[r] = e
  BY <1>0, <1>3, PutFacts DEF Terminal, TerminalStates
<1>5. r \in Known => registry[r].done = 0
  BY <1>0, <1>1 DEF RunOK, EntryOK
<1>6. RunOK(r)'
  <2>1. call'[r].at >= 0
    BY <1>0, <1>2, GotoFacts DEF Calls
  <2>2. EntryOK(r)'
    BY <1>1, <1>2, <1>4, <2>1, <1>0, GotoFacts DEF EntryOK, Announced, Busy
  <2> QED
    BY <1>0, <1>1, <1>2, <2>2, GotoFacts DEF RunOK, CallOK, ClientOK, Going
<1>7. faults' \in 0..MaxFaults
  BY <1>0, <1>1 DEF TypeOK
<1> QED
  BY <1>0, <1>1, <1>2, <1>3, <1>4, <1>5, <1>6, <1>7, GotoFacts, RowFacts, StepKeeps

LEMMA CreateRunKeeps ==
  ASSUME IInv, NEW r \in Runs, CreateRun(r)
  PROVE  IInv' /\ Forward /\ Changed
<1>0. TypeOK /\ RunOK(r)
  BY DEF IInv
<1>1. /\ call[r].pc = "create"
      /\ history' = [history EXCEPT ![r] = "running"] /\ "running" \in RowStates
      /\ UNCHANGED <<registry, queue, client, clock, faults>>
  BY DEF CreateRun, At, Keeping, RowStates
<1>2. Goto(r, "item") /\ "item" \in Steps
  BY DEF CreateRun, Steps
<1>3. /\ r \in Known /\ registry[r].state = "running" /\ Known' = Known
      /\ registry[r].done \in 0..MaxItems
  BY <1>0, <1>1 DEF RunOK, EntryOK, Announced, Busy, Known, TypeOK, Entry
<1>4. RunOK(r)'
  <2>1. EntryOK(r)'
    BY <1>0, <1>1, <1>2, <1>3, GotoFacts DEF RunOK, EntryOK, Announced, Busy
  <2> QED
    BY <1>0, <1>1, <1>2, <2>1, GotoFacts DEF RunOK, CallOK, ClientOK, Going
<1>7. faults' \in 0..MaxFaults
  BY <1>0, <1>1 DEF TypeOK
<1>8. r \in Known /\ r \in Known' => registry'[r].done >= registry[r].done
  BY <1>1, <1>3
<1> QED
  BY <1>0, <1>1, <1>2, <1>4, <1>7, <1>8, GotoFacts, RowFacts, StepKeeps

LEMMA StartItemKeeps ==
  ASSUME IInv, NEW r \in Runs, StartItem(r)
  PROVE  IInv' /\ Forward /\ Changed
<1>0. TypeOK /\ RunOK(r)
  BY DEF IInv
<1>1. /\ call[r].pc = "item" /\ call[r].at < call[r].size
      /\ UNCHANGED <<history, queue, client, clock, faults>>
  BY DEF StartItem, At, Keeping
<1>2. Goto(r, "work") /\ "work" \in Steps
  BY DEF StartItem, Steps
<1>3. PICK e \in Entry : Put(r, e) /\ e.state = "running" /\ e.done = call[r].at
  <2>1. call[r].size \in 0..MaxItems /\ call[r].at \in 0..MaxItems
    BY <1>0 DEF TypeOK
  <2> QED
    BY <1>0, <2>1, UpdateFacts DEF StartItem, TerminalStates
<1>4. r \in Known' /\ registry'[r] = e
  BY <1>0, <1>3, PutFacts DEF Terminal, TerminalStates
<1>5. r \in Known /\ r \in Known' => registry'[r].done >= registry[r].done
  BY <1>0, <1>1, <1>3, <1>4 DEF RunOK, EntryOK, Busy, TypeOK, Entry
<1>6. RunOK(r)'
  <2>1. EntryOK(r)'
    BY <1>0, <1>1, <1>2, <1>3, <1>4, GotoFacts DEF EntryOK, Announced, Busy, TypeOK
  <2> QED
    BY <1>0, <1>1, <1>2, <2>1, GotoFacts DEF RunOK, CallOK, ClientOK, Going
<1>7. faults' \in 0..MaxFaults
  BY <1>0, <1>1 DEF TypeOK
<1> QED
  BY <1>0, <1>1, <1>2, <1>3, <1>5, <1>6, <1>7, GotoFacts, RowFacts, StepKeeps

LEMMA CompleteItemKeeps ==
  ASSUME IInv, NEW r \in Runs, CompleteItem(r)
  PROVE  IInv' /\ Forward /\ Changed
<1>0. TypeOK /\ RunOK(r)
  BY DEF IInv
<1>1. call[r].pc = "work" /\ UNCHANGED <<history, queue, client, clock, faults>>
  BY DEF CompleteItem, At, Keeping
<1>2. /\ call[r].at + 1 \in 0..MaxItems /\ call[r].size \in 0..MaxItems
      /\ call[r].at + 1 <= call[r].size /\ call[r].at \in Nat
  BY <1>0, <1>1, ConstantsAssumption DEF ConstantsAssumption, RunOK, CallOK, TypeOK
<1>3. /\ call' \in [Runs -> Calls] /\ \A q \in Runs \ {r} : call'[q] = call[q]
      /\ call'[r].pc = "item" /\ call'[r].at = call[r].at + 1 /\ call'[r].size = call[r].size
      /\ call'[r].pool = call[r].pool
  BY <1>0, <1>2 DEF CompleteItem, TypeOK, Calls, Steps
<1>4. r \in Known /\ registry[r].state = "running" /\ registry[r].done <= call[r].at
  BY <1>0, <1>1 DEF RunOK, EntryOK, Announced, Busy
<1>5. PICK e \in Entry : Put(r, e) /\ e.state = "running" /\ e.done = call[r].at + 1
  BY <1>0, <1>2, <1>4, UpdateFacts DEF CompleteItem, TerminalStates
<1>6. r \in Known' /\ registry'[r] = e
  BY <1>0, <1>5, PutFacts DEF Terminal, TerminalStates
<1>7. registry'[r].done >= registry[r].done
  BY <1>0, <1>2, <1>4, <1>5, <1>6 DEF TypeOK, Entry
<1>8. RunOK(r)'
  <2>1. EntryOK(r)'
    BY <1>1, <1>2, <1>3, <1>5, <1>6 DEF EntryOK, Announced, Busy
  <2> QED
    BY <1>0, <1>1, <1>3, <2>1 DEF RunOK, CallOK, ClientOK, Going
<1>9. faults' \in 0..MaxFaults
  BY <1>0, <1>1 DEF TypeOK
<1> QED
  BY <1>0, <1>1, <1>3, <1>5, <1>7, <1>8, <1>9, RowFacts, StepKeeps

LEMMA EndRunKeeps ==
  ASSUME IInv, NEW r \in Runs, EndRun(r)
  PROVE  IInv' /\ Forward /\ Changed
<1>0. TypeOK /\ RunOK(r)
  BY DEF IInv
<1>1. /\ call[r].pc = "item" /\ Known' = Known
      /\ UNCHANGED <<registry, queue, client, clock, faults>>
  BY DEF EndRun, At, Keeping, Known
<1>2. Goto(r, "report") /\ "report" \in Steps
  BY DEF EndRun, Steps
<1>3. PICK h \in TerminalStates : history' = [history EXCEPT ![r] = h]
  BY DEF EndRun
<1>4. h \in RowStates /\ history'[r] = h
  BY <1>0, <1>3 DEF TypeOK, RowStates
<1>5. r \in Known /\ registry[r].state = "running" /\ registry[r].done \in 0..MaxItems
  BY <1>0, <1>1 DEF RunOK, EntryOK, Announced, Busy, TypeOK, Entry
<1>6. RunOK(r)'
  <2>1. EntryOK(r)'
    BY <1>0, <1>1, <1>2, <1>5, GotoFacts DEF RunOK, EntryOK, Announced, Busy
  <2>2. client[r] # "not_found"
    BY <1>0, <1>1 DEF RunOK, ClientOK, Going
  <2> QED
    BY <1>0, <1>1, <1>2, <1>4, <2>1, <2>2, GotoFacts DEF RunOK, CallOK, ClientOK, Going
<1>7. faults' \in 0..MaxFaults
  BY <1>0, <1>1 DEF TypeOK
<1>8. r \in Known /\ r \in Known' => registry'[r].done >= registry[r].done
  BY <1>1, <1>5
<1> QED
  BY <1>0, <1>1, <1>2, <1>3, <1>4, <1>6, <1>7, <1>8, GotoFacts, RowFacts, StepKeeps

LEMMA ReportKeeps ==
  ASSUME IInv, NEW r \in Runs, Report(r)
  PROVE  IInv' /\ Forward /\ Changed
<1>0. TypeOK /\ RunOK(r)
  BY DEF IInv
<1>1. call[r].pc = "report" /\ UNCHANGED <<history, queue, client, clock, faults>>
  BY DEF Report, At, Keeping
<1>2. Goto(r, "plan") /\ "plan" \in Steps
  BY DEF Report, Steps
<1>3. /\ r \in Known /\ registry[r].total \in 0..MaxItems /\ history[r] \in TerminalStates
      /\ registry[r].done \in Nat /\ call[r].at \in 0..MaxItems
      /\ registry[r].done <= call[r].at
  BY <1>0, <1>1 DEF RunOK, EntryOK, CallOK, Announced, Busy, TypeOK, Entry
<1>4. PICK e \in Entry : Put(r, e) /\ e.state = history[r] /\ e.done = call[r].at
  BY <1>0, <1>3, UpdateFacts DEF Report
<1>5. r \in Known' => registry'[r] = e
  BY <1>0, <1>4, PutFacts
<1>6. RunOK(r)'
  <2>1. EntryOK(r)'
    BY <1>1, <1>0, <1>2, <1>4, <1>5, GotoFacts DEF EntryOK, Announced, Busy
  <2> QED
    BY <1>0, <1>1, <1>2, <2>1, GotoFacts DEF RunOK, CallOK, ClientOK, Going
<1>7. faults' \in 0..MaxFaults
  BY <1>0, <1>1 DEF TypeOK
<1> QED
  BY <1>0, <1>1, <1>2, <1>3, <1>4, <1>5, <1>6, <1>7, GotoFacts, RowFacts, StepKeeps

LEMMA EndCallKeeps ==
  ASSUME IInv, NEW r \in Runs, EndCall(r)
  PROVE  IInv' /\ Forward /\ Changed
<1>0. TypeOK /\ RunOK(r)
  BY DEF IInv
<1>1. /\ call[r].pc = "plan" /\ Known' = Known
      /\ UNCHANGED <<registry, history, queue, client, clock, faults>>
  BY DEF EndCall, At, Keeping, Known
<1>2. Goto(r, "ended") /\ "ended" \in Steps
  BY DEF EndCall, Steps
<1>3. RunOK(r)'
  <2>1. EntryOK(r)'
    BY <1>0, <1>1, <1>2, GotoFacts DEF RunOK, EntryOK, Announced, Busy
  <2> QED
    BY <1>0, <1>1, <1>2, <2>1, GotoFacts DEF RunOK, CallOK, ClientOK, Going
<1>4. faults' \in 0..MaxFaults
  BY <1>0, <1>1 DEF TypeOK
<1>5. r \in Known /\ r \in Known' => registry'[r].done >= registry[r].done
  BY <1>0, <1>1 DEF TypeOK, Entry
<1> QED
  BY <1>0, <1>1, <1>2, <1>3, <1>4, <1>5, GotoFacts, RowFacts, StepKeeps

LEMMA RaiseKeeps ==
  ASSUME IInv, NEW r \in Runs, Raise(r)
  PROVE  IInv' /\ Forward /\ Changed
<1>0. TypeOK /\ RunOK(r)
  BY DEF IInv
<1>1. call[r].pc = "raise" /\ UNCHANGED <<history, queue, client, clock, faults>>
  BY DEF Raise, At, Keeping
<1>2. Goto(r, "ended") /\ "ended" \in Steps
  BY DEF Raise, Steps
<1>3. UNCHANGED registry \/ \E e \in Entry : Put(r, e)
  BY <1>0, FailFacts DEF Raise
<1>4. r \in Known /\ r \in Known' => registry'[r].done >= registry[r].done
  BY <1>0, FailFacts DEF Raise, TypeOK, Entry
<1>5. r \in Known' /\ registry'[r].state = "success" => r \in Known /\ registry' = registry
  BY <1>0, FailFacts DEF Raise, Known
<1>6. RunOK(r)'
  <2>1. EntryOK(r)'
    BY <1>0, <1>1, <1>2, <1>5, GotoFacts DEF RunOK, EntryOK, Announced, Busy
  <2> QED
    BY <1>0, <1>1, <1>2, <2>1, GotoFacts DEF RunOK, CallOK, ClientOK, Going
<1>7. faults' \in 0..MaxFaults
  BY <1>0, <1>1 DEF TypeOK
<1> QED
  BY <1>0, <1>1, <1>2, <1>3, <1>4, <1>6, <1>7, GotoFacts, RowFacts, StepKeeps

LEMMA WriteFailsKeeps ==
  ASSUME IInv, NEW r \in Runs, WriteFails(r)
  PROVE  IInv' /\ Forward /\ Changed
<1>0. TypeOK /\ RunOK(r)
  BY DEF IInv
<1>1. /\ call[r].pc \in {"create", "work", "plan", "item"} /\ Known' = Known
      /\ UNCHANGED <<registry, history, queue, client, clock>>
  BY DEF WriteFails, At, Known
<1>2. Goto(r, "raise") /\ "raise" \in Steps
  BY DEF WriteFails, Steps
<1>3. RunOK(r)'
  <2>1. EntryOK(r)'
    BY <1>0, <1>1, <1>2, GotoFacts DEF RunOK, EntryOK, Announced, Busy
  <2> QED
    BY <1>0, <1>1, <1>2, <2>1, GotoFacts DEF RunOK, CallOK, ClientOK, Going
<1>4. faults' \in 0..MaxFaults
  BY <1>0, ConstantsAssumption DEF ConstantsAssumption, WriteFails, TypeOK
<1>5. r \in Known /\ r \in Known' => registry'[r].done >= registry[r].done
  BY <1>0, <1>1 DEF TypeOK, Entry
<1> QED
  BY <1>0, <1>1, <1>2, <1>3, <1>4, <1>5, GotoFacts, RowFacts, StepKeeps

-----------------------------------------------------------------------------
(* Requests, the pool, the clients and the clock. *)

LEMMA SubmitKeeps ==
  ASSUME IInv, NEW r \in Runs, Submit(r)
  PROVE  IInv' /\ Forward /\ Changed
<1>0. TypeOK /\ QueueOK /\ RunOK(r)
  BY DEF IInv
<1>1. /\ call[r].pc = "new" /\ queue' = Append(queue, r)
      /\ client' = [client EXCEPT ![r] = "polling"]
      /\ UNCHANGED <<history, clock, faults>>
  BY DEF Submit, At
<1>2. PICK n \in 1..MaxItems :
        /\ call' = [call EXCEPT ![r] = [pc |-> "queued", size |-> n, at |-> 0, pool |-> TRUE]]
        /\ Put(r, [state |-> "running", total |-> n, done |-> 0, at |-> -1])
  BY DEF Submit
<1> DEFINE e == [state |-> "running", total |-> n, done |-> 0, at |-> -1]
<1>3. e \in Entry /\ Put(r, e)
  BY <1>2, ConstantsAssumption DEF ConstantsAssumption, Entry
<1>4. r \in Known' /\ registry'[r] = e /\ r \notin Known
  BY <1>0, <1>1, <1>3, PutFacts DEF Terminal, TerminalStates, RunOK, EntryOK
<1>5. call'[r] = [pc |-> "queued", size |-> n, at |-> 0, pool |-> TRUE]
  BY <1>0, <1>2 DEF TypeOK
<1>6. \A q \in Runs \ {r} : /\ call'[q] = call[q] /\ history'[q] = history[q]
                             /\ client'[q] = client[q]
  BY <1>0, <1>1, <1>2 DEF TypeOK
<1>7. TypeOK'
  <2>1. Known' \subseteq Runs /\ registry' \in [Known' -> Entry]
    BY <1>0, <1>3, PutFacts DEF TypeOK, Known
  <2>2. call' \in [Runs -> Calls]
    BY <1>0, <1>2, ConstantsAssumption DEF ConstantsAssumption, TypeOK, Calls, Steps
  <2>3. queue' \in Seq(Runs)
    BY <1>0, <1>1, AppendProperties DEF TypeOK
  <2>4. client' \in [Runs -> {"none", "polling", "told", "not_found"}]
    BY <1>0, <1>1 DEF TypeOK
  <2> QED
    BY <1>0, <1>1, <2>1, <2>2, <2>3, <2>4 DEF TypeOK, Calls
<1>8. QueueOK'
  <2>1. \A i \in 1..Len(queue) : queue[i] \in Runs \ {r} /\ call[queue[i]].pc = "queued"
    BY <1>0, <1>1 DEF QueueOK, TypeOK
  <2>2. /\ Len(queue) \in Nat /\ Len(queue') = Len(queue) + 1
        /\ \A i \in 1..Len(queue) : queue'[i] = queue[i]
        /\ queue'[Len(queue) + 1] = r
    BY <1>0, <1>1, AppendProperties, LenProperties DEF TypeOK
  <2>3. \A i \in 1..Len(queue') : i \in 1..Len(queue) \/ i = Len(queue) + 1
    BY <2>2
  <2>4. \A i \in 1..Len(queue') : call'[queue'[i]].pc = "queued"
    BY <1>5, <1>6, <2>1, <2>2, <2>3
  <2>5. \A i, j \in 1..Len(queue') : i # j => queue'[i] # queue'[j]
    BY <1>0, <2>1, <2>2, <2>3 DEF QueueOK
  <2> QED
    BY <2>4, <2>5 DEF QueueOK
<1>9. RunOK(r)'
  <2>1. client'[r] = "polling"
    BY <1>0, <1>1 DEF TypeOK
  <2> QED
    BY <1>4, <1>5, <2>1 DEF RunOK, EntryOK, CallOK, ClientOK, Announced, Busy, Going
<1>10. Forward
  <2> SUFFICES ASSUME NEW q \in Known, q \in Known'
               PROVE registry'[q].done >= registry[q].done
    BY DEF Forward, Known
  <2>1. q # r /\ registry[q].done \in Nat
    BY <1>0, <1>4 DEF TypeOK, Entry
  <2>2. registry'[q] = registry[q]
    BY <1>0, <1>3, <2>1, PutFacts
  <2> QED
    BY <2>1, <2>2
<1> QED
  BY <1>3, <1>6, <1>7, <1>8, <1>9, <1>10, OthersKept DEF IInv, Changed

\* A step that leaves the registry and its sizes alone takes nothing back.
LEMMA SameForward ==
  ASSUME TypeOK, UNCHANGED registry
  PROVE  Forward
BY DEF TypeOK, Entry, Forward, Known

LEMMA ExecuteKeeps ==
  ASSUME IInv, NEW r \in Runs, Execute(r)
  PROVE  IInv' /\ Forward /\ Changed
<1>0. TypeOK /\ RunOK(r)
  BY DEF IInv
<1>1. /\ call[r].pc = "new" /\ Known' = Known
      /\ UNCHANGED <<registry, queue, history, client, clock, faults>>
  BY DEF Execute, At, Known
<1>2. PICK n \in 1..MaxItems :
        call' = [call EXCEPT ![r] = [pc |-> "start", size |-> n, at |-> 0, pool |-> FALSE]]
  BY DEF Execute
<1>3. call'[r] = [pc |-> "start", size |-> n, at |-> 0, pool |-> FALSE]
  BY <1>0, <1>2 DEF TypeOK
<1>4. /\ call' \in [Runs -> Calls]
      /\ \A q \in Runs \ {r} : call'[q] = call[q]
  BY <1>0, <1>2, ConstantsAssumption DEF ConstantsAssumption, TypeOK, Calls, Steps
<1>5. RunOK(r)'
  BY <1>0, <1>1, <1>3 DEF RunOK, EntryOK, CallOK, ClientOK, Announced, Busy, Going
<1>6. faults' \in 0..MaxFaults
  BY <1>0, <1>1 DEF TypeOK
<1>7. r \in Known /\ r \in Known' => registry'[r].done >= registry[r].done
  BY <1>0, <1>1 DEF TypeOK, Entry
<1> QED
  BY <1>0, <1>1, <1>4, <1>5, <1>6, <1>7, RowFacts, StepKeeps

LEMMA TakeKeeps ==
  ASSUME IInv, Take
  PROVE  IInv' /\ Forward /\ Changed
<1>0. TypeOK /\ QueueOK
  BY DEF IInv
<1>1. /\ queue # <<>> /\ queue' = Tail(queue) /\ Goto(Head(queue), "start")
      /\ Known' = Known
      /\ UNCHANGED <<registry, history, client, clock, faults>>
  BY DEF Take, Known
<1>2. /\ Len(queue) \in Nat \ {0} /\ Head(queue) = queue[1] /\ Head(queue) \in Runs
      /\ queue' \in Seq(Runs) /\ Len(queue') = Len(queue) - 1
      /\ \A i \in 1..Len(queue') : queue'[i] = queue[i + 1]
  BY <1>0, <1>1, HeadTailProperties, LenProperties, EmptySeq DEF TypeOK
<1> PICK r \in Runs : r = Head(queue)
  BY <1>2
<1>3. call[r].pc = "queued" /\ RunOK(r)
  BY <1>0, <1>2 DEF QueueOK, IInv
<1>4. /\ call' \in [Runs -> Calls] /\ \A q \in Runs \ {r} : call'[q] = call[q]
      /\ call'[r].pc = "start" /\ call'[r].pool = call[r].pool
      /\ call'[r].size = call[r].size /\ call'[r].at = call[r].at
  BY <1>0, <1>1, <1>2, GotoFacts DEF Steps
<1>5. TypeOK'
  BY <1>0, <1>1, <1>2, <1>4 DEF TypeOK, Calls
<1>6. QueueOK'
  <2>1. \A i \in 1..Len(queue') : i + 1 \in 1..Len(queue) /\ i + 1 # 1
    BY <1>2
  <2>2. \A i \in 1..Len(queue') : queue[i + 1] \in Runs /\ queue[i + 1] # queue[1]
    <3>1. 1 \in 1..Len(queue)
      BY <1>2
    <3>2. \A i \in 1..Len(queue) : i # 1 => queue[i] # queue[1]
      BY <1>0, <3>1 DEF QueueOK
    <3>3. \A i \in 1..Len(queue) : queue[i] \in Runs
      BY <1>0 DEF TypeOK
    <3> QED
      BY <2>1, <3>2, <3>3
  <2>3. \A i \in 1..Len(queue') : call'[queue'[i]].pc = "queued"
    BY <1>0, <1>2, <1>4, <2>1, <2>2 DEF QueueOK
  <2>4. \A i, j \in 1..Len(queue') : i # j => queue'[i] # queue'[j]
    BY <1>0, <1>2, <2>1 DEF QueueOK
  <2> QED
    BY <2>3, <2>4 DEF QueueOK
<1>7. RunOK(r)'
  BY <1>1, <1>3, <1>4 DEF RunOK, EntryOK, CallOK, ClientOK, Announced, Busy, Going
<1>8. \A q \in Runs : RunOK(q)'
  BY <1>1, <1>2, <1>4, <1>7, OthersKept
<1> QED
  BY <1>0, <1>1, <1>5, <1>6, <1>8, SameForward DEF IInv, Changed

LEMMA PollKeeps ==
  ASSUME IInv, NEW r \in Runs, Poll(r)
  PROVE  IInv' /\ Forward /\ Changed
<1>0. TypeOK /\ QueueOK /\ RunOK(r)
  BY DEF IInv
<1>1. /\ client[r] = "polling" /\ client' = [client EXCEPT ![r] = Answer(r)]
      /\ Known' = Known
      /\ UNCHANGED <<registry, call, queue, history, clock, faults>>
  BY DEF Poll, Known
<1>2. client'[r] = Answer(r) /\ \A q \in Runs \ {r} : client'[q] = client[q]
  BY <1>0, <1>1 DEF TypeOK
<1>3. TypeOK'
  BY <1>0, <1>1 DEF TypeOK, Answer
<1>4. QueueOK'
  BY <1>0, <1>1 DEF QueueOK
<1>5. call[r].pool /\ call[r].pc # "new"
  BY <1>0, <1>1 DEF RunOK, ClientOK
<1>6. r \notin Known \/ Terminal(registry[r]) => call[r].pc \notin Going
  BY <1>0, <1>5 DEF RunOK, EntryOK, Announced, Busy, Going, Terminal, TerminalStates
<1>7. RunOK(r)'
  <2>1. ClientOK(r)'
    BY <1>1, <1>2, <1>5, <1>6 DEF ClientOK, Answer
  <2> QED
    BY <1>0, <1>1, <2>1 DEF RunOK, EntryOK, CallOK, Announced
<1>8. \A q \in Runs : RunOK(q)'
  BY <1>1, <1>2, <1>7, OthersKept
<1> QED
  BY <1>0, <1>1, <1>3, <1>4, <1>8, SameForward DEF IInv, Changed

\* RunOK does not speak of the clock, nor of the faults that have happened.
LEMMA TickKeeps ==
  ASSUME IInv, Tick \/ UNCHANGED vars
  PROVE  IInv' /\ Forward /\ Changed
<1>0. TypeOK /\ QueueOK
  BY DEF IInv
<1>1. Known' = Known /\ UNCHANGED <<registry, call, queue, history, client, faults>>
  BY DEF Tick, vars, Known
<1>2. clock' \in 0..MaxClock
  BY <1>0, ConstantsAssumption DEF ConstantsAssumption, Tick, vars, TypeOK
<1>3. TypeOK' /\ QueueOK'
  BY <1>0, <1>1, <1>2 DEF TypeOK, QueueOK
<1>4. \A q \in Runs : RunOK(q)'
  BY <1>1 DEF IInv, RunOK, EntryOK, CallOK, ClientOK, Announced
<1> QED
  BY <1>0, <1>1, <1>3, <1>4, SameForward DEF IInv, Changed

-----------------------------------------------------------------------------
LEMMA InitIInv == Init => IInv
<1> SUFFICES ASSUME Init PROVE IInv
  OBVIOUS
<1> USE DEF Init
<1>1. Known = {} /\ registry \in [Known -> Entry]
  BY DEF Known
<1>2. TypeOK
  BY <1>1, ConstantsAssumption DEF ConstantsAssumption, TypeOK, Steps
<1>3. QueueOK
  BY DEF QueueOK
<1>4. \A r \in Runs : RunOK(r)
  BY <1>1 DEF RunOK, EntryOK, CallOK, ClientOK, Announced, Busy
<1> QED
  BY <1>2, <1>3, <1>4 DEF IInv

LEMMA NextKeeps == IInv /\ [Next]_vars => IInv' /\ Forward /\ Changed
<1> SUFFICES ASSUME IInv, [Next]_vars PROVE IInv' /\ Forward /\ Changed
  OBVIOUS
<1>1. CASE Tick \/ UNCHANGED vars
  BY <1>1, TickKeeps
<1>2. CASE Take
  BY <1>2, TakeKeeps
<1>3. ASSUME NEW r \in Runs, Submit(r) \/ Execute(r) \/ WriteFails(r) \/ Poll(r)
      PROVE IInv' /\ Forward /\ Changed
  BY <1>3, SubmitKeeps, ExecuteKeeps, WriteFailsKeeps, PollKeeps
<1>4. ASSUME NEW r \in Runs, Step(r) PROVE IInv' /\ Forward /\ Changed
  BY <1>4, ValidateFailsKeeps, RestartKeeps, CreateRunKeeps, StartItemKeeps,
     CompleteItemKeeps, EndRunKeeps, ReportKeeps, EndCallKeeps, RaiseKeeps DEF Step
<1> QED
  BY <1>1, <1>2, <1>3, <1>4 DEF Next

LEMMA Inductive == Spec => []IInv
<1>1. IInv /\ [Next]_vars => IInv'
  BY NextKeeps
<1> QED
  BY InitIInv, <1>1, PTL DEF Spec

-----------------------------------------------------------------------------
(* Pruning: entries are ranked by the number of ended ones that come before them, *)
(* and those of a rank below the surplus go.                                      *)

\* Of n things with n different ranks below n, at least k have a rank below k.
LEMMA LowRanks ==
  ASSUME NEW S, IsFiniteSet(S), NEW rank \in [S -> Nat],
         \A x \in S : rank[x] < Cardinality(S),
         \A x, y \in S : x # y => rank[x] # rank[y],
         NEW k \in 0..Cardinality(S)
  PROVE  Cardinality({x \in S : rank[x] < k}) >= k
<1> DEFINE n == Cardinality(S)
           Low == {x \in S : rank[x] < k}
           High == S \ Low
           high == [x \in High |-> rank[x]]
<1>1. n \in Nat /\ k \in Nat /\ k <= n
  BY FS_CardinalityType
<1>2. /\ IsFiniteSet(Low) /\ IsFiniteSet(High) /\ S \cap Low = Low
      /\ Cardinality(Low) \in Nat /\ Cardinality(High) \in Nat
      /\ Cardinality(High) = n - Cardinality(Low)
  <2>1. IsFiniteSet(Low) /\ S \cap Low = Low
    BY FS_Subset
  <2> QED
    BY <2>1, FS_Difference, FS_CardinalityType
<1>3. IsFiniteSet(k..n-1) /\ Cardinality(k..n-1) = n - k
  <2> HIDE DEF n
  <2>1. k \in Int /\ n - 1 \in Int
    BY <1>1
  <2>2. /\ IsFiniteSet(k..n-1)
        /\ Cardinality(k..n-1) = IF k > n - 1 THEN 0 ELSE n - 1 - k + 1
    BY <2>1, FS_Interval
  <2> QED
    BY <1>1, <2>2
<1>4. high \in [High -> k..n-1]
  BY <1>1
<1>5. Cardinality(High) <= n - k
  <2> SUFFICES ASSUME Cardinality(k..n-1) < Cardinality(High) PROVE FALSE
    BY <1>1, <1>2, <1>3
  <2>1. \E x, y \in High : x # y /\ high[x] = high[y]
    <3> HIDE DEF high, High, n
    <3> QED
      BY <1>2, <1>3, <1>4, FS_PigeonHole
  <2> QED
    BY <2>1
<1> QED
  BY <1>1, <1>2, <1>5

\* What is left after a prune is within the limit, or has not ended.
LEMMA PrunedIsBounded ==
  ASSUME NEW dom \in SUBSET Runs, NEW reg \in [dom -> Entry],
         Cardinality(dom \ Surplus(reg)) > MaxEntries,
         NEW r \in dom \ Surplus(reg)
  PROVE  ~Terminal(reg[r])
<1> DEFINE over == Cardinality(dom) - MaxEntries
           ended == {q \in dom : Terminal(reg[q])}
           earlier(x) == {q \in ended : \/ reg[q].at < reg[x].at
                                        \/ reg[q].at = reg[x].at /\ q < x}
           rank == [x \in ended |-> Cardinality(earlier(x))]
<1>1. /\ MaxEntries \in Nat /\ Runs \subseteq Nat /\ DOMAIN reg = dom
      /\ \A q \in dom : reg[q].at \in Int
  BY ConstantsAssumption DEF ConstantsAssumption, Entry
<1>2. /\ IsFiniteSet(dom) /\ IsFiniteSet(ended)
      /\ Cardinality(dom) \in Nat /\ Cardinality(ended) \in Nat
  BY ConstantsAssumption, FS_Subset, FS_CardinalityType DEF ConstantsAssumption
<1>3. Surplus(reg) = {x \in ended : Cardinality(earlier(x)) < over}
  BY <1>1 DEF Surplus
<1>4. \A x \in ended : /\ IsFiniteSet(earlier(x)) /\ Cardinality(earlier(x)) \in Nat
                       /\ Cardinality(earlier(x)) < Cardinality(ended)
  <2> SUFFICES ASSUME NEW x \in ended
               PROVE  /\ IsFiniteSet(earlier(x)) /\ Cardinality(earlier(x)) \in Nat
                      /\ Cardinality(earlier(x)) < Cardinality(ended)
    OBVIOUS
  <2>1. x \notin earlier(x) /\ earlier(x) \in SUBSET ended
    BY <1>1
  <2> HIDE DEF earlier
  <2>2. /\ IsFiniteSet(earlier(x)) /\ Cardinality(earlier(x)) \in Nat
        /\ Cardinality(earlier(x)) <= Cardinality(ended)
        /\ Cardinality(ended) = Cardinality(earlier(x)) => ended = earlier(x)
    BY <1>2, <2>1, FS_Subset, FS_CardinalityType
  <2> QED
    BY <1>2, <2>1, <2>2
<1>5. \A x, y \in ended : x # y => rank[x] # rank[y]
  <2>1. ASSUME NEW x \in ended, NEW y \in ended,
               reg[x].at < reg[y].at \/ (reg[x].at = reg[y].at /\ x < y)
        PROVE  rank[x] < rank[y]
    <3>1. x \in earlier(y) /\ x \notin earlier(x)
      BY <1>1, <2>1
    <3>2. earlier(x) \in SUBSET earlier(y)
      <4> SUFFICES ASSUME NEW q \in ended,
                          reg[q].at < reg[x].at \/ (reg[q].at = reg[x].at /\ q < x)
                   PROVE  reg[q].at < reg[y].at \/ (reg[q].at = reg[y].at /\ q < y)
        OBVIOUS
      <4>1. /\ q \in Nat /\ x \in Nat /\ y \in Nat
            /\ reg[q].at \in Int /\ reg[x].at \in Int /\ reg[y].at \in Int
        BY <1>1
      <4> QED
        BY <2>1, <4>1
    <3>3. rank[x] = Cardinality(earlier(x)) /\ rank[y] = Cardinality(earlier(y))
      OBVIOUS
    <3> HIDE DEF earlier, rank, ended
    <3>4. /\ Cardinality(earlier(x)) <= Cardinality(earlier(y))
          /\ Cardinality(earlier(y)) = Cardinality(earlier(x)) => earlier(y) = earlier(x)
      BY <1>4, <2>1, <3>2, FS_Subset
    <3>5. Cardinality(earlier(x)) \in Nat /\ Cardinality(earlier(y)) \in Nat
      BY <1>4, <2>1
    <3> QED
      BY <3>1, <3>3, <3>4, <3>5
  <2>2. \A x, y \in ended : x # y =>
          \/ reg[x].at < reg[y].at \/ (reg[x].at = reg[y].at /\ x < y)
          \/ reg[y].at < reg[x].at \/ (reg[y].at = reg[x].at /\ y < x)
    BY <1>1
  <2>3. \A x \in ended : rank[x] \in Nat
    BY <1>4
  <2> HIDE DEF rank, ended
  <2> QED
    BY <2>1, <2>2, <2>3
<1>6. Surplus(reg) \in SUBSET dom /\ IsFiniteSet(Surplus(reg))
      /\ dom \cap Surplus(reg) = Surplus(reg) /\ Cardinality(Surplus(reg)) \in Nat
  <2>1. Surplus(reg) \in SUBSET dom
    BY <1>3
  <2> QED
    BY <1>2, <2>1, FS_Subset, FS_CardinalityType
<1>7. Cardinality(dom \ Surplus(reg)) = Cardinality(dom) - Cardinality(Surplus(reg))
  BY <1>2, <1>6, FS_Difference
<1>8. over > 0
  BY <1>1, <1>2, <1>6, <1>7
<1>9. over > Cardinality(ended)
  <2> SUFFICES ASSUME over <= Cardinality(ended) PROVE FALSE
    BY <1>1, <1>2
  <2>1. over \in 0..Cardinality(ended)
    BY <1>1, <1>2, <1>8
  <2>2. rank \in [ended -> Nat] /\ \A x \in ended : rank[x] < Cardinality(ended)
    BY <1>4
  <2>3. Surplus(reg) = {x \in ended : rank[x] < over}
    BY <1>3
  <2> HIDE DEF rank, ended, over
  <2>4. Cardinality({x \in ended : rank[x] < over}) >= over
    BY <1>2, <1>5, <2>1, <2>2, LowRanks
  <2> QED
    BY <1>1, <1>2, <1>6, <1>7, <2>3, <2>4 DEF over
<1>10. \A x \in ended : x \in Surplus(reg)
  <2> SUFFICES ASSUME NEW x \in ended PROVE Cardinality(earlier(x)) < over
    BY <1>3
  <2>1. /\ Cardinality(earlier(x)) \in Nat /\ over \in Int
        /\ Cardinality(earlier(x)) < Cardinality(ended)
    BY <1>1, <1>2, <1>4
  <2> HIDE DEF earlier, ended, over
  <2> QED
    BY <1>2, <1>9, <2>1
<1> QED
  BY <1>10

LEMMA BoundedKeeps == IInv /\ Bounded /\ Changed => Bounded'
<1> SUFFICES ASSUME IInv, Bounded, Changed PROVE Bounded'
  OBVIOUS
<1>1. CASE UNCHANGED registry
  BY <1>1 DEF Bounded, Known
<1>2. CASE \E r \in Runs, e \in Entry : Put(r, e)
  <2> PICK r \in Runs, e \in Entry : Put(r, e)
    BY <1>2
  <2> DEFINE dom == Known \cup {r}
             reg == [q \in dom |-> IF q = r THEN e ELSE registry[q]]
  <2>1. dom \in SUBSET Runs /\ reg \in [dom -> Entry]
    BY DEF IInv, TypeOK
  <2>2. registry' = [q \in dom \ Surplus(reg) |-> reg[q]]
    BY DEF Put, Pruned
  <2> HIDE DEF reg, dom
  <2>3. Known' = dom \ Surplus(reg) /\ \A q \in Known' : registry'[q] = reg[q]
    BY <2>2 DEF Known
  <2> QED
    BY <2>1, <2>3, PrunedIsBounded DEF Bounded
<1> QED
  BY <1>1, <1>2 DEF Changed

-----------------------------------------------------------------------------
(* The registry, the calls, the queue, the rows and the clients stay what the
   declarations of execution_progress.py and app.py say they are. *)
THEOREM TypeCorrect == Spec => []TypeOK
<1>1. IInv => TypeOK
  BY DEF IInv
<1> QED
  BY <1>1, Inductive, PTL

(* Whatever limit is set, a run that has been announced stays in the registry as
   running until its call has ended, however many runs are pruned around it, and
   what keeps the registry above its limit has not ended either
   (execution_progress.py:43-52). *)
THEOREM PruningStaysFair == Spec => []PruningIsFair
<1>1. IInv => RunningIsKnown
  BY DEF IInv, RunOK, EntryOK, Announced, Busy, Going, RunningIsKnown, Terminal, TerminalStates
<1>2. Init => Bounded
  <2>1. Init => Known = {}
    BY DEF Init, Known
  <2> QED
    BY <2>1 DEF Bounded
<1>3. IInv /\ Bounded /\ [Next]_vars => Bounded'
  BY NextKeeps, BoundedKeeps
<1>4. RunningIsKnown /\ Bounded => PruningIsFair
  BY DEF PruningIsFair
<1> QED
  BY <1>1, <1>2, <1>3, <1>4, Inductive, PTL DEF Spec

(* What api_run_progress last told a client is true: the run is over and in the
   history, or nobody knows it. *)
THEOREM AnswersStayTrue == Spec => []AnswersAreTrue
<1>1. IInv => AnswersAreTrue
  <2> SUFFICES ASSUME IInv PROVE AnswersAreTrue
    OBVIOUS
  <2>1. Known \subseteq Runs /\ \A r \in Runs : RunOK(r)
    BY DEF IInv, TypeOK
  <2> QED
    BY <2>1 DEF RunOK, EntryOK, ClientOK, AnswersAreTrue, ToldWhenOver,
                FoundWhenRecorded, HistoryFirst
<1> QED
  BY <1>1, Inductive, PTL

(* No step takes back an item that the bar has counted: not a second start of the
   same run, not its failure, not the pruning of others. *)
THEOREM BarOnlyGrows == Spec => NeverBack
<1>1. IInv /\ [Next]_vars => [Forward]_vars
  BY NextKeeps
<1>2. [Forward]_vars
      => [\A r \in Known \cap DOMAIN registry' : registry'[r].done >= registry[r].done]_vars
  BY DEF Forward
<1> QED
  BY <1>1, <1>2, Inductive, PTL DEF Spec, NeverBack

=============================================================================
