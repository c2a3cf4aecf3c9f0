------------------------------ MODULE PlanReview ------------------------------
(***************************************************************************)
(* A plan between the preview and the run: planner.py, validators.py, the  *)
(* plan rows of repository.py, validate_execute_request of executor.py,    *)
(* the AI suggestions of llm_review.py, and the page of app.js that shows  *)
(* the plan.                                                               *)
(*                                                                         *)
(* Every operation reads the whole plan, changes its copy and saves the    *)
(* whole plan; the read and the save are two transactions, and requests    *)
(* run on threads of their own. The files are those of one folder. The     *)
(* hash of a list of items is the list itself.                             *)
(***************************************************************************)
EXTENDS Integers, FiniteSets

CONSTANTS
  N,           \* number of items
  Kind,        \* Kind[i]: what the scan and the rules make of item i
  Orig, Rule,  \* Orig[i]: name of the file; Rule[i]: name the rules suggest
  Ai,          \* Ai[i]: name the model suggests
  EditNames,   \* names the user types
  Slots,       \* requests the server works on at once
  Overlap,     \* whether the page sends a request while it waits for another one
  MaxTasks,    \* bound: requests
  MaxTouches   \* bound: changes made by other programs

Items == 1..N
Kinds == {"video", "unsure", "sidecar", "junk", "large", "unknown"}
Names == EditNames \cup {Orig[i] : i \in Items} \cup {Rule[i] : i \in Items} \cup {Ai[i] : i \in Items}
Quarantined == "(quarantine)"

ASSUME ConstantsAssumption ==
  /\ N \in Nat \ {0} /\ Kind \in [Items -> Kinds]
  /\ {Orig, Rule, Ai} \subseteq [Items -> Names]
  /\ \A i, j \in Items : Orig[i] = Orig[j] => i = j
  /\ Quarantined \notin Names
  /\ Overlap \in BOOLEAN /\ MaxTasks \in Nat /\ MaxTouches \in Nat

VARIABLES
  plan,      \* the stored plan: its items and plan_hash
  sugg,      \* status of the AI suggestion of each item
  req,       \* the requests the server works on
  analysis,  \* api_analyze, from the rule plan to its answer
  page,      \* state.plan of app.js, and what it is waiting for
  at, changed, strangers,  \* the folder: where each file is, which files were
                           \* changed, names that other programs have taken
  tasks, touches,
  asked,     \* ghost: items the user edited or selected by their id
  unseen     \* ghost: items an accepted suggestion has changed behind the page's back

folder == <<at, changed, strangers>>
ghosts == <<asked, unseen>>
vars == <<plan, sugg, req, analysis, page, folder, tasks, touches, ghosts>>

Executable == {"rename", "quarantine"}
Item == [op : {"keep", "rename", "quarantine", "review"}, target : Names,
         src : {"rule", "llm", "manual"}, review : BOOLEAN, issues : SUBSET {"source", "target", "duplicate"},
         selected : BOOLEAN, ai : {"none", "applied", "unused", "failed"}]
ItemList == [Items -> Item]
Task ==
  [kind : {"none"}] \cup [kind : {"edit"}, item : Items, name : EditNames]
    \cup [kind : {"select"}, mode : {"safe", "replace", "add", "remove"}, ids : SUBSET Items]
    \cup [kind : {"accept"}, item : Items, hash : ItemList]
    \cup [kind : {"refresh"}, hash : ItemList]
    \cup [kind : {"execute", "call"}, ids : SUBSET Items, hash : ItemList, shown : ItemList]
    \cup [kind : {"validate", "suggest", "reject"}, item : Items]
Request == [pc : {"idle", "hash", "read", "status", "save", "mark", "run", "answer", "refused"},
            task : Task, copy : ItemList, again : BOOLEAN, todo : SUBSET Items]

TypeOK ==
  /\ plan \in [items : ItemList, hash : ItemList]
  /\ sugg \in [Items -> {"none", "valid", "invalid", "stale", "accepted", "rejected"}]
  /\ req \in [Slots -> Request]
  /\ analysis \in [pc : {"await", "apply", "done"}, at : 1..(N + 1), items : ItemList]
  /\ page \in [open : BOOLEAN, items : ItemList, hash : ItemList,
               busy : SUBSET {"edit", "select", "validate", "refresh", "execute"}, summary : BOOLEAN, executed : BOOLEAN]
  /\ at \in [Items -> Names \cup {Quarantined}] /\ changed \subseteq Items /\ strangers \subseteq Names
  /\ tasks \in 0..MaxTasks /\ touches \in 0..MaxTouches /\ asked \subseteq Items /\ unseen \subseteq Items

-----------------------------------------------------------------------------
\* Validation. "source" stands for source_missing and source_changed, "target" for
\* target_exists, "duplicate" for duplicate_target; all of them block.

Present(i) == at[i] = Orig[i]
NameTaken(i, name) == name # Orig[i] /\ (name \in strangers \/ \E j \in Items : at[j] = name)

\* What validate_plan_items finds of one item alone.
OwnIssues(i, item) ==
  (IF item.op \in Executable /\ (~Present(i) \/ i \in changed) THEN {"source"} ELSE {})
    \cup (IF item.op = "rename" /\ NameTaken(i, item.target) THEN {"target"} ELSE {})

\* Variant: only selected items are compared.
Conflicts_Selected(i, items) ==
  IF /\ items[i].op \in Executable /\ items[i].selected
     /\ \E j \in Items \ {i} : items[j].op \in Executable /\ items[j].selected /\ items[j].target = items[i].target
  THEN {"duplicate"} ELSE {}

\* validate_conflicts: every executable item counts, selected or not.
Conflicts(i, items) ==
  IF /\ items[i].op \in Executable
     /\ \E j \in Items \ {i} : items[j].op \in Executable /\ items[j].target = items[i].target
  THEN {"duplicate"} ELSE {}

Issues(i, items) == OwnIssues(i, items[i]) \cup Conflicts(i, items)

\* Variant: the need for a review ends with the issue.
Validated_Forgets(items) ==
  [i \in Items |-> [items[i] EXCEPT !.issues = Issues(i, items),
                                    !.review = Issues(i, items) # {},
                                    !.selected = @ /\ Issues(i, items) = {}]]

\* validate_plan_items and decorate_plan_items: a blocked item loses its selection and
\* needs a review from then on.
Validated(items) ==
  [i \in Items |-> [items[i] EXCEPT !.issues = Issues(i, items),
                                    !.review = @ \/ Issues(i, items) # {},
                                    !.selected = @ /\ Issues(i, items) = {}]]

\* plan_item_from_scan
FromScan(i) ==
  LET renames == Kind[i] \in {"video", "unsure", "sidecar"} /\ Rule[i] # Orig[i]
      op == IF Kind[i] \in {"junk", "large"} THEN "quarantine"
            ELSE IF Kind[i] = "unknown" THEN "review" ELSE IF renames THEN "rename" ELSE "keep"
  IN [op |-> op, target |-> IF renames THEN Rule[i] ELSE Orig[i], src |-> "rule",
      review |-> Kind[i] \in {"unsure", "unknown"}, issues |-> {},
      selected |-> Kind[i] = "junk" \/ (Kind[i] = "video" /\ renames), ai |-> "none"]

-----------------------------------------------------------------------------
\* What each operation makes of its copy of the plan.

Edited(items, i, name) ==
  [items EXCEPT ![i] = [@ EXCEPT !.op = "rename", !.target = name, !.src = "manual",
                                 !.review = FALSE, !.selected = TRUE]]

\* Variant: subtitles are as safe as videos.
Safe_Sidecars(i, item) ==
  item.op \in Executable /\ item.issues = {} /\ ~item.review /\ ~(Kind[i] = "large" /\ item.op = "quarantine")

\* _is_safe_selectable
Safe(i, item) ==
  item.op \in Executable /\ item.issues = {} /\ ~item.review /\ Kind[i] # "sidecar"
    /\ ~(Kind[i] = "large" /\ item.op = "quarantine")

Locked(item) == item.issues # {} \/ item.review \/ item.op \notin Executable

\* next_selected of update_plan_selection
Selection(items, mode, ids) ==
  LET current == {i \in Items : items[i].selected}
  IN CASE mode = "safe" -> {i \in Items : Safe(i, items[i])}
       [] mode = "replace" -> ids
       [] mode = "add" -> current \cup ids
       [] mode = "remove" -> current \ ids

Selected(items, ids) == [i \in Items |-> [items[i] EXCEPT !.selected = i \in ids]]

\* _issues_for_suggestion, the parse of the name apart.
SuggestionFits(items, i) ==
  Issues(i, [items EXCEPT ![i].op = "rename", ![i].target = Ai[i]]) = {}

Accepted(items, i) ==
  [items EXCEPT ![i] = [@ EXCEPT !.op = "rename", !.target = Ai[i], !.src = "llm", !.review = FALSE]]

\* One turn of the loop of apply_llm_suggestions_to_preview.
Applied(items, i, valid) ==
  IF items[i].src = "manual" THEN [items EXCEPT ![i].ai = "unused"]
  ELSE IF valid /\ SuggestionFits(items, i)
       THEN [items EXCEPT ![i] = [@ EXCEPT !.target = Ai[i], !.src = "llm", !.ai = "applied"]]
       ELSE [items EXCEPT ![i].ai = "failed"]

\* ai_preview_item_ids
Eligible(items) ==
  {i \in Items : items[i].op = "rename" /\ items[i].issues = {} /\ Kind[i] # "sidecar" /\ items[i].src # "manual"}

\* Variant: the hash of the validated plan is not compared.
MayRun_FirstHash(task, items) == task.ids # {} /\ \A i \in task.ids : ~Locked(items[i])

\* validate_execute_request, after it has validated and saved the plan.
MayRun(task, items) ==
  /\ items = task.hash
  /\ task.ids # {} /\ \A i \in task.ids : ~Locked(items[i])

-----------------------------------------------------------------------------
\* Stands where there is no list of items.
Blank == [i \in Items |-> FromScan(i)]
Idle == [pc |-> "idle", task |-> [kind |-> "none"], copy |-> Blank, again |-> FALSE, todo |-> {}]
InFlight == {s \in Slots : req[s].pc # "idle"}

\* selectedExecutableItems
Chosen(items) == {i \in Items : items[i].selected /\ ~items[i].review /\ items[i].op \in Executable}

PageOf(items, hash) ==
  [open |-> TRUE, items |-> items, hash |-> hash, busy |-> {}, summary |-> FALSE, executed |-> FALSE]

\* create_plan and validate_stored_plan have saved the plan; with the AI preview
\* the answer waits for the model.
Init ==
  /\ at = Orig /\ changed = {} /\ strangers = {}
  /\ plan = LET items == Validated(Blank) IN [items |-> items, hash |-> items]
  /\ sugg = [i \in Items |-> "none"]
  /\ req = [s \in Slots |-> Idle]
  /\ \/ /\ analysis = [pc |-> "done", at |-> 1, items |-> Blank]
        /\ page = PageOf(plan.items, plan.hash)
     \/ /\ analysis = [pc |-> "await", at |-> 1, items |-> Blank]
        /\ page = [open |-> FALSE, items |-> Blank, hash |-> Blank, busy |-> {}, summary |-> FALSE, executed |-> FALSE]
  /\ tasks = 0 /\ touches = 0 /\ asked = {} /\ unseen = {}

-----------------------------------------------------------------------------
\* api_analyze.

\* The suggestions have arrived: the plan is read again, the loop begins.
BeginApply ==
  /\ analysis.pc = "await" /\ Eligible(plan.items) # {}
  /\ analysis' = [pc |-> "apply", at |-> 1, items |-> plan.items]
  /\ UNCHANGED <<plan, sugg, req, page, folder, tasks, touches, ghosts>>

\* Variant: the loop passes the last item.
ApplyNext_PastEnd ==
  /\ analysis.pc = "apply"
  /\ LET i == analysis.at IN
       IF i \in Eligible(plan.items)
       THEN \E valid \in BOOLEAN :
              /\ analysis' = [analysis EXCEPT !.at = i + 1, !.items = Applied(@, i, valid)]
              /\ sugg' = [sugg EXCEPT ![i] = IF valid THEN "valid" ELSE "invalid"]
       ELSE analysis' = [analysis EXCEPT !.at = i + 1] /\ UNCHANGED sugg
  /\ UNCHANGED <<plan, req, page, folder, tasks, touches, ghosts>>

ApplyNext ==
  /\ analysis.pc = "apply" /\ analysis.at <= N
  /\ LET i == analysis.at IN
       IF i \in Eligible(plan.items)
       THEN \E valid \in BOOLEAN :
              /\ analysis' = [analysis EXCEPT !.at = i + 1, !.items = Applied(@, i, valid)]
              /\ sugg' = [sugg EXCEPT ![i] = IF valid THEN "valid" ELSE "invalid"]
       ELSE analysis' = [analysis EXCEPT !.at = i + 1] /\ UNCHANGED sugg
  /\ UNCHANGED <<plan, req, page, folder, tasks, touches, ghosts>>

Show(items, hash) ==
  /\ plan' = [items |-> items, hash |-> hash]
  /\ page' = PageOf(items, hash)
  /\ analysis' = [pc |-> "done", at |-> 1, items |-> Blank]
  /\ UNCHANGED <<sugg, req, folder, tasks, touches, ghosts>>

EndApply ==
  /\ analysis.pc = "apply" /\ analysis.at = N + 1
  /\ LET items == Validated(analysis.items) IN Show(items, items)

\* mark_ai_preview_fallback keeps the hash it has read. Where no item is eligible,
\* mark_ai_preview_no_eligible_items saves what it has read.
Fallback ==
  /\ analysis.pc = "await"
  /\ Show([i \in Items |-> IF i \in Eligible(plan.items) THEN [plan.items[i] EXCEPT !.ai = "failed"]
                           ELSE plan.items[i]],
          plan.hash)

-----------------------------------------------------------------------------
\* The page, and scripts that use the suggestion endpoints.

Send(task, pc) ==
  /\ tasks < MaxTasks /\ tasks' = tasks + 1
  /\ InFlight # Slots
  /\ Overlap \/ task.kind = "suggest" \/ \A s \in InFlight : req[s].task.kind = "suggest"
  /\ LET s == CHOOSE s \in Slots \ InFlight : TRUE
     IN req' = [req EXCEPT ![s] = [Idle EXCEPT !.pc = pc, !.task = task]]
  /\ UNCHANGED <<plan, sugg, analysis, folder, touches, unseen>>

\* saveManualEdit: the other rows stay editable while the request runs.
EditRow(i, name) ==
  /\ page.open /\ page.items[i].op \notin {"quarantine", "keep"} /\ name # page.items[i].target
  /\ \A s \in InFlight : ~(req[s].task.kind = "edit" /\ req[s].task.item = i)
  /\ Send([kind |-> "edit", item |-> i, name |-> name], "read")
  /\ page' = [page EXCEPT !.busy = @ \cup {"edit"}, !.summary = FALSE]
  /\ asked' = asked \cup {i}

UpdateSelection(mode, ids) ==
  /\ page.open /\ "select" \notin page.busy
  /\ Send([kind |-> "select", mode |-> mode, ids |-> ids], "read")
  /\ page' = [page EXCEPT !.busy = @ \cup {"select"}, !.summary = FALSE]
  /\ asked' = IF mode \in {"replace", "add"} THEN asked \cup ids ELSE asked

Validating == page.busy \cap {"validate", "refresh"} # {}

ValidatePlan ==
  /\ page.open /\ ~Validating
  /\ Send([kind |-> "validate", item |-> 1], "read")
  /\ page' = [page EXCEPT !.busy = @ \cup {"validate"}]
  /\ UNCHANGED asked

\* refreshCurrentPlan; the hash is the one the server reads first.
RefreshPlan ==
  /\ page.open /\ ~Validating
  /\ Send([kind |-> "refresh", hash |-> Blank], "hash")
  /\ page' = [page EXCEPT !.busy = @ \cup {"refresh"}]
  /\ UNCHANGED asked

\* showExecutionSummary, answered by build_execution_summary.
Summarise ==
  /\ page.open /\ page.busy = {} /\ ~page.executed /\ ~page.summary
  /\ Chosen(page.items) # {} /\ \A i \in Chosen(page.items) : page.items[i].issues = {}
  /\ page.hash = plan.hash
  /\ \A i \in Chosen(page.items) : ~Locked(plan.items[i])
  /\ page' = [page EXCEPT !.summary = TRUE]
  /\ UNCHANGED <<plan, sugg, req, analysis, folder, tasks, touches, ghosts>>

\* confirmExecuteSelected
Confirm ==
  /\ page.open /\ page.busy = {} /\ ~page.executed /\ page.summary
  /\ Send([kind |-> "execute", ids |-> Chosen(page.items), hash |-> page.hash, shown |-> page.items], "hash")
  /\ page' = [page EXCEPT !.busy = {"execute"}]
  /\ UNCHANGED asked

\* The execute endpoint, called with all ids of the plan: it is checked once.
CallExecute ==
  /\ page.open
  /\ Send([kind |-> "call", ids |-> Items, hash |-> plan.hash, shown |-> plan.items], "hash")
  /\ UNCHANGED <<page, ghosts>>

\* The endpoints llm/suggest, accept and reject.
CallSuggestions(i) ==
  /\ page.open
  /\ \/ sugg[i] = "none" /\ Send([kind |-> "suggest", item |-> i], "read")
     \/ sugg[i] # "none" /\ Send([kind |-> "accept", item |-> i, hash |-> plan.hash], "hash")
     \/ sugg[i] # "none" /\ Send([kind |-> "reject", item |-> i], "read")
  /\ UNCHANGED <<page, ghosts>>

-----------------------------------------------------------------------------
\* The server.

At(s, pc) == req[s].pc = pc
Kept == UNCHANGED <<analysis, page, tasks, touches, ghosts>>
\* An answer is on its way to the page; the calls of scripts end here.
Reply(request, pc) ==
  IF request.task.kind \in {"edit", "select", "validate", "refresh", "execute"} THEN [request EXCEPT !.pc = pc] ELSE Idle
Finish(s) == req' = [req EXCEPT ![s] = Reply(@, "answer")]
Refuse(s) == req' = [req EXCEPT ![s] = Reply(@, "refused")]

\* get_plan reads the row of the plan first, and its items in a second transaction.
CheckHash(s) ==
  /\ At(s, "hash")
  /\ IF req[s].task.kind = "refresh" THEN req' = [req EXCEPT ![s].task.hash = plan.hash, ![s].pc = "read"]
     ELSE IF req[s].task.hash = plan.hash THEN req' = [req EXCEPT ![s].pc = "read"] ELSE Refuse(s)
  /\ UNCHANGED <<plan, sugg, folder>> /\ Kept

Read(s) ==
  /\ At(s, "read")
  /\ req' = [req EXCEPT ![s].copy = plan.items,
                        ![s].pc = CASE req[s].task.kind = "accept" -> "status"
                                    [] req[s].task.kind = "refresh" -> "answer"
                                    [] OTHER -> "save"]
  /\ UNCHANGED <<plan, sugg, folder>> /\ Kept

Store(s, items, pc) ==
  /\ plan' = [items |-> items, hash |-> items]
  /\ req' = [req EXCEPT ![s].copy = items, ![s].pc = pc]

SaveEdit(s) ==
  /\ At(s, "save") /\ req[s].task.kind = "edit"
  /\ Store(s, Validated(Edited(req[s].copy, req[s].task.item, req[s].task.name)), "mark")
  /\ UNCHANGED <<sugg, folder>> /\ Kept

\* Variant: locked items are not refused.
SaveSelection_Any(s) ==
  /\ At(s, "save") /\ req[s].task.kind = "select"
  /\ Store(s, Selected(req[s].copy, Selection(req[s].copy, req[s].task.mode, req[s].task.ids)), "answer")
  /\ UNCHANGED <<sugg, folder>> /\ Kept

SaveSelection(s) ==
  /\ At(s, "save") /\ req[s].task.kind = "select"
  /\ LET next == Selection(req[s].copy, req[s].task.mode, req[s].task.ids)
     IN IF \E i \in next : Locked(req[s].copy[i])
        THEN Refuse(s) /\ UNCHANGED plan
        ELSE Store(s, Selected(req[s].copy, next), "answer")
  /\ UNCHANGED <<sugg, folder>> /\ Kept

SaveValidation(s) ==
  /\ At(s, "save") /\ req[s].task.kind = "validate"
  /\ Store(s, Validated(req[s].copy), "answer")
  /\ UNCHANGED <<sugg, folder>> /\ Kept

\* Variant: staleness alone is trusted.
CheckStatus_StaleOnly(s) ==
  /\ At(s, "status")
  /\ IF sugg[req[s].task.item] = "stale" THEN Refuse(s) ELSE req' = [req EXCEPT ![s].pc = "save"]
  /\ UNCHANGED <<plan, sugg, folder>> /\ Kept

\* accept_llm_suggestion looks the suggestion up after the plan.
CheckStatus(s) ==
  /\ At(s, "status")
  /\ LET i == req[s].task.item IN
       IF sugg[i] = "stale" \/ req[s].copy[i].src = "manual" THEN Refuse(s)
       ELSE req' = [req EXCEPT ![s].pc = "save"]
  /\ UNCHANGED <<plan, sugg, folder>> /\ Kept

SaveAccepted(s) ==
  /\ At(s, "save") /\ req[s].task.kind = "accept"
  /\ LET i == req[s].task.item IN
       IF SuggestionFits(req[s].copy, i)
       THEN Store(s, Validated(Accepted(req[s].copy, i)), "mark") /\ unseen' = unseen \cup {i}
       ELSE Refuse(s) /\ UNCHANGED <<plan, unseen>>
  /\ UNCHANGED <<sugg, folder, analysis, page, tasks, touches, asked>>

\* mark_llm_suggestions_stale; an accepted suggestion is excepted.
MarkSuggestions(s) ==
  /\ At(s, "mark")
  /\ LET i == req[s].task.item IN
       sugg' = [sugg EXCEPT ![i] = IF req[s].task.kind = "accept" THEN "accepted"
                                   ELSE IF @ \in {"valid", "invalid"} THEN "stale" ELSE @]
  /\ Finish(s)
  /\ UNCHANGED <<plan, folder>> /\ Kept

\* The suggestion is judged and stored after the wait for the model.
SaveSuggestion(s) ==
  /\ At(s, "save") /\ req[s].task.kind \in {"suggest", "reject"}
  /\ LET i == req[s].task.item IN
       IF req[s].task.kind = "reject" THEN sugg' = [sugg EXCEPT ![i] = "rejected"]
       ELSE \E status \in (IF SuggestionFits(req[s].copy, i) THEN {"valid", "invalid"} ELSE {"invalid"}) :
              sugg' = [sugg EXCEPT ![i] = status]
  /\ Finish(s)
  /\ UNCHANGED <<plan, folder>> /\ Kept

\* The second half of validate_execute_request; it runs when execute/start arrives and
\* again when the pool takes the run up.
CheckRun(s) ==
  /\ At(s, "save") /\ req[s].task.kind \in {"execute", "call"}
  /\ LET items == Validated(req[s].copy)
         second == req[s].again \/ req[s].task.kind = "call"
     IN /\ plan' = [items |-> items, hash |-> items]
        /\ req' = [req EXCEPT ![s] =
             IF ~MayRun(req[s].task, items) THEN Reply([@ EXCEPT !.copy = items], "refused")
             ELSE IF second THEN [@ EXCEPT !.copy = items, !.pc = "run", !.todo = req[s].task.ids]
             ELSE [@ EXCEPT !.copy = Blank, !.pc = "hash", !.again = TRUE]]
  /\ UNCHANGED <<sugg, folder>> /\ Kept

\* One turn of the loop of execute_plan_by_id; RunLedger has its steps.
RunItem(s) ==
  /\ At(s, "run") /\ req[s].todo # {}
  /\ \E i \in req[s].todo :
       /\ \A j \in req[s].todo : i <= j
       /\ req' = [req EXCEPT ![s].todo = @ \ {i}]
       /\ LET item == req[s].copy[i]
          IN at' = IF OwnIssues(i, item) # {} THEN at
                   ELSE [at EXCEPT ![i] = IF item.op = "rename" THEN item.target ELSE Quarantined]
  /\ UNCHANGED <<plan, sugg, changed, strangers>> /\ Kept

EndRun(s) ==
  /\ At(s, "run") /\ req[s].todo = {}
  /\ Finish(s)
  /\ UNCHANGED <<plan, sugg, folder>> /\ Kept

\* Variant: the answer to an edit brings the hash and the conflicting items only.
Shown_Conflicts(task, items) ==
  CASE task.kind = "edit" ->
         [page EXCEPT !.items = [j \in Items |-> IF j # task.item /\ items[j].target = items[task.item].target
                                                 THEN items[j] ELSE @[j]],
                      !.hash = items, !.busy = @ \ {"edit"}, !.summary = FALSE]
    [] task.kind = "select" -> [page EXCEPT !.items = items, !.hash = items, !.busy = @ \ {"select"}, !.summary = FALSE]
    [] task.kind = "validate" ->
         [page EXCEPT !.items = items, !.hash = items, !.busy = @ \ {"validate"}, !.summary = FALSE, !.executed = FALSE]
    [] task.kind = "refresh" ->
         [page EXCEPT !.items = items, !.hash = task.hash, !.busy = @ \ {"refresh"}, !.summary = FALSE, !.executed = FALSE]
    [] task.kind = "execute" -> [page EXCEPT !.busy = @ \ {"execute"}, !.summary = FALSE, !.executed = TRUE]

\* What the page does with an answer: an edit brings the item and the items with the
\* same target, a selection or a validation brings all items. A refresh is taken to show
\* a plan that may be executed again, which the state of the plan may forbid.
Shown(task, items) ==
  CASE task.kind = "edit" ->
         [page EXCEPT !.items = [j \in Items |-> IF items[j].target = items[task.item].target THEN items[j] ELSE @[j]],
                      !.hash = items, !.busy = @ \ {"edit"}, !.summary = FALSE]
    [] task.kind = "select" -> [page EXCEPT !.items = items, !.hash = items, !.busy = @ \ {"select"}, !.summary = FALSE]
    [] task.kind = "validate" ->
         [page EXCEPT !.items = items, !.hash = items, !.busy = @ \ {"validate"}, !.summary = FALSE, !.executed = FALSE]
    [] task.kind = "refresh" ->
         [page EXCEPT !.items = items, !.hash = task.hash, !.busy = @ \ {"refresh"}, !.summary = FALSE, !.executed = FALSE]
    [] task.kind = "execute" -> [page EXCEPT !.busy = @ \ {"execute"}, !.summary = FALSE, !.executed = TRUE]

Answer(s) ==
  /\ At(s, "answer")
  /\ page' = Shown(req[s].task, req[s].copy)
  /\ unseen' = {i \in unseen : page'.items[i] # req[s].copy[i]}
  /\ req' = [req EXCEPT ![s] = Idle]
  /\ UNCHANGED <<plan, sugg, analysis, folder, tasks, touches, asked>>

AnswerRefused(s) ==
  /\ At(s, "refused")
  /\ page' = [page EXCEPT !.busy = @ \ {req[s].task.kind}]
  /\ req' = [req EXCEPT ![s] = Idle]
  /\ UNCHANGED <<plan, sugg, analysis, folder, tasks, touches, ghosts>>

-----------------------------------------------------------------------------
\* Other programs.

Touch ==
  /\ touches < MaxTouches /\ touches' = touches + 1
  /\ \/ \E i \in Items : Present(i) /\ changed' = changed \cup {i} /\ UNCHANGED strangers
     \/ \E name \in Names : name \notin {at[i] : i \in Items} /\ strangers' = strangers \cup {name} /\ UNCHANGED changed
  /\ UNCHANGED <<plan, sugg, req, analysis, page, at, tasks, ghosts>>

PageStep ==
  \/ \E i \in Items : CallSuggestions(i) \/ \E name \in EditNames : EditRow(i, name)
  \/ UpdateSelection("safe", {}) \/ UpdateSelection("replace", {})
  \/ \E i \in Items : UpdateSelection("add", {i}) \/ UpdateSelection("remove", {i})
  \/ ValidatePlan \/ RefreshPlan \/ Summarise \/ Confirm \/ CallExecute

ServerStep(s) ==
  \/ CheckHash(s) \/ Read(s) \/ CheckStatus(s)
  \/ SaveEdit(s) \/ SaveSelection(s) \/ SaveValidation(s) \/ SaveAccepted(s) \/ SaveSuggestion(s) \/ CheckRun(s)
  \/ MarkSuggestions(s) \/ RunItem(s) \/ EndRun(s) \/ Answer(s) \/ AnswerRefused(s)

AnalysisStep == BeginApply \/ ApplyNext \/ EndApply \/ Fallback

Next == AnalysisStep \/ PageStep \/ Touch \/ \E s \in Slots : ServerStep(s)

Spec == Init /\ [][Next]_vars

-----------------------------------------------------------------------------
(* A selected item of the stored plan can be executed: no lost, torn or stale write of
   any operation leaves a blocked, an unreviewed or a kept file selected. *)
SelectedIsExecutable == \A i \in Items : plan.items[i].selected => ~Locked(plan.items[i])

(* A subtitle, or a large unfinished download to be quarantined, is selected only after
   the user has edited it or selected it by its id: neither the preview nor
   "select safe items" takes it along. *)
SelectedByUser ==
  \A i \in Items : /\ plan.items[i].selected
                   /\ Kind[i] = "sidecar" \/ (Kind[i] = "large" /\ plan.items[i].op = "quarantine")
                   => i \in asked

Running == {s \in Slots : req[s].pc = "run"}

(* A run executes the items that its plan_hash stands for, whatever was saved and
   whatever happened to the files since the hash was given out (README.md:79). *)
RunIsConfirmed ==
  \A s \in Running : \A i \in req[s].task.ids :
    /\ req[s].copy[i].op = req[s].task.hash[i].op
    /\ req[s].copy[i].target = req[s].task.hash[i].target

(* A run gives no two files the same name, though the rows it was asked to execute need
   not be the ones the plan has selected. *)
RunTargetsDistinct ==
  \A s \in Running : \A i, j \in req[s].task.ids : i # j => req[s].copy[i].target # req[s].copy[j].target

(* What is executed was confirmed, and can be executed without a clash. *)
RunIsSound == RunIsConfirmed /\ RunTargetsDistinct

(* A run does what the page showed when it was confirmed (README.md:53, 62). The page gets
   only some of the items with the answer to an edit, and a hash of all of them: this
   holds only while it sends one request at a time, and not of an item that a script has
   given a suggested name, until an answer brings that item to the page. *)
RunIsPreviewed ==
  \A s \in Running : \A i \in req[s].task.ids \ unseen :
    /\ req[s].copy[i].op = req[s].task.shown[i].op
    /\ req[s].copy[i].target = req[s].task.shown[i].target

(* A name the user has typed is never replaced by a suggestion, not even by one that was
   asked for before the edit and came after it (README.md:224). *)
ManualStays == [][\A i \in Items : plan.items[i].src = "manual" => plan'.items[i].src = "manual"]_vars

(* An item that was blocked once stays out of runs until the user names it: only an edit or
   an accepted suggestion of the item itself takes the mark away. *)
ReviewStays ==
  [][\A i \in Items : plan.items[i].review /\ ~plan'.items[i].review =>
       \E s \in InFlight : req[s].task.kind \in {"edit", "accept"} /\ req[s].task.item = i]_vars

(* What the user or the rules have decided of an item outlives the saves of the whole plan. *)
UserWorkStays == ManualStays /\ ReviewStays

==============================================================================
