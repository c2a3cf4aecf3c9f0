-------------------------- MODULE PlanReviewProofs --------------------------
(***************************************************************************)
(* Proofs about PlanReview: types, what the stored plan has selected, and  *)
(* what a run executes, for every folder, every number of requests at once *)
(* and every order in which they read and save the plan.                   *)
(***************************************************************************)
EXTENDS PlanReview, TLAPS

-----------------------------------------------------------------------------
\* Lists of items.

\* A selected item of a copy needs no review and can be executed; it may be blocked, as
\* long as the copy has not been validated.
Ready(items) == \A i \in Items : items[i].selected => ~items[i].review /\ items[i].op \in Executable

Good(items) == \A i \in Items : items[i].selected => ~Locked(items[i])

(* What the constants are, in the form the other proofs use. *)
LEMMA ConstantTypes ==
  /\ N \in Nat \ {0} /\ EditNames \subseteq Names
  /\ \A i \in Items : Orig[i] \in Names /\ Rule[i] \in Names /\ Ai[i] \in Names
BY ConstantsAssumption DEF Names

(* What validation finds is a set of issues. *)
LEMMA IssuesType ==
  ASSUME NEW items \in ItemList, NEW i \in Items
  PROVE  Issues(i, items) \in SUBSET {"source", "target", "duplicate"}
BY DEF Issues, OwnIssues, Conflicts

(* Validation makes a list of items of a list of items. *)
LEMMA ValidatedType ==
  ASSUME NEW items \in ItemList
  PROVE  Validated(items) \in ItemList
<1>1. ASSUME NEW i \in Items
      PROVE  [items[i] EXCEPT !.issues = Issues(i, items),
                              !.review = items[i].review \/ Issues(i, items) # {},
                              !.selected = items[i].selected /\ Issues(i, items) = {}] \in Item
  <2>1. items[i] \in Item
    BY DEF ItemList
  <2>2. Issues(i, items) \in SUBSET {"source", "target", "duplicate"}
    BY IssuesType
  <2> QED
    BY <2>1, <2>2 DEF Item
<1> QED
  BY <1>1 DEF Validated, ItemList

(* What validation leaves selected can be executed (validate_plan_items). *)
LEMMA ValidatedGood ==
  ASSUME NEW items \in ItemList, Ready(items)
  PROVE  Good(Validated(items))
<1> SUFFICES ASSUME NEW i \in Items, Validated(items)[i].selected
             PROVE  ~Locked(Validated(items)[i])
  BY DEF Good
<1>1. items[i] \in Item
  BY DEF ItemList
<1>2. /\ Validated(items)[i].issues = Issues(i, items)
      /\ Validated(items)[i].review = (items[i].review \/ Issues(i, items) # {})
      /\ Validated(items)[i].selected = (items[i].selected /\ Issues(i, items) = {})
      /\ Validated(items)[i].op = items[i].op
  BY <1>1 DEF Validated, Item
<1> QED
  BY <1>2 DEF Locked, Ready

(* One item of a list may be replaced. *)
LEMMA ItemReplaced ==
  ASSUME NEW items \in ItemList, NEW i \in Items, NEW item \in Item
  PROVE  /\ [items EXCEPT ![i] = item] \in ItemList
         /\ Ready(items) /\ (item.selected => ~item.review /\ item.op \in Executable)
              => Ready([items EXCEPT ![i] = item])
BY DEF ItemList, Ready

(* An edit, an accepted and an applied suggestion keep the types and what Ready says. *)
LEMMA EditedReady ==
  ASSUME NEW items \in ItemList, NEW i \in Items, NEW name \in Names
  PROVE  Edited(items, i, name) \in ItemList /\ (Ready(items) => Ready(Edited(items, i, name)))
<1> DEFINE item == [items[i] EXCEPT !.op = "rename", !.target = name, !.src = "manual",
                                    !.review = FALSE, !.selected = TRUE]
<1>1. items[i] \in Item
  BY DEF ItemList
<1>2. item \in Item /\ ~item.review /\ item.op \in Executable
  BY <1>1 DEF Item, Executable
<1>3. Edited(items, i, name) = [items EXCEPT ![i] = item]
  BY DEF Edited
<1> HIDE DEF item
<1> QED
  BY <1>2, <1>3, ItemReplaced

LEMMA AcceptedReady ==
  ASSUME NEW items \in ItemList, NEW i \in Items
  PROVE  Accepted(items, i) \in ItemList /\ (Ready(items) => Ready(Accepted(items, i)))
<1> DEFINE item == [items[i] EXCEPT !.op = "rename", !.target = Ai[i], !.src = "llm", !.review = FALSE]
<1>1. items[i] \in Item /\ Ai[i] \in Names
  BY ConstantTypes DEF ItemList
<1>2. item \in Item /\ ~item.review /\ item.op \in Executable
  BY <1>1 DEF Item, Executable
<1>3. Accepted(items, i) = [items EXCEPT ![i] = item]
  BY DEF Accepted
<1> HIDE DEF item
<1> QED
  BY <1>2, <1>3, ItemReplaced

LEMMA AppliedReady ==
  ASSUME NEW items \in ItemList, NEW i \in Items, NEW valid \in BOOLEAN
  PROVE  Applied(items, i, valid) \in ItemList /\ (Ready(items) => Ready(Applied(items, i, valid)))
<1>1. items[i] \in Item /\ Ai[i] \in Names
  BY ConstantTypes DEF ItemList
<1>2. ASSUME NEW item \in Item, item.op = items[i].op, item.review = items[i].review,
             item.selected = items[i].selected
      PROVE  /\ [items EXCEPT ![i] = item] \in ItemList
             /\ Ready(items) => Ready([items EXCEPT ![i] = item])
  BY <1>2, ItemReplaced DEF Ready
<1>3. CASE Applied(items, i, valid) = [items EXCEPT ![i].ai = "unused"]
  <2>1. [items[i] EXCEPT !.ai = "unused"] \in Item
    BY <1>1 DEF Item
  <2> QED
    BY ZenonT(40), <1>1, <1>2, <1>3, <2>1 DEF Item
<1>4. CASE Applied(items, i, valid) = [items EXCEPT ![i].ai = "failed"]
  <2>1. [items[i] EXCEPT !.ai = "failed"] \in Item
    BY <1>1 DEF Item
  <2> QED
    BY <1>1, <1>2, <1>4, <2>1 DEF Item
<1>5. CASE Applied(items, i, valid) =
           [items EXCEPT ![i] = [items[i] EXCEPT !.target = Ai[i], !.src = "llm", !.ai = "applied"]]
  <2>1. [items[i] EXCEPT !.target = Ai[i], !.src = "llm", !.ai = "applied"] \in Item
    BY <1>1 DEF Item
  <2> QED
    BY ZenonT(40), <1>1, <1>2, <1>5, <2>1 DEF Item
<1> QED
  BY <1>3, <1>4, <1>5 DEF Applied

(* A new selection without locked items can be executed (update_plan_selection). *)
LEMMA SelectedGood ==
  ASSUME NEW items \in ItemList, NEW ids \in SUBSET Items
  PROVE  /\ Selected(items, ids) \in ItemList
         /\ (\A i \in ids : ~Locked(items[i])) => Good(Selected(items, ids))
<1> DEFINE new(i) == [items[i] EXCEPT !.selected = i \in ids]
<1>1. ASSUME NEW i \in Items
      PROVE  /\ new(i) \in Item
             /\ new(i).selected => i \in ids
             /\ new(i).op = items[i].op /\ new(i).issues = items[i].issues /\ new(i).review = items[i].review
  <2>1. items[i] \in Item
    BY DEF ItemList
  <2>2. (i \in ids) \in BOOLEAN
    OBVIOUS
  <2> QED
    BY <2>1, <2>2 DEF Item
<1>2. Selected(items, ids) = [i \in Items |-> new(i)]
  BY DEF Selected
<1> HIDE DEF new
<1>3. Selected(items, ids) \in ItemList
  BY <1>1, <1>2 DEF ItemList
<1>4. ASSUME \A i \in ids : ~Locked(items[i]), NEW i \in Items, new(i).selected
      PROVE  ~Locked(new(i))
  BY <1>1, <1>4 DEF Locked
<1> QED
  BY <1>2, <1>3, <1>4 DEF Good

LEMMA SelectionType ==
  ASSUME NEW items \in ItemList, NEW ids \in SUBSET Items, NEW mode \in {"safe", "replace", "add", "remove"}
  PROVE  Selection(items, mode, ids) \in SUBSET Items
BY DEF Selection

(* The rules' list of items. *)
LEMMA BlankReady == Blank \in ItemList /\ Ready(Blank)
<1>1. ASSUME NEW i \in Items
      PROVE  /\ FromScan(i) \in Item
             /\ FromScan(i).selected => ~FromScan(i).review /\ FromScan(i).op \in Executable
  <2>1. Orig[i] \in Names /\ Rule[i] \in Names
    BY ConstantTypes
  <2>2. FromScan(i) \in Item
    BY <2>1 DEF FromScan, Item
  <2>3. FromScan(i).selected => ~FromScan(i).review /\ FromScan(i).op \in Executable
    BY DEF FromScan, Executable
  <2> QED
    BY <2>2, <2>3
<1> QED
  BY <1>1 DEF Blank, ItemList, Ready

LEMMA GoodReady ==
  ASSUME NEW items \in ItemList, Good(items)
  PROVE  Ready(items)
BY DEF Good, Ready, Locked

(* The fields of a request, by its kind. *)
LEMMA TaskFields ==
  ASSUME NEW task \in Task
  PROVE  /\ task.kind = "edit" => task.item \in Items /\ task.name \in EditNames
         /\ task.kind = "select" => task.ids \in SUBSET Items /\ task.mode \in {"safe", "replace", "add", "remove"}
         /\ task.kind = "accept" => task.item \in Items /\ task.hash \in ItemList
         /\ task.kind \in {"execute", "call"} =>
              task.ids \in SUBSET Items /\ task.hash \in ItemList /\ task.shown \in ItemList
         /\ task.kind \in {"validate", "suggest", "reject"} => task.item \in Items
         /\ task.kind = "refresh" => task = [kind |-> "refresh", hash |-> task.hash] /\ task.hash \in ItemList
BY DEF Task

(* A run that may start executes unlocked items, and no two of them under one name. *)
LEMMA MayRunDistinct ==
  ASSUME NEW items \in ItemList, NEW task \in Task, task.kind \in {"execute", "call"},
         MayRun(task, Validated(items))
  PROVE  /\ Validated(items) = task.hash
         /\ \A i, j \in task.ids : i # j => Validated(items)[i].target # Validated(items)[j].target
<1>1. Validated(items) = task.hash /\ \A i \in task.ids : ~Locked(Validated(items)[i])
  BY DEF MayRun
<1>2. task.ids \subseteq Items
  BY TaskFields
<1>3. ASSUME NEW i \in task.ids
      PROVE  items[i].op \in Executable /\ Conflicts(i, items) = {}
  <2>1. items[i] \in Item
    BY <1>2 DEF ItemList
  <2>2. Validated(items)[i].issues = Issues(i, items) /\ Validated(items)[i].op = items[i].op
    BY <2>1, <1>2 DEF Validated, Item
  <2> QED
    BY <1>1, <2>2 DEF Locked, Issues
<1>4. ASSUME NEW i \in task.ids
      PROVE  Validated(items)[i].target = items[i].target
  <2>1. items[i] \in Item
    BY <1>2 DEF ItemList
  <2> QED
    BY <2>1, <1>2 DEF Validated, Item
<1> QED
  BY <1>1, <1>2, <1>3, <1>4 DEF Conflicts

-----------------------------------------------------------------------------
\* Requests.

Answered == {"edit", "select", "validate", "refresh", "execute"}

\* What is true of a request at work: the copy it has read may become the stored plan;
\* a run has checked its copy against the hash; the page waits for what is answered.
Sound(r) ==
  /\ r.pc \in {"status", "save"} => Ready(r.copy)
  /\ r.pc = "run" => /\ r.task.kind \in {"execute", "call"}
                     /\ r.copy = r.task.hash
                     /\ \A i, j \in r.task.ids : i # j => r.copy[i].target # r.copy[j].target
  /\ r.pc = "answer" => r.task.kind \in Answered

(* One request is replaced, the others stay. *)
LEMMA RequestReplaced ==
  ASSUME NEW f \in [Slots -> Request], \A s \in Slots : Sound(f[s]),
         NEW s \in Slots, NEW r \in Request, Sound(r)
  PROVE  /\ [f EXCEPT ![s] = r] \in [Slots -> Request]
         /\ \A t \in Slots : Sound([f EXCEPT ![s] = r][t])
<1>1. \A t \in Slots : [f EXCEPT ![s] = r][t] = IF t = s THEN r ELSE f[t]
  OBVIOUS
<1> QED
  BY <1>1

(* A slot without a request. *)
LEMMA IdleSound == Idle \in Request /\ Sound(Idle)
BY BlankReady DEF Idle, Request, Task, Sound

(* A request goes on to a step of which Sound says nothing. *)
LEMMA StepSound ==
  ASSUME NEW r \in Request, NEW pc \in {"idle", "hash", "read", "mark", "refused"}
  PROVE  [r EXCEPT !.pc = pc] \in Request /\ Sound([r EXCEPT !.pc = pc])
BY DEF Request, Sound

(* An answer is on its way, or the slot is free again. *)
LEMMA ReplySound ==
  ASSUME NEW r \in Request, NEW pc \in {"answer", "refused"}
  PROVE  Reply(r, pc) \in Request /\ Sound(Reply(r, pc))
<1>1. CASE r.task.kind \in Answered
  <2>1. Reply(r, pc) = [r EXCEPT !.pc = pc]
    BY <1>1 DEF Reply, Answered
  <2>2. [r EXCEPT !.pc = pc] \in Request /\ [r EXCEPT !.pc = pc].pc = pc /\ [r EXCEPT !.pc = pc].task = r.task
    BY DEF Request
  <2> QED
    BY <1>1, <2>1, <2>2 DEF Sound
<1>2. CASE r.task.kind \notin Answered
  BY <1>2, IdleSound DEF Reply, Answered
<1> QED
  BY <1>1, <1>2

(* A request keeps the plan it has saved. *)
LEMMA CopySound ==
  ASSUME NEW r \in Request, NEW items \in ItemList, NEW pc \in {"mark", "answer"},
         pc = "answer" => r.task.kind \in Answered
  PROVE  [r EXCEPT !.copy = items, !.pc = pc] \in Request /\ Sound([r EXCEPT !.copy = items, !.pc = pc])
BY DEF Request, Sound

-----------------------------------------------------------------------------
\* The inductive invariant.

IInv ==
  /\ TypeOK
  /\ Good(plan.items)
  /\ analysis.pc = "apply" => Ready(analysis.items)
  /\ \A s \in Slots : Sound(req[s])

Page == [open : BOOLEAN, items : ItemList, hash : ItemList,
         busy : SUBSET {"edit", "select", "validate", "refresh", "execute"}, summary : BOOLEAN, executed : BOOLEAN]

(* The page of a plan, and the page after an answer, are pages. *)
LEMMA PageType ==
  ASSUME NEW items \in ItemList, NEW hash \in ItemList
  PROVE  PageOf(items, hash) \in Page
BY DEF PageOf, Page

LEMMA ShownType ==
  ASSUME page \in Page, NEW task \in Task, task.kind \in Answered, NEW items \in ItemList
  PROVE  Shown(task, items) \in Page
<1>1. CASE task.kind = "edit"
  <2>1. [j \in Items |-> IF items[j].target = items[task.item].target THEN items[j] ELSE page.items[j]] \in ItemList
    BY DEF Page, ItemList
  <2> QED
    BY <1>1, <2>1 DEF Shown, Page
<1>2. CASE task.kind = "select"
  BY <1>2 DEF Shown, Page
<1>3. CASE task.kind = "validate"
  BY <1>3 DEF Shown, Page
<1>4. CASE task.kind = "refresh"
  BY <1>4, TaskFields DEF Shown, Page
<1>5. CASE task.kind = "execute"
  BY <1>5 DEF Shown, Page
<1> QED
  BY <1>1, <1>2, <1>3, <1>4, <1>5 DEF Answered

LEMMA InitIInv == Init => IInv
<1> SUFFICES ASSUME Init PROVE IInv
  OBVIOUS
<1>1. Validated(Blank) \in ItemList /\ Good(Validated(Blank))
  BY BlankReady, ValidatedType, ValidatedGood
<1>2. plan = [items |-> Validated(Blank), hash |-> Validated(Blank)]
  BY DEF Init
<1>3. page \in Page
  <2>1. CASE page = PageOf(plan.items, plan.hash)
    BY <1>1, <1>2, <2>1, PageType
  <2>2. CASE page = [open |-> FALSE, items |-> Blank, hash |-> Blank, busy |-> {}, summary |-> FALSE, executed |-> FALSE]
    BY <2>2, BlankReady DEF Page
  <2> QED
    BY <2>1, <2>2 DEF Init
<1>4. req \in [Slots -> Request] /\ \A s \in Slots : Sound(req[s])
  BY IdleSound DEF Init
<1>5. analysis \in [pc : {"await", "apply", "done"}, at : 1..(N + 1), items : ItemList] /\ analysis.pc # "apply"
  BY BlankReady, ConstantTypes DEF Init
<1>6. at \in [Items -> Names \cup {Quarantined}]
  BY ConstantsAssumption DEF Init
<1> QED
  BY <1>1, <1>2, <1>3, <1>4, <1>5, <1>6, ConstantsAssumption DEF Init, IInv, TypeOK, Page

-----------------------------------------------------------------------------
\* The invariant is inductive. One lemma for each group of actions.

\* The other parts of TypeOK, by what they are about.
PlanType == plan \in [items : ItemList, hash : ItemList]
SuggType == sugg \in [Items -> {"none", "valid", "invalid", "stale", "accepted", "rejected"}]
AnalysisType == analysis \in [pc : {"await", "apply", "done"}, at : 1..(N + 1), items : ItemList]
FolderType == at \in [Items -> Names \cup {Quarantined}] /\ changed \subseteq Items /\ strangers \subseteq Names
BoundsType ==
  tasks \in 0..MaxTasks /\ touches \in 0..MaxTouches /\ asked \subseteq Items /\ unseen \subseteq Items
Requests == req \in [Slots -> Request] /\ \A s \in Slots : Sound(req[s])
Applying == AnalysisType /\ (analysis.pc = "apply" => Ready(analysis.items))
Stored == PlanType /\ Good(plan.items)

LEMMA Parts ==
  /\ IInv => Stored /\ SuggType /\ Requests /\ Applying /\ page \in Page /\ FolderType /\ BoundsType
  /\ Stored' /\ SuggType' /\ Requests' /\ Applying' /\ page' \in Page /\ FolderType' /\ BoundsType' => IInv'
BY DEF IInv, TypeOK, Stored, PlanType, SuggType, Requests, Applying, AnalysisType, Page, FolderType, BoundsType

(* Nothing that an action leaves alone loses its type. *)
LEMMA Unchanged ==
  /\ Stored /\ UNCHANGED plan => Stored'
  /\ SuggType /\ UNCHANGED sugg => SuggType'
  /\ Requests /\ UNCHANGED req => Requests'
  /\ Applying /\ UNCHANGED analysis => Applying'
  /\ page \in Page /\ UNCHANGED page => page' \in Page
  /\ FolderType /\ UNCHANGED folder => FolderType'
  /\ BoundsType /\ UNCHANGED <<tasks, touches, ghosts>> => BoundsType'
BY DEF Stored, PlanType, SuggType, Requests, Applying, AnalysisType, FolderType, BoundsType, folder, ghosts

(* api_analyze keeps the invariant. *)
LEMMA ShowIInv ==
  ASSUME IInv, NEW items \in ItemList, NEW hash \in ItemList, Good(items), Show(items, hash)
  PROVE  IInv'
<1>1. Stored'
  BY DEF Show, Stored, PlanType
<1>2. page' \in Page
  BY PageType DEF Show
<1>3. Applying'
  BY BlankReady, ConstantTypes DEF Show, Applying, AnalysisType
<1> QED
  BY <1>1, <1>2, <1>3, Parts, Unchanged DEF Show

LEMMA AnalysisIInv ==
  ASSUME IInv, AnalysisStep
  PROVE  IInv'
<1>p. Stored /\ SuggType /\ Requests /\ Applying /\ page \in Page /\ FolderType /\ BoundsType
  BY Parts
<1>i. plan.items \in ItemList /\ plan.hash \in ItemList /\ Good(plan.items) /\ Ready(plan.items)
  BY <1>p, GoodReady DEF Stored, PlanType
<1>1. CASE BeginApply
  <2>1. Applying'
    BY <1>1, <1>i, ConstantTypes DEF BeginApply, Applying, AnalysisType
  <2> QED
    BY <1>1, <1>p, <2>1, Parts, Unchanged DEF BeginApply
<1>2. CASE ApplyNext
  <2> DEFINE i == analysis.at
  <2>1. analysis.at \in 1..(N + 1) /\ analysis.at <= N /\ analysis.items \in ItemList /\ Ready(analysis.items)
    BY <1>2, <1>p DEF ApplyNext, Applying, AnalysisType
  <2>i. i \in Items /\ i + 1 \in 1..(N + 1)
    BY <2>1, ConstantTypes DEF Items
  <2>2. CASE i \in Eligible(plan.items)
    <3>1. PICK valid \in BOOLEAN :
            /\ analysis' = [analysis EXCEPT !.at = i + 1, !.items = Applied(analysis.items, i, valid)]
            /\ sugg' = [sugg EXCEPT ![i] = IF valid THEN "valid" ELSE "invalid"]
      BY <1>2, <2>2 DEF ApplyNext
    <3>2. Applied(analysis.items, i, valid) \in ItemList /\ Ready(Applied(analysis.items, i, valid))
      BY <2>1, <2>i, AppliedReady
    <3>3. Applying'
      BY <3>1, <3>2, <2>i, <1>p DEF Applying, AnalysisType
    <3>4. SuggType'
      BY <3>1, <1>p DEF SuggType
    <3> QED
      BY <1>2, <1>p, <3>3, <3>4, Parts, Unchanged DEF ApplyNext
  <2>3. CASE i \notin Eligible(plan.items)
    <3>1. analysis' = [analysis EXCEPT !.at = i + 1] /\ UNCHANGED sugg
      BY <1>2, <2>3 DEF ApplyNext
    <3>2. Applying'
      BY <3>1, <2>i, <1>p DEF Applying, AnalysisType
    <3> QED
      BY <1>2, <1>p, <3>1, <3>2, Parts, Unchanged DEF ApplyNext
  <2> QED
    BY <2>2, <2>3
<1>3. CASE EndApply
  <2>1. analysis.items \in ItemList /\ Ready(analysis.items)
    BY <1>3, <1>p DEF EndApply, Applying, AnalysisType
  <2> QED
    BY <1>3, <2>1, ValidatedType, ValidatedGood, ShowIInv DEF EndApply
<1>4. CASE Fallback
  <2> DEFINE items == [i \in Items |-> IF i \in Eligible(plan.items) THEN [plan.items[i] EXCEPT !.ai = "failed"]
                                       ELSE plan.items[i]]
  <2>1. ASSUME NEW i \in Items
        PROVE  /\ items[i] \in Item
               /\ items[i].selected = plan.items[i].selected /\ Locked(items[i]) = Locked(plan.items[i])
    <3>1. plan.items[i] \in Item
      BY <1>i DEF ItemList
    <3>2. LET new == [plan.items[i] EXCEPT !.ai = "failed"]
          IN  /\ new \in Item /\ new.selected = plan.items[i].selected
              /\ new.issues = plan.items[i].issues /\ new.review = plan.items[i].review /\ new.op = plan.items[i].op
      BY <3>1 DEF Item
    <3> QED
      BY <3>1, <3>2 DEF Locked
  <2>2. items \in ItemList
    BY <2>1 DEF ItemList
  <2>3. Good(items)
    BY <2>1, <1>i DEF Good
  <2>4. Show(items, plan.hash)
    BY <1>4 DEF Fallback
  <2> HIDE DEF items
  <2> QED
    BY <1>i, <2>2, <2>3, <2>4, ShowIInv
<1> QED
  BY <1>1, <1>2, <1>3, <1>4 DEF AnalysisStep

(* The page and the scripts keep it: they send requests that are well formed. *)
LEMMA SendIInv ==
  ASSUME IInv, NEW task \in Task, NEW pc \in {"hash", "read"}, Send(task, pc)
  PROVE  Stored' /\ SuggType' /\ Requests' /\ Applying' /\ FolderType' /\ (asked' \subseteq Items => BoundsType')
<1>p. Stored /\ SuggType /\ Requests /\ Applying /\ page \in Page /\ FolderType /\ BoundsType
  BY Parts
<1>1. [Idle EXCEPT !.pc = pc, !.task = task] \in Request /\ Sound([Idle EXCEPT !.pc = pc, !.task = task])
  BY BlankReady DEF Idle, Request, Sound
<1>2. PICK s : req' = [req EXCEPT ![s] = [Idle EXCEPT !.pc = pc, !.task = task]]
  BY DEF Send
<1>3. Requests'
  <2>1. CASE s \in Slots
    BY <1>p, <1>1, <1>2, <2>1, RequestReplaced DEF Requests
  <2>2. CASE s \notin Slots
    <3>1. req' = req
      BY <1>p, <1>2, <2>2 DEF Requests
    <3> QED
      BY <1>p, <3>1, Unchanged
  <2> QED
    BY <2>1, <2>2
<1>4. asked' \subseteq Items => BoundsType'
  BY <1>p, ConstantsAssumption DEF Send, BoundsType
<1> QED
  BY <1>p, <1>3, <1>4, Unchanged DEF Send

LEMMA PageIInv ==
  ASSUME IInv, PageStep
  PROVE  IInv'
<1>p. Stored /\ SuggType /\ Requests /\ Applying /\ page \in Page /\ FolderType /\ BoundsType
  BY Parts
<1>h. plan.items \in ItemList /\ plan.hash \in ItemList /\ page.items \in ItemList /\ page.hash \in ItemList
  BY <1>p DEF Stored, PlanType, Page
<1>b. ASSUME NEW task \in Task, NEW pc \in {"hash", "read"}, Send(task, pc), page' \in Page, asked' \subseteq Items
      PROVE  IInv'
  BY <1>b, SendIInv, Parts DEF BoundsType
<1>1. ASSUME NEW i \in Items, CallSuggestions(i)
      PROVE  IInv'
  <2>1. page' \in Page /\ asked' \subseteq Items
    BY <1>1, <1>p DEF CallSuggestions, BoundsType, ghosts
  <2>2. CASE Send([kind |-> "suggest", item |-> i], "read")
    <3>1. [kind |-> "suggest", item |-> i] \in Task
      BY DEF Task
    <3> QED
      BY <2>1, <2>2, <3>1, <1>b
  <2>3. CASE Send([kind |-> "accept", item |-> i, hash |-> plan.hash], "hash")
    <3>1. [kind |-> "accept", item |-> i, hash |-> plan.hash] \in Task
      BY <1>h DEF Task
    <3> QED
      BY <2>1, <2>3, <3>1, <1>b
  <2>4. CASE Send([kind |-> "reject", item |-> i], "read")
    <3>1. [kind |-> "reject", item |-> i] \in Task
      BY DEF Task
    <3> QED
      BY <2>1, <2>4, <3>1, <1>b
  <2> QED
    BY <1>1, <2>2, <2>3, <2>4 DEF CallSuggestions
<1>2. ASSUME NEW i \in Items, NEW name \in EditNames, EditRow(i, name)
      PROVE  IInv'
  <2>1. [kind |-> "edit", item |-> i, name |-> name] \in Task
    BY DEF Task
  <2>2. page' \in Page /\ asked' \subseteq Items
    BY <1>2, <1>p DEF EditRow, Page, BoundsType
  <2>3. Send([kind |-> "edit", item |-> i, name |-> name], "read")
    BY <1>2 DEF EditRow
  <2> QED
    BY <2>1, <2>2, <2>3, <1>b
<1>3. ASSUME NEW mode \in {"safe", "replace", "add", "remove"}, NEW ids \in SUBSET Items, UpdateSelection(mode, ids)
      PROVE  IInv'
  <2>1. [kind |-> "select", mode |-> mode, ids |-> ids] \in Task
    BY DEF Task
  <2>2. page' \in Page /\ asked' \subseteq Items
    BY <1>3, <1>p DEF UpdateSelection, Page, BoundsType
  <2>3. Send([kind |-> "select", mode |-> mode, ids |-> ids], "read")
    BY <1>3 DEF UpdateSelection
  <2> QED
    BY <2>1, <2>2, <2>3, <1>b
<1>4. CASE ValidatePlan
  <2>1. 1 \in Items
    BY ConstantTypes DEF Items
  <2>2. [kind |-> "validate", item |-> 1] \in Task
    BY <2>1 DEF Task
  <2>3. page' \in Page /\ asked' \subseteq Items
    BY <1>4, <1>p DEF ValidatePlan, Page, BoundsType
  <2>4. Send([kind |-> "validate", item |-> 1], "read")
    BY <1>4 DEF ValidatePlan
  <2> QED
    BY <2>2, <2>3, <2>4, <1>b
<1>5. CASE RefreshPlan
  <2>1. [kind |-> "refresh", hash |-> Blank] \in Task
    BY BlankReady DEF Task
  <2>2. page' \in Page /\ asked' \subseteq Items
    BY <1>5, <1>p DEF RefreshPlan, Page, BoundsType
  <2>3. Send([kind |-> "refresh", hash |-> Blank], "hash")
    BY <1>5 DEF RefreshPlan
  <2> QED
    BY <2>1, <2>2, <2>3, <1>b
<1>6. CASE Summarise
  <2>1. page' \in Page
    BY <1>6, <1>p DEF Summarise, Page
  <2> QED
    BY <1>6, <1>p, <2>1, Parts, Unchanged DEF Summarise
<1>7. CASE Confirm
  <2> DEFINE task == [kind |-> "execute", ids |-> Chosen(page.items), hash |-> page.hash, shown |-> page.items]
  <2>1. task \in Task
    BY <1>h DEF Task, Chosen
  <2>2. page' \in Page /\ asked' \subseteq Items
    BY <1>7, <1>p DEF Confirm, Page, BoundsType
  <2>3. Send(task, "hash")
    BY <1>7 DEF Confirm
  <2> QED
    BY <2>1, <2>2, <2>3, <1>b
<1>8. CASE CallExecute
  <2> DEFINE task == [kind |-> "call", ids |-> Items, hash |-> plan.hash, shown |-> plan.items]
  <2>1. task \in Task
    BY <1>h DEF Task
  <2>2. page' \in Page /\ asked' \subseteq Items
    BY <1>8, <1>p DEF CallExecute, BoundsType, ghosts
  <2>3. Send(task, "hash")
    BY <1>8 DEF CallExecute
  <2> QED
    BY <2>1, <2>2, <2>3, <1>b
<1> QED
  BY <1>1, <1>2, <1>3, <1>4, <1>5, <1>6, <1>7, <1>8 DEF PageStep

(* Other programs change the folder only. *)
LEMMA TouchIInv ==
  ASSUME IInv, Touch
  PROVE  IInv'
<1>p. Stored /\ SuggType /\ Requests /\ Applying /\ page \in Page /\ FolderType /\ BoundsType
  BY Parts
<1>1. FolderType' /\ BoundsType'
  BY <1>p, ConstantsAssumption DEF Touch, FolderType, BoundsType, ghosts
<1> QED
  BY <1>p, <1>1, Parts, Unchanged DEF Touch

-----------------------------------------------------------------------------
\* The server.

(* A step that replaces a request by a sound one, and the plan by a good one at most,
   keeps the invariant. *)
LEMMA RequestIInv ==
  ASSUME IInv, NEW s \in Slots, NEW r \in Request, Sound(r), req' = [req EXCEPT ![s] = r],
         Stored', SuggType', FolderType', UNCHANGED <<analysis, page>>, BoundsType'
  PROVE  IInv'
<1>p. Requests /\ Applying /\ page \in Page /\ BoundsType
  BY Parts
<1>1. Requests'
  BY <1>p, RequestReplaced DEF Requests
<1> QED
  BY <1>p, <1>1, Parts, Unchanged

LEMMA AnswerIInv ==
  ASSUME IInv, NEW s \in Slots, Answer(s) \/ AnswerRefused(s)
  PROVE  IInv'
<1>p. Stored /\ SuggType /\ Requests /\ Applying /\ page \in Page /\ FolderType /\ BoundsType
  BY Parts
<1>r. req[s] \in Request /\ Sound(req[s])
  BY <1>p DEF Requests
<1>1. Requests'
  BY <1>p, IdleSound, RequestReplaced DEF Answer, AnswerRefused, Requests
<1>b. BoundsType'
  BY <1>p DEF Answer, AnswerRefused, BoundsType, ghosts
<1>2. page' \in Page
  <2>1. CASE Answer(s)
    <3>1. req[s].task \in Task /\ req[s].copy \in ItemList /\ req[s].task.kind \in Answered
      BY <1>r, <2>1 DEF Request, Sound, Answer, At
    <3> QED
      BY <1>p, <2>1, <3>1, ShownType DEF Answer
  <2>2. CASE AnswerRefused(s)
    BY <1>p, <2>2 DEF AnswerRefused, Page
  <2> QED
    BY <2>1, <2>2
<1> QED
  BY <1>p, <1>1, <1>b, <1>2, Parts, Unchanged DEF Answer, AnswerRefused

LEMMA ServerIInv ==
  ASSUME IInv, NEW s \in Slots, ServerStep(s)
  PROVE  IInv'
<1> DEFINE r == req[s]
<1>p. Stored /\ SuggType /\ Requests /\ Applying /\ page \in Page /\ FolderType /\ BoundsType
  BY Parts
<1>r. r \in Request /\ Sound(r)
  BY <1>p DEF Requests
<1>t. r.task \in Task /\ r.copy \in ItemList /\ r.todo \in SUBSET Items
  BY <1>r DEF Request
<1>h. plan.items \in ItemList /\ plan.hash \in ItemList /\ Good(plan.items) /\ Ready(plan.items)
  BY <1>p, GoodReady DEF Stored, PlanType
<1>a. Reply(r, "answer") \in Request /\ Sound(Reply(r, "answer")) /\ Reply(r, "refused") \in Request /\ Sound(Reply(r, "refused"))
  BY <1>r, ReplySound
<1> HIDE DEF r
<1>s. ASSUME NEW items \in ItemList, Good(items), plan' = [items |-> items, hash |-> items]
      PROVE  Stored'
  BY <1>s DEF Stored, PlanType
<1>1. CASE CheckHash(s)
  <2>1. CASE r.task.kind = "refresh"
    <3> DEFINE new == [r EXCEPT !.task.hash = plan.hash, !.pc = "read"]
    <3>1. r.task = [kind |-> "refresh", hash |-> r.task.hash]
      BY <1>t, <2>1, TaskFields
    <3>2. [r.task EXCEPT !.hash = plan.hash] = [kind |-> "refresh", hash |-> plan.hash]
      BY <3>1
    <3>3. [r.task EXCEPT !.hash = plan.hash] \in Task
      BY <3>2, <1>h DEF Task
    <3>4. new = [r EXCEPT !.task = [r.task EXCEPT !.hash = plan.hash], !.pc = "read"]
      OBVIOUS
    <3>5. new \in Request /\ Sound(new)
      BY <1>r, <3>3, <3>4 DEF Request, Sound
    <3>6. req' = [req EXCEPT ![s] = new]
      BY <1>1, <2>1 DEF CheckHash, r
    <3> HIDE DEF new
    <3> QED
      BY <1>1, <1>p, <3>5, <3>6, RequestIInv, Unchanged DEF CheckHash, Kept, ghosts
  <2>2. CASE req' = [req EXCEPT ![s] = [r EXCEPT !.pc = "read"]]
    BY <1>1, <1>p, <1>r, <2>2, StepSound, RequestIInv, Unchanged DEF CheckHash, Kept, ghosts
  <2>3. CASE req' = [req EXCEPT ![s] = Reply(r, "refused")]
    BY <1>1, <1>p, <1>a, <2>3, RequestIInv, Unchanged DEF CheckHash, Kept, ghosts
  <2> QED
    BY <1>1, <2>1, <2>2, <2>3 DEF CheckHash, Refuse, r
<1>2. CASE Read(s)
  <2> DEFINE pc == CASE r.task.kind = "accept" -> "status" [] r.task.kind = "refresh" -> "answer" [] OTHER -> "save"
             new == [r EXCEPT !.copy = plan.items, !.pc = pc]
  <2>1. pc \in {"status", "answer", "save"} /\ (pc = "answer" => r.task.kind \in Answered)
    BY DEF Answered
  <2>2. req' = [req EXCEPT ![s] = new]
    BY <1>2 DEF Read, r
  <2> HIDE DEF pc
  <2>3. new \in Request /\ Sound(new)
    BY <1>r, <1>h, <2>1 DEF Request, Sound
  <2> HIDE DEF new
  <2> QED
    BY <1>2, <1>p, <2>2, <2>3, RequestIInv, Unchanged DEF Read, Kept, ghosts
<1>3. CASE CheckStatus(s)
  <2>1. CASE req' = [req EXCEPT ![s] = Reply(r, "refused")]
    BY <1>3, <1>p, <1>a, <2>1, RequestIInv, Unchanged DEF CheckStatus, Kept, ghosts
  <2>2. CASE req' = [req EXCEPT ![s] = [r EXCEPT !.pc = "save"]]
    <3>1. r.pc = "status"
      BY <1>3 DEF CheckStatus, At, r
    <3>2. [r EXCEPT !.pc = "save"] \in Request /\ Sound([r EXCEPT !.pc = "save"])
      BY <1>r, <3>1 DEF Request, Sound
    <3> QED
      BY <1>3, <1>p, <2>2, <3>2, RequestIInv, Unchanged DEF CheckStatus, Kept, ghosts
  <2> QED
    BY <1>3, <2>1, <2>2 DEF CheckStatus, Refuse, r
<1>u. Kept => BoundsType'
  BY <1>p, Unchanged DEF Kept
<1>v. SaveAccepted(s) => BoundsType'
  <2>1. r.task.kind = "accept" => r.task.item \in Items
    BY <1>t, TaskFields
  <2> QED
    BY <1>p, <2>1 DEF SaveAccepted, BoundsType, r
<1>k. ASSUME NEW items \in ItemList, Good(items), NEW pc \in {"mark", "answer"},
             pc = "answer" => r.task.kind \in Answered, Store(s, items, pc),
             UNCHANGED <<sugg, folder, analysis, page>>, BoundsType'
      PROVE  IInv'
  <2>1. [r EXCEPT !.copy = items, !.pc = pc] \in Request /\ Sound([r EXCEPT !.copy = items, !.pc = pc])
    BY <1>k, <1>r, CopySound
  <2>2. req' = [req EXCEPT ![s] = [r EXCEPT !.copy = items, !.pc = pc]]
    BY <1>k DEF Store, r
  <2>3. Stored'
    BY <1>k, <1>s DEF Store
  <2> QED
    BY <1>k, <1>p, <2>1, <2>2, <2>3, RequestIInv, Unchanged DEF Kept, ghosts
<1>c. ASSUME r.pc = "save"
      PROVE  Ready(r.copy)
  BY <1>c, <1>r DEF Sound
<1>4. CASE SaveEdit(s)
  <2>1. Ready(r.copy) /\ r.task.item \in Items /\ r.task.name \in Names
    BY <1>4, <1>c, <1>t, TaskFields, ConstantTypes DEF SaveEdit, At, r
  <2>2. LET items == Validated(Edited(r.copy, r.task.item, r.task.name)) IN items \in ItemList /\ Good(items)
    BY <2>1, <1>t, EditedReady, ValidatedType, ValidatedGood
  <2> QED
    BY <1>4, <1>k, <1>u, <2>2 DEF SaveEdit, r, Kept
<1>5. CASE SaveSelection(s)
  <2> DEFINE next == Selection(r.copy, r.task.mode, r.task.ids)
  <2>1. r.task.kind = "select" /\ r.task.ids \in SUBSET Items /\ r.task.mode \in {"safe", "replace", "add", "remove"}
    BY <1>5, <1>t, TaskFields DEF SaveSelection, r
  <2>2. next \in SUBSET Items
    BY <2>1, <1>t, SelectionType
  <2>3. CASE \E i \in next : Locked(r.copy[i])
    <3>1. req' = [req EXCEPT ![s] = Reply(r, "refused")] /\ UNCHANGED plan
      BY <1>5, <2>3 DEF SaveSelection, Refuse, r
    <3> QED
      BY <1>5, <1>p, <1>a, <3>1, RequestIInv, Unchanged DEF SaveSelection, Kept, ghosts
  <2>4. CASE ~ \E i \in next : Locked(r.copy[i])
    <3>1. Store(s, Selected(r.copy, next), "answer")
      BY <1>5, <2>4 DEF SaveSelection, r
    <3>2. Selected(r.copy, next) \in ItemList /\ Good(Selected(r.copy, next))
      BY <1>t, <2>2, <2>4, SelectedGood
    <3>3. r.task.kind \in Answered
      BY <2>1 DEF Answered
    <3> QED
      BY <1>5, <1>k, <1>u, <3>1, <3>2, <3>3 DEF SaveSelection, Kept
  <2> QED
    BY <2>3, <2>4
<1>6. CASE SaveValidation(s)
  <2>1. Ready(r.copy) /\ r.task.kind \in Answered
    BY <1>6, <1>c DEF SaveValidation, At, r, Answered
  <2>2. Validated(r.copy) \in ItemList /\ Good(Validated(r.copy))
    BY <2>1, <1>t, ValidatedType, ValidatedGood
  <2> QED
    BY <1>6, <1>k, <1>u, <2>1, <2>2 DEF SaveValidation, r, Kept
<1>7. CASE SaveAccepted(s)
  <2>1. Ready(r.copy) /\ r.task.item \in Items
    BY <1>7, <1>c, <1>t, TaskFields DEF SaveAccepted, At, r
  <2>2. LET items == Validated(Accepted(r.copy, r.task.item)) IN items \in ItemList /\ Good(items)
    BY <2>1, <1>t, AcceptedReady, ValidatedType, ValidatedGood
  <2>3. CASE Store(s, Validated(Accepted(r.copy, r.task.item)), "mark")
    BY <1>7, <1>k, <1>v, <2>2, <2>3 DEF SaveAccepted
  <2>4. CASE req' = [req EXCEPT ![s] = Reply(r, "refused")] /\ UNCHANGED plan
    BY <1>7, <1>p, <1>a, <2>4, RequestIInv, <1>v, Unchanged DEF SaveAccepted
  <2> QED
    BY <1>7, <2>3, <2>4 DEF SaveAccepted, Refuse, r
<1>8. CASE MarkSuggestions(s) \/ SaveSuggestion(s)
  <2>1. SuggType'
    BY <1>8, <1>p DEF MarkSuggestions, SaveSuggestion, SuggType
  <2>2. req' = [req EXCEPT ![s] = Reply(r, "answer")]
    BY <1>8 DEF MarkSuggestions, SaveSuggestion, Finish, r
  <2> QED
    BY <1>8, <1>p, <1>a, <2>1, <2>2, RequestIInv, Unchanged DEF MarkSuggestions, SaveSuggestion, Kept, ghosts
<1>9. CASE CheckRun(s)
  <2> DEFINE items == Validated(r.copy)
  <2>1. Ready(r.copy) /\ r.task.kind \in {"execute", "call"}
    BY <1>9, <1>c DEF CheckRun, At, r
  <2>2. items \in ItemList /\ Good(items)
    BY <2>1, <1>t, ValidatedType, ValidatedGood
  <2>3. Stored'
    BY <1>9, <1>s, <2>2 DEF CheckRun, r
  <2>4. CASE req' = [req EXCEPT ![s] = Reply([r EXCEPT !.copy = items], "refused")]
    <3>1. [r EXCEPT !.copy = items] \in Request
      BY <1>r, <2>2 DEF Request
    <3> QED
      BY <1>9, <1>p, <2>3, <2>4, <3>1, ReplySound, RequestIInv, Unchanged DEF CheckRun, Kept, ghosts
  <2>5. CASE /\ req' = [req EXCEPT ![s] = [r EXCEPT !.copy = items, !.pc = "run", !.todo = r.task.ids]]
             /\ MayRun(r.task, items)
    <3> DEFINE new == [r EXCEPT !.copy = items, !.pc = "run", !.todo = r.task.ids]
    <3>1. /\ items = r.task.hash
          /\ \A i, j \in r.task.ids : i # j => items[i].target # items[j].target
      BY <1>t, <2>1, <2>5, MayRunDistinct
    <3>2. r.task.ids \in SUBSET Items
      BY <1>t, <2>1, TaskFields
    <3> HIDE DEF items
    <3>3. new \in Request /\ Sound(new)
      <4>1. /\ new \in Request
            /\ new.pc = "run" /\ new.copy = items /\ new.task = r.task
        BY <1>r, <2>2, <3>2 DEF Request
      <4> HIDE DEF new
      <4> QED
        BY <2>1, <3>1, <4>1 DEF Sound
    <3>4. req' = [req EXCEPT ![s] = new]
      BY <2>5
    <3>5. SuggType' /\ FolderType' /\ UNCHANGED <<analysis, page>> /\ BoundsType'
      BY <1>9, <1>p, Unchanged DEF CheckRun, Kept, ghosts
    <3> HIDE DEF new
    <3> QED
      BY <2>3, <3>3, <3>4, <3>5, RequestIInv
  <2>6. CASE req' = [req EXCEPT ![s] = [r EXCEPT !.copy = Blank, !.pc = "hash", !.again = TRUE]]
    <3>1. LET new == [r EXCEPT !.copy = Blank, !.pc = "hash", !.again = TRUE] IN new \in Request /\ Sound(new)
      BY <1>r, BlankReady DEF Request, Sound
    <3> QED
      BY <1>9, <1>p, <2>3, <2>6, <3>1, RequestIInv, Unchanged DEF CheckRun, Kept, ghosts
  <2> QED
    BY <1>9, <2>4, <2>5, <2>6 DEF CheckRun, r
<1>10. CASE RunItem(s)
  <2>1. PICK i \in r.todo :
          /\ req' = [req EXCEPT ![s] = [r EXCEPT !.todo = r.todo \ {i}]]
          /\ at' = IF OwnIssues(i, r.copy[i]) # {} THEN at
                   ELSE [at EXCEPT ![i] = IF r.copy[i].op = "rename" THEN r.copy[i].target ELSE Quarantined]
    BY <1>10 DEF RunItem, r
  <2>2. [r EXCEPT !.todo = r.todo \ {i}] \in Request /\ Sound([r EXCEPT !.todo = r.todo \ {i}])
    BY <1>r, <1>t DEF Request, Sound
  <2>3. i \in Items /\ r.copy[i].target \in Names
    BY <1>t, <2>1 DEF ItemList, Item
  <2>4. FolderType'
    BY <1>10, <1>p, <2>1, <2>3 DEF RunItem, FolderType
  <2> QED
    BY <1>10, <1>p, <2>1, <2>2, <2>4, RequestIInv, Unchanged DEF RunItem, Kept, ghosts
<1>11. CASE EndRun(s)
  <2>1. req' = [req EXCEPT ![s] = Reply(r, "answer")]
    BY <1>11 DEF EndRun, Finish, r
  <2> QED
    BY <1>11, <1>p, <1>a, <2>1, RequestIInv, Unchanged DEF EndRun, Kept, ghosts
<1>12. CASE Answer(s) \/ AnswerRefused(s)
  BY <1>12, AnswerIInv
<1> QED
  BY <1>1, <1>2, <1>3, <1>4, <1>5, <1>6, <1>7, <1>8, <1>9, <1>10, <1>11, <1>12 DEF ServerStep

LEMMA NextIInv == IInv /\ [Next]_vars => IInv'
<1> SUFFICES ASSUME IInv, [Next]_vars PROVE IInv'
  OBVIOUS
<1>1. CASE UNCHANGED vars
  BY <1>1, Parts, Unchanged DEF vars
<1> QED
  BY <1>1, AnalysisIInv, PageIInv, TouchIInv, ServerIInv DEF Next

-----------------------------------------------------------------------------
(* The inductive invariant holds in every reachable state. *)
THEOREM Invariance == Spec => []IInv
BY InitIInv, NextIInv, PTL DEF Spec

(* Type correctness, for every folder and every number of requests at once. *)
THEOREM TypeCorrect == Spec => []TypeOK
<1>1. IInv => TypeOK
  BY DEF IInv
<1> QED
  BY <1>1, Invariance, PTL

(* No order in which requests read and save the plan leaves a blocked, an unreviewed or a
   kept file selected (planner.py, llm_review.py: every save of a plan). *)
THEOREM SelectionSound == Spec => []SelectedIsExecutable
<1>1. IInv => SelectedIsExecutable
  BY DEF IInv, Good, SelectedIsExecutable
<1> QED
  BY <1>1, Invariance, PTL

(* A run executes what its plan_hash stands for (executor.py:88-114). *)
THEOREM RunsAreConfirmed == Spec => []RunIsConfirmed
<1>1. IInv => RunIsConfirmed
  BY DEF IInv, Sound, RunIsConfirmed, Running
<1> QED
  BY <1>1, Invariance, PTL

(* A run never gives two files one name, whatever ids it was called with
   (validators.py:143-155 with executor.py:108). *)
THEOREM RunsAreDistinct == Spec => []RunTargetsDistinct
<1>1. IInv => RunTargetsDistinct
  BY DEF IInv, Sound, RunTargetsDistinct, Running
<1> QED
  BY <1>1, Invariance, PTL

(* What is executed was confirmed, and can be executed without a clash. *)
THEOREM RunsAreSound == Spec => []RunIsSound
<1>1. RunIsConfirmed /\ RunTargetsDistinct => RunIsSound
  BY DEF RunIsSound
<1> QED
  BY <1>1, RunsAreConfirmed, RunsAreDistinct, PTL

-----------------------------------------------------------------------------
\* What only the user selects.

\* An item of which neither the rules nor "select safe items" may select.
Reserved(i, item) == Kind[i] = "sidecar" \/ (Kind[i] = "large" /\ item.op = "quarantine")

\* A list has such items selected only where they are among the asked ones.
ByUser(items, S) == \A i \in Items : items[i].selected /\ Reserved(i, items[i]) => i \in S

\* What a request would save is by the user, and what it names was asked for when it was sent.
Claimed(r, S) ==
  /\ r.pc \in {"status", "save"} => ByUser(r.copy, S)
  /\ r.task.kind = "edit" => r.task.item \in S
  /\ r.task.kind = "select" /\ r.task.mode \in {"replace", "add"} => r.task.ids \subseteq S

\* The inductive invariant: every copy that may become the stored plan.
UInv ==
  /\ ByUser(plan.items, asked)
  /\ analysis.pc = "apply" => ByUser(analysis.items, asked)
  /\ \A s \in Slots : Claimed(req[s], asked)

(* What was asked for stays asked for. *)
LEMMA AskedForMore ==
  ASSUME NEW S, NEW T, S \subseteq T
  PROVE  /\ \A items : ByUser(items, S) => ByUser(items, T)
         /\ \A r : Claimed(r, S) => Claimed(r, T)
<1>1. \A items : ByUser(items, S) => ByUser(items, T)
  BY DEF ByUser
<1> QED
  BY <1>1 DEF Claimed

(* Validation selects nothing and changes no operation. *)
LEMMA ValidatedByUser ==
  ASSUME NEW items \in ItemList, NEW S, ByUser(items, S)
  PROVE  ByUser(Validated(items), S)
<1>1. ASSUME NEW i \in Items
      PROVE  /\ Validated(items)[i].selected => items[i].selected
             /\ Validated(items)[i].op = items[i].op
  <2>1. items[i] \in Item
    BY DEF ItemList
  <2> QED
    BY <2>1 DEF Validated, Item
<1> QED
  BY <1>1 DEF ByUser, Reserved

(* One item of a list is replaced by one that is not reserved more than it was, or was asked for. *)
LEMMA ReplacedByUser ==
  ASSUME NEW items \in ItemList, NEW i \in Items, NEW item, NEW S, ByUser(items, S),
         \/ i \in S
         \/ item.selected = items[i].selected /\ item.op \in {items[i].op, "rename"}
  PROVE  ByUser([items EXCEPT ![i] = item], S)
<1>1. ASSUME NEW j \in Items
      PROVE  [items EXCEPT ![i] = item][j] = IF j = i THEN item ELSE items[j]
  BY DEF ItemList
<1> QED
  BY <1>1 DEF ByUser, Reserved

(* An edit was asked for; a suggestion, accepted or applied, selects nothing. *)
LEMMA SuggestedByUser ==
  ASSUME NEW items \in ItemList, NEW i \in Items, NEW S, ByUser(items, S)
  PROVE  /\ \A name : i \in S => ByUser(Edited(items, i, name), S)
         /\ ByUser(Accepted(items, i), S)
         /\ \A valid \in BOOLEAN : ByUser(Applied(items, i, valid), S)
<1>1. items[i] \in Item
  BY DEF ItemList
<1>2. ASSUME NEW name, i \in S
      PROVE  ByUser(Edited(items, i, name), S)
  BY <1>2, ReplacedByUser DEF Edited
<1>3. ByUser(Accepted(items, i), S)
  <2> DEFINE item == [items[i] EXCEPT !.op = "rename", !.target = Ai[i], !.src = "llm", !.review = FALSE]
  <2>1. item.selected = items[i].selected /\ item.op = "rename"
    BY <1>1 DEF Item
  <2>2. Accepted(items, i) = [items EXCEPT ![i] = item]
    BY DEF Accepted
  <2> HIDE DEF item
  <2> QED
    BY ZenonT(40), <2>1, <2>2, ReplacedByUser
<1>4. ASSUME NEW valid \in BOOLEAN
      PROVE  ByUser(Applied(items, i, valid), S)
  <2>1. ASSUME NEW ai
        PROVE  ByUser([items EXCEPT ![i].ai = ai], S)
    <3> DEFINE item == [items[i] EXCEPT !.ai = ai]
    <3>1. item.selected = items[i].selected /\ item.op = items[i].op
      BY <1>1 DEF Item
    <3>2. [items EXCEPT ![i].ai = ai] = [items EXCEPT ![i] = item]
      OBVIOUS
    <3> HIDE DEF item
    <3> QED
      BY <3>1, <3>2, ReplacedByUser
  <2>2. ByUser([items EXCEPT ![i] = [items[i] EXCEPT !.target = Ai[i], !.src = "llm", !.ai = "applied"]], S)
    <3> DEFINE item == [items[i] EXCEPT !.target = Ai[i], !.src = "llm", !.ai = "applied"]
    <3>1. item.selected = items[i].selected /\ item.op = items[i].op
      BY <1>1 DEF Item
    <3>2. [items EXCEPT ![i] = [items[i] EXCEPT !.target = Ai[i], !.src = "llm", !.ai = "applied"]]
            = [items EXCEPT ![i] = item]
      OBVIOUS
    <3> HIDE DEF item
    <3> QED
      BY <3>1, <3>2, ReplacedByUser
  <2> QED
    BY <2>1, <2>2 DEF Applied
<1> QED
  BY <1>2, <1>3, <1>4

(* The four modes of a selection (update_plan_selection, _is_safe_selectable). *)
LEMMA SelectedByUserOnly ==
  ASSUME NEW items \in ItemList, NEW S, ByUser(items, S), NEW ids \in SUBSET Items,
         NEW mode \in {"safe", "replace", "add", "remove"}, mode \in {"replace", "add"} => ids \subseteq S
  PROVE  ByUser(Selected(items, Selection(items, mode, ids)), S)
<1> DEFINE next == Selection(items, mode, ids)
<1>1. ASSUME NEW i \in next, Reserved(i, items[i])
      PROVE  i \in S
  BY <1>1 DEF Selection, Safe, ByUser, Reserved
<1>2. ASSUME NEW i \in Items
      PROVE  /\ Selected(items, next)[i].selected = (i \in next)
             /\ Selected(items, next)[i].op = items[i].op
  <2>1. items[i] \in Item
    BY DEF ItemList
  <2>2. Selected(items, next)[i] = [items[i] EXCEPT !.selected = i \in next]
    BY DEF Selected
  <2> HIDE DEF next
  <2> QED
    BY <2>1, <2>2 DEF Item
<1> SUFFICES ByUser(Selected(items, next), S)
  OBVIOUS
<1> HIDE DEF next
<1> QED
  BY <1>1, <1>2 DEF ByUser, Reserved

(* The rules select videos and junk. *)
LEMMA BlankByUser == ByUser(Blank, {})
BY DEF Blank, FromScan, ByUser, Reserved

LEMMA InitUInv == Init => UInv
<1> SUFFICES ASSUME Init PROVE UInv
  OBVIOUS
<1>1. ByUser(plan.items, asked)
  BY BlankReady, BlankByUser, ValidatedByUser DEF Init
<1>2. Claimed(Idle, asked)
  BY DEF Idle, Claimed
<1> QED
  BY <1>1, <1>2 DEF Init, UInv

-----------------------------------------------------------------------------
(* A step of a request: the plan and the request are by the user, the rest is left alone. *)
LEMMA RequestUInv ==
  ASSUME IInv, UInv, NEW s \in Slots, NEW r, Claimed(r, asked), req' = [req EXCEPT ![s] = r],
         ByUser(plan'.items, asked), UNCHANGED <<analysis, asked>>
  PROVE  UInv'
<1>1. req \in [Slots -> Request]
  BY DEF IInv, TypeOK
<1>2. \A t \in Slots : req'[t] = IF t = s THEN r ELSE req[t]
  BY <1>1
<1> QED
  BY <1>2 DEF UInv

(* Answers and refusals carry no list that is saved. *)
LEMMA ReplyClaimed ==
  ASSUME NEW r \in Request, NEW S, Claimed(r, S), NEW pc \in {"answer", "refused", "hash", "read", "mark", "run"}
  PROVE  Claimed([r EXCEPT !.pc = pc], S) /\ Claimed(Reply(r, pc), S)
<1>1. [r EXCEPT !.pc = pc].pc = pc /\ [r EXCEPT !.pc = pc].task = r.task
  BY DEF Request
<1>2. Claimed([r EXCEPT !.pc = pc], S)
  BY <1>1 DEF Claimed
<1>3. Claimed(Idle, S)
  BY DEF Idle, Claimed
<1> QED
  BY <1>2, <1>3 DEF Reply

LEMMA AnalysisUInv ==
  ASSUME IInv, UInv, AnalysisStep
  PROVE  UInv'
<1>p. Stored /\ Requests /\ Applying
  BY Parts
<1>i. plan.items \in ItemList /\ ByUser(plan.items, asked)
  BY <1>p DEF Stored, PlanType, UInv
<1>s. ASSUME NEW items, NEW hash, ByUser(items, asked), Show(items, hash)
      PROVE  UInv'
  BY <1>s DEF Show, UInv, ghosts
<1>1. CASE BeginApply
  BY <1>1 DEF BeginApply, UInv, ghosts
<1>2. CASE ApplyNext
  <2>1. analysis.pc = "apply" /\ analysis.at \in Items /\ analysis.items \in ItemList
    <3>1. analysis.pc = "apply" /\ analysis.at <= N
      BY <1>2 DEF ApplyNext
    <3>2. analysis.at \in 1..(N + 1) /\ analysis.items \in ItemList
      BY <1>p DEF Applying, AnalysisType
    <3> QED
      BY <3>1, <3>2, ConstantTypes DEF Items
  <2>b. ByUser(analysis.items, asked)
    BY <2>1 DEF UInv
  <2>2. analysis'.items = analysis.items \/ \E valid \in BOOLEAN : analysis'.items = Applied(analysis.items, analysis.at, valid)
    BY <1>2, <1>p DEF ApplyNext, Applying, AnalysisType
  <2>3. ByUser(analysis'.items, asked)
    BY <2>1, <2>b, <2>2, SuggestedByUser
  <2>4. UNCHANGED <<plan, req, asked>>
    BY <1>2 DEF ApplyNext, ghosts
  <2> QED
    BY <2>3, <2>4 DEF UInv
<1>3. CASE EndApply
  <2>1. analysis.items \in ItemList /\ ByUser(analysis.items, asked)
    BY <1>3, <1>p DEF EndApply, Applying, AnalysisType, UInv
  <2> QED
    BY <1>3, <1>s, <2>1, ValidatedByUser DEF EndApply
<1>4. CASE Fallback
  <2> DEFINE items == [i \in Items |-> IF i \in Eligible(plan.items) THEN [plan.items[i] EXCEPT !.ai = "failed"]
                                       ELSE plan.items[i]]
  <2>1. ASSUME NEW i \in Items
        PROVE  items[i].selected = plan.items[i].selected /\ items[i].op = plan.items[i].op
    <3>1. plan.items[i] \in Item
      BY <1>i DEF ItemList
    <3> QED
      BY <3>1 DEF Item
  <2>2. Show(items, plan.hash)
    BY <1>4 DEF Fallback
  <2> HIDE DEF items
  <2>3. ByUser(items, asked)
    BY <1>i, <2>1 DEF ByUser, Reserved
  <2> QED
    BY <1>s, <2>2, <2>3
<1> QED
  BY <1>1, <1>2, <1>3, <1>4 DEF AnalysisStep

(* A request that is sent names what was asked for before or is asked for now. *)
LEMMA SendUInv ==
  ASSUME IInv, UInv, NEW task, NEW pc \in {"hash", "read"}, Send(task, pc), asked \subseteq asked',
         task.kind = "edit" => task.item \in asked',
         task.kind = "select" /\ task.mode \in {"replace", "add"} => task.ids \subseteq asked'
  PROVE  UInv'
<1> DEFINE new == [Idle EXCEPT !.pc = pc, !.task = task]
<1>1. new.pc = pc /\ new.task = task
  BY DEF Idle
<1>2. PICK s : req' = [req EXCEPT ![s] = new]
  BY DEF Send
<1>3. req \in [Slots -> Request]
  BY DEF IInv, TypeOK
<1> HIDE DEF new
<1>4. Claimed(new, asked')
  BY <1>1 DEF Claimed
<1>5. \A t \in Slots : req'[t] \in {req[t], new}
  BY <1>2, <1>3
<1>6. \A t \in Slots : Claimed(req'[t], asked')
  BY <1>4, <1>5, AskedForMore DEF UInv
<1>7. UNCHANGED <<plan, analysis>>
  BY DEF Send
<1> QED
  BY <1>6, <1>7, AskedForMore DEF UInv

LEMMA PageUInv ==
  ASSUME IInv, UInv, PageStep
  PROVE  UInv'
<1>a. asked \subseteq Items
  BY DEF IInv, TypeOK
<1>1. ASSUME NEW i \in Items, CallSuggestions(i)
      PROVE  UInv'
  <2>1. UNCHANGED asked
    BY <1>1 DEF CallSuggestions, ghosts
  <2> QED
    BY <1>1, <2>1, SendUInv DEF CallSuggestions
<1>2. ASSUME NEW i \in Items, NEW name \in EditNames, EditRow(i, name)
      PROVE  UInv'
  <2>1. Send([kind |-> "edit", item |-> i, name |-> name], "read") /\ asked' = asked \cup {i}
    BY <1>2 DEF EditRow
  <2> QED
    BY <2>1, SendUInv
<1>3. ASSUME NEW mode \in {"safe", "replace", "add", "remove"}, NEW ids \in SUBSET Items, UpdateSelection(mode, ids)
      PROVE  UInv'
  <2>1. /\ Send([kind |-> "select", mode |-> mode, ids |-> ids], "read")
        /\ asked' = IF mode \in {"replace", "add"} THEN asked \cup ids ELSE asked
    BY <1>3 DEF UpdateSelection
  <2> QED
    BY <2>1, SendUInv
<1>4. CASE ValidatePlan
  <2>1. Send([kind |-> "validate", item |-> 1], "read") /\ asked' = asked
    BY <1>4 DEF ValidatePlan
  <2> QED
    BY <2>1, SendUInv
<1>5. CASE RefreshPlan
  <2>1. Send([kind |-> "refresh", hash |-> Blank], "hash") /\ asked' = asked
    BY <1>5 DEF RefreshPlan
  <2> QED
    BY <2>1, SendUInv
<1>6. CASE Summarise
  BY <1>6 DEF Summarise, UInv, ghosts
<1>7. CASE Confirm
  <2>1. /\ Send([kind |-> "execute", ids |-> Chosen(page.items), hash |-> page.hash, shown |-> page.items], "hash")
        /\ asked' = asked
    BY <1>7 DEF Confirm
  <2> QED
    BY <2>1, SendUInv
<1>8. CASE CallExecute
  <2>1. /\ Send([kind |-> "call", ids |-> Items, hash |-> plan.hash, shown |-> plan.items], "hash")
        /\ asked' = asked
    BY <1>8 DEF CallExecute, ghosts
  <2> QED
    BY <2>1, SendUInv
<1> QED
  BY <1>1, <1>2, <1>3, <1>4, <1>5, <1>6, <1>7, <1>8 DEF PageStep

LEMMA ServerUInv ==
  ASSUME IInv, UInv, NEW s \in Slots, ServerStep(s)
  PROVE  UInv'
<1> DEFINE r == req[s]
<1>p. Stored /\ Requests
  BY Parts
<1>r. r \in Request /\ Claimed(r, asked)
  BY <1>p DEF Requests, UInv
<1>t. r.task \in Task /\ r.copy \in ItemList
  BY <1>r DEF Request
<1>h. plan.items \in ItemList /\ ByUser(plan.items, asked)
  BY <1>p DEF Stored, PlanType, UInv
<1> HIDE DEF r
<1>c. ASSUME r.pc = "save"
      PROVE  ByUser(r.copy, asked)
  BY <1>c, <1>r DEF Claimed
\* The plan is left alone, and the request goes on to a step that saves nothing.
<1>n. ASSUME NEW pc \in {"answer", "refused", "hash", "read", "mark", "run"}, UNCHANGED <<plan, analysis, asked>>,
             req' \in {[req EXCEPT ![s] = [r EXCEPT !.pc = pc]], [req EXCEPT ![s] = Reply(r, pc)]}
      PROVE  UInv'
  <2>1. Claimed([r EXCEPT !.pc = pc], asked) /\ Claimed(Reply(r, pc), asked)
    BY <1>r, ReplyClaimed
  <2> QED
    BY <1>h, <1>n, <2>1, RequestUInv
\* A list that is by the user is saved.
<1>k. ASSUME NEW items, ByUser(items, asked), NEW pc \in {"mark", "answer"}, Store(s, items, pc),
             UNCHANGED <<analysis, asked>>
      PROVE  UInv'
  <2> DEFINE new == [r EXCEPT !.copy = items, !.pc = pc]
  <2>1. new.pc = pc /\ new.task = r.task
    BY <1>r DEF Request
  <2>2. req' = [req EXCEPT ![s] = new] /\ plan'.items = items
    BY <1>k DEF Store, r
  <2> HIDE DEF new
  <2>3. Claimed(new, asked)
    BY <2>1, <1>r DEF Claimed
  <2> QED
    BY <1>k, <2>2, <2>3, RequestUInv DEF Kept, ghosts
<1>1. CASE CheckHash(s)
  <2>1. CASE r.task.kind = "refresh"
    <3> DEFINE new == [r EXCEPT !.task.hash = plan.hash, !.pc = "read"]
    <3>1. r.task = [kind |-> "refresh", hash |-> r.task.hash]
      BY <1>t, <2>1, TaskFields
    <3>2. [r.task EXCEPT !.hash = plan.hash].kind = "refresh"
      BY <3>1
    <3>3. new.pc = "read" /\ new.task = [r.task EXCEPT !.hash = plan.hash]
      BY <1>r DEF Request
    <3>4. req' = [req EXCEPT ![s] = new]
      BY <1>1, <2>1 DEF CheckHash, r
    <3> HIDE DEF new
    <3>5. Claimed(new, asked)
      BY <3>2, <3>3 DEF Claimed
    <3> QED
      BY <1>1, <1>h, <3>4, <3>5, RequestUInv DEF CheckHash, Kept, ghosts
  <2>2. CASE req' = [req EXCEPT ![s] = [r EXCEPT !.pc = "read"]]
    BY <1>1, <1>n, <2>2 DEF CheckHash, Kept, ghosts
  <2>3. CASE req' = [req EXCEPT ![s] = Reply(r, "refused")]
    BY <1>1, <1>n, <2>3 DEF CheckHash, Kept, ghosts
  <2> QED
    BY <1>1, <2>1, <2>2, <2>3 DEF CheckHash, Refuse, r
<1>2. CASE Read(s)
  <2> DEFINE pc == CASE r.task.kind = "accept" -> "status" [] r.task.kind = "refresh" -> "answer" [] OTHER -> "save"
             new == [r EXCEPT !.copy = plan.items, !.pc = pc]
  <2>1. req' = [req EXCEPT ![s] = new]
    BY <1>2 DEF Read, r
  <2> HIDE DEF pc
  <2>2. new.task = r.task /\ new.copy = plan.items
    BY <1>r DEF Request
  <2> HIDE DEF new
  <2>3. Claimed(new, asked)
    BY <1>r, <1>h, <2>2 DEF Claimed
  <2> QED
    BY <1>2, <1>h, <2>1, <2>3, RequestUInv DEF Read, Kept, ghosts
<1>3. CASE CheckStatus(s)
  <2>1. CASE req' = [req EXCEPT ![s] = Reply(r, "refused")]
    BY <1>3, <1>n, <2>1 DEF CheckStatus, Kept, ghosts
  <2>2. CASE req' = [req EXCEPT ![s] = [r EXCEPT !.pc = "save"]]
    <3> DEFINE new == [r EXCEPT !.pc = "save"]
    <3>1. new.task = r.task /\ new.copy = r.copy /\ r.pc = "status"
      BY <1>3, <1>r DEF Request, CheckStatus, At, r
    <3> HIDE DEF new
    <3>2. Claimed(new, asked)
      BY <1>r, <3>1 DEF Claimed
    <3> QED
      BY <1>3, <1>h, <2>2, <3>2, RequestUInv DEF CheckStatus, Kept, ghosts, new
  <2> QED
    BY <1>3, <2>1, <2>2 DEF CheckStatus, Refuse, r
<1>4. CASE SaveEdit(s)
  <2>1. ByUser(r.copy, asked) /\ r.task.item \in Items /\ r.task.name \in Names /\ r.task.item \in asked
    BY <1>4, <1>c, <1>r, <1>t, TaskFields, ConstantTypes DEF SaveEdit, At, Claimed, r
  <2>2. ByUser(Validated(Edited(r.copy, r.task.item, r.task.name)), asked)
    BY <2>1, <1>t, EditedReady, SuggestedByUser, ValidatedByUser
  <2> QED
    BY <1>4, <1>k, <2>2 DEF SaveEdit, r, Kept, ghosts
<1>5. CASE SaveSelection(s)
  <2> DEFINE next == Selection(r.copy, r.task.mode, r.task.ids)
  <2>1. /\ r.task.ids \in SUBSET Items /\ r.task.mode \in {"safe", "replace", "add", "remove"}
        /\ r.task.mode \in {"replace", "add"} => r.task.ids \subseteq asked
    BY <1>5, <1>r, <1>t, TaskFields DEF SaveSelection, Claimed, r
  <2>2. ByUser(Selected(r.copy, next), asked)
    BY <1>5, <1>c, <1>t, <2>1, SelectedByUserOnly DEF SaveSelection, At, r
  <2>3. CASE req' = [req EXCEPT ![s] = Reply(r, "refused")] /\ UNCHANGED plan
    BY <1>5, <1>n, <2>3 DEF SaveSelection, Kept, ghosts
  <2>4. CASE Store(s, Selected(r.copy, next), "answer")
    BY <1>5, <1>k, <2>2, <2>4 DEF SaveSelection, Kept, ghosts
  <2> QED
    BY <1>5, <2>3, <2>4 DEF SaveSelection, Refuse, r
<1>6. CASE SaveValidation(s)
  <2>1. ByUser(Validated(r.copy), asked)
    BY <1>6, <1>c, <1>t, ValidatedByUser DEF SaveValidation, At, r
  <2> QED
    BY <1>6, <1>k, <2>1 DEF SaveValidation, r, Kept, ghosts
<1>7. CASE SaveAccepted(s)
  <2>1. ByUser(r.copy, asked) /\ r.task.item \in Items
    BY <1>7, <1>c, <1>t, TaskFields DEF SaveAccepted, At, r
  <2>2. ByUser(Validated(Accepted(r.copy, r.task.item)), asked)
    BY <2>1, <1>t, AcceptedReady, SuggestedByUser, ValidatedByUser
  <2>3. CASE Store(s, Validated(Accepted(r.copy, r.task.item)), "mark")
    BY <1>7, <1>k, <2>2, <2>3 DEF SaveAccepted
  <2>4. CASE req' = [req EXCEPT ![s] = Reply(r, "refused")] /\ UNCHANGED plan
    BY <1>7, <1>n, <2>4 DEF SaveAccepted, Kept, ghosts
  <2> QED
    BY <1>7, <2>3, <2>4 DEF SaveAccepted, Refuse, r
<1>8. CASE MarkSuggestions(s) \/ SaveSuggestion(s) \/ EndRun(s)
  BY <1>8, <1>n DEF MarkSuggestions, SaveSuggestion, EndRun, Finish, Kept, ghosts, r
<1>9. CASE CheckRun(s)
  <2> DEFINE items == Validated(r.copy)
  <2>1. ByUser(items, asked)
    BY <1>9, <1>c, <1>t, ValidatedByUser DEF CheckRun, At, r
  <2>2. plan'.items = items /\ UNCHANGED <<analysis, asked>>
    BY <1>9 DEF CheckRun, Kept, ghosts, r
  <2>3. PICK new : /\ req' = [req EXCEPT ![s] = new]
                   /\ \/ new = Reply([r EXCEPT !.copy = items], "refused")
                      \/ new = [r EXCEPT !.copy = items, !.pc = "run", !.todo = r.task.ids]
                      \/ new = [r EXCEPT !.copy = Blank, !.pc = "hash", !.again = TRUE]
    BY <1>9 DEF CheckRun, r
  <2> HIDE DEF items
  <2>4. Claimed(new, asked)
    <3>1. CASE new = Reply([r EXCEPT !.copy = items], "refused")
      <4>1. [[r EXCEPT !.copy = items] EXCEPT !.pc = "refused"].pc = "refused"
            /\ [[r EXCEPT !.copy = items] EXCEPT !.pc = "refused"].task = r.task
        BY <1>r DEF Request
      <4> QED
        BY <1>r, <3>1, <4>1 DEF Reply, Claimed, Idle
    <3>2. CASE new.pc \in {"run", "hash"} /\ new.task = r.task
      BY <1>r, <3>2 DEF Claimed
    <3>3. CASE new = [r EXCEPT !.copy = items, !.pc = "run", !.todo = r.task.ids]
      BY <1>r, <3>2, <3>3 DEF Request
    <3>4. CASE new = [r EXCEPT !.copy = Blank, !.pc = "hash", !.again = TRUE]
      BY <1>r, <3>2, <3>4 DEF Request
    <3> QED
      BY <2>3, <3>1, <3>3, <3>4
  <2> QED
    BY <2>1, <2>2, <2>3, <2>4, RequestUInv
<1>10. CASE RunItem(s)
  <2>1. PICK i : req' = [req EXCEPT ![s] = [r EXCEPT !.todo = r.todo \ {i}]]
    BY <1>10 DEF RunItem, r
  <2> DEFINE new == [r EXCEPT !.todo = r.todo \ {i}]
  <2>2. new.pc = r.pc /\ new.task = r.task /\ new.copy = r.copy
    BY <1>r DEF Request
  <2>3. req' = [req EXCEPT ![s] = new]
    BY <2>1
  <2> HIDE DEF new
  <2>4. Claimed(new, asked)
    BY <1>r, <2>2 DEF Claimed
  <2> QED
    BY <1>10, <1>h, <2>3, <2>4, RequestUInv DEF RunItem, Kept, ghosts
<1>11. CASE Answer(s) \/ AnswerRefused(s)
  <2>1. Claimed(Idle, asked)
    BY DEF Idle, Claimed
  <2> QED
    BY <1>11, <1>h, <2>1, RequestUInv DEF Answer, AnswerRefused, ghosts
<1> QED
  BY <1>1, <1>2, <1>3, <1>4, <1>5, <1>6, <1>7, <1>8, <1>9, <1>10, <1>11 DEF ServerStep

LEMMA NextUInv == IInv /\ UInv /\ [Next]_vars => UInv'
<1> SUFFICES ASSUME IInv, UInv, [Next]_vars PROVE UInv'
  OBVIOUS
<1>1. CASE UNCHANGED vars
  BY <1>1 DEF vars, UInv, ghosts
<1>2. CASE Touch
  BY <1>2 DEF Touch, UInv, ghosts
<1> QED
  BY <1>1, <1>2, AnalysisUInv, PageUInv, ServerUInv DEF Next

(* No stale copy of the plan, and no safe selection, ever leaves a subtitle or a large
   unfinished download selected that the user did not name (planner.py:428-439). *)
THEOREM OnlyTheUserSelects == Spec => []SelectedByUser
<1>1. UInv => SelectedByUser
  BY DEF UInv, ByUser, Reserved, SelectedByUser
<1> QED
  BY <1>1, InitUInv, NextUInv, Invariance, PTL DEF Spec

-----------------------------------------------------------------------------
\* One request of the page at a time.

\* What a run does to an item is its operation and its name.
SameDeed(a, b, i) == a[i].op = b[i].op /\ a[i].target = b[i].target

\* What the user or the rules have decided of an item outlives the change from a to b.
SameWork(a, b, i) == SameDeed(a, b, i) /\ a[i].src = b[i].src /\ (a[i].review => b[i].review)

\* A request that may save the plan, or that ends with an answer to the page.
Writes(r) == r.pc # "idle" /\ r.task.kind # "suggest"

\* Between the save of an edit and its answer the page does not show the edited item.
Unanswered(r, i) == r.pc \in {"mark", "answer"} /\ r.task.kind = "edit" /\ r.task.item = i

\* A request that saves items and goes on as new has given item i its work: the page has not shown
\* the item since, or will show it with the answer.
Worked(r, items, new, missed, i) ==
  /\ r.task.kind \in {"edit", "accept"} /\ r.task.item = i
  /\ items[i].src = "manual" \/ r.copy[i].src # "manual"
  /\ i \in missed \/ Unanswered(new, i)

\* The one request that writes has the stored plan for its copy, gives no suggested name to an
\* item the user has named, and runs what the page showed.
Current(r, items, missed) ==
  /\ r.pc \in {"status", "save", "mark"} \/ (r.pc = "answer" /\ r.task.kind # "execute") => r.copy = items
  /\ r.pc = "save" /\ r.task.kind = "accept" => items[r.task.item].src # "manual"
  /\ r.task.kind \in {"execute", "call"} => \A i \in Items \ missed : SameDeed(r.task.shown, items, i)
  /\ r.pc \in {"run", "answer"} => \A i \in Items : SameDeed(r.copy, items, i)

\* The inductive invariant of a page that waits for its answers.
SInv ==
  /\ \A s, t \in Slots : Writes(req[s]) /\ Writes(req[t]) => s = t
  /\ \A s \in Slots : Writes(req[s]) => Current(req[s], plan.items, unseen)
  /\ page.open => \A i \in Items \ unseen :
       SameDeed(page.items, plan.items, i) \/ \E s \in Slots : Unanswered(req[s], i)
  /\ analysis.pc # "done" => /\ ~page.open /\ InFlight = {}
                             /\ \A i \in Items : plan.items[i].src # "manual"
  /\ analysis.pc = "apply" => \A i \in Items : plan.items[i].review => analysis.items[i].review

(* Validation and selection leave the decisions alone. *)
LEMMA ValidatedKeeps ==
  ASSUME NEW items \in ItemList, NEW i \in Items
  PROVE  SameWork(items, Validated(items), i)
<1>1. items[i] \in Item
  BY DEF ItemList
<1>2. /\ Validated(items)[i].op = items[i].op /\ Validated(items)[i].target = items[i].target
      /\ Validated(items)[i].src = items[i].src
      /\ Validated(items)[i].review = (items[i].review \/ Issues(i, items) # {})
  BY <1>1 DEF Validated, Item
<1> QED
  BY <1>2 DEF SameWork, SameDeed

LEMMA SelectedKeeps ==
  ASSUME NEW items \in ItemList, NEW ids, NEW i \in Items
  PROVE  SameWork(items, Selected(items, ids), i)
<1>1. items[i] \in Item
  BY DEF ItemList
<1>2. Selected(items, ids)[i] = [items[i] EXCEPT !.selected = i \in ids]
  BY DEF Selected
<1> QED
  BY <1>1, <1>2 DEF SameWork, SameDeed, Item

(* A save of an edit or of an accepted suggestion decides about one item. *)
LEMMA EditKeeps ==
  ASSUME NEW items \in ItemList, NEW i \in Items, NEW name \in Names
  PROVE  /\ \A j \in Items \ {i} : SameWork(items, Validated(Edited(items, i, name)), j)
         /\ Validated(Edited(items, i, name))[i].src = "manual"
<1> DEFINE new == Edited(items, i, name)
<1>1. new \in ItemList
  BY EditedReady
<1>2. \A j \in Items \ {i} : new[j] = items[j]
  BY DEF Edited, ItemList
<1>3. new[i].src = "manual"
  <2>1. items[i] \in Item
    BY DEF ItemList
  <2>2. new[i] = [items[i] EXCEPT !.op = "rename", !.target = name, !.src = "manual",
                                  !.review = FALSE, !.selected = TRUE]
    BY DEF Edited, ItemList
  <2> QED
    BY <2>1, <2>2 DEF Item
<1> HIDE DEF new
<1>4. \A j \in Items : SameWork(new, Validated(new), j)
  BY <1>1, ValidatedKeeps
<1>5. (\A j \in Items \ {i} : SameWork(items, Validated(new), j)) /\ Validated(new)[i].src = "manual"
  BY <1>2, <1>3, <1>4 DEF SameWork, SameDeed
<1> QED
  BY <1>5 DEF new

LEMMA AcceptKeeps ==
  ASSUME NEW items \in ItemList, NEW i \in Items
  PROVE  \A j \in Items \ {i} : SameWork(items, Validated(Accepted(items, i)), j)
<1> DEFINE new == Accepted(items, i)
<1>1. new \in ItemList
  BY AcceptedReady
<1>2. \A j \in Items \ {i} : new[j] = items[j]
  BY DEF Accepted, ItemList
<1> HIDE DEF new
<1>3. \A j \in Items : SameWork(new, Validated(new), j)
  BY <1>1, ValidatedKeeps
<1>4. \A j \in Items \ {i} : SameWork(items, Validated(new), j)
  BY <1>2, <1>3 DEF SameWork, SameDeed
<1> QED
  BY <1>4 DEF new

(* The preview of suggestions keeps the marks for a review. *)
LEMMA AppliedKeeps ==
  ASSUME NEW items \in ItemList, NEW i \in Items, NEW valid \in BOOLEAN, NEW j \in Items
  PROVE  Applied(items, i, valid)[j].review = items[j].review
<1>1. items[i] \in Item /\ items[j] \in Item
  BY DEF ItemList
<1>2. ASSUME NEW item, item.review = items[i].review
      PROVE  [items EXCEPT ![i] = item][j].review = items[j].review
  BY <1>2 DEF ItemList
<1>3. ASSUME NEW ai
      PROVE  [items EXCEPT ![i].ai = ai][j].review = items[j].review
  <2> DEFINE item == [items[i] EXCEPT !.ai = ai]
  <2>1. item.review = items[i].review
    BY <1>1 DEF Item
  <2>2. [items EXCEPT ![i].ai = ai] = [items EXCEPT ![i] = item]
    OBVIOUS
  <2> HIDE DEF item
  <2> QED
    BY <1>2, <2>1, <2>2
<1>4. [items EXCEPT ![i] = [items[i] EXCEPT !.target = Ai[i], !.src = "llm", !.ai = "applied"]][j].review = items[j].review
  <2> DEFINE item == [items[i] EXCEPT !.target = Ai[i], !.src = "llm", !.ai = "applied"]
  <2>1. item.review = items[i].review
    BY <1>1 DEF Item
  <2>2. [items EXCEPT ![i] = [items[i] EXCEPT !.target = Ai[i], !.src = "llm", !.ai = "applied"]] = [items EXCEPT ![i] = item]
    OBVIOUS
  <2> HIDE DEF item
  <2> QED
    BY <1>2, <2>1, <2>2
<1> QED
  BY <1>3, <1>4 DEF Applied

LEMMA InitSInv == Init => SInv
<1> SUFFICES ASSUME Init PROVE SInv
  OBVIOUS
<1>1. \A s \in Slots : req[s] = Idle
  BY DEF Init
<1>2. \A s \in Slots : ~Writes(req[s]) /\ req[s].pc = "idle"
  BY <1>1 DEF Idle, Writes
<1>3. plan.items = Validated(Blank)
  BY DEF Init
<1>4. ASSUME NEW i \in Items
      PROVE  plan.items[i].src # "manual"
  <2>1. Blank[i].src = "rule"
    BY DEF Blank, FromScan
  <2>2. SameWork(Blank, Validated(Blank), i)
    BY BlankReady, ValidatedKeeps
  <2> QED
    BY <1>3, <2>1, <2>2 DEF SameWork
<1>5. page.open => analysis.pc = "done" /\ page.items = plan.items
  BY DEF Init, PageOf
<1>6. analysis.pc # "done" => ~page.open
  BY DEF Init
<1>7. analysis.pc # "apply"
  BY DEF Init
<1> QED
  BY <1>2, <1>4, <1>5, <1>6, <1>7 DEF SInv, SameDeed, InFlight

-----------------------------------------------------------------------------
\* SInv is inductive, and its steps keep the work of the user and of the rules.

WorkStays ==
  /\ \A i \in Items : plan.items[i].src = "manual" => plan'.items[i].src = "manual"
  /\ \A i \in Items : plan.items[i].review /\ ~plan'.items[i].review =>
       \E s \in InFlight : req[s].task.kind \in {"edit", "accept"} /\ req[s].task.item = i

(* The analysis is over before anybody names an item. *)
LEMMA AnalysisSInv ==
  ASSUME IInv, SInv, AnalysisStep
  PROVE  SInv' /\ WorkStays
<1>p. Stored /\ Requests /\ Applying
  BY Parts
<1>i. plan.items \in ItemList
  BY <1>p DEF Stored, PlanType
<1>d. analysis.pc # "done"
  BY DEF AnalysisStep, BeginApply, ApplyNext, EndApply, Fallback
<1>e. ~page.open /\ (\A i \in Items : plan.items[i].src # "manual") /\ \A s \in Slots : req[s].pc = "idle"
  BY <1>d DEF SInv, InFlight
<1>s. ASSUME NEW items, NEW hash, \A i \in Items : plan.items[i].review => items[i].review, Show(items, hash)
      PROVE  SInv' /\ WorkStays
  <2>1. plan'.items = items /\ page'.items = items /\ analysis'.pc = "done" /\ UNCHANGED req
    BY <1>s DEF Show, PageOf
  <2>2. \A s \in Slots : ~Writes(req'[s])
    BY <1>e, <2>1 DEF Writes
  <2>3. SInv'
    BY <2>1, <2>2 DEF SInv, SameDeed
  <2>4. WorkStays
    BY <1>e, <1>s, <2>1 DEF WorkStays
  <2> QED
    BY <2>3, <2>4
<1>u. ASSUME UNCHANGED <<plan, req, page, ghosts>>,
             analysis'.pc = "apply" => \A i \in Items : plan.items[i].review => analysis'.items[i].review
      PROVE  SInv' /\ WorkStays
  <2>1. SInv'
    BY <1>d, <1>u DEF SInv, InFlight, ghosts
  <2> QED
    BY <1>u, <2>1 DEF WorkStays
<1>1. CASE BeginApply
  BY <1>1, <1>u DEF BeginApply
<1>2. CASE ApplyNext
  <2>1. analysis.pc = "apply" /\ analysis.at \in Items /\ analysis.items \in ItemList
    <3>1. analysis.pc = "apply" /\ analysis.at <= N
      BY <1>2 DEF ApplyNext
    <3>2. analysis.at \in 1..(N + 1) /\ analysis.items \in ItemList
      BY <1>p DEF Applying, AnalysisType
    <3> QED
      BY <3>1, <3>2, ConstantTypes DEF Items
  <2>2. analysis'.items = analysis.items \/ \E valid \in BOOLEAN : analysis'.items = Applied(analysis.items, analysis.at, valid)
    BY <1>2, <1>p DEF ApplyNext, Applying, AnalysisType
  <2>3. \A i \in Items : plan.items[i].review => analysis'.items[i].review
    BY <2>1, <2>2, AppliedKeeps DEF SInv
  <2>4. UNCHANGED <<plan, req, page, ghosts>>
    BY <1>2 DEF ApplyNext
  <2> QED
    BY <1>u, <2>3, <2>4
<1>3. CASE EndApply
  <2>1. analysis.pc = "apply" /\ Show(Validated(analysis.items), Validated(analysis.items))
    BY <1>3 DEF EndApply
  <2>2. analysis.items \in ItemList
    BY <1>p DEF Applying, AnalysisType
  <2>3. \A i \in Items : plan.items[i].review => Validated(analysis.items)[i].review
    BY <2>1, <2>2, ValidatedKeeps DEF SInv, SameWork
  <2> QED
    BY <1>s, <2>1, <2>3
<1>4. CASE Fallback
  <2> DEFINE items == [i \in Items |-> IF i \in Eligible(plan.items) THEN [plan.items[i] EXCEPT !.ai = "failed"]
                                       ELSE plan.items[i]]
  <2>1. ASSUME NEW i \in Items
        PROVE  items[i].review = plan.items[i].review
    <3>1. plan.items[i] \in Item
      BY <1>i DEF ItemList
    <3> QED
      BY <3>1 DEF Item
  <2>2. Show(items, plan.hash)
    BY <1>4 DEF Fallback
  <2> HIDE DEF items
  <2> QED
    BY <1>s, <2>1, <2>2
<1> QED
  BY <1>1, <1>2, <1>3, <1>4 DEF AnalysisStep

(* A new request finds nobody who writes, unless it does not write itself. *)
LEMMA SendSInv ==
  ASSUME IInv, SInv, ~Overlap, NEW task, NEW pc \in {"hash", "read"}, Send(task, pc), page.open,
         page'.open /\ page'.items = page.items,
         task.kind = "execute" => task.shown = page.items,
         task.kind = "call" => task.shown = plan.items
  PROVE  SInv'
<1> DEFINE new == [Idle EXCEPT !.pc = pc, !.task = task]
           s == CHOOSE s \in Slots \ InFlight : TRUE
<1>1. new.pc = pc /\ new.task = task
  BY DEF Idle
<1>2. req' = [req EXCEPT ![s] = new] /\ UNCHANGED <<plan, analysis, unseen>>
  BY DEF Send
<1>3. req \in [Slots -> Request]
  BY DEF IInv, TypeOK
<1>4. s \in Slots \ InFlight
  BY DEF Send, InFlight
<1> HIDE DEF new, s
<1>5. \A t \in Slots : req'[t] = IF t = s THEN new ELSE req[t]
  BY <1>2, <1>3, <1>4
<1>6. req[s].pc = "idle"
  BY <1>4 DEF InFlight
<1>7. task.kind # "suggest" => \A t \in Slots : ~Writes(req[t])
  BY DEF Send, Writes, InFlight
<1>8. Writes(new) => Current(new, plan.items, unseen)
  <2>1. ASSUME Writes(new), task.kind \in {"execute", "call"}, NEW i \in Items \ unseen
        PROVE  SameDeed(task.shown, plan.items, i)
    <3>1. \A t \in Slots : ~Unanswered(req[t], i)
      BY <1>7, <2>1 DEF Unanswered, Writes
    <3> QED
      BY <2>1, <3>1 DEF SInv, SameDeed
  <2> QED
    BY <1>1, <2>1 DEF Current
<1>9. \A t \in Slots : Writes(req'[t]) => Current(req'[t], plan.items, unseen)
  BY <1>5, <1>8 DEF SInv
<1>10. \A t, u \in Slots : Writes(req'[t]) /\ Writes(req'[u]) => t = u
  <2>1. task.kind = "suggest" => ~Writes(new)
    BY <1>1 DEF Writes
  <2> QED
    BY <1>5, <1>7, <2>1 DEF SInv
<1>11. ASSUME NEW i \in Items \ unseen
       PROVE  SameDeed(page.items, plan.items, i) \/ \E t \in Slots : Unanswered(req'[t], i)
  <2>1. ASSUME NEW t \in Slots, Unanswered(req[t], i)
        PROVE  Unanswered(req'[t], i)
    BY <1>5, <1>6, <2>1 DEF Unanswered
  <2> QED
    BY <2>1 DEF SInv
<1>12. analysis.pc = "done"
  BY DEF SInv
<1> QED
  BY <1>2, <1>9, <1>10, <1>11, <1>12 DEF SInv, SameDeed

LEMMA PageSInv ==
  ASSUME IInv, SInv, ~Overlap, PageStep
  PROVE  SInv' /\ WorkStays
<1>0. page.open
  BY DEF PageStep, CallSuggestions, EditRow, UpdateSelection, ValidatePlan, RefreshPlan, Summarise, Confirm, CallExecute
<1>p. page \in Page
  BY Parts
<1>w. UNCHANGED plan => WorkStays
  BY DEF WorkStays
<1>v. ASSUME NEW task, NEW pc, Send(task, pc)
      PROVE  WorkStays
  BY <1>v, <1>w DEF Send
<1>1. ASSUME NEW i \in Items, CallSuggestions(i)
      PROVE  SInv' /\ WorkStays
  <2>1. page' = page
    BY <1>1 DEF CallSuggestions
  <2>2. CASE Send([kind |-> "suggest", item |-> i], "read")
    BY <1>0, <1>v, <2>1, <2>2, SendSInv
  <2>3. CASE Send([kind |-> "accept", item |-> i, hash |-> plan.hash], "hash")
    BY <1>0, <1>v, <2>1, <2>3, SendSInv
  <2>4. CASE Send([kind |-> "reject", item |-> i], "read")
    BY <1>0, <1>v, <2>1, <2>4, SendSInv
  <2> QED
    BY <1>1, <2>2, <2>3, <2>4 DEF CallSuggestions
<1>2. ASSUME NEW i \in Items, NEW name \in EditNames, EditRow(i, name)
      PROVE  SInv' /\ WorkStays
  <2>1. Send([kind |-> "edit", item |-> i, name |-> name], "read")
    BY <1>2 DEF EditRow
  <2>2. page'.open /\ page'.items = page.items
    BY <1>2, <1>0, <1>p DEF EditRow, Page
  <2> QED
    BY <1>0, <1>v, <2>1, <2>2, SendSInv
<1>3. ASSUME NEW mode \in {"safe", "replace", "add", "remove"}, NEW ids \in SUBSET Items, UpdateSelection(mode, ids)
      PROVE  SInv' /\ WorkStays
  <2>1. Send([kind |-> "select", mode |-> mode, ids |-> ids], "read")
    BY <1>3 DEF UpdateSelection
  <2>2. page'.open /\ page'.items = page.items
    BY <1>3, <1>0, <1>p DEF UpdateSelection, Page
  <2> QED
    BY <1>0, <1>v, <2>1, <2>2, SendSInv
<1>4. CASE ValidatePlan
  <2>1. Send([kind |-> "validate", item |-> 1], "read")
    BY <1>4 DEF ValidatePlan
  <2>2. page'.open /\ page'.items = page.items
    BY <1>4, <1>0, <1>p DEF ValidatePlan, Page
  <2> QED
    BY <1>0, <1>v, <2>1, <2>2, SendSInv
<1>5. CASE RefreshPlan
  <2>1. Send([kind |-> "refresh", hash |-> Blank], "hash")
    BY <1>5 DEF RefreshPlan
  <2>2. page'.open /\ page'.items = page.items
    BY <1>5, <1>0, <1>p DEF RefreshPlan, Page
  <2> QED
    BY <1>0, <1>v, <2>1, <2>2, SendSInv
<1>6. CASE Summarise
  <2>1. UNCHANGED <<plan, req, analysis, unseen>>
    BY <1>6 DEF Summarise, ghosts
  <2>2. page'.open = page.open /\ page'.items = page.items
    BY <1>6, <1>p DEF Summarise, Page
  <2>3. SInv'
    BY <2>1, <2>2 DEF SInv, SameDeed, InFlight
  <2> QED
    BY <1>w, <2>1, <2>3
<1>7. CASE Confirm
  <2>1. Send([kind |-> "execute", ids |-> Chosen(page.items), hash |-> page.hash, shown |-> page.items], "hash")
    BY <1>7 DEF Confirm
  <2>2. page'.open /\ page'.items = page.items
    BY <1>7, <1>0, <1>p DEF Confirm, Page
  <2> QED
    BY <1>0, <1>v, <2>1, <2>2, SendSInv
<1>8. CASE CallExecute
  <2>1. Send([kind |-> "call", ids |-> Items, hash |-> plan.hash, shown |-> plan.items], "hash") /\ page' = page
    BY <1>8 DEF CallExecute
  <2> QED
    BY <1>0, <1>v, <2>1, SendSInv
<1> QED
  BY <1>1, <1>2, <1>3, <1>4, <1>5, <1>6, <1>7, <1>8 DEF PageStep

(* A step of one request: who saves is the one who writes, and stays up to date. *)
LEMMA StepSInv ==
  ASSUME IInv, SInv, NEW s \in Slots, req[s].pc # "idle", NEW r, req' = [req EXCEPT ![s] = r],
         UNCHANGED <<page, analysis>>, unseen \subseteq unseen',
         plan'.items = plan.items \/ Writes(req[s]),
         Writes(r) => Writes(req[s]) /\ Current(r, plan'.items, unseen'),
         \A i \in Items \ unseen' : SameDeed(plan.items, plan'.items, i) \/ Unanswered(r, i),
         \A i \in Items : Unanswered(req[s], i) => Unanswered(r, i)
  PROVE  SInv'
<1>1. req \in [Slots -> Request]
  BY DEF IInv, TypeOK
<1>2. \A t \in Slots : req'[t] = IF t = s THEN r ELSE req[t]
  BY <1>1
<1>3. analysis.pc = "done"
  BY DEF SInv, InFlight
<1>4. \A t, u \in Slots : Writes(req'[t]) /\ Writes(req'[u]) => t = u
  BY <1>2 DEF SInv
<1>5. ASSUME NEW t \in Slots, Writes(req'[t])
      PROVE  Current(req'[t], plan'.items, unseen')
  <2>1. CASE t = s
    BY <1>2, <1>5, <2>1
  <2>2. CASE t # s
    <3>1. req'[t] = req[t] /\ Writes(req[t])
      BY <1>2, <1>5, <2>2
    <3>2. plan'.items = plan.items
      BY <2>2, <3>1 DEF SInv
    <3>3. Current(req[t], plan.items, unseen)
      BY <3>1 DEF SInv
    <3> QED
      BY <3>1, <3>2, <3>3 DEF Current
  <2> QED
    BY <2>1, <2>2
<1>6. ASSUME page.open, NEW i \in Items \ unseen'
      PROVE  SameDeed(page.items, plan'.items, i) \/ \E t \in Slots : Unanswered(req'[t], i)
  <2>1. CASE \E t \in Slots : Unanswered(req[t], i)
    BY <1>2, <2>1
  <2>2. CASE Unanswered(r, i)
    BY <1>2, <2>2
  <2>3. CASE SameDeed(page.items, plan.items, i) /\ SameDeed(plan.items, plan'.items, i)
    BY <2>3 DEF SameDeed
  <2> QED
    BY <1>6, <2>1, <2>2, <2>3 DEF SInv
<1> QED
  BY <1>3, <1>4, <1>5, <1>6 DEF SInv

(* The answer brings the page what it does not show yet. *)
LEMMA AnswerSInv ==
  ASSUME IInv, SInv, NEW s \in Slots, Answer(s) \/ AnswerRefused(s)
  PROVE  SInv' /\ WorkStays
<1> DEFINE r == req[s]
<1>p. Stored /\ Requests /\ page \in Page
  BY Parts
<1>r. r \in Request /\ Sound(r)
  BY <1>p DEF Requests
<1>1. /\ UNCHANGED <<plan, analysis>>
      /\ \A t \in Slots : req'[t] = IF t = s THEN Idle ELSE req[t]
  BY <1>p DEF Answer, AnswerRefused, Requests
<1>2. analysis.pc = "done"
  BY DEF SInv, InFlight, Answer, AnswerRefused, At
<1>3. ~Writes(Idle)
  BY DEF Writes, Idle
<1>4. \A t \in Slots : ~Unanswered(Idle, t)
  BY DEF Unanswered, Idle
<1>w. WorkStays
  BY <1>1 DEF WorkStays
<1>5. CASE AnswerRefused(s)
  <2>1. r.pc = "refused" /\ page'.items = page.items /\ page'.open = page.open /\ UNCHANGED unseen
    BY <1>5, <1>p DEF AnswerRefused, At, Page, ghosts
  <2>2. \A t \in Slots, i \in Items : Unanswered(req[t], i) => Unanswered(req'[t], i)
    BY <1>1, <2>1 DEF Unanswered
  <2>3. SInv'
    BY <1>1, <1>2, <1>3, <2>1, <2>2 DEF SInv, SameDeed
  <2> QED
    BY <1>w, <2>3
<1>6. CASE Answer(s)
  <2>1. r.pc = "answer" /\ r.task.kind \in Answered
    BY <1>6, <1>r DEF Answer, At, Sound
  <2>2. page' = Shown(r.task, r.copy) /\ unseen' = {i \in unseen : page'.items[i] # r.copy[i]}
    BY <1>6 DEF Answer
  <2>3. Writes(r) /\ Current(r, plan.items, unseen)
    BY <2>1 DEF Writes, Answered, SInv
  <2> HIDE DEF r
  <2>4. \A i \in Items : SameDeed(r.copy, plan.items, i)
    BY <2>1, <2>3 DEF Current
  <2>5. /\ page'.open = page.open
        /\ \A i \in Items : page'.items[i] = page.items[i] \/ page'.items[i] = r.copy[i]
        /\ r.task.kind = "edit" /\ r.task.item \in Items => page'.items[r.task.item] = r.copy[r.task.item]
    <3>1. CASE r.task.kind = "edit"
      <4>1. /\ page'.open = page.open
            /\ page'.items = [j \in Items |-> IF r.copy[j].target = r.copy[r.task.item].target THEN r.copy[j]
                                              ELSE page.items[j]]
        BY <1>p, <2>2, <3>1 DEF Shown, Page
      <4> QED
        BY <4>1
    <3>2. CASE r.task.kind = "select"
      BY <1>p, <2>2, <3>2 DEF Shown, Page
    <3>3. CASE r.task.kind = "validate"
      BY <1>p, <2>2, <3>3 DEF Shown, Page
    <3>4. CASE r.task.kind = "refresh"
      BY <1>p, <2>2, <3>4 DEF Shown, Page
    <3>5. CASE r.task.kind = "execute"
      BY <1>p, <2>2, <3>5 DEF Shown, Page
    <3> QED
      BY <2>1, <3>1, <3>2, <3>3, <3>4, <3>5 DEF Answered
  <2>6. ASSUME page.open, NEW i \in Items \ unseen'
        PROVE  SameDeed(page'.items, plan.items, i)
    <3>1. CASE page'.items[i] = r.copy[i]
      BY <2>4, <3>1 DEF SameDeed
    <3>2. CASE page'.items[i] # r.copy[i]
      <4>1. i \notin unseen /\ page'.items[i] = page.items[i]
        BY <2>2, <2>5, <3>2
      <4>2. ASSUME NEW t \in Slots, Unanswered(req[t], i)
            PROVE  FALSE
        <5>1. t = s
          BY <2>3, <4>2 DEF SInv, Unanswered, Writes, r
        <5> QED
          BY <2>5, <3>2, <4>2, <5>1 DEF Unanswered, r
      <4> QED
        BY <2>6, <4>1, <4>2 DEF SInv, SameDeed
    <3> QED
      BY <3>1, <3>2
  <2>7. \A t \in Slots : Writes(req'[t]) => FALSE
    BY <1>1, <1>3, <2>3 DEF SInv, r
  <2>8. SInv'
    BY <1>1, <1>2, <2>5, <2>6, <2>7 DEF SInv
  <2> QED
    BY <1>w, <2>8
<1> QED
  BY <1>5, <1>6

(* A request that goes on without a save claims nothing new. *)
LEMMA GoesOn ==
  ASSUME NEW r \in Request, NEW items, NEW missed, Current(r, items, missed), NEW pc \in {"hash", "read", "refused"}
  PROVE  Current([r EXCEPT !.pc = pc], items, missed) /\ [r EXCEPT !.pc = pc].task = r.task
<1>1. [r EXCEPT !.pc = pc].pc = pc /\ [r EXCEPT !.pc = pc].task = r.task
  BY DEF Request
<1> QED
  BY <1>1 DEF Current

LEMMA ServerSInv ==
  ASSUME IInv, SInv, NEW s \in Slots, ServerStep(s)
  PROVE  SInv' /\ WorkStays
<1> DEFINE r == req[s]
<1>p. Stored /\ Requests
  BY Parts
<1>r. r \in Request /\ Sound(r)
  BY <1>p DEF Requests
<1>t. r.task \in Task /\ r.copy \in ItemList
  BY <1>r DEF Request
<1>h. plan.items \in ItemList
  BY <1>p DEF Stored, PlanType
<1>c. Writes(r) => Current(r, plan.items, unseen)
  BY DEF SInv
<1>i. s \in InFlight <=> r.pc # "idle"
  BY DEF InFlight
<1> HIDE DEF r
<1>w. UNCHANGED plan => WorkStays
  BY DEF WorkStays
<1>e. \A i \in Items : SameDeed(plan.items, plan.items, i)
  BY DEF SameDeed
\* The plan is left alone.
<1>n. ASSUME NEW new, req' = [req EXCEPT ![s] = new], UNCHANGED <<plan, page, analysis, unseen>>, r.pc # "idle",
             Writes(new) => Writes(r) /\ Current(new, plan.items, unseen),
             \A i \in Items : Unanswered(r, i) => Unanswered(new, i)
      PROVE  SInv' /\ WorkStays
  BY <1>e, <1>n, <1>w, StepSInv DEF r
\* A request that was answered or refused.
<1>f. ASSUME Writes(r), NEW pc \in {"answer", "refused"}, r.pc \in {"hash", "status", "save", "mark", "run"},
             pc = "answer" => r.pc \in {"mark", "run"} \/ r.task.kind \notin Answered,
             pc = "refused" => r.pc # "mark",
             req' = [req EXCEPT ![s] = Reply(r, pc)], UNCHANGED <<plan, page, analysis, unseen>>
      PROVE  SInv' /\ WorkStays
  <2> DEFINE new == [r EXCEPT !.pc = pc]
  <2>1. new.pc = pc /\ new.task = r.task /\ new.copy = r.copy
    BY <1>r DEF Request
  <2>i. ~Writes(Idle) /\ r.pc # "idle"
    BY <1>f DEF Writes, Idle
  <2> HIDE DEF new
  <2>2. CASE Reply(r, pc) = Idle
    <3>1. \A i \in Items : ~Unanswered(r, i)
      <4>1. r.pc = "mark" => r.task.kind # "edit"
        <5>1. Reply(r, pc) = new \/ r.task.kind \notin Answered
          BY DEF Reply, Answered, new
        <5>2. new # Idle
          BY <2>1, <1>f DEF Idle
        <5> QED
          BY <2>2, <5>1, <5>2 DEF Answered
      <4> QED
        BY <1>f, <4>1 DEF Unanswered
    <3> QED
      BY <1>f, <1>n, <2>2, <2>i, <3>1
  <2>3. CASE Reply(r, pc) = new /\ r.task.kind \in Answered
    <3>1. Current(new, plan.items, unseen)
      <4>1. pc = "answer" /\ r.task.kind # "execute" => r.copy = plan.items
        <5>1. r.pc = "run" => r.task.kind = "execute"
          BY <1>r, <2>3 DEF Sound, Answered
        <5> QED
          BY <1>c, <1>f, <2>3, <5>1 DEF Current
      <4>2. pc = "answer" => \A i \in Items : SameDeed(r.copy, plan.items, i)
        BY <1>c, <1>e, <1>f, <2>3 DEF Current
      <4> QED
        BY <1>c, <1>f, <2>1, <4>1, <4>2 DEF Current
    <3>2. \A i \in Items : Unanswered(r, i) => Unanswered(new, i)
      BY <1>f, <2>1 DEF Unanswered
    <3>3. Writes(r)
      BY <1>f
    <3> QED
      BY <1>f, <1>n, <2>3, <2>i, <3>1, <3>2, <3>3
  <2>4. (Reply(r, pc) = new /\ r.task.kind \in Answered) \/ Reply(r, pc) = Idle
    BY DEF Reply, Answered, new
  <2> QED
    BY <2>2, <2>3, <2>4
\* The copy with one item replaced, or with none, is saved.
<1>k. ASSUME NEW items, NEW new,
             r.pc = "save", r.task.kind # "suggest", plan'.items = items, req' = [req EXCEPT ![s] = new],
             UNCHANGED <<page, analysis>>, unseen \subseteq unseen',
             \A i \in Items : SameWork(r.copy, items, i) \/ Worked(r, items, new, unseen', i),
             Writes(new) => Current(new, items, unseen')
      PROVE  SInv' /\ WorkStays
  <2>1. Writes(r) /\ r.copy = plan.items
    BY <1>c, <1>k DEF Writes, Current
  <2>2. \A i \in Items \ unseen' : SameDeed(plan.items, plan'.items, i) \/ Unanswered(new, i)
    BY <1>k, <2>1 DEF SameWork, Worked
  <2>3. \A i \in Items : ~Unanswered(r, i)
    BY <1>k DEF Unanswered
  <2>4. SInv'
    BY <1>k, <2>1, <2>2, <2>3, StepSInv DEF r
  <2>5. WorkStays
    <3>1. s \in InFlight
      BY <1>i, <1>k
    <3>2. ASSUME NEW i \in Items, plan.items[i].src = "manual"
          PROVE  plan'.items[i].src = "manual"
      BY <1>k, <2>1, <3>2 DEF SameWork, Worked
    <3>3. ASSUME NEW i \in Items, plan.items[i].review, ~plan'.items[i].review
          PROVE  r.task.kind \in {"edit", "accept"} /\ r.task.item = i
      BY <1>k, <2>1, <3>3 DEF SameWork, Worked
    <3> QED
      BY <3>1, <3>2, <3>3 DEF WorkStays, r
  <2> QED
    BY <2>4, <2>5
<1>m. ASSUME NEW items, NEW new,
             r.pc = "save", r.task.kind # "suggest", plan'.items = items, req' = [req EXCEPT ![s] = new],
             UNCHANGED <<page, analysis, unseen>>,
             \A i \in Items : SameWork(r.copy, items, i),
             Writes(new) => Current(new, items, unseen')
      PROVE  SInv' /\ WorkStays
  <2>1. unseen \subseteq unseen' /\ UNCHANGED <<page, analysis>>
    BY <1>m
  <2>2. \A i \in Items : SameWork(r.copy, items, i) \/ Worked(r, items, new, unseen', i)
    BY <1>m
  <2> QED
    BY <1>k, <1>m, <2>1, <2>2
\* A save after which the request goes on with what it has saved.
<1>g. ASSUME NEW items \in ItemList, NEW pc \in {"mark", "answer"}, Store(s, items, pc), r.task.kind # "execute", r.task.kind # "call"
      PROVE  LET new == [r EXCEPT !.copy = items, !.pc = pc]
             IN  /\ new.pc = pc /\ new.task = r.task /\ req' = [req EXCEPT ![s] = new] /\ plan'.items = items
                 /\ \A missed : Current(new, items, missed)
  <2> DEFINE new == [r EXCEPT !.copy = items, !.pc = pc]
  <2>1. new.pc = pc /\ new.task = r.task /\ new.copy = items
    BY <1>r DEF Request
  <2>2. req' = [req EXCEPT ![s] = new] /\ plan'.items = items
    BY <1>g DEF Store, r
  <2> HIDE DEF new
  <2>3. \A missed : Current(new, items, missed)
    BY <1>g, <2>1 DEF Current, SameDeed
  <2> QED
    BY <2>1, <2>2, <2>3 DEF new
<1>1. CASE CheckHash(s)
  <2>1. r.pc = "hash" /\ UNCHANGED <<plan, page, analysis, unseen>>
    BY <1>1 DEF CheckHash, At, Kept, ghosts, r
  <2>2. CASE r.task.kind = "refresh"
    <3> DEFINE new == [r EXCEPT !.task.hash = plan.hash, !.pc = "read"]
    <3>1. r.task = [kind |-> "refresh", hash |-> r.task.hash]
      BY <1>t, <2>2, TaskFields
    <3>2. [r.task EXCEPT !.hash = plan.hash].kind = "refresh"
      BY <3>1
    <3>3. new.pc = "read" /\ new.task = [r.task EXCEPT !.hash = plan.hash]
      BY <1>r DEF Request
    <3>4. req' = [req EXCEPT ![s] = new]
      BY <1>1, <2>2 DEF CheckHash, r
    <3> HIDE DEF new
    <3>5. Current(new, plan.items, unseen)
      BY <3>2, <3>3 DEF Current
    <3>6. Writes(r) /\ \A i \in Items : ~Unanswered(r, i)
      BY <2>1, <2>2 DEF Writes, Unanswered
    <3> QED
      BY <1>n, <2>1, <3>4, <3>5, <3>6
  <2>3. CASE req' = [req EXCEPT ![s] = [r EXCEPT !.pc = "read"]]
    <3>1. [r EXCEPT !.pc = "read"].pc = "read" /\ [r EXCEPT !.pc = "read"].task = r.task
      BY <1>r DEF Request
    <3>2. Writes([r EXCEPT !.pc = "read"]) => Writes(r) /\ Current([r EXCEPT !.pc = "read"], plan.items, unseen)
      BY <1>c, <1>r, <2>1, <3>1, GoesOn DEF Writes
    <3>3. \A i \in Items : ~Unanswered(r, i)
      BY <2>1 DEF Unanswered
    <3> QED
      BY <1>n, <2>1, <2>3, <3>2, <3>3
  <2>4. CASE req' = [req EXCEPT ![s] = Reply(r, "refused")]
    <3>1. CASE r.task.kind = "suggest"
      <4>1. Reply(r, "refused") = Idle /\ ~Writes(Idle)
        BY <3>1 DEF Reply, Writes, Idle
      <4>2. \A i \in Items : ~Unanswered(r, i)
        BY <2>1 DEF Unanswered
      <4> QED
        BY <1>n, <2>1, <2>4, <4>1, <4>2
    <3>2. CASE r.task.kind # "suggest"
      <4>1. Writes(r)
        BY <2>1, <3>2 DEF Writes
      <4> QED
        BY <1>f, <2>1, <2>4, <4>1
    <3> QED
      BY <3>1, <3>2
  <2> QED
    BY <1>1, <2>2, <2>3, <2>4 DEF CheckHash, Refuse, r
<1>2. CASE Read(s)
  <2> DEFINE pc == CASE r.task.kind = "accept" -> "status" [] r.task.kind = "refresh" -> "answer" [] OTHER -> "save"
             new == [r EXCEPT !.copy = plan.items, !.pc = pc]
  <2>1. r.pc = "read" /\ UNCHANGED <<plan, page, analysis, unseen>> /\ req' = [req EXCEPT ![s] = new]
    BY <1>2 DEF Read, At, Kept, ghosts, r
  <2>2. pc \in {"status", "answer", "save"} /\ (pc = "save" => r.task.kind # "accept")
    OBVIOUS
  <2> HIDE DEF pc
  <2>3. new.pc = pc /\ new.task = r.task /\ new.copy = plan.items
    BY <1>r DEF Request
  <2> HIDE DEF new
  <2>4. Writes(new) => Writes(r) /\ Current(new, plan.items, unseen)
    BY <1>c, <1>e, <2>1, <2>2, <2>3 DEF Writes, Current
  <2>5. \A i \in Items : ~Unanswered(r, i)
    BY <2>1 DEF Unanswered
  <2> QED
    BY <1>n, <2>1, <2>4, <2>5
<1>3. CASE CheckStatus(s)
  <2>1. r.pc = "status" /\ UNCHANGED <<plan, page, analysis, unseen>>
    BY <1>3 DEF CheckStatus, At, Kept, ghosts, r
  <2>5. \A i \in Items : ~Unanswered(r, i)
    BY <2>1 DEF Unanswered
  <2>2. CASE req' = [req EXCEPT ![s] = Reply(r, "refused")]
    <3>1. CASE r.task.kind = "suggest"
      <4>1. Reply(r, "refused") = Idle /\ ~Writes(Idle)
        BY <3>1 DEF Reply, Writes, Idle
      <4> QED
        BY <1>n, <2>1, <2>2, <2>5, <4>1
    <3>2. CASE r.task.kind # "suggest"
      <4>1. Writes(r)
        BY <2>1, <3>2 DEF Writes
      <4> QED
        BY <1>f, <2>1, <2>2, <4>1
    <3> QED
      BY <3>1, <3>2
  <2>3. CASE req' = [req EXCEPT ![s] = [r EXCEPT !.pc = "save"]] /\ r.copy[r.task.item].src # "manual"
    <3> DEFINE new == [r EXCEPT !.pc = "save"]
    <3>1. new.pc = "save" /\ new.task = r.task /\ new.copy = r.copy
      BY <1>r DEF Request
    <3>2. req' = [req EXCEPT ![s] = new]
      BY <2>3
    <3> HIDE DEF new
    <3>3. Writes(new) => Writes(r) /\ Current(new, plan.items, unseen)
      BY <1>c, <2>1, <2>3, <3>1 DEF Writes, Current
    <3> QED
      BY <1>n, <2>1, <2>5, <3>2, <3>3
  <2> QED
    BY <1>3, <2>2, <2>3 DEF CheckStatus, Refuse, r
<1>4. CASE SaveEdit(s)
  <2> DEFINE items == Validated(Edited(r.copy, r.task.item, r.task.name))
             new == [r EXCEPT !.copy = items, !.pc = "mark"]
  <2>1. /\ r.pc = "save" /\ r.task.kind = "edit" /\ Store(s, items, "mark")
        /\ UNCHANGED <<page, analysis, unseen>>
    BY <1>4 DEF SaveEdit, At, Kept, ghosts, r
  <2>2. r.task.item \in Items /\ r.task.name \in Names
    BY <1>t, <2>1, TaskFields, ConstantTypes
  <2>3. /\ \A j \in Items \ {r.task.item} : SameWork(r.copy, items, j)
        /\ items[r.task.item].src = "manual" /\ items \in ItemList
    BY <1>t, <2>2, EditKeeps, EditedReady, ValidatedType
  <2> HIDE DEF items
  <2>4. /\ new.pc = "mark" /\ new.task = r.task /\ req' = [req EXCEPT ![s] = new] /\ plan'.items = items
        /\ Current(new, items, unseen')
    BY <1>g, <2>1, <2>3
  <2> HIDE DEF new
  <2>5. Unanswered(new, r.task.item)
    BY <2>1, <2>4 DEF Unanswered
  <2>6. \A i \in Items : SameWork(r.copy, items, i) \/ Worked(r, items, new, unseen', i)
    BY <2>1, <2>3, <2>5 DEF Worked
  <2> QED
    BY <1>k, <2>1, <2>4, <2>6
<1>5. CASE SaveSelection(s)
  <2> DEFINE next == Selection(r.copy, r.task.mode, r.task.ids)
  <2>1. r.pc = "save" /\ r.task.kind = "select" /\ UNCHANGED <<page, analysis, unseen>>
    BY <1>5 DEF SaveSelection, At, Kept, ghosts, r
  <2>2. CASE req' = [req EXCEPT ![s] = Reply(r, "refused")] /\ UNCHANGED plan
    <3>1. Writes(r)
      BY <2>1 DEF Writes
    <3> QED
      BY <1>f, <2>1, <2>2, <3>1
  <2>3. CASE Store(s, Selected(r.copy, next), "answer")
    <3> DEFINE items == Selected(r.copy, next)
               new == [r EXCEPT !.copy = items, !.pc = "answer"]
    <3>1. items \in ItemList /\ \A i \in Items : SameWork(r.copy, items, i)
      BY <1>t, <2>1, TaskFields, SelectionType, SelectedGood, SelectedKeeps
    <3>2. Store(s, items, "answer")
      BY <2>3
    <3> HIDE DEF items
    <3>3. req' = [req EXCEPT ![s] = new] /\ plan'.items = items /\ Current(new, items, unseen')
      BY <1>g, <2>1, <3>1, <3>2
    <3> HIDE DEF new
    <3> QED
      BY <1>m, <2>1, <3>1, <3>3
  <2> QED
    BY <1>5, <2>2, <2>3 DEF SaveSelection, Refuse, r
<1>6. CASE SaveValidation(s)
  <2> DEFINE items == Validated(r.copy)
             new == [r EXCEPT !.copy = items, !.pc = "answer"]
  <2>1. /\ r.pc = "save" /\ r.task.kind = "validate" /\ Store(s, items, "answer")
        /\ UNCHANGED <<page, analysis, unseen>>
    BY <1>6 DEF SaveValidation, At, Kept, ghosts, r
  <2>2. items \in ItemList /\ \A i \in Items : SameWork(r.copy, items, i)
    BY <1>t, ValidatedType, ValidatedKeeps
  <2> HIDE DEF items
  <2>3. req' = [req EXCEPT ![s] = new] /\ plan'.items = items /\ Current(new, items, unseen')
    BY <1>g, <2>1, <2>2
  <2> HIDE DEF new
  <2> QED
    BY <1>m, <2>1, <2>2, <2>3
<1>7. CASE SaveAccepted(s)
  <2>1. r.pc = "save" /\ r.task.kind = "accept" /\ UNCHANGED <<page, analysis>>
    BY <1>7 DEF SaveAccepted, At, r
  <2>2. r.task.item \in Items /\ Writes(r)
    BY <1>t, <2>1, TaskFields DEF Writes
  <2>3. CASE req' = [req EXCEPT ![s] = Reply(r, "refused")] /\ UNCHANGED <<plan, unseen>>
    BY <1>f, <2>1, <2>2, <2>3
  <2>4. CASE Store(s, Validated(Accepted(r.copy, r.task.item)), "mark") /\ unseen' = unseen \cup {r.task.item}
    <3> DEFINE items == Validated(Accepted(r.copy, r.task.item))
               new == [r EXCEPT !.copy = items, !.pc = "mark"]
    <3>1. items \in ItemList /\ \A j \in Items \ {r.task.item} : SameWork(r.copy, items, j)
      BY <1>t, <2>2, AcceptKeeps, AcceptedReady, ValidatedType
    <3>2. Store(s, items, "mark")
      BY <2>4
    <3> HIDE DEF items
    <3>3. req' = [req EXCEPT ![s] = new] /\ plan'.items = items /\ Current(new, items, unseen')
      BY <1>g, <2>1, <3>1, <3>2
    <3>4. r.copy[r.task.item].src # "manual"
      BY <1>c, <2>1, <2>2 DEF Current
    <3> HIDE DEF new
    <3>5. \A i \in Items : SameWork(r.copy, items, i) \/ Worked(r, items, new, unseen', i)
      BY <2>1, <2>4, <3>1, <3>4 DEF Worked
    <3> QED
      BY <1>k, <2>1, <2>4, <3>3, <3>5
  <2> QED
    BY <1>7, <2>3, <2>4 DEF SaveAccepted, Refuse, r
<1>8. CASE MarkSuggestions(s)
  <2>1. /\ r.pc = "mark" /\ req' = [req EXCEPT ![s] = Reply(r, "answer")]
        /\ UNCHANGED <<plan, page, analysis, unseen>>
    BY <1>8 DEF MarkSuggestions, At, Finish, Kept, ghosts, r
  <2>2. CASE r.task.kind # "suggest"
    BY <1>f, <2>1, <2>2 DEF Writes
  <2>3. CASE r.task.kind = "suggest"
    <3>1. Reply(r, "answer") = Idle /\ ~Writes(Idle) /\ \A i \in Items : ~Unanswered(r, i)
      BY <2>3 DEF Reply, Writes, Idle, Unanswered
    <3> QED
      BY <1>n, <2>1, <3>1
  <2> QED
    BY <2>2, <2>3
<1>9. CASE SaveSuggestion(s)
  <2>1. /\ r.pc = "save" /\ r.task.kind \in {"suggest", "reject"} /\ req' = [req EXCEPT ![s] = Reply(r, "answer")]
        /\ UNCHANGED <<plan, page, analysis, unseen>>
    BY <1>9 DEF SaveSuggestion, At, Finish, Kept, ghosts, r
  <2>2. Reply(r, "answer") = Idle /\ ~Writes(Idle) /\ \A i \in Items : ~Unanswered(r, i)
    BY <2>1 DEF Reply, Writes, Idle, Unanswered
  <2> QED
    BY <1>n, <2>1, <2>2
<1>10. CASE CheckRun(s)
  <2> DEFINE items == Validated(r.copy)
  <2>1. r.pc = "save" /\ r.task.kind \in {"execute", "call"} /\ plan'.items = items /\ UNCHANGED <<page, analysis, unseen>>
    BY <1>10 DEF CheckRun, At, Kept, ghosts, r
  <2>2. items \in ItemList /\ \A i \in Items : SameWork(r.copy, items, i)
    BY <1>t, ValidatedType, ValidatedKeeps
  <2>3. PICK new : /\ req' = [req EXCEPT ![s] = new]
                   /\ \/ new = Reply([r EXCEPT !.copy = items], "refused")
                      \/ new = [r EXCEPT !.copy = items, !.pc = "run", !.todo = r.task.ids]
                      \/ new = [r EXCEPT !.copy = Blank, !.pc = "hash", !.again = TRUE]
    BY <1>10 DEF CheckRun, r
  <2> HIDE DEF items
  <2>4. r.copy = plan.items /\ \A i \in Items \ unseen : SameDeed(r.task.shown, plan.items, i)
    BY <1>c, <2>1 DEF Writes, Current
  <2>5. \A i \in Items \ unseen : SameDeed(r.task.shown, items, i)
    BY <2>2, <2>4 DEF SameWork, SameDeed
  <2>6. new = Idle \/ (new.task = r.task /\ (new.pc \in {"hash", "refused"} \/ (new.pc = "run" /\ new.copy = items)))
    <3>1. CASE new = Reply([r EXCEPT !.copy = items], "refused")
      <4>1. /\ [[r EXCEPT !.copy = items] EXCEPT !.pc = "refused"].pc = "refused"
            /\ [[r EXCEPT !.copy = items] EXCEPT !.pc = "refused"].task = r.task
        BY <1>r DEF Request
      <4> QED
        BY <3>1, <4>1 DEF Reply
    <3>2. CASE new = [r EXCEPT !.copy = items, !.pc = "run", !.todo = r.task.ids]
      BY <1>r, <3>2 DEF Request
    <3>3. CASE new = [r EXCEPT !.copy = Blank, !.pc = "hash", !.again = TRUE]
      BY <1>r, <3>3 DEF Request
    <3> QED
      BY <2>3, <3>1, <3>2, <3>3
  <2>7. Writes(new) => Current(new, items, unseen')
    <3>1. ~Writes(Idle)
      BY DEF Writes, Idle
    <3> QED
      BY <2>1, <2>5, <2>6, <3>1 DEF Current, SameDeed
  <2> QED
    BY <1>m, <2>1, <2>2, <2>3, <2>7
<1>11. CASE RunItem(s)
  <2>1. PICK i : req' = [req EXCEPT ![s] = [r EXCEPT !.todo = r.todo \ {i}]]
    BY <1>11 DEF RunItem, r
  <2> DEFINE new == [r EXCEPT !.todo = r.todo \ {i}]
  <2>2. new.pc = r.pc /\ new.task = r.task /\ new.copy = r.copy
    BY <1>r DEF Request
  <2>3. req' = [req EXCEPT ![s] = new] /\ r.pc = "run" /\ UNCHANGED <<plan, page, analysis, unseen>>
    BY <1>11, <2>1 DEF RunItem, At, Kept, ghosts, r
  <2> HIDE DEF new
  <2>4. Writes(new) => Writes(r) /\ Current(new, plan.items, unseen)
    BY <1>c, <2>2 DEF Writes, Current
  <2>5. \A j \in Items : Unanswered(r, j) => Unanswered(new, j)
    BY <2>2 DEF Unanswered
  <2> QED
    BY <1>n, <2>3, <2>4, <2>5
<1>12. CASE EndRun(s)
  <2>1. /\ r.pc = "run" /\ req' = [req EXCEPT ![s] = Reply(r, "answer")]
        /\ UNCHANGED <<plan, page, analysis, unseen>>
    BY <1>12 DEF EndRun, At, Finish, Kept, ghosts, r
  <2>2. Writes(r)
    BY <1>r, <2>1 DEF Sound, Writes
  <2> QED
    BY <1>f, <2>1, <2>2
<1>13. CASE Answer(s) \/ AnswerRefused(s)
  BY <1>13, AnswerSInv
<1> QED
  BY <1>1, <1>2, <1>3, <1>4, <1>5, <1>6, <1>7, <1>8, <1>9, <1>10, <1>11, <1>12, <1>13 DEF ServerStep

LEMMA NextSInv ==
  ASSUME ~Overlap
  PROVE  IInv /\ SInv /\ [Next]_vars => SInv' /\ (UNCHANGED vars \/ WorkStays)
<1> SUFFICES ASSUME IInv, SInv, [Next]_vars PROVE SInv' /\ (UNCHANGED vars \/ WorkStays)
  OBVIOUS
<1>1. CASE UNCHANGED vars
  BY <1>1 DEF vars, ghosts, SInv, InFlight
<1>2. CASE Touch
  <2>1. UNCHANGED <<plan, req, page, analysis, unseen>>
    BY <1>2 DEF Touch, ghosts
  <2> QED
    BY <2>1 DEF SInv, InFlight, WorkStays
<1> QED
  BY <1>1, <1>2, AnalysisSInv, PageSInv, ServerSInv DEF Next

(* While the page waits for its answers a run does what the page showed: to every item that no
   script has given a suggested name since the page was last told of it (executor.py:88-114). *)
THEOREM RunsArePreviewed ==
  ASSUME ~Overlap
  PROVE  Spec => []RunIsPreviewed
<1>1. IInv /\ SInv => RunIsPreviewed
  <2> SUFFICES ASSUME IInv, SInv, NEW s \in Running, NEW i \in req[s].task.ids \ unseen
               PROVE  SameDeed(req[s].copy, req[s].task.shown, i)
    BY DEF RunIsPreviewed, SameDeed
  <2>1. s \in Slots /\ req[s].pc = "run"
    BY DEF Running
  <2>2. req[s] \in Request /\ req[s].task.kind \in {"execute", "call"}
    BY <2>1, Parts DEF Requests, Sound
  <2>3. i \in Items
    BY <2>2, TaskFields DEF Request
  <2>4. Current(req[s], plan.items, unseen)
    BY <2>1, <2>2 DEF SInv, Writes
  <2> QED
    BY <2>1, <2>2, <2>3, <2>4 DEF Current, SameDeed
<1> QED
  BY <1>1, Invariance, InitSInv, NextSInv, PTL DEF Spec

(* While the page waits for its answers no save gives a name the user has typed away, and none
   but an edit or an accepted suggestion of the item itself takes a mark for a review away
   (planner.py:421-483, llm_review.py:638-708). *)
THEOREM WorkIsKept ==
  ASSUME ~Overlap
  PROVE  Spec => UserWorkStays
<1>1. UNCHANGED vars \/ WorkStays =>
        [\A i \in Items : plan.items[i].src = "manual" => plan'.items[i].src = "manual"]_vars
  BY DEF WorkStays
<1>2. UNCHANGED vars \/ WorkStays =>
        [\A i \in Items : plan.items[i].review /\ ~plan'.items[i].review =>
           \E s \in InFlight : req[s].task.kind \in {"edit", "accept"} /\ req[s].task.item = i]_vars
  BY DEF WorkStays
<1> QED
  BY <1>1, <1>2, Invariance, InitSInv, NextSInv, PTL DEF Spec, UserWorkStays, ManualStays, ReviewStays

=============================================================================
