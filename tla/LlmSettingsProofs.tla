------------------------ MODULE LlmSettingsProofs ------------------------
(***************************************************************************)
(* Proofs about LlmSettings, for any settings, providers and keys, either  *)
(* secret store and any number of acts and faults.                         *)
(***************************************************************************)
EXTENDS LlmSettings, TLAPS

USE SettingsAssumption DEF SettingsAssumption

-----------------------------------------------------------------------------
(* Types. *)

LEMMA DefaultTypes == Default \in Settings /\ NoPair \in Pair /\ Idle \in Request /\ Blank \in Page
  BY DEF Default, NoPair, Idle, Blank, Settings, Pair, Request, Page, AnyKey, Steps, States

\* A cleaned record of settings has no key, and storing a key gives a store.
LEMMA SettingsTypes ==
  ASSUME NEW settings \in Settings, vault \in [Providers -> AnyKey]
  PROVE /\ Cleaned(settings) \in Settings /\ Cleaned(settings).key = "none"
        /\ Stored(settings) \in [Providers -> AnyKey]
        /\ KeyInUse(settings.llm) \in AnyKey
  BY DEF Cleaned, Stored, KeyInUse, Settings, AnyKey

LEMMA VerdictType ==
  ASSUME TypeOK, NEW pair
  PROVE Verdict(pair) \in States \ {"testing"}
  BY DEF TypeOK, Verdict, States

\* What the service does keeps the types.
LEMMA ServeTypes ==
  ASSUME TypeOK, NEW s \in Slots, Serve(s)
  PROVE TypeOK'
<1>0. req[s] \in Request /\ req[s].body \in Settings /\ req[s].pair \in Pair
  BY DEF TypeOK, Request
<1>1. faults \in 0..MaxFaults /\ page \in Page /\ acts \in 0..MaxActs
      /\ strayed \subseteq {"edits", "writes", "failures"} /\ page' = page /\ acts' = acts /\ strayed' = strayed
  BY DEF TypeOK, Serve
<1>2. Fault \/ Fine => faults' \in 0..MaxFaults
  <2>1. MaxFaults \in Nat /\ faults \in 0..MaxFaults
    BY DEF TypeOK, SettingsAssumption
  <2> QED BY ONLY <2>1 DEF Fault, Fine
<1>3. ASSUME NEW at \in Steps, Go(s, at)
      PROVE req' \in [Slots -> Request]
  BY <1>0, <1>3 DEF Go, TypeOK, Request
<1>4. ASSUME NEW answer \in Steps, Raises(s, answer)
      PROVE TypeOK'
  BY <1>1, <1>2, <1>3, <1>4 DEF Raises, TypeOK
<1>5. \A what \in {"settings", "test", "status"} : AfterGet[what] \in Steps /\ GetFailed[what] \in Steps
  <2>1. AfterGet["settings"] = "got" /\ AfterGet["test"] = "test_key" /\ AfterGet["status"] = "status_key"
    BY DEF AfterGet
  <2>2. GetFailed["settings"] = "get_failed" /\ GetFailed["test"] = "test_failed"
        /\ GetFailed["status"] = "status_failed"
    BY DEF GetFailed
  <2> QED BY <2>1, <2>2 DEF Steps
<1>6. req[s].what \in {"settings", "test", "status"}
  BY <1>0 DEF Request
<1>7. CASE Get(s)
  <2>1. CASE Raises(s, GetFailed[req[s].what])
    BY <1>4, <1>5, <1>6, <2>1
  <2>2. CASE Fine /\ UNCHANGED <<row, vault, status, worked>>
             /\ req' = [req EXCEPT ![s].body = row,
                              ![s].at = IF row.key = "none" THEN AfterGet[req[s].what] ELSE "legacy"]
    <3>1. (IF row.key = "none" THEN AfterGet[req[s].what] ELSE "legacy") \in Steps
      BY <1>5, <1>6 DEF Steps
    <3>2. req' \in [Slots -> Request]
      BY <1>0, <2>2, <3>1 DEF TypeOK, Request
    <3> QED BY <1>1, <1>2, <2>2, <3>2 DEF TypeOK
  <2> QED BY <1>7, <2>1, <2>2 DEF Get
<1>8. CASE MigrateKey(s)
  <2>1. req' \in [Slots -> Request]
    BY <1>3, <1>8 DEF MigrateKey, Steps
  <2>2. vault' \in [Providers -> AnyKey]
    <3>1. HasKey(req[s].body) => Stored(req[s].body) \in [Providers -> AnyKey]
      BY <1>0, SettingsTypes DEF TypeOK
    <3> QED BY <1>8, <3>1 DEF MigrateKey, TypeOK
  <2> QED BY <1>1, <1>2, <1>8, <2>1, <2>2 DEF MigrateKey, TypeOK
<1>9. CASE ScrubRow(s)
  <2>1. CASE Raises(s, GetFailed[req[s].what])
    BY <1>4, <1>5, <1>6, <2>1
  <2>2. CASE Fine /\ row' = Cleaned(req[s].body) /\ UNCHANGED <<vault, status, worked>>
             /\ req' = [req EXCEPT ![s].body = Cleaned(@), ![s].at = AfterGet[req[s].what]]
    <3>1. Cleaned(req[s].body) \in Settings
      BY <1>0, SettingsTypes DEF TypeOK
    <3>2. req' \in [Slots -> Request]
      BY <1>0, <1>5, <1>6, <2>2, <3>1 DEF TypeOK, Request
    <3> QED BY <1>1, <1>2, <2>2, <3>1, <3>2 DEF TypeOK
  <2> QED BY <1>9, <2>1, <2>2 DEF ScrubRow
<1>10. CASE PutKey(s)
  <2>1. req' \in [Slots -> Request]
    BY <1>3, <1>10 DEF PutKey, Steps
  <2>2. vault' \in [Providers -> AnyKey]
    <3>1. Stored(req[s].body) \in [Providers -> AnyKey]
      BY <1>0, SettingsTypes DEF TypeOK
    <3> QED BY <1>10, <3>1 DEF PutKey, TypeOK
  <2> QED BY <1>1, <1>2, <1>10, <2>1, <2>2 DEF PutKey, TypeOK
<1>11. CASE PutRow(s)
  <2>1. CASE Raises(s, "put_failed")
    BY <1>4, <2>1 DEF Steps
  <2>2. CASE Fine /\ row' = Cleaned(req[s].body) /\ UNCHANGED <<vault, status, worked>>
             /\ req' = [req EXCEPT ![s].body = Cleaned(@), ![s].at = "saved"]
    <3>1. Cleaned(req[s].body) \in Settings
      BY <1>0, SettingsTypes DEF TypeOK
    <3>2. req' \in [Slots -> Request]
      BY ZenonT(40), <1>0, <2>2, <3>1 DEF TypeOK, Request, Steps
    <3> QED BY <1>1, <1>2, <2>2, <3>1, <3>2 DEF TypeOK
  <2> QED BY <1>11, <2>1, <2>2 DEF PutRow
<1>12. ASSUME NEW from, NEW to \in Steps, NEW failed \in Steps, ReadKey(s, from, to, failed)
       PROVE TypeOK'
  <2>1. CASE Raises(s, failed)
    BY <1>4, <2>1
  <2>2. CASE Fine /\ UNCHANGED <<row, vault, status, worked>>
             /\ req' = [req EXCEPT ![s].pair = [llm |-> req[s].body.llm, key |-> KeyInUse(req[s].body.llm)],
                                   ![s].body = Default, ![s].at = to]
    <3>1. [llm |-> req[s].body.llm, key |-> KeyInUse(req[s].body.llm)] \in Pair
      BY <1>0, SettingsTypes DEF TypeOK, Pair, Settings
    <3>2. req' \in [Slots -> Request]
      BY <1>0, <2>2, <3>1, DefaultTypes DEF TypeOK, Request
    <3> QED BY <1>1, <1>2, <2>2, <3>2 DEF TypeOK
  <2> QED BY <1>12, <2>1, <2>2 DEF ReadKey
<1>13. CASE TestEnds(s)
  <2>1. req' \in [Slots -> Request]
    BY <1>3, <1>13 DEF TestEnds, Steps
  <2>2. status' \in [state : {"not_tested", "passed", "failed"}, pair : Pair] /\ worked' \subseteq Pair
    <3>1. \A ok \in BOOLEAN : Recorded(req[s].pair, ok) \in [state : {"not_tested", "passed", "failed"}, pair : Pair]
      BY <1>0 DEF Recorded
    <3>2. status' = status \/ \E ok \in BOOLEAN : status' = Recorded(req[s].pair, ok)
      BY <1>13 DEF TestEnds
    <3>3. worked' = worked \/ worked' = worked \cup {req[s].pair}
      BY <1>13 DEF TestEnds
    <3> QED BY <1>0, <3>1, <3>2, <3>3 DEF TypeOK
  <2>3. (Fault \/ Fine) /\ row' = row /\ vault' = vault
    BY <1>13 DEF TestEnds
  <2>4. row' \in Settings /\ vault' \in [Providers -> AnyKey]
    BY <2>3 DEF TypeOK
  <2> QED BY <1>1, <1>2, <2>1, <2>2, <2>3, <2>4 DEF TypeOK
<1>14. CASE StatusAnswer(s)
  <2>1. CASE Raises(s, "status_failed")
    BY <1>4, <2>1 DEF Steps
  <2>2. CASE Fine /\ UNCHANGED <<row, vault, status, worked>>
             /\ req' = [req EXCEPT ![s].said = Verdict(req[s].pair), ![s].at = "shown"]
    <3>1. req' \in [Slots -> Request]
      BY ZenonT(40), <1>0, <2>2, VerdictType DEF TypeOK, Request, Steps
    <3> QED BY <1>1, <1>2, <2>2, <3>1 DEF TypeOK
  <2> QED BY <1>14, <2>1, <2>2 DEF StatusAnswer
<1>15. CASE TestKey(s)
  BY <1>12, <1>15 DEF TestKey, Steps
<1>16. CASE StatusKey(s)
  BY <1>12, <1>16 DEF StatusKey, Steps
<1> QED
  BY <1>7, <1>8, <1>9, <1>10, <1>11, <1>13, <1>14, <1>15, <1>16 DEF Serve

\* What the page does with an answer keeps the types.
LEMMA ReceiveTypes ==
  ASSUME TypeOK, Receive
  PROVE TypeOK'
<1>0. /\ UNCHANGED <<row, vault, status, worked, acts, faults>>
      /\ \A s \in Slots : req[s] \in Request /\ req[s].body \in Settings
                          /\ req[s].op \in {"load", "save", "test", "testing", "last", "choose", "import", "dismiss"}
                          /\ req[s].said \in States
  BY DEF Receive, TypeOK, Request
<1>1. "main" \in Slots /\ "side" \in Slots /\ "other" \in Slots
  BY DEF Slots
<1>2. ASSUME NEW s \in Slots,
             NEW op \in {"load", "save", "test", "testing", "last", "choose", "import", "dismiss"},
             NEW what \in {"settings", "test", "status"}, Ask(s, op, what)
      PROVE req' \in [Slots -> Request]
  BY ZenonT(40), <1>2, DefaultTypes DEF Ask, TypeOK, Request, Steps
<1>3. ASSUME NEW s \in Slots, Done(s)
      PROVE req' \in [Slots -> Request]
  BY <1>3, DefaultTypes DEF Done, TypeOK
<1>4. ASSUME NEW how \in {"edits", "writes", "failures"}, Strays(how)
      PROVE strayed' \subseteq {"edits", "writes", "failures"}
  BY <1>4 DEF Strays, TypeOK
<1>5. Answer \in Settings
  BY <1>0, <1>1 DEF Answer
<1>6. req' \in [Slots -> Request]
  <2>1. CASE Loaded
    BY <1>0, <1>1, <1>2, <2>1 DEF Loaded
  <2>2. CASE LoadFails
    BY <1>1, <1>2, <1>3, <2>2 DEF LoadFails
  <2>3. CASE Saved
    BY <1>0, <1>1, <1>2, <2>3 DEF Saved
  <2>4. CASE Chosen
    BY <1>1, <1>3, <2>4 DEF Chosen
  <2>5. CASE Imported
    BY <1>1, <1>2, <2>5 DEF Imported
  <2>6. CASE PutFails
    BY <1>1, <1>3, <2>6 DEF PutFails
  <2>7. CASE Shown
    BY <1>1, <1>2, <1>3, <2>7 DEF Shown
  <2>8. CASE StatusFails
    BY <1>1, <1>2, <1>3, <2>8 DEF StatusFails
  <2>9. CASE Tested
    BY <1>1, <1>2, <2>9 DEF Tested
  <2>10. CASE Dismissed
    BY <1>1, <1>3, <2>10 DEF Dismissed
  <2>11. CASE OtherAnswered
    BY <1>1, <1>3, <2>11 DEF OtherAnswered
  <2> QED BY <2>1, <2>2, <2>3, <2>4, <2>5, <2>6, <2>7, <2>8, <2>9, <2>10, <2>11 DEF Receive
<1>7. strayed' \subseteq {"edits", "writes", "failures"}
  <2>1. strayed' = strayed \/ Strays("failures")
    BY DEF Receive, Loaded, LoadFails, Saved, Chosen, Imported, PutFails, Shown, StatusFails,
           Tested, Dismissed, OtherAnswered
  <2> QED BY <1>4, <2>1 DEF TypeOK
<1>8. page' \in Page
  <2>0. page \in Page
    BY DEF TypeOK
  <2>1. CASE Loaded
    BY <1>5, <2>0, <2>1 DEF Loaded, Page, Settings
  <2>2. CASE Saved
    BY <1>5, <2>0, <2>2 DEF Saved, Page, Settings, AnyKey
  <2>3. CASE Chosen
    BY <1>5, <2>0, <2>3 DEF Chosen, Page, Settings
  <2>4. CASE Shown
    BY <1>0, <1>1, <2>0, <2>4 DEF Shown, Page, States
  <2>5. CASE StatusFails
    BY <2>0, <2>5 DEF StatusFails, Page, States
  <2>6. CASE Dismissed
    BY <1>0, <1>1, <2>0, <2>6 DEF Dismissed, Page, Settings
  <2>7. CASE LoadFails \/ Imported \/ PutFails \/ Tested \/ OtherAnswered
    BY <2>0, <2>7 DEF LoadFails, Imported, PutFails, Tested, OtherAnswered
  <2> QED BY <2>1, <2>2, <2>3, <2>4, <2>5, <2>6, <2>7 DEF Receive
<1> QED BY <1>0, <1>6, <1>7, <1>8 DEF TypeOK

\* What users do keeps the types.
LEMMA UseTypes ==
  ASSUME TypeOK, Use
  PROVE TypeOK'
<1>0. /\ UNCHANGED <<row, vault, status, worked, faults>>
      /\ page \in Page /\ page.settings \in Settings
      /\ "main" \in Slots /\ "side" \in Slots /\ "other" \in Slots
  BY DEF Use, TypeOK, Page, Slots
<1>1. acts' \in 0..MaxActs
  <2>1. MaxActs \in Nat /\ acts \in 0..MaxActs
    BY DEF TypeOK, SettingsAssumption
  <2>2. Act
    BY DEF Use
  <2> QED BY ONLY <2>1, <2>2 DEF Act
<1>2. ASSUME NEW s \in Slots, NEW body \in Settings,
             NEW op \in {"save", "test", "choose", "import", "dismiss"}, Send(s, op, body)
      PROVE req' \in [Slots -> Request]
  BY <1>2, DefaultTypes DEF Send, TypeOK, Request, Steps
<1>3. ASSUME NEW s, Alone(s) \/ Edited \/ Strays("writes")
      PROVE strayed' \subseteq {"edits", "writes", "failures"}
  BY <1>3 DEF Alone, Edited, Strays, TypeOK
<1>4. FormSettings \in Settings
  BY <1>0 DEF FormSettings, Page, Settings
<1>5. \A llm \in Llms, key \in AnyKey : [Default EXCEPT !.llm = llm] \in Settings
                                        /\ [Default EXCEPT !.llm = llm, !.key = key] \in Settings
  BY DefaultTypes DEF Settings
<1> DEFINE Goal == /\ req' \in [Slots -> Request] /\ page' \in Page
                   /\ strayed' \subseteq {"edits", "writes", "failures"}
<1>6. ASSUME NEW llm \in Llms, NEW key \in AnyKey, EditLlm(llm, key)
      PROVE Goal
  <2>1. page' \in Page
    BY <1>0, <1>6 DEF EditLlm, Page, States
  <2> QED BY <1>3, <1>6, <2>1 DEF EditLlm, TypeOK
<1>7. ASSUME NEW folder \in Folders, EditFolder(folder)
      PROVE Goal
  <2>1. page' \in Page
    BY <1>0, <1>7 DEF EditFolder, Page
  <2> QED BY <1>3, <1>7, <2>1 DEF EditFolder, TypeOK
<1>8. ASSUME NEW folder \in Folders, ChooseFolder(folder)
      PROVE Goal
  <2>1. [page.settings EXCEPT !.folder = folder] \in Settings
    BY <1>0 DEF Settings
  <2>2. page' \in Page
    BY <1>0, <1>8, <2>1 DEF ChooseFolder, Page
  <2> QED BY <1>0, <1>2, <1>3, <1>8, <2>1, <2>2 DEF ChooseFolder
<1>9. ASSUME NEW llm \in Llms, ImportSettings([Default EXCEPT !.llm = llm])
      PROVE Goal
  <2>1. [Default EXCEPT !.llm = llm] \in Settings
    BY <1>5 DEF AnyKey
  <2>2. req' \in [Slots -> Request]
    BY <1>0, <1>2, <1>9, <2>1 DEF ImportSettings
  <2>3. strayed' \subseteq {"edits", "writes", "failures"}
    BY <1>3, <1>9 DEF ImportSettings
  <2>4. page' \in Page
    BY <1>0, <1>9 DEF ImportSettings
  <2> QED BY <2>2, <2>3, <2>4
<1>10. ASSUME NEW op \in {"save", "test"}, Persist(op)
       PROVE Goal
  <2>1. page' \in Page
    BY <1>0, <1>4, <1>10 DEF Persist, Page
  <2> QED BY <1>0, <1>2, <1>3, <1>4, <1>10, <2>1 DEF Persist
<1>11. ASSUME DismissHelper
       PROVE Goal
  <2>1. [page.settings EXCEPT !.seen = TRUE] \in Settings
    BY <1>0 DEF Settings
  <2>2. page' \in Page
    BY <1>0, <1>11, <2>1 DEF DismissHelper, Page
  <2>3. req' \in [Slots -> Request]
    BY <1>0, <1>2, <1>11, <2>1 DEF DismissHelper
  <2>4. strayed' \subseteq {"edits", "writes", "failures"}
    BY <1>3, <1>11 DEF DismissHelper
  <2> QED BY <2>2, <2>3, <2>4
<1>12. ASSUME OtherWindow
       PROVE Goal
  <2>1. ASSUME NEW op \in {"load", "testing"}, NEW what \in {"settings", "test"}, Ask("other", op, what)
        PROVE req' \in [Slots -> Request]
    BY <2>1, <1>0, DefaultTypes DEF Ask, TypeOK, Request, Steps
  <2>2. ASSUME NEW llm \in Llms, NEW key \in AnyKey,
               Send("other", "save", [Default EXCEPT !.llm = llm, !.key = key])
        PROVE req' \in [Slots -> Request]
    BY <1>0, <1>2, <1>5, <2>2
  <2>3. req' \in [Slots -> Request]
    BY <1>12, <2>1, <2>2 DEF OtherWindow
  <2>4. strayed' \subseteq {"edits", "writes", "failures"} /\ page' \in Page
    BY <1>0, <1>3, <1>12 DEF OtherWindow
  <2> QED BY <2>3, <2>4
<1> HIDE DEF Goal
<1>13. Goal
  BY <1>6, <1>7, <1>8, <1>9, <1>10, <1>11, <1>12 DEF Use, SaveSettings, TestLlm
<1> QED BY <1>0, <1>1, <1>13 DEF TypeOK, Goal

\* The types of LlmSettings: no access, answer or act leaves a store or the page
\* with something the code could not have put there.
THEOREM TypeCorrect == Spec => []TypeOK
<1>1. Init => TypeOK
  <2> SUFFICES ASSUME Init PROVE TypeOK
    OBVIOUS
  <2>1. row \in Settings
    BY DefaultTypes DEF Init, Settings
  <2>2. [Idle EXCEPT !.at = "get"] \in Request
    BY DefaultTypes DEF Request, Steps
  <2>3. req \in [Slots -> Request]
    BY <2>2, DefaultTypes DEF Init, Opened
  <2>4. vault \in [Providers -> AnyKey]
    BY DEF Init, AnyKey
  <2>5. acts \in 0..MaxActs /\ faults \in 0..MaxFaults
    BY DEF Init, SettingsAssumption
  <2> QED BY <2>1, <2>3, <2>4, <2>5, DefaultTypes DEF Init, TypeOK
<1>2. TypeOK /\ [Next]_vars => TypeOK'
  <2> SUFFICES ASSUME TypeOK, [Next]_vars PROVE TypeOK'
    OBVIOUS
  <2>0. Opened \in [Slots -> Request]
    <3>1. [Idle EXCEPT !.at = "get"] \in Request
      BY DefaultTypes DEF Request, Steps
    <3> QED BY <3>1, DefaultTypes DEF Opened
  <2>1. ASSUME NEW s \in Slots, Serve(s) PROVE TypeOK'
    BY <2>1, ServeTypes
  <2>2. CASE Receive
    BY <2>2, ReceiveTypes
  <2>3. CASE Use
    BY <2>3, UseTypes
  <2>4. CASE Reload
    <3>1. acts' \in 0..MaxActs
      <4>1. MaxActs \in Nat /\ acts \in 0..MaxActs /\ Act
        BY <2>4 DEF TypeOK, SettingsAssumption, Reload
      <4> QED BY ONLY <4>1 DEF Act
    <3> QED BY <2>0, <2>4, <3>1, DefaultTypes DEF Reload, TypeOK
  <2>5. CASE Restart
    <3>1. faults' \in 0..MaxFaults
      <4>1. MaxFaults \in Nat /\ faults \in 0..MaxFaults /\ Fault
        BY <2>5 DEF TypeOK, SettingsAssumption, Restart
      <4> QED BY ONLY <4>1 DEF Fault
    <3>2. vault' \in [Providers -> AnyKey]
      BY <2>5 DEF Restart, TypeOK, AnyKey
    <3> QED BY <2>0, <2>5, <3>1, <3>2, DefaultTypes DEF Restart, TypeOK
  <2>6. CASE UNCHANGED vars
    BY <2>6 DEF vars, TypeOK
  <2> QED BY <2>1, <2>2, <2>3, <2>4, <2>5, <2>6 DEF Next
<1> QED BY <1>1, <1>2, PTL DEF Spec

-----------------------------------------------------------------------------
(* The stored status. *)

\* "passed" is stored with the pair that a provider answered, for TestEnds keeps
\* the pair it read before it asked, and nothing else writes the status.
THEOREM StatusHonest == Spec => []StatusIsOfTest
<1>1. Init => StatusIsOfTest
  BY DEF Init, StatusIsOfTest
<1>2. StatusIsOfTest /\ [Next]_vars => StatusIsOfTest'
  <2> SUFFICES ASSUME StatusIsOfTest, [Next]_vars PROVE StatusIsOfTest'
    OBVIOUS
  <2>1. CASE UNCHANGED <<status, worked>>
    BY <2>1 DEF StatusIsOfTest
  <2>2. ASSUME NEW s \in Slots, TestEnds(s) PROVE StatusIsOfTest'
    <3>1. PICK ok \in BOOLEAN :
            /\ worked' = IF ok THEN worked \cup {req[s].pair} ELSE worked
            /\ status' = Recorded(req[s].pair, ok) \/ UNCHANGED status
      BY <2>2 DEF TestEnds
    <3>2. CASE UNCHANGED status
      BY <3>1, <3>2 DEF StatusIsOfTest
    <3>3. CASE status' = Recorded(req[s].pair, ok)
      BY <3>1, <3>3 DEF StatusIsOfTest, Recorded
    <3> QED BY <3>1, <3>2, <3>3
  <2>3. ASSUME NEW s \in Slots, Serve(s), ~TestEnds(s) PROVE UNCHANGED <<status, worked>>
    BY <2>3 DEF Serve, Get, MigrateKey, ScrubRow, PutKey, PutRow, TestKey, StatusKey, ReadKey, StatusAnswer, Raises
  <2>4. CASE Receive \/ Use \/ Reload \/ Restart \/ UNCHANGED vars
    BY <2>1, <2>4 DEF Receive, Use, Reload, Restart, vars
  <2> QED BY <2>1, <2>2, <2>3, <2>4 DEF Next
<1> QED BY <1>1, <1>2, PTL DEF Spec

-----------------------------------------------------------------------------
(* Keys and the database. *)

\* Whoever has read the settings to the end has seen the row without a key, and
\* no later write brings one.
Scrubbed ==
  /\ page.loaded => row.key = "none"
  /\ \A s \in Slots : req[s].at \in {"got", "test_key", "status_key"} => row.key = "none"

\* A step never writes a key into the row, and keeps what Scrubbed says.
LEMMA RowSteps ==
  ASSUME TypeOK, Scrubbed, [Next]_vars
  PROVE /\ row'.key # "none" => row' = row
        /\ Scrubbed'
<1>0. Scrubbed /\ "main" \in Slots
  BY DEF Slots
<1>1. row' = row \/ row'.key = "none"
  <2>1. ASSUME NEW s \in Slots, Serve(s) PROVE row' = row \/ row'.key = "none"
    <3>1. req[s].body \in Settings
      BY DEF TypeOK, Request
    <3>2. Cleaned(req[s].body).key = "none"
      BY <3>1 DEF Cleaned, Settings
    <3> QED
      BY <2>1, <3>2 DEF Serve, Get, MigrateKey, ScrubRow, PutKey, PutRow, TestKey, TestEnds, StatusKey,
                        ReadKey, StatusAnswer, Raises
  <2> QED BY <2>1 DEF Next, Receive, Use, Reload, Restart, vars
<1>2. page'.loaded => page.loaded \/ row'.key = "none"
  <2>0. page \in Page
    BY DEF TypeOK
  <2>1. CASE Loaded
    BY <1>0, <1>1, <2>1 DEF Loaded, Main, Scrubbed
  <2>2. CASE Receive /\ ~Loaded
    BY <2>0, <2>2 DEF Receive, LoadFails, Saved, Chosen, Imported, PutFails, Shown, StatusFails, Tested,
                      Dismissed, OtherAnswered, Page
  <2>3. CASE Use
    BY <2>0, <2>3 DEF Use, EditLlm, EditFolder, ChooseFolder, ImportSettings, SaveSettings, TestLlm, Persist,
                      DismissHelper, OtherWindow, Page
  <2>4. CASE Reload \/ Restart
    BY <2>4 DEF Reload, Restart, Blank, Page
  <2>5. CASE (\E s \in Slots : Serve(s)) \/ UNCHANGED vars
    BY <2>5 DEF Serve, vars
  <2> QED BY <2>1, <2>2, <2>3, <2>4, <2>5 DEF Next
<1>3. \A s \in Slots : req'[s].at \in {"got", "test_key", "status_key"} => row'.key = "none"
  <2> SUFFICES ASSUME NEW s \in Slots, req'[s].at \in {"got", "test_key", "status_key"}
               PROVE row'.key = "none"
    OBVIOUS
  <2>0. req \in [Slots -> Request]
    BY DEF TypeOK
  <2>1. CASE req'[s].at = req[s].at
    BY <1>0, <1>1, <2>1 DEF Scrubbed
  <2>2. ASSUME NEW t \in Slots, Serve(t), req'[s].at # req[s].at
        PROVE row'.key = "none"
    <3>1. req[t].body \in Settings
      BY DEF TypeOK, Request
    <3>2. Cleaned(req[t].body).key = "none"
      BY <3>1 DEF Cleaned, Settings
    <3>3. CASE Get(t)
      BY <2>0, <2>2, <3>3 DEF Get, Raises, Go, GetFailed, Request
    <3>4. CASE ScrubRow(t)
      BY <2>0, <2>2, <3>2, <3>4 DEF ScrubRow, Raises, Go, GetFailed, Request
    <3>5. CASE MigrateKey(t) \/ PutKey(t) \/ PutRow(t) \/ TestEnds(t) \/ StatusAnswer(t)
      BY <2>0, <2>2, <3>5 DEF MigrateKey, PutKey, PutRow, TestEnds, StatusAnswer, Raises, Go, Request
    <3>6. CASE TestKey(t) \/ StatusKey(t)
      BY <2>0, <2>2, <3>6 DEF TestKey, StatusKey, ReadKey, Raises, Go, Request
    <3> QED BY <2>2, <3>3, <3>4, <3>5, <3>6 DEF Serve
  <2>3. CASE Receive
    <3>1. ASSUME NEW t \in Slots, NEW op, NEW what, Ask(t, op, what)
          PROVE req'[s].at = req[s].at \/ req'[s].at = "get"
      BY <2>0, <3>1 DEF Ask, Idle, Request
    <3>2. ASSUME NEW t \in Slots, Done(t)
          PROVE req'[s].at = req[s].at \/ req'[s].at = "idle"
      BY <2>0, <3>2 DEF Done, Idle, Request
    <3>3. "side" \in Slots /\ "other" \in Slots
      BY DEF Slots
    <3>4. (\E op, what : Ask("main", op, what)) \/ Done("main") \/ Done("side") \/ Done("other")
      BY <2>3 DEF Receive, Loaded, LoadFails, Saved, Chosen, Imported, PutFails, Shown, StatusFails,
                  Tested, Dismissed, OtherAnswered
    <3> QED BY <1>0, <2>1, <3>1, <3>2, <3>3, <3>4
  <2>4. CASE Use
    <3>1. ASSUME NEW t \in Slots, NEW op, NEW what, Ask(t, op, what)
          PROVE req'[s].at = req[s].at \/ req'[s].at = "get"
      BY <2>0, <3>1 DEF Ask, Idle, Request
    <3>2. ASSUME NEW t \in Slots, NEW op, NEW body, Send(t, op, body)
          PROVE req'[s].at = req[s].at \/ req'[s].at = "put"
      BY <2>0, <3>2 DEF Send, Idle, Request
    <3>3. "side" \in Slots /\ "other" \in Slots
      BY DEF Slots
    <3>4. \/ req' = req
          \/ \E t \in Slots : \E op, what : Ask(t, op, what)
          \/ \E t \in Slots : \E op, body : Send(t, op, body)
      BY <1>0, <2>4, <3>3 DEF Use, EditLlm, EditFolder, ChooseFolder, ImportSettings, SaveSettings, TestLlm,
                              Persist, DismissHelper, OtherWindow
    <3> QED BY <2>1, <3>1, <3>2, <3>4
  <2>5. CASE Reload \/ Restart
    BY <2>5 DEF Reload, Restart, Opened, Idle
  <2>6. CASE UNCHANGED vars
    BY <2>1, <2>6 DEF vars
  <2> QED BY <2>1, <2>2, <2>3, <2>4, <2>5, <2>6 DEF Next
<1>4. page'.loaded => row'.key = "none"
  BY <1>0, <1>1, <1>2 DEF Scrubbed
<1> QED BY <1>1, <1>3, <1>4 DEF Scrubbed

\* No key reaches the database, and a loaded page has none left there, whatever
\* requests of however many windows overlap and wherever they fail.
THEOREM KeysStayOut == Spec => NoPlaintext
<1>1. Init => Scrubbed
  BY DEF Init, Scrubbed, Blank, Opened, Idle
<1>2. TypeOK /\ Scrubbed /\ [Next]_vars => Scrubbed'
  BY RowSteps
<1>3. TypeOK /\ Scrubbed /\ Scrubbed' /\ [Next]_vars
        => [(row'.key # "none" => row' = row) /\ (page'.loaded => row'.key = "none")]_vars
  BY RowSteps DEF Scrubbed
<1> QED BY <1>1, <1>2, <1>3, TypeCorrect, PTL DEF Spec, NoPlaintext
-----------------------------------------------------------------------------
(* What the page says. *)

\* What a request r of the page may be: one that writes, or one that reads the
\* settings, the status or the test.
First == {"get", "legacy", "scrub"}
Puts == {"put", "row", "saved", "put_failed"}
Turn(r) ==
  \/ r = Idle
  \/ /\ r.what = "settings" /\ r.at \in Puts
     /\ page.loaded /\ r.op \in {"save", "test", "choose", "import"}
  \/ /\ r.what = "settings" /\ r.at \in First \cup {"got", "get_failed"}
     /\ IF page.loaded THEN r.op = "import" ELSE r.op = "load"
  \/ /\ r.what = "status" /\ r.at \in First \cup {"status_key", "status_row", "shown", "status_failed"}
     /\ r.op = "load" \/ (page.loaded /\ r.op \in {"save", "import", "test", "testing", "last"})
  \/ /\ r.what = "test" /\ r.at \in First \cup {"test_key", "asking", "tested", "test_failed"}
     /\ page.loaded /\ r.op = "testing"

\* What a request of the helper may be.
Side(r) == r = Idle \/ (r.at \in Puts /\ r.op = "dismiss" /\ page.loaded)

InUse == [llm |-> row.llm, key |-> KeyInUse(row.llm)]

\* A request carries what the page has sent, and then what the stores hold.
Carries(r) ==
  /\ r.at \in {"put", "row"} => IF r.op = "import" THEN r.body.key = "none" ELSE r.body = page.settings
  /\ r.at \in {"put", "row"} /\ r.op \in {"save", "test"} =>
       page.form = [llm |-> r.body.llm, key |-> r.body.key, folder |-> r.body.folder]
  /\ r.at \in {"saved", "legacy", "scrub", "got", "test_key", "status_key"} => r.body = row
  /\ r.at = "saved" => row.key = "none"
  /\ r.at = "saved" /\ r.op \in {"save", "test"} => page.form.llm = row.llm /\ page.form.folder = row.folder
  /\ r.at \in {"status_row", "shown"} => r.pair = InUse
  /\ r.at = "shown" /\ r.said = "passed" => InUse \in worked

\* The page has not heard yet of what an import wrote.
Imports(r) == r.op = "import" /\ r.at \notin {"put", "row", "put_failed"}

\* Settings or a form with the model of the row and no key.
Named(x) == x.llm = row.llm /\ x.key = "none"

\* A page that calls its settings synced shows the row, but for a folder on its way,
Synced(r) ==
  page.loaded /\ ~page.dirty /\ ~(Imports(r) /\ r.what = "settings") =>
    /\ Named(page.settings) /\ Named(page.form)
    /\ r.op = "choose" \/ (page.settings.folder = row.folder /\ page.form.folder = row.folder)

\* and a page that says "passed" was told so of the settings and the key in use.
Passed(r) ==
  page.test = "passed" /\ ~Imports(r) =>
    /\ InUse \in worked
    /\ IF page.loaded THEN Named(page.settings) /\ Named(page.form) ELSE r = Idle

\* A page that asks for the status or for a test is synced.
Settled(r) == r.what # "settings" /\ page.loaded => ~page.dirty

Good(r) == Turn(r) /\ Carries(r) /\ Synced(r) /\ Passed(r) /\ Settled(r)

\* One request at a time, none of another window, and the page says what is true.
Told ==
  /\ req["other"] = Idle /\ (req["main"] = Idle \/ req["side"] = Idle)
  /\ Good(req["main"]) /\ Side(req["side"]) /\ Carries(req["side"])

\* What happened to the page is no reason to reload it.
PageIsTold == strayed = {} => Told

\* A slot in which nothing is on its way.
LEMMA IdleFields ==
  /\ Idle.at = "idle" /\ Idle.op = "load" /\ Idle.what = "settings" /\ Idle.body = Default
  /\ Idle.pair = NoPair /\ Idle.said = "not_tested"
  BY DEF Idle

LEMMA IdleGood == Turn(Idle) /\ Side(Idle) /\ Carries(Idle) /\ ~Imports(Idle) /\ Settled(Idle)
  BY IdleFields DEF Turn, Side, Carries, Imports, Settled

LEMMA GetSteps ==
  /\ AfterGet["settings"] = "got" /\ AfterGet["test"] = "test_key" /\ AfterGet["status"] = "status_key"
  /\ GetFailed["settings"] = "get_failed" /\ GetFailed["test"] = "test_failed"
  /\ GetFailed["status"] = "status_failed"
  BY DEF AfterGet, GetFailed

\* A step of the service changes one request, and never what it is about.
LEMMA ServeSlot ==
  ASSUME TypeOK, NEW s \in Slots, Serve(s)
  PROVE  /\ \A t \in Slots \ {s} : req'[t] = req[t]
         /\ req'[s].op = req[s].op /\ req'[s].what = req[s].what /\ req[s].at # "idle"
<1>1. req \in [Slots -> Request]
  BY DEF TypeOK
<1>2. CASE Get(s) \/ ScrubRow(s)
  BY <1>1, <1>2 DEF Get, ScrubRow, Raises, Go, Request
<1>3. CASE MigrateKey(s) \/ PutKey(s) \/ PutRow(s) \/ TestEnds(s) \/ StatusAnswer(s)
  BY <1>1, <1>3 DEF MigrateKey, PutKey, PutRow, TestEnds, StatusAnswer, Raises, Go, Request
<1>4. CASE TestKey(s) \/ StatusKey(s)
  BY <1>1, <1>4 DEF TestKey, StatusKey, ReadKey, Raises, Go, Request
<1> QED
  BY <1>2, <1>3, <1>4 DEF Serve

\* The service keeps what a request of the page relies on.
LEMMA ServeMain ==
  ASSUME TypeOK, Scrubbed, StatusIsOfTest, NEW r, NEW m, r = req["main"], m = req'["main"],
         Serve("main"), Good(r)
  PROVE  Good(m)'
<1>0. /\ r \in Request /\ r.body \in Settings /\ row \in Settings /\ page \in Page
      /\ req \in [Slots -> Request] /\ "main" \in Slots
  BY DEF TypeOK, Request, Slots
<1>1. m.op = r.op /\ m.what = r.what /\ r.at # "idle" /\ r # Idle /\ page' = page
  BY <1>0, ServeSlot, IdleFields DEF Serve
<1>a. ASSUME NEW at, Go("main", at)
      PROVE  m = [r EXCEPT !.at = at]
  BY <1>0, <1>a DEF Go
\* The request goes on and the stores keep what they say of the settings.
<1>k. ASSUME UNCHANGED <<row, vault>>, worked \subseteq worked', Imports(m) <=> Imports(r), Turn(m), Carries(m)'
      PROVE  Good(m)'
  <2>1. InUse' = InUse
    BY <1>k DEF InUse, KeyInUse
  <2>2. Turn(m)' /\ Settled(m)'
    BY <1>1, <1>k DEF Turn, Settled, Good
  <2>3. Synced(m)'
    BY <1>1, <1>k DEF Synced, Named, Good
  <2>4. Passed(m)'
    BY <1>1, <1>k, <2>1 DEF Passed, Named, Good
  <2> QED
    BY <1>k, <2>2, <2>3, <2>4 DEF Good
<1>f. ASSUME NEW at \in {"get_failed", "test_failed", "status_failed", "put_failed"}, m = [r EXCEPT !.at = at],
             UNCHANGED <<row, vault>>, worked \subseteq worked', Imports(m) <=> Imports(r), Turn(m)
      PROVE  Good(m)'
  <2>1. m.at = at
    BY <1>0, <1>f DEF Request
  <2>2. Carries(m)'
    BY <1>f, <2>1 DEF Carries
  <2> QED
    BY <1>f, <1>k, <2>2
<1>2. CASE Get("main")
  <2>1. r.at = "get" /\ UNCHANGED <<row, vault, worked>>
    BY <1>2 DEF Get, Raises
  <2>2. r.what \in {"settings", "status", "test"}
    BY <1>0 DEF Request
  <2>3. CASE Go("main", GetFailed[r.what])
    <3>1. m = [r EXCEPT !.at = GetFailed[r.what]] /\ m.at = GetFailed[r.what]
      BY <1>0, <1>a, <2>3 DEF Request
    <3>2. Turn(m) /\ (Imports(m) <=> Imports(r))
      BY <1>1, <2>1, <2>2, <3>1, GetSteps, IdleFields DEF Turn, Imports, First, Puts, Good
    <3> QED
      BY <1>f, <2>1, <2>2, <3>1, <3>2, GetSteps
  <2>4. CASE req' = [req EXCEPT !["main"].body = row,
                                !["main"].at = IF row.key = "none" THEN AfterGet[r.what] ELSE "legacy"]
    <3>1. m.body = row /\ m.at = IF row.key = "none" THEN AfterGet[r.what] ELSE "legacy"
      BY <1>0, <2>4 DEF Request
    <3>2. Turn(m) /\ (Imports(m) <=> Imports(r))
      BY <1>1, <2>1, <2>2, <3>1, GetSteps, IdleFields DEF Turn, Imports, First, Puts, Good
    <3>3. Carries(m)'
      BY <2>1, <2>2, <3>1, GetSteps DEF Carries
    <3> QED
      BY <1>k, <2>1, <3>2, <3>3
  <2> QED
    BY <1>2, <2>3, <2>4 DEF Get, Raises
<1>3. CASE MigrateKey("main")
  <2>1. r.at = "legacy" /\ Go("main", "scrub") /\ UNCHANGED <<row, worked>>
    BY <1>3 DEF MigrateKey
  <2>2. m = [r EXCEPT !.at = "scrub"] /\ m.at = "scrub" /\ m.body = r.body
    BY <1>0, <1>a, <2>1 DEF Request
  <2>3. Turn(m) /\ (Imports(m) <=> Imports(r)) /\ Carries(m)'
    BY <1>1, <2>1, <2>2 DEF Turn, Imports, First, Puts, Good, Carries
  <2>4. CASE UNCHANGED vault
    BY <1>k, <2>1, <2>3, <2>4
  <2>5. CASE HasKey(r.body)
    <3>1. ~page.loaded
      BY <2>1, <2>5 DEF Good, Carries, HasKey, Scrubbed
    <3>2. ~Imports(r) /\ page.test # "passed"
      BY <1>1, <2>1, <3>1, IdleFields DEF Turn, Imports, Passed, First, Puts, Good
    <3> QED
      BY <1>1, <2>3, <3>1, <3>2 DEF Good, Turn, Synced, Passed, Settled
  <2> QED
    BY <1>3, <2>4, <2>5 DEF MigrateKey
<1>4. CASE ScrubRow("main")
  <2>1. r.at = "scrub" /\ r.body = row /\ r.what \in {"settings", "status", "test"} /\ UNCHANGED <<vault, worked>>
    BY <1>0, <1>4 DEF ScrubRow, Raises, Good, Carries, Request
  <2>2. CASE Go("main", GetFailed[r.what]) /\ UNCHANGED row
    <3>1. m = [r EXCEPT !.at = GetFailed[r.what]] /\ m.at = GetFailed[r.what]
      BY <1>0, <1>a, <2>2 DEF Request
    <3>2. Turn(m) /\ (Imports(m) <=> Imports(r))
      BY <1>1, <2>1, <3>1, GetSteps, IdleFields DEF Turn, Imports, First, Puts, Good
    <3> QED
      BY <1>f, <2>1, <2>2, <3>1, <3>2, GetSteps
  <2>3. CASE /\ row' = Cleaned(r.body)
             /\ req' = [req EXCEPT !["main"].body = Cleaned(@), !["main"].at = AfterGet[r.what]]
    <3>1. m.body = row' /\ m.at = AfterGet[r.what]
      BY <1>0, <2>3 DEF Request
    <3>2. row'.llm = row.llm /\ row'.folder = row.folder
      BY <1>0, <2>1, <2>3 DEF Cleaned, Settings
    <3>3. InUse' = InUse
      BY <2>1, <3>2 DEF InUse, KeyInUse
    <3>4. Turn(m) /\ (Imports(m) <=> Imports(r))
      BY <1>1, <2>1, <3>1, GetSteps, IdleFields DEF Turn, Imports, First, Puts, Good
    <3>5. Carries(m)'
      BY <2>1, <3>1, GetSteps DEF Carries
    <3>6. Turn(m)' /\ Settled(m)' /\ Synced(m)' /\ Passed(m)'
      BY <1>1, <2>1, <3>2, <3>3, <3>4 DEF Turn, Settled, Synced, Passed, Named, Good
    <3> QED
      BY <3>5, <3>6 DEF Good
  <2> QED
    BY <1>4, <2>2, <2>3 DEF ScrubRow, Raises
<1>5. CASE PutKey("main")
  <2>1. r.at = "put" /\ page.loaded /\ r.what = "settings" /\ r.op \in {"save", "test", "choose", "import"}
        /\ UNCHANGED <<row, worked>>
    BY <1>1, <1>5 DEF PutKey, Turn, First, Good
  <2>2. PICK at \in {"row", "put_failed"} : Go("main", at)
    BY <1>5 DEF PutKey
  <2>3. m.at = at /\ m.body = r.body
    <3>1. m = [r EXCEPT !.at = at]
      BY <1>a, <2>2
    <3> QED
      BY <1>0, <3>1 DEF Request
  <2>4. Turn(m)' /\ Carries(m)' /\ Settled(m)' /\ ~Imports(m) /\ ~Imports(r)
    BY <1>1, <2>1, <2>3 DEF Turn, Carries, Settled, Imports, Puts, Good
  <2>5. Synced(m)'
    BY <1>1, <2>1, <2>4 DEF Synced, Named, Good
  <2>6. Passed(m)'
    <3>1. CASE page.test = "passed"
      <4>1. InUse \in worked /\ Named(page.settings) /\ Named(page.form)
        BY <2>1, <2>4, <3>1 DEF Good, Passed
      <4>2. ~HasKey(r.body)
        BY <2>1, <4>1 DEF Good, Carries, HasKey, Named
      <4>3. InUse' = InUse
        BY <1>5, <2>1, <4>2 DEF PutKey, InUse, KeyInUse
      <4> QED
        BY <1>1, <2>1, <4>1, <4>3 DEF Passed, Named
    <3> QED
      BY <1>1, <3>1 DEF Passed
  <2> QED
    BY <2>4, <2>5, <2>6 DEF Good
<1>6. CASE PutRow("main")
  <2>1. r.at = "row" /\ page.loaded /\ r.what = "settings" /\ r.op \in {"save", "test", "choose", "import"}
        /\ UNCHANGED <<vault, worked>> /\ ~Imports(r)
    BY <1>1, <1>6 DEF PutRow, Raises, Turn, First, Imports, Good
  <2>2. CASE Go("main", "put_failed") /\ UNCHANGED row
    <3>1. m = [r EXCEPT !.at = "put_failed"] /\ m.at = "put_failed"
      BY <1>0, <1>a, <2>2 DEF Request
    <3>2. Turn(m) /\ ~Imports(m)
      BY <1>1, <2>1, <3>1 DEF Turn, Imports, Puts
    <3> QED
      BY <1>f, <2>1, <2>2, <3>1, <3>2
  <2>3. CASE row' = Cleaned(r.body) /\ req' = [req EXCEPT !["main"].body = Cleaned(@), !["main"].at = "saved"]
    <3>1. m.body = row' /\ m.at = "saved"
      BY <1>0, <2>3 DEF Request
    <3>2. row'.llm = r.body.llm /\ row'.folder = r.body.folder /\ row'.key = "none"
      BY <1>0, <2>3 DEF Cleaned, Settings
    <3>3. Turn(m)' /\ Settled(m)'
      BY <1>1, <2>1, <3>1 DEF Turn, Settled, Puts
    <3>4. Carries(m)'
      BY <1>1, <2>1, <3>1, <3>2 DEF Carries, Good
    <3>5. CASE r.op = "import"
      BY <1>1, <2>1, <3>1, <3>3, <3>4, <3>5 DEF Good, Synced, Passed, Imports
    <3>6. CASE r.op # "import"
      <4>1. r.body = page.settings /\ ~Imports(m)
        BY <1>1, <2>1, <3>6 DEF Good, Carries, Imports
      <4>2. Synced(m)'
        BY <1>1, <2>1, <3>2, <4>1 DEF Good, Carries, Synced, Named
      <4>3. Passed(m)'
        <5>1. CASE page.test = "passed"
          <6>1. InUse \in worked /\ Named(page.settings) /\ Named(page.form)
            BY <2>1, <5>1 DEF Good, Passed
          <6>2. row'.llm = row.llm
            BY <3>2, <4>1, <6>1 DEF Named
          <6>3. InUse' = InUse
            BY <2>1, <6>2 DEF InUse, KeyInUse
          <6> QED
            BY <1>1, <2>1, <6>1, <6>2, <6>3 DEF Passed, Named
        <5> QED
          BY <1>1, <5>1 DEF Passed
      <4> QED
        BY <3>3, <3>4, <4>2, <4>3 DEF Good
    <3> QED
      BY <3>5, <3>6
  <2> QED
    BY <1>6, <2>2, <2>3 DEF PutRow, Raises
<1>7. ASSUME NEW from \in {"test_key", "status_key"}, NEW to \in {"asking", "status_row"},
             NEW failed \in {"test_failed", "status_failed"}, ReadKey("main", from, to, failed),
             from = "test_key" => to = "asking" /\ failed = "test_failed",
             from = "status_key" => to = "status_row" /\ failed = "status_failed"
      PROVE  Good(m)'
  <2>1. r.at = from /\ r.body = row /\ UNCHANGED <<row, vault, worked>>
    BY <1>7 DEF ReadKey, Raises, Good, Carries
  <2>2. CASE Go("main", failed)
    <3>1. m = [r EXCEPT !.at = failed] /\ m.at = failed
      BY <1>0, <1>a, <2>2 DEF Request
    <3>2. Turn(m) /\ (Imports(m) <=> Imports(r))
      BY <1>1, <1>7, <2>1, <3>1 DEF Turn, Imports, First, Puts, Good
    <3> QED
      BY <1>f, <2>1, <3>1, <3>2
  <2>3. CASE req' = [req EXCEPT !["main"].pair = [llm |-> r.body.llm, key |-> KeyInUse(r.body.llm)],
                                !["main"].body = Default, !["main"].at = to]
    <3>1. m.pair = InUse /\ m.at = to
      BY <1>0, <2>1, <2>3 DEF Request, InUse
    <3>2. Turn(m) /\ (Imports(m) <=> Imports(r))
      BY <1>1, <1>7, <2>1, <3>1 DEF Turn, Imports, First, Puts, Good
    <3>3. InUse' = InUse
      BY <2>1 DEF InUse, KeyInUse
    <3>4. Carries(m)'
      BY <3>1, <3>3 DEF Carries
    <3> QED
      BY <1>k, <2>1, <3>2, <3>4
  <2> QED
    BY <1>7, <2>2, <2>3 DEF ReadKey, Raises
<1>8. CASE TestEnds("main")
  <2>1. r.at = "asking" /\ UNCHANGED <<row, vault>> /\ worked \subseteq worked'
    BY <1>8 DEF TestEnds
  <2>2. PICK at \in {"tested", "test_failed"} : Go("main", at)
    BY <1>8 DEF TestEnds
  <2>3. m.at = at
    <3>1. m = [r EXCEPT !.at = at]
      BY <1>a, <2>2
    <3> QED
      BY <1>0, <3>1 DEF Request
  <2>4. Turn(m) /\ (Imports(m) <=> Imports(r)) /\ Carries(m)'
    BY <1>1, <2>1, <2>3 DEF Turn, Imports, First, Puts, Good, Carries
  <2> QED
    BY <1>k, <2>1, <2>4
<1>9. CASE StatusAnswer("main")
  <2>1. r.at = "status_row" /\ r.pair = InUse /\ UNCHANGED <<row, vault, worked>>
    BY <1>9 DEF StatusAnswer, Raises, Good, Carries
  <2>2. CASE Go("main", "status_failed")
    <3>1. m = [r EXCEPT !.at = "status_failed"] /\ m.at = "status_failed"
      BY <1>0, <1>a, <2>2 DEF Request
    <3>2. Turn(m) /\ (Imports(m) <=> Imports(r))
      BY <1>1, <2>1, <3>1 DEF Turn, Imports, First, Puts, Good
    <3> QED
      BY <1>f, <2>1, <3>1, <3>2
  <2>3. CASE req' = [req EXCEPT !["main"].said = Verdict(r.pair), !["main"].at = "shown"]
    <3>1. m.said = Verdict(r.pair) /\ m.at = "shown" /\ m.pair = r.pair
      BY <1>0, <2>3 DEF Request
    <3>2. Turn(m) /\ (Imports(m) <=> Imports(r))
      BY <1>1, <2>1, <3>1 DEF Turn, Imports, First, Puts, Good
    <3>3. InUse' = InUse
      BY <2>1 DEF InUse, KeyInUse
    <3>4. m.said = "passed" => InUse \in worked
      BY <2>1, <3>1 DEF Verdict, StatusIsOfTest
    <3>5. Carries(m)'
      BY <2>1, <3>1, <3>3, <3>4 DEF Carries
    <3> QED
      BY <1>k, <2>1, <3>2, <3>5
  <2> QED
    BY <1>9, <2>2, <2>3 DEF StatusAnswer, Raises
<1>10. CASE TestKey("main")
  BY <1>7, <1>10 DEF TestKey
<1>11. CASE StatusKey("main")
  BY <1>7, <1>11 DEF StatusKey
<1> QED
  BY <1>2, <1>3, <1>4, <1>5, <1>6, <1>8, <1>9, <1>10, <1>11 DEF Serve

\* The helper's request saves the settings of the page, with nothing else on its way.
LEMMA ServeSide ==
  ASSUME TypeOK, NEW r, NEW m, r = req["side"], m = req'["side"],
         Serve("side"), Good(Idle), Side(r), Carries(r)
  PROVE  Good(Idle)' /\ Side(m)' /\ Carries(m)'
<1>0. /\ r \in Request /\ r.body \in Settings /\ row \in Settings
      /\ req \in [Slots -> Request] /\ "side" \in Slots
  BY DEF TypeOK, Request, Slots
<1>1. m.op = r.op /\ r.at \in Puts /\ r.op = "dismiss" /\ page.loaded /\ page' = page
  BY <1>0, ServeSlot, IdleFields DEF Serve, Side
<1>a. ASSUME NEW at, Go("side", at)
      PROVE  m = [r EXCEPT !.at = at]
  BY <1>0, <1>a DEF Go
<1>2. Turn(Idle)' /\ Carries(Idle)' /\ Settled(Idle)' /\ ~Imports(Idle)
  BY IdleFields DEF Turn, Carries, Imports, Settled
<1>3. ASSUME row'.llm = row.llm, row'.folder = row.folder, InUse' = InUse, worked' = worked
      PROVE  Good(Idle)'
  <2>1. Synced(Idle)' /\ Passed(Idle)'
    BY <1>1, <1>2, <1>3 DEF Good, Synced, Passed, Named
  <2> QED
    BY <1>2, <2>1 DEF Good
<1>4. CASE PutKey("side")
  <2>1. r.at = "put" /\ UNCHANGED <<row, worked>>
    BY <1>4 DEF PutKey
  <2>2. PICK at \in {"row", "put_failed"} : Go("side", at)
    BY <1>4 DEF PutKey
  <2>3. m.at = at /\ m.body = r.body
    <3>1. m = [r EXCEPT !.at = at]
      BY <1>a, <2>2
    <3> QED
      BY <1>0, <3>1 DEF Request
  <2>4. Side(m)' /\ Carries(m)'
    BY <1>1, <2>1, <2>3 DEF Side, Carries, Puts
  <2>5. CASE page.test = "passed"
    <3>1. Named(page.settings)
      BY <1>1, <1>2, <2>5 DEF Good, Passed
    <3>2. ~HasKey(r.body)
      BY <1>1, <2>1, <3>1 DEF Carries, HasKey, Named
    <3>3. InUse' = InUse
      BY <1>4, <2>1, <3>2 DEF PutKey, InUse, KeyInUse
    <3> QED
      BY <1>3, <2>1, <2>4, <3>3
  <2>6. CASE page.test # "passed"
    <3>1. Synced(Idle)' /\ Passed(Idle)'
      BY <1>1, <1>2, <2>1, <2>6 DEF Good, Synced, Passed, Named
    <3> QED
      BY <1>2, <2>4, <3>1 DEF Good
  <2> QED
    BY <2>5, <2>6
<1>5. CASE PutRow("side")
  <2>1. r.at = "row" /\ UNCHANGED <<vault, worked>> /\ r.body = page.settings
    BY <1>1, <1>5 DEF PutRow, Raises, Carries
  <2>2. CASE Go("side", "put_failed") /\ UNCHANGED row
    <3>1. m = [r EXCEPT !.at = "put_failed"]
      BY <1>a, <2>2
    <3>2. m.at = "put_failed"
      BY <1>0, <3>1 DEF Request
    <3>3. Side(m)' /\ Carries(m)' /\ InUse' = InUse
      BY <1>1, <2>1, <2>2, <3>2 DEF Side, Carries, Puts, InUse, KeyInUse
    <3> QED
      BY <1>3, <2>1, <2>2, <3>3
  <2>3. CASE row' = Cleaned(r.body) /\ req' = [req EXCEPT !["side"].body = Cleaned(@), !["side"].at = "saved"]
    <3>1. m.body = row' /\ m.at = "saved"
      BY <1>0, <2>3 DEF Request
    <3>2. row'.llm = page.settings.llm /\ row'.folder = page.settings.folder /\ row'.key = "none"
      BY <1>0, <2>1, <2>3 DEF Cleaned, Settings
    <3>3. Side(m)' /\ Carries(m)'
      BY <1>1, <3>1, <3>2 DEF Side, Carries, Puts
    <3>4. Synced(Idle)'
      BY <1>1, <1>2, <3>2, IdleFields DEF Good, Synced, Named
    <3>5. CASE page.test = "passed"
      <4>1. InUse \in worked /\ Named(page.settings) /\ Named(page.form)
        BY <1>1, <1>2, <3>5 DEF Good, Passed
      <4>2. row'.llm = row.llm
        BY <3>2, <4>1 DEF Named
      <4>3. InUse' = InUse
        BY <2>1, <4>2 DEF InUse, KeyInUse
      <4>4. Passed(Idle)'
        BY <1>1, <2>1, <4>1, <4>2, <4>3 DEF Passed, Named
      <4> QED
        BY <1>2, <3>3, <3>4, <4>4 DEF Good
    <3>6. CASE page.test # "passed"
      <4>1. Passed(Idle)'
        BY <1>1, <3>6 DEF Passed
      <4> QED
        BY <1>2, <3>3, <3>4, <4>1 DEF Good
    <3> QED
      BY <3>5, <3>6
  <2> QED
    BY <1>5, <2>2, <2>3 DEF PutRow, Raises
<1>6. ~Get("side") /\ ~MigrateKey("side") /\ ~ScrubRow("side") /\ ~TestKey("side") /\ ~TestEnds("side")
      /\ ~StatusKey("side") /\ ~StatusAnswer("side")
  BY <1>1 DEF Puts, Get, MigrateKey, ScrubRow, TestKey, TestEnds, StatusKey, StatusAnswer, ReadKey
<1> QED
  BY <1>4, <1>5, <1>6 DEF Serve

\* An answer to the page, if it is no reason to reload it.
LEMMA ReceiveMain ==
  ASSUME TypeOK, Scrubbed, NEW r, NEW m, r = req["main"], m = req'["main"],
         Receive, ~Dismissed, ~OtherAnswered, strayed' = {}, Good(r)
  PROVE  Good(m)'
<1>0. /\ r \in Request /\ row \in Settings /\ page \in Page /\ page.settings \in Settings
      /\ req \in [Slots -> Request] /\ "main" \in Slots /\ UNCHANGED <<row, vault, worked>>
      /\ page.form \in [llm : Llms, key : AnyKey, folder : Folders]
  BY DEF TypeOK, Request, Slots, Receive, Page
<1>1. InUse' = InUse
  BY <1>0 DEF InUse, KeyInUse
<1>a. ASSUME NEW op, NEW what, Ask("main", op, what)
      PROVE  m.at = "get" /\ m.op = op /\ m.what = what
  BY <1>0, <1>a, DefaultTypes DEF Ask, Request
<1>d. ASSUME Done("main")
      PROVE  m = Idle
  BY <1>0, <1>d DEF Done
<1>s. ASSUME NEW how, Strays(how)
      PROVE  FALSE
  BY <1>s DEF Strays
<1>i. r # Idle \/ r.at = "idle"
  BY IdleFields
\* The page takes note of the answer, and the request is over.
<1>o. ASSUME Done("main"), Synced(Idle)', Passed(Idle)'
      PROVE  Good(m)'
  <2>1. Turn(Idle)' /\ Carries(Idle)' /\ Settled(Idle)'
    BY IdleFields DEF Turn, Carries, Settled
  <2> QED
    BY <1>d, <1>o, <2>1 DEF Good
<1>2. CASE Loaded
  <2>1. r.at = "got" /\ r.op \in {"load", "import"} /\ Ask("main", r.op, "status") /\ r.body = row /\ row.key = "none"
    BY <1>0, <1>2 DEF Loaded, Main, Good, Carries, Scrubbed
  <2>2. m.at = "get" /\ m.op = r.op /\ m.what = "status"
    BY <1>a, <2>1
  <2>3. /\ page'.loaded /\ ~page'.dirty /\ page'.settings = row /\ page'.test = page.test
        /\ page'.form.llm = row.llm /\ page'.form.key = "none" /\ page'.form.folder = row.folder
    BY <1>0, <1>2, <2>1 DEF Loaded, Page, Answer
  <2>4. Turn(m)' /\ Carries(m)' /\ Synced(m)' /\ Settled(m)'
    BY <1>0, <2>1, <2>2, <2>3 DEF Turn, First, Carries, Synced, Named, Settled
  <2>5. r.op = "load" => page.test # "passed"
    BY <1>i, <2>1 DEF Good, Turn, First, Puts, Passed, Imports
  <2>6. Passed(m)'
    BY <2>1, <2>2, <2>3, <2>5 DEF Passed, Imports
  <2> QED
    BY <2>4, <2>6 DEF Good
<1>3. CASE LoadFails
  <2>1. r.at = "get_failed" /\ r.op = "load" /\ Ask("main", "load", "status") /\ page' = page
    BY <1>3, <1>s DEF LoadFails, Main
  <2>2. m.at = "get" /\ m.op = "load" /\ m.what = "status"
    BY <1>a, <2>1
  <2>3. ~page.loaded /\ page.test # "passed"
    BY <1>i, <2>1 DEF Good, Turn, First, Puts, Passed, Imports
  <2>4. Turn(m)' /\ Carries(m)' /\ Synced(m)' /\ Settled(m)' /\ Passed(m)'
    BY <2>1, <2>2, <2>3 DEF Turn, First, Carries, Synced, Settled, Passed
  <2> QED
    BY <2>4 DEF Good
<1>4. CASE Saved
  <2>1. /\ r.at = "saved" /\ r.op \in {"save", "test"} /\ Ask("main", r.op, "status")
        /\ r.body = row /\ row.key = "none" /\ page.form.llm = row.llm /\ page.form.folder = row.folder
    BY <1>4 DEF Saved, Main, Good, Carries
  <2>2. m.at = "get" /\ m.op = r.op /\ m.what = "status"
    BY <1>a, <2>1
  <2>3. /\ page'.loaded = page.loaded /\ ~page'.dirty /\ page'.settings = row /\ page'.test = page.test
        /\ page'.form.llm = row.llm /\ page'.form.key = "none" /\ page'.form.folder = row.folder
    BY <1>0, <1>4, <2>1 DEF Saved, Page, Answer
  <2>4. page.loaded
    BY <1>i, <2>1 DEF Good, Turn, First
  <2>5. Turn(m)' /\ Carries(m)' /\ Synced(m)' /\ Settled(m)'
    BY <1>0, <2>1, <2>2, <2>3, <2>4 DEF Turn, First, Carries, Synced, Named, Settled
  <2>6. Passed(m)'
    BY <1>0, <1>1, <2>1, <2>2, <2>3, <2>4 DEF Passed, Imports, Named, Good
  <2> QED
    BY <2>5, <2>6 DEF Good
<1>5. CASE Chosen
  <2>1. r.at = "saved" /\ r.op = "choose" /\ Done("main") /\ r.body = row /\ row.key = "none" /\ ~Imports(r)
    BY <1>5 DEF Chosen, Main, Good, Carries, Imports
  <2>2. /\ page'.loaded = page.loaded /\ page'.dirty = page.dirty /\ page'.settings = row /\ page'.test = page.test
        /\ page'.form.llm = page.form.llm /\ page'.form.key = page.form.key /\ page'.form.folder = row.folder
    BY <1>0, <1>5, <2>1 DEF Chosen, Page, Answer
  <2>3. page.loaded
    BY <1>i, <2>1 DEF Good, Turn, First
  <2>4. Synced(Idle)' /\ Passed(Idle)'
    BY <1>0, <1>1, <2>1, <2>2, <2>3 DEF Synced, Passed, Named, Good
  <2> QED
    BY <1>o, <2>1, <2>4
<1>6. CASE Imported
  <2>1. r.at = "saved" /\ r.op = "import" /\ Ask("main", "import", "settings") /\ page' = page
    BY <1>6 DEF Imported, Main
  <2>2. m.at = "get" /\ m.op = "import" /\ m.what = "settings"
    BY <1>a, <2>1
  <2>3. page.loaded
    BY <1>i, <2>1 DEF Good, Turn, First
  <2>4. Turn(m)' /\ Carries(m)' /\ Synced(m)' /\ Settled(m)' /\ Passed(m)'
    BY <2>1, <2>2, <2>3 DEF Turn, First, Carries, Synced, Settled, Passed, Imports
  <2> QED
    BY <2>4 DEF Good
<1>7. CASE PutFails
  <2>1. r.at = "put_failed" /\ r.op \in {"save", "test", "import"} /\ Done("main") /\ page' = page
    BY <1>7, <1>s DEF PutFails, Main
  <2>2. page.loaded /\ ~Imports(r)
    BY <1>i, <2>1 DEF Good, Turn, First, Imports
  <2>3. Synced(Idle)' /\ Passed(Idle)'
    BY <1>0, <1>1, <2>1, <2>2 DEF Synced, Passed, Named, Good
  <2> QED
    BY <1>o, <2>1, <2>3
\* The answers that concern the status of the settings.
<1>t. ASSUME r.at \in {"shown", "status_failed", "tested", "test_failed"}
      PROVE  /\ r.op # "load" => page.loaded
             /\ page.loaded => /\ ~page.dirty /\ Named(page.settings) /\ Named(page.form)
                               /\ page.settings.folder = row.folder /\ page.form.folder = row.folder
  BY <1>i, <1>t DEF Good, Turn, First, Puts, Settled, Synced
<1>g. ASSUME NEW op \in {"testing", "last"}, NEW what \in {"status", "test"}, Ask("main", op, what),
             what = "test" => op = "testing",
             r.at \in {"shown", "status_failed", "tested", "test_failed"}, r.op # "load",
             page' = page \/ page' = [page EXCEPT !.test = "testing"],
             r.op # "import"
      PROVE  Good(m)'
  <2>1. m.at = "get" /\ m.op = op /\ m.what = what
    BY <1>a, <1>g
  <2>2. /\ page'.loaded = page.loaded /\ page'.dirty = page.dirty /\ page'.settings = page.settings
        /\ page'.form = page.form /\ page'.test \in {page.test, "testing"}
    BY <1>0, <1>g DEF Page
  <2>3. Turn(m)' /\ Carries(m)' /\ Settled(m)' /\ Synced(m)'
    BY <1>0, <1>g, <1>t, <2>1, <2>2 DEF Turn, First, Carries, Settled, Synced, Named
  <2>4. Passed(m)'
    BY <1>0, <1>1, <1>g, <1>t, <2>1, <2>2 DEF Passed, Imports, Named, Good
  <2> QED
    BY <2>3, <2>4 DEF Good
<1>8. CASE Shown
  <2>1. CASE Main("shown", {"test"}) /\ page' = [page EXCEPT !.test = "testing"] /\ Ask("main", "testing", "test")
    BY <1>g, <2>1 DEF Main
  <2>2. CASE /\ Main("shown", {"load", "save", "import", "testing", "last"})
             /\ page' = [page EXCEPT !.test = r.said] /\ Done("main")
    <3>1. r.at = "shown" /\ (r.said = "passed" => InUse \in worked)
      BY <2>2 DEF Main, Good, Carries
    <3>2. page'.loaded = page.loaded /\ page'.dirty = page.dirty /\ page'.settings = page.settings
          /\ page'.form = page.form /\ page'.test = r.said
      BY <1>0, <2>2 DEF Page
    <3>3. Synced(Idle)' /\ Passed(Idle)'
      BY <1>0, <1>1, <1>t, <3>1, <3>2 DEF Synced, Passed, Named
    <3> QED
      BY <1>o, <2>2, <3>3
  <2> QED
    BY <1>8, <2>1, <2>2 DEF Shown
<1>9. CASE StatusFails
  <2>1. CASE Main("status_failed", {"load", "save"}) /\ Done("main") /\ page' = page
    <3>1. r.at = "status_failed" /\ ~Imports(r)
      BY <2>1 DEF Main, Imports
    <3>2. page.loaded \/ page.test # "passed"
      BY <1>i, <3>1 DEF Good, Passed
    <3>3. Synced(Idle)' /\ Passed(Idle)'
      BY <1>0, <1>1, <1>t, <2>1, <3>1, <3>2 DEF Synced, Passed, Named, Good
    <3> QED
      BY <1>o, <2>1, <3>3
  <2>2. CASE Main("status_failed", {"test"}) /\ page' = [page EXCEPT !.test = "testing"] /\ Ask("main", "testing", "test")
    BY <1>g, <2>2 DEF Main
  <2>3. CASE Main("status_failed", {"testing"}) /\ Ask("main", "last", "status") /\ page' = page
    BY <1>g, <2>3 DEF Main
  <2>4. CASE Main("status_failed", {"last"}) /\ page' = [page EXCEPT !.test = "failed"] /\ Done("main")
    <3>1. r.at = "status_failed" /\ page'.loaded = page.loaded /\ page'.dirty = page.dirty
          /\ page'.settings = page.settings /\ page'.form = page.form /\ page'.test = "failed"
      BY <1>0, <2>4 DEF Page, Main
    <3>2. Synced(Idle)' /\ Passed(Idle)'
      BY <1>0, <1>t, <3>1 DEF Synced, Passed, Named
    <3> QED
      BY <1>o, <2>4, <3>2
  <2> QED
    BY <1>9, <1>s, <2>1, <2>2, <2>3, <2>4 DEF StatusFails
<1>10. CASE Tested
  <2>1. CASE Main("tested", {"testing"}) /\ Ask("main", "testing", "status") /\ page' = page
    BY <1>g, <2>1 DEF Main
  <2>2. CASE Main("test_failed", {"testing"}) /\ Ask("main", "last", "status") /\ page' = page
    BY <1>g, <2>2 DEF Main
  <2> QED
    BY <1>10, <2>1, <2>2 DEF Tested
<1> QED
  BY <1>2, <1>3, <1>4, <1>5, <1>6, <1>7, <1>8, <1>9, <1>10 DEF Receive

\* An act of the user's that finds the page quiet keeps what it says true.
LEMMA UseTold ==
  ASSUME TypeOK, Told, Use, strayed' = {}
  PROVE  Told'
<1>0. /\ row \in Settings /\ page \in Page /\ page.settings \in Settings /\ UNCHANGED <<row, vault, worked>>
      /\ req \in [Slots -> Request] /\ "main" \in Slots /\ "side" \in Slots /\ "other" \in Slots
      /\ page.form \in [llm : Llms, key : AnyKey, folder : Folders]
  BY DEF TypeOK, Slots, Use, Page
<1>1. InUse' = InUse
  BY <1>0 DEF InUse, KeyInUse
<1>2. /\ req["other"] = Idle /\ Good(req["main"]) /\ Side(req["side"]) /\ Carries(req["side"])
      /\ ~Busy("main") => req["main"] = Idle
      /\ ~Busy("side") => req["side"] = Idle
  BY DEF Told, Busy, Good, Turn, Side, First, Puts
<1>s. ASSUME NEW how, Strays(how)
      PROVE  FALSE
  BY <1>s DEF Strays
\* The page asks nothing and changes.
<1>e. ASSUME req' = req, ~Busy("main"), page'.loaded = page.loaded, page'.settings = page.settings,
             Synced(Idle)', Passed(Idle)'
      PROVE  Told'
  <2>1. req["main"] = Idle
    BY <1>2, <1>e
  <2>2. PICK m : m = req["side"]
    OBVIOUS
  <2>3. Side(m)' /\ Carries(m)'
    BY <1>0, <1>1, <1>2, <1>e, <2>2, IdleFields DEF Side, Carries, Puts
  <2>4. Turn(Idle)' /\ Carries(Idle)' /\ Settled(Idle)'
    BY IdleFields DEF Turn, Carries, Settled
  <2> QED
    BY <1>2, <1>e, <2>1, <2>2, <2>3, <2>4 DEF Told, Good
<1>3. ASSUME NEW llm \in Llms, NEW key \in AnyKey, EditLlm(llm, key)
      PROVE  Told'
  <2>1. req' = req /\ ~Busy("main")
    BY <1>3, <1>s DEF EditLlm, Edited
  <2>2. /\ page'.loaded = page.loaded /\ page'.settings = page.settings /\ page'.dirty /\ page'.test # "passed"
    BY <1>0, <1>3 DEF EditLlm, Page
  <2>3. Synced(Idle)' /\ Passed(Idle)'
    BY <2>2 DEF Synced, Passed
  <2> QED
    BY <1>e, <2>1, <2>2, <2>3
<1>4. ASSUME NEW folder \in Folders, EditFolder(folder)
      PROVE  Told'
  <2>1. req' = req /\ ~Busy("main") /\ page.loaded
    BY <1>4, <1>s DEF EditFolder, Edited
  <2>2. /\ page'.loaded = page.loaded /\ page'.settings = page.settings /\ page'.dirty /\ page'.test = page.test
        /\ page'.form.llm = page.form.llm /\ page'.form.key = page.form.key
    BY <1>0, <1>4 DEF EditFolder, Page
  <2>3. Synced(Idle)'
    BY <2>2 DEF Synced
  <2>4. Passed(Idle)'
    <3>1. Passed(Idle)
      BY <1>2, <2>1 DEF Good
    <3> QED
      BY <1>0, <1>1, <2>1, <2>2, <3>1, IdleGood DEF Passed, Named
  <2> QED
    BY <1>e, <2>1, <2>2, <2>3, <2>4
\* The page sends a request that writes.
<1>w. ASSUME NEW op, NEW body, Send("main", op, body), Alone("main"), ~Busy("main"), NEW m, m = req'["main"]
      PROVE  /\ m.at = "put" /\ m.op = op /\ m.body = body /\ m.what = "settings"
             /\ req["main"] = Idle /\ (Good(m)' => Told')
  <2>1. m.at = "put" /\ m.op = op /\ m.body = body /\ m.what = "settings"
    BY <1>0, <1>w, IdleFields, DefaultTypes DEF Send, Request
  <2>2. req["main"] = Idle /\ req["side"] = Idle
    BY <1>0, <1>2, <1>s, <1>w DEF Alone
  <2>3. req'["side"] = Idle /\ req'["other"] = Idle
    BY <1>0, <1>2, <1>w, <2>2 DEF Send
  <2>4. Side(Idle)' /\ Carries(Idle)'
    BY IdleFields DEF Side, Carries
  <2> QED
    BY <1>w, <2>1, <2>2, <2>3, <2>4 DEF Told
<1>5. ASSUME NEW op \in {"save", "test"}, Persist(op)
      PROVE  Told'
  <2>1. page.loaded /\ ~Busy("main") /\ Send("main", op, FormSettings) /\ Alone("main")
    BY <1>5 DEF Persist
  <2>2. PICK m : m = req'["main"]
    OBVIOUS
  <2>3. m.at = "put" /\ m.op = op /\ m.body = FormSettings /\ m.what = "settings" /\ req["main"] = Idle /\ (Good(m)' => Told')
    BY <1>w, <2>1, <2>2
  <2>4. /\ page'.loaded = page.loaded /\ page'.settings = FormSettings /\ page'.dirty = page.dirty
        /\ page'.test = page.test /\ page'.form = page.form
    BY <1>0, <1>5 DEF Persist, Page
  <2>5. FormSettings.llm = page.form.llm /\ FormSettings.key = page.form.key /\ FormSettings.folder = page.form.folder
    BY <1>0 DEF FormSettings, Settings
  <2>6. Synced(Idle) /\ Passed(Idle)
    BY <1>2, <2>3 DEF Good
  <2>7. Turn(m)' /\ Carries(m)' /\ Settled(m)'
    BY <1>0, <2>1, <2>3, <2>4, <2>5 DEF Turn, Puts, Carries, Settled
  <2>8. Synced(m)'
    BY <1>0, <2>1, <2>3, <2>4, <2>5, <2>6, IdleGood, IdleFields DEF Synced, Named
  <2>9. Passed(m)'
    BY <1>0, <1>1, <2>1, <2>3, <2>4, <2>5, <2>6, IdleGood DEF Passed, Named
  <2> QED
    BY <2>3, <2>7, <2>8, <2>9 DEF Good
<1>6. ASSUME NEW folder \in Folders, ChooseFolder(folder)
      PROVE  Told'
  <2> DEFINE chosen == [page.settings EXCEPT !.folder = folder]
  <2>1. page.loaded /\ ~Busy("main") /\ Send("main", "choose", chosen) /\ Alone("main")
    BY <1>6 DEF ChooseFolder
  <2>2. PICK m : m = req'["main"]
    OBVIOUS
  <2>3. chosen.llm = page.settings.llm /\ chosen.key = page.settings.key
    BY <1>0 DEF Settings
  <2>4. /\ page'.loaded = page.loaded /\ page'.settings = chosen /\ page'.dirty = page.dirty
        /\ page'.test = page.test /\ page'.form = page.form
    BY <1>0, <1>6 DEF ChooseFolder, Page
  <2> HIDE DEF chosen
  <2>5. m.at = "put" /\ m.op = "choose" /\ m.body = chosen /\ m.what = "settings" /\ req["main"] = Idle /\ (Good(m)' => Told')
    BY <1>w, <2>1, <2>2
  <2>6. Synced(Idle) /\ Passed(Idle)
    BY <1>2, <2>5 DEF Good
  <2>7. Turn(m)' /\ Carries(m)' /\ Settled(m)'
    BY <1>0, <2>1, <2>4, <2>5 DEF Turn, Puts, Carries, Settled
  <2>8. Synced(m)' /\ Passed(m)'
    BY <1>0, <1>1, <2>1, <2>3, <2>4, <2>5, <2>6, IdleGood, IdleFields DEF Synced, Passed, Named
  <2> QED
    BY <2>5, <2>7, <2>8 DEF Good
<1>7. ASSUME NEW llm \in Llms, ImportSettings([Default EXCEPT !.llm = llm])
      PROVE  Told'
  <2> DEFINE settings == [Default EXCEPT !.llm = llm]
  <2>1. page.loaded /\ ~Busy("main") /\ Send("main", "import", settings) /\ Alone("main") /\ page' = page
        /\ settings.key = "none"
    BY <1>7 DEF ImportSettings
  <2> HIDE DEF settings
  <2>2. PICK m : m = req'["main"]
    OBVIOUS
  <2>3. m.at = "put" /\ m.op = "import" /\ m.body = settings /\ m.what = "settings" /\ req["main"] = Idle /\ (Good(m)' => Told')
    BY <1>w, <2>1, <2>2
  <2>4. Synced(Idle) /\ Passed(Idle)
    BY <1>2, <2>3 DEF Good
  <2>5. Turn(m)' /\ Carries(m)' /\ Settled(m)' /\ Synced(m)' /\ Passed(m)'
    BY <1>0, <1>1, <2>1, <2>3, <2>4, IdleGood, IdleFields DEF Turn, Puts, Carries, Settled, Synced, Passed, Named, Imports
  <2> QED
    BY <2>3, <2>5 DEF Good
<1>8. CASE DismissHelper
  <2> DEFINE seen == [page.settings EXCEPT !.seen = TRUE]
  <2>1. page.loaded /\ ~Busy("side") /\ Send("side", "dismiss", seen) /\ Alone("side")
    BY <1>8 DEF DismissHelper
  <2>2. PICK m : m = req'["side"]
    OBVIOUS
  <2>3. seen.llm = page.settings.llm /\ seen.key = page.settings.key /\ seen.folder = page.settings.folder
    BY <1>0 DEF Settings
  <2>4. /\ page'.loaded = page.loaded /\ page'.settings = seen /\ page'.dirty = page.dirty
        /\ page'.test = page.test /\ page'.form = page.form
    BY <1>0, <1>8 DEF DismissHelper, Page
  <2> HIDE DEF seen
  <2>5. m.at = "put" /\ m.op = "dismiss" /\ m.body = seen
    BY <1>0, <2>1, <2>2, IdleFields, DefaultTypes DEF Send, Request
  <2>6. req["main"] = Idle /\ req'["main"] = Idle /\ req'["other"] = Idle
    BY <1>0, <1>2, <1>s, <2>1 DEF Alone, Send
  <2>7. Side(m)' /\ Carries(m)'
    BY <2>1, <2>4, <2>5 DEF Side, Puts, Carries
  <2>8. Synced(Idle) /\ Passed(Idle)
    BY <1>2, <2>6 DEF Good
  <2>9. Turn(Idle)' /\ Carries(Idle)' /\ Settled(Idle)'
    BY IdleFields DEF Turn, Carries, Settled
  <2>10. Synced(Idle)' /\ Passed(Idle)'
    BY <1>0, <1>1, <2>1, <2>3, <2>4, <2>8, IdleGood, IdleFields DEF Synced, Passed, Named
  <2> QED
    BY <2>2, <2>6, <2>7, <2>9, <2>10 DEF Told, Good
<1>9. CASE OtherWindow
  BY <1>9, <1>s DEF OtherWindow
<1> QED
  BY <1>3, <1>4, <1>5, <1>6, <1>7, <1>8, <1>9 DEF Use, SaveSettings, TestLlm

\* An answer keeps what the page says true.
LEMMA ReceiveTold ==
  ASSUME TypeOK, Scrubbed, Told, Receive, strayed' = {}
  PROVE  Told'
<1>0. /\ req \in [Slots -> Request] /\ "main" \in Slots /\ "side" \in Slots /\ "other" \in Slots
      /\ page \in Page /\ row \in Settings /\ UNCHANGED <<row, vault, worked>>
  BY DEF TypeOK, Slots, Receive
<1>1. InUse' = InUse
  BY <1>0 DEF InUse, KeyInUse
<1>2. req["other"] = Idle /\ Good(req["main"]) /\ Side(req["side"]) /\ Carries(req["side"])
  BY DEF Told
<1>3. ~OtherAnswered
  BY <1>2, IdleFields DEF OtherAnswered
<1>4. CASE Dismissed
  <2>1. req["side"].at \in {"saved", "put_failed"} /\ Done("side")
    BY <1>4 DEF Dismissed
  <2>2. req["main"] = Idle /\ req'["main"] = Idle /\ req'["side"] = Idle /\ req'["other"] = Idle
    BY <1>0, <2>1, IdleFields DEF Told, Done
  <2>3. page.loaded /\ Synced(Idle) /\ Passed(Idle)
    BY <1>2, <2>1, <2>2, IdleFields DEF Side, Good
  <2>4. CASE page' = page
    BY <1>0, <1>1, <2>2, <2>3, <2>4, IdleFields DEF Told, Good, Turn, Side, Carries, Settled, Synced, Passed, Named, Imports
  <2>5. CASE req["side"].at = "saved" /\ page' = [page EXCEPT !.settings = row, !.helper = ~row.seen]
    <3>1. row.key = "none"
      BY <1>2, <2>5 DEF Carries
    <3>2. /\ page'.loaded = page.loaded /\ page'.dirty = page.dirty /\ page'.settings = row
          /\ page'.test = page.test /\ page'.form = page.form
      BY <1>0, <2>5 DEF Page
    <3>3. Turn(Idle)' /\ Carries(Idle)' /\ Settled(Idle)' /\ Side(Idle)'
      BY IdleFields DEF Turn, Carries, Settled, Side
    <3>4. Synced(Idle)' /\ Passed(Idle)'
      BY <1>0, <1>1, <2>3, <3>1, <3>2, IdleGood, IdleFields DEF Synced, Passed, Named
    <3> QED
      BY <2>2, <3>3, <3>4 DEF Told, Good
  <2>6. req["side"].at = "saved" => req["side"].body = row
    BY <1>2 DEF Carries
  <2> QED
    BY <1>4, <2>4, <2>5, <2>6 DEF Dismissed
<1>5. CASE ~Dismissed
  <2>1. PICK r : r = req["main"]
    OBVIOUS
  <2>2. PICK m : m = req'["main"]
    OBVIOUS
  <2>3. Good(m)'
    BY <1>2, <1>3, <1>5, <2>1, <2>2, ReceiveMain
  <2>4. /\ req["main"].at # "idle"
        /\ (\E op, what : Ask("main", op, what)) \/ Done("main")
    BY <1>3, <1>5 DEF Receive, Loaded, LoadFails, Saved, Chosen, Imported, PutFails, Shown, StatusFails, Tested, Main
  <2>5. req["side"] = Idle
    BY <2>4, IdleFields DEF Told
  <2>6. req'["side"] = Idle /\ req'["other"] = Idle
    BY <1>0, <1>2, <2>4, <2>5 DEF Ask, Done
  <2>7. Side(Idle)' /\ Carries(Idle)'
    BY IdleFields DEF Side, Carries
  <2> QED
    BY <2>2, <2>3, <2>6, <2>7 DEF Told
<1> QED
  BY <1>4, <1>5

\* A step of the service keeps it true as well.
LEMMA ServeTold ==
  ASSUME TypeOK, Scrubbed, StatusIsOfTest, Told, NEW s \in Slots, Serve(s)
  PROVE  Told'
<1>0. "main" \in Slots /\ "side" \in Slots /\ "other" \in Slots /\ req[s].at # "idle" /\ page' = page
      /\ \A t \in Slots \ {s} : req'[t] = req[t]
  BY ServeSlot DEF Slots, Serve
<1>1. s # "other" /\ req["other"] = Idle /\ Good(req["main"]) /\ Side(req["side"]) /\ Carries(req["side"])
  BY <1>0, IdleFields DEF Told
<1>2. PICK r : r = req[s]
  OBVIOUS
<1>3. PICK m : m = req'[s]
  OBVIOUS
<1>4. CASE s = "main"
  <2>1. Good(m)'
    BY <1>1, <1>2, <1>3, <1>4, ServeMain
  <2>2. req'["side"] = Idle /\ req'["other"] = Idle
    BY <1>0, <1>1, <1>4, IdleFields DEF Told
  <2>3. Side(Idle)' /\ Carries(Idle)'
    BY IdleFields DEF Side, Carries
  <2> QED
    BY <1>3, <1>4, <2>1, <2>2, <2>3 DEF Told
<1>5. CASE s = "side"
  <2>1. req["main"] = Idle /\ req'["main"] = Idle /\ req'["other"] = Idle
    BY <1>0, <1>1, <1>5, IdleFields DEF Told
  <2>2. Good(Idle)' /\ Side(m)' /\ Carries(m)'
    BY <1>1, <1>2, <1>3, <1>5, <2>1, ServeSide
  <2> QED
    BY <1>3, <1>5, <2>1, <2>2 DEF Told
<1> QED
  BY <1>1, <1>4, <1>5 DEF Slots

\* A page at rest that says "passed" or that its settings are synced is right, wherever
\* accesses fail and the service ends, unless one of the things has happened to it that
\* call for a reload: an edit while an answer was on its way, writes that overlap, or a
\* failure after which the page goes on with what it had.
THEOREM PageTellsTheTruth == Spec => []PageIsTrue
<1>1. Init => PageIsTold
  <2> SUFFICES ASSUME Init PROVE Told
    BY DEF PageIsTold
  <2>1. /\ req["other"] = Idle /\ req["side"] = Idle
        /\ req["main"].at = "get" /\ req["main"].op = "load" /\ req["main"].what = "settings"
    BY DEF Init, Opened, Slots, Idle
  <2>2. ~page.loaded /\ page.test = "not_tested"
    BY DEF Init, Blank
  <2> QED
    BY <2>1, <2>2, IdleFields DEF Told, Good, Turn, First, Carries, Side, Synced, Passed, Settled
<1>2. TypeOK /\ Scrubbed /\ StatusIsOfTest /\ PageIsTold /\ [Next]_vars => PageIsTold'
  <2> SUFFICES ASSUME TypeOK, Scrubbed, StatusIsOfTest, PageIsTold, [Next]_vars, strayed' = {} PROVE Told'
    BY DEF PageIsTold
  <2>1. ASSUME NEW s \in Slots, Serve(s) PROVE Told'
    BY <2>1, ServeTold DEF Serve, PageIsTold
  <2>2. Receive \/ Use => strayed = {}
    <3>1. Receive \/ Use => strayed \subseteq strayed'
      BY DEF Receive, Loaded, LoadFails, Saved, Chosen, Imported, PutFails, Shown, StatusFails, Tested, Dismissed,
             OtherAnswered, Use, EditLlm, EditFolder, Edited, ChooseFolder, ImportSettings, SaveSettings, TestLlm,
             Persist, DismissHelper, Alone, OtherWindow, Strays
    <3> QED
      BY <3>1
  <2>3. CASE Receive
    BY <2>2, <2>3, ReceiveTold DEF PageIsTold
  <2>4. CASE Use
    BY <2>2, <2>4, UseTold DEF PageIsTold
  <2>5. CASE Reload \/ Restart
    <3>1. req' = Opened /\ page' = Blank
      BY <2>5 DEF Reload, Restart
    <3>2. /\ req'["other"] = Idle /\ req'["side"] = Idle
          /\ req'["main"].at = "get" /\ req'["main"].op = "load" /\ req'["main"].what = "settings"
      BY <3>1 DEF Opened, Slots, Idle
    <3>3. ~page'.loaded /\ page'.test = "not_tested"
      BY <3>1 DEF Blank
    <3> QED
      BY <3>2, <3>3, IdleFields DEF Told, Good, Turn, First, Carries, Side, Synced, Passed, Settled
  <2>6. CASE UNCHANGED vars
    <3>1. Told
      BY <2>6 DEF vars, PageIsTold
    <3> QED
      BY <2>6, <3>1 DEF vars, Told, Good, Turn, Carries, Side, Synced, Passed, Settled, Named, InUse, KeyInUse
  <2> QED
    BY <2>1, <2>3, <2>4, <2>5, <2>6 DEF Next
<1>3. TypeOK /\ StatusIsOfTest /\ PageIsTold => PageIsTrue
  <2> SUFFICES ASSUME TypeOK, PageIsTold, AtRest, strayed = {}
               PROVE  /\ page.test = "passed" => InUse \in worked
                      /\ page.loaded /\ ~page.dirty
                           => page.form = [llm |-> row.llm, key |-> "none", folder |-> row.folder]
    BY DEF PageIsTrue, PassedIsTested, SyncedIsSaved, InUse
  <2>1. req["main"].at = "idle"
    BY DEF AtRest, Busy, Slots
  <2>2. Synced(Idle) /\ Passed(Idle)
    BY <2>1 DEF PageIsTold, Told, Good, Turn, First, Puts
  <2>3. page.form \in [llm : Llms, key : AnyKey, folder : Folders]
    BY DEF TypeOK, Page
  <2> QED
    BY <2>2, <2>3, IdleGood, IdleFields DEF Synced, Passed, Named
<1>4. Init => Scrubbed
  BY DEF Init, Scrubbed, Blank, Opened, Idle
<1>5. TypeOK /\ Scrubbed /\ [Next]_vars => Scrubbed'
  BY RowSteps
<1> QED
  BY <1>1, <1>2, <1>3, <1>4, <1>5, TypeCorrect, StatusHonest, PTL DEF Spec
=============================================================================
