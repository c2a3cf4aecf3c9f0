---------------------------- MODULE LlmSettings ----------------------------
(***************************************************************************)
(* The settings: settings_store.py with the secret store of secrets.py,    *)
(* the connection test of the LLM settings with its stored status, and the *)
(* settings page that saves, tests and shows them.                         *)
(*                                                                         *)
(* The settings live in one row of the database and the API key in the     *)
(* keyring, so a save is two writes; the page keeps a copy in              *)
(* state.settings and another one in its form.  A request runs on a thread *)
(* of its own, one access to a store per step, and its answer reaches the  *)
(* page in a step of its own.                                              *)
(***************************************************************************)
EXTENDS Integers

CONSTANTS
  Llms,        \* LLM settings other than the key
  Unset,       \* the default of them
  ProviderOf,  \* the provider of each, "disabled" for Unset
  Providers,
  Keys,
  Folders,     \* quarantine_dir; an empty text, here and of a key, is "none"
  Persistent,  \* KeyringSecretStore; FALSE for the environment variables
  MaxActs,     \* bound on what users do
  MaxFaults    \* bound on failing accesses and restarts

ASSUME SettingsAssumption ==
  /\ Unset \in Llms /\ ProviderOf \in [Llms -> Providers \cup {"disabled"}]
  /\ ProviderOf[Unset] = "disabled" /\ "disabled" \notin Providers
  /\ "none" \notin Keys /\ "none" \in Folders
  /\ Persistent \in BOOLEAN /\ MaxActs \in Nat /\ MaxFaults \in Nat

AnyKey == Keys \cup {"none"}
Settings == [llm : Llms, key : AnyKey, folder : Folders, seen : BOOLEAN]
Pair == [llm : Llms, key : AnyKey]
Default == [llm |-> Unset, key |-> "none", folder |-> "none", seen |-> FALSE]

\* Requests of the page, those of the first-run helper, which is not disabled
\* while the page is busy, and those of another window.
Slots == {"main", "side", "other"}

VARIABLES
  row,     \* the row app_settings; with Default, also where there is none
  vault,   \* the secret store
  status,  \* the row llm_test_status with the pair its fingerprint was taken of
  req,     \* what each slot is doing
  page,    \* the settings page
  worked,  \* history: the pairs a provider has answered well
  strayed, \* history: what happened to the page that calls for a reload
  acts, faults

vars == <<row, vault, status, req, page, worked, strayed, acts, faults>>

States == {"not_tested", "testing", "passed", "failed", "settings_changed"}
Steps == {"idle", "get", "legacy", "scrub", "got", "put", "row", "saved",
          "test_key", "asking", "tested", "status_key", "status_row", "shown",
          "get_failed", "put_failed", "test_failed", "status_failed"}

Request == [at : Steps,
            op : {"load", "save", "test", "testing", "last", "choose", "import", "dismiss"},
            what : {"settings", "test", "status"},
            body : Settings, pair : Pair, said : States \ {"testing"}]
Page == [loaded : BOOLEAN, settings : Settings,
         form : [llm : Llms, key : AnyKey, folder : Folders],
         dirty : BOOLEAN, helper : BOOLEAN, test : States]

TypeOK ==
  /\ row \in Settings
  /\ vault \in [Providers -> AnyKey]
  /\ status \in [state : {"not_tested", "passed", "failed"}, pair : Pair]
  /\ req \in [Slots -> Request]
  /\ page \in Page
  /\ worked \subseteq Pair
  /\ strayed \subseteq {"edits", "writes", "failures"}
  /\ acts \in 0..MaxActs /\ faults \in 0..MaxFaults

NoPair == [llm |-> Unset, key |-> "none"]
Idle == [at |-> "idle", op |-> "load", what |-> "settings",
         body |-> Default, pair |-> NoPair, said |-> "not_tested"]
Blank == [loaded |-> FALSE, settings |-> Default, dirty |-> FALSE, helper |-> FALSE,
          test |-> "not_tested",
          form |-> [llm |-> Unset, key |-> "none", folder |-> "none"]]

\* The page starts with a request for the settings.
Opened == [s \in Slots |-> IF s = "main" THEN [Idle EXCEPT !.at = "get"] ELSE Idle]

\* An older version may have left a key in the row.
Init ==
  /\ \E llm \in Llms, key \in AnyKey : row = [Default EXCEPT !.llm = llm, !.key = key]
  /\ vault = [p \in Providers |-> "none"]
  /\ status = [state |-> "not_tested", pair |-> NoPair]
  /\ req = Opened /\ page = Blank
  /\ worked = {} /\ strayed = {}
  /\ acts = 0 /\ faults = 0

-----------------------------------------------------------------------------
(* The service: one access to a store at a time. *)

Go(s, at) == req' = [req EXCEPT ![s].at = at]

\* The access raises: the error handler answers the request.
Fault == faults < MaxFaults /\ faults' = faults + 1
Fine == UNCHANGED faults
Raises(s, answer) == Fault /\ Go(s, answer) /\ UNCHANGED <<row, vault, status, worked>>

\* Variant: a key that nobody reads is left in the row.
Cleaned_Enabled(settings) ==
  IF ProviderOf[settings.llm] = "disabled" THEN settings ELSE [settings EXCEPT !.key = "none"]

Cleaned(settings) == [settings EXCEPT !.key = "none"]

\* set_api_key for the provider of the settings.
Stored(settings) == [vault EXCEPT ![ProviderOf[settings.llm]] = settings.key]
HasKey(settings) == settings.key # "none" /\ ProviderOf[settings.llm] # "disabled"

\* effective_llm_api_key: settings that come from the row carry no key.
KeyInUse(llm) == IF ProviderOf[llm] = "disabled" THEN "none" ELSE vault[ProviderOf[llm]]

\* Reads of the settings, the connection test and its status begin alike.
AfterGet == [settings |-> "got", test |-> "test_key", status |-> "status_key"]
GetFailed == [settings |-> "get_failed", test |-> "test_failed", status |-> "status_failed"]

\* get_settings. A key in the row goes to the secret store, if that works, and
\* is removed from the row whether it does or not.
Get(s) ==
  /\ req[s].at = "get"
  /\ \/ /\ Fine
        /\ req' = [req EXCEPT ![s].body = row,
                              ![s].at = IF row.key = "none" THEN AfterGet[req[s].what] ELSE "legacy"]
        /\ UNCHANGED <<row, vault, status, worked>>
     \/ Raises(s, GetFailed[req[s].what])

MigrateKey(s) ==
  /\ req[s].at = "legacy"
  /\ \/ Fine /\ vault' = IF HasKey(req[s].body) THEN Stored(req[s].body) ELSE vault
     \/ Fault /\ HasKey(req[s].body) /\ UNCHANGED vault
  /\ Go(s, "scrub")
  /\ UNCHANGED <<row, status, worked>>

ScrubRow(s) ==
  /\ req[s].at = "scrub"
  /\ \/ /\ Fine
        /\ row' = Cleaned(req[s].body)
        /\ req' = [req EXCEPT ![s].body = Cleaned(@), ![s].at = AfterGet[req[s].what]]
        /\ UNCHANGED <<vault, status, worked>>
     \/ Raises(s, GetFailed[req[s].what])

\* put_settings: the key, read back, and then the row.
PutKey(s) ==
  /\ req[s].at = "put"
  /\ UNCHANGED <<row, status, worked>>
  /\ \/ Fine /\ ~HasKey(req[s].body) /\ Go(s, "row") /\ UNCHANGED vault
     \/ Fine /\ HasKey(req[s].body) /\ Go(s, "row") /\ vault' = Stored(req[s].body)
     \/ /\ Fault /\ HasKey(req[s].body)
        /\ Go(s, "put_failed") /\ vault' \in {vault, Stored(req[s].body)}

PutRow(s) ==
  /\ req[s].at = "row"
  /\ \/ /\ Fine
        /\ row' = Cleaned(req[s].body)
        /\ req' = [req EXCEPT ![s].body = Cleaned(@), ![s].at = "saved"]
        /\ UNCHANGED <<vault, status, worked>>
     \/ Raises(s, "put_failed")

\* effective_llm_api_key for the settings that were read before.
ReadKey(s, from, to, failed) ==
  /\ req[s].at = from
  /\ \/ /\ Fine
        /\ req' = [req EXCEPT ![s].pair = [llm |-> req[s].body.llm, key |-> KeyInUse(req[s].body.llm)],
                              ![s].body = Default, ![s].at = to]
        /\ UNCHANGED <<row, vault, status, worked>>
     \/ Raises(s, failed)

\* api_llm_test: the row, the key, the provider, and the status of what was tested.
TestKey(s) == ReadKey(s, "test_key", "asking", "test_failed")

\* check_llm_settings: settings that are not configured fail without a request,
\* every error of the provider or of its reply is a test that failed.
MayPass(pair) == ProviderOf[pair.llm] # "disabled"

\* record_llm_test_status.
Recorded(pair, ok) == [state |-> IF ok THEN "passed" ELSE "failed", pair |-> pair]

TestEnds(s) ==
  /\ req[s].at = "asking"
  /\ \E ok \in BOOLEAN :
       /\ ok => MayPass(req[s].pair)
       /\ worked' = IF ok THEN worked \cup {req[s].pair} ELSE worked
       /\ \/ Fine /\ status' = Recorded(req[s].pair, ok) /\ Go(s, "tested")
          \/ Fault /\ UNCHANGED status /\ Go(s, "test_failed")
  /\ UNCHANGED <<row, vault>>

\* api_llm_test_status: the row, the key, and the stored status last.
StatusKey(s) == ReadKey(s, "status_key", "status_row", "status_failed")

\* Variant: the fingerprint leaves the key out.
Verdict_NoKey(pair) ==
  IF status.state = "not_tested" \/ status.pair.llm = pair.llm THEN status.state ELSE "settings_changed"

\* Variant: an answer in the words of the page.
Verdict_Page(pair) == IF status.pair = pair THEN status.state ELSE "testing"

\* get_llm_test_status compares the fingerprints.
Verdict(pair) ==
  IF status.state = "not_tested" \/ status.pair = pair THEN status.state ELSE "settings_changed"

StatusAnswer(s) ==
  /\ req[s].at = "status_row"
  /\ \/ /\ Fine
        /\ req' = [req EXCEPT ![s].said = Verdict(req[s].pair), ![s].at = "shown"]
        /\ UNCHANGED <<row, vault, status, worked>>
     \/ Raises(s, "status_failed")

Serve(s) ==
  /\ \/ Get(s) \/ MigrateKey(s) \/ ScrubRow(s) \/ PutKey(s) \/ PutRow(s)
     \/ TestKey(s) \/ TestEnds(s) \/ StatusKey(s) \/ StatusAnswer(s)
  /\ UNCHANGED <<page, strayed, acts>>

-----------------------------------------------------------------------------
(* The page: what it does with an answer. *)

Ask(s, op, what) == req' = [req EXCEPT ![s] = [Idle EXCEPT !.op = op, !.what = what, !.at = "get"]]
Send(s, op, body) == req' = [req EXCEPT ![s] = [Idle EXCEPT !.op = op, !.at = "put", !.body = body]]
Done(s) == req' = [req EXCEPT ![s] = Idle]

Main(at, ops) == req["main"].at = at /\ req["main"].op \in ops
Answer == req["main"].body
Strays(how) == strayed' = strayed \cup {how}

\* loadSettings.
Loaded ==
  /\ Main("got", {"load", "import"})
  /\ page' = [page EXCEPT !.loaded = TRUE, !.settings = Answer, !.dirty = FALSE,
                          !.helper = ~Answer.seen,
                          !.form = [llm |-> Answer.llm, key |-> Answer.key, folder |-> Answer.folder]]
  /\ Ask("main", req["main"].op, "status")
  /\ UNCHANGED strayed

LoadFails ==
  \/ Main("get_failed", {"load"}) /\ Ask("main", "load", "status") /\ UNCHANGED <<page, strayed>>
  \/ Main("get_failed", {"import"}) /\ Done("main") /\ Strays("failures") /\ UNCHANGED page

\* The second half of persistSettingsFromForm.
Saved ==
  /\ Main("saved", {"save", "test"})
  /\ page' = [page EXCEPT !.settings = Answer, !.dirty = FALSE, !.form.key = "none", !.helper = ~Answer.seen]
  /\ Ask("main", req["main"].op, "status")
  /\ UNCHANGED strayed

\* chooseQuarantineFolder and resetQuarantineFolder set the field of the form
\* when the answer is there.
Chosen ==
  /\ Main("saved", {"choose"})
  /\ page' = [page EXCEPT !.settings = Answer, !.form.folder = Answer.folder]
  /\ Done("main")
  /\ UNCHANGED strayed

Imported == Main("saved", {"import"}) /\ Ask("main", "import", "settings") /\ UNCHANGED <<page, strayed>>

\* state.settings keeps what the request would have saved.
PutFails ==
  \/ Main("put_failed", {"save", "test", "import"}) /\ Done("main") /\ UNCHANGED <<page, strayed>>
  \/ Main("put_failed", {"choose"}) /\ Done("main") /\ Strays("failures") /\ UNCHANGED page

\* loadLlmTestStatus; testLlm waits for it before the test and after it.
Shown ==
  /\ \/ /\ Main("shown", {"test"})
        /\ page' = [page EXCEPT !.test = "testing"]
        /\ Ask("main", "testing", "test")
     \/ /\ Main("shown", {"load", "save", "import", "testing", "last"})
        /\ page' = [page EXCEPT !.test = req["main"].said]
        /\ Done("main")
  /\ UNCHANGED strayed

StatusFails ==
  \/ Main("status_failed", {"load", "save"}) /\ Done("main") /\ UNCHANGED <<page, strayed>>
  \/ Main("status_failed", {"import"}) /\ Done("main") /\ Strays("failures") /\ UNCHANGED page
  \/ /\ Main("status_failed", {"test"})
     /\ page' = [page EXCEPT !.test = "testing"]
     /\ Ask("main", "testing", "test") /\ UNCHANGED strayed
  \/ Main("status_failed", {"testing"}) /\ Ask("main", "last", "status") /\ UNCHANGED <<page, strayed>>
  \/ /\ Main("status_failed", {"last"})
     /\ page' = [page EXCEPT !.test = "failed"]
     /\ Done("main") /\ UNCHANGED strayed

\* The rest of testLlm.
Tested ==
  /\ \/ Main("tested", {"testing"}) /\ Ask("main", "testing", "status")
     \/ Main("test_failed", {"testing"}) /\ Ask("main", "last", "status")
  /\ UNCHANGED <<page, strayed>>

Dismissed ==
  /\ \/ /\ req["side"].at = "saved"
        /\ page' = [page EXCEPT !.settings = req["side"].body, !.helper = ~req["side"].body.seen]
     \/ req["side"].at = "put_failed" /\ UNCHANGED page
  /\ Done("side")
  /\ UNCHANGED strayed

OtherAnswered ==
  /\ req["other"].at \in {"got", "saved", "tested", "get_failed", "put_failed", "test_failed"}
  /\ Done("other")
  /\ UNCHANGED <<page, strayed>>

Receive ==
  /\ \/ Loaded \/ LoadFails \/ Saved \/ Chosen \/ Imported \/ PutFails \/ Shown \/ StatusFails
     \/ Tested \/ Dismissed \/ OtherAnswered
  /\ UNCHANGED <<row, vault, status, worked, acts, faults>>

-----------------------------------------------------------------------------
(* The page: what the user does. *)

Act == acts < MaxActs /\ acts' = acts + 1
Busy(s) == req[s].at # "idle"

\* An answer that is on its way may overwrite the edit, or speak of the form as it was.
Edited == IF Busy("main") THEN Strays("edits") ELSE UNCHANGED strayed

\* markLlmSettingsChanged: no field is disabled while a request is on its way.
EditLlm(llm, key) ==
  /\ page.loaded
  /\ page' = [page EXCEPT !.form.llm = llm, !.form.key = key, !.dirty = TRUE,
                          !.test = IF @ \in {"passed", "failed"} THEN "settings_changed" ELSE @]
  /\ Edited
  /\ UNCHANGED req

\* markSettingsChanged.
EditFolder(folder) ==
  /\ page.loaded
  /\ page' = [page EXCEPT !.form.folder = folder, !.dirty = TRUE]
  /\ Edited
  /\ UNCHANGED req

\* Requests that may write while others are on their way.
Alone(s) == IF \E t \in Slots \ {s} : Busy(t) THEN Strays("writes") ELSE UNCHANGED strayed

\* The first half of persistSettingsFromForm.
FormSettings ==
  [page.settings EXCEPT !.llm = page.form.llm, !.key = page.form.key, !.folder = page.form.folder]

\* Variant: the page is called synced before the answer is there.
Persist_Early(op) ==
  /\ page.loaded /\ ~Busy("main")
  /\ page' = [page EXCEPT !.settings = FormSettings, !.dirty = FALSE]
  /\ Send("main", op, FormSettings)
  /\ Alone("main")

Persist(op) ==
  /\ page.loaded /\ ~Busy("main")
  /\ page' = [page EXCEPT !.settings = FormSettings]
  /\ Send("main", op, FormSettings)
  /\ Alone("main")

SaveSettings == page.dirty /\ Persist("save")
TestLlm == Persist("test")

ChooseFolder(folder) ==
  LET chosen == [page.settings EXCEPT !.folder = folder]
  IN /\ page.loaded /\ ~Busy("main")
     /\ page' = [page EXCEPT !.settings = chosen]
     /\ Send("main", "choose", chosen)
     /\ Alone("main")

\* The key of an imported file is dropped. What the import compares it with is
\* read first, from a row that the page's loading has freed of a key.
ImportSettings(settings) ==
  /\ page.loaded /\ ~Busy("main") /\ settings.key = "none"
  /\ Send("main", "import", settings)
  /\ Alone("main") /\ UNCHANGED page

DismissHelper ==
  LET seen == [page.settings EXCEPT !.seen = TRUE]
  IN /\ page.loaded /\ page.helper /\ ~Busy("side")
     /\ page' = [page EXCEPT !.settings = seen]
     /\ Send("side", "dismiss", seen)
     /\ Alone("side")

\* Another window, of which this page knows nothing; it too loads before it is used.
OtherWindow ==
  /\ ~Busy("other")
  /\ \/ Ask("other", "load", "settings")
     \/ row.key = "none" /\ Ask("other", "testing", "test")
     \/ /\ row.key = "none"
        /\ \E llm \in Llms, key \in AnyKey :
             Send("other", "save", [Default EXCEPT !.llm = llm, !.key = key])
  /\ Strays("writes") /\ UNCHANGED page

Use ==
  /\ Act
  /\ \/ \E llm \in Llms, key \in AnyKey : EditLlm(llm, key)
     \/ \E folder \in Folders : EditFolder(folder) \/ ChooseFolder(folder)
     \/ \E llm \in Llms : ImportSettings([Default EXCEPT !.llm = llm])
     \/ SaveSettings \/ TestLlm \/ DismissHelper \/ OtherWindow
  /\ UNCHANGED <<row, vault, status, worked, faults>>

Reload ==
  /\ Act /\ \A s \in Slots : ~Busy(s)
  /\ req' = Opened /\ page' = Blank /\ strayed' = {}
  /\ UNCHANGED <<row, vault, status, worked, faults>>

\* The service ends at any moment and is started again with its page. Environment
\* variables end with it.
Restart ==
  /\ Fault
  /\ req' = Opened /\ page' = Blank /\ strayed' = {}
  /\ vault' = IF Persistent THEN vault ELSE [p \in Providers |-> "none"]
  /\ UNCHANGED <<row, status, worked, acts>>

Next == (\E s \in Slots : Serve(s)) \/ Receive \/ Use \/ Reload \/ Restart

Spec == Init /\ [][Next]_vars

-----------------------------------------------------------------------------
(* Properties. *)

AtRest == \A s \in Slots : ~Busy(s)

\* The stored status is of what was tested: it says "passed" of settings and a
\* key that a provider has answered, whatever was saved while it did.
StatusIsOfTest == status.state = "passed" => status.pair \in worked

\* And a page at rest that shows "passed" means the settings and the key that are
\* in use now, also after a save of which only the key got through.
PassedIsTested ==
  /\ StatusIsOfTest
  /\ AtRest /\ strayed = {} /\ page.test = "passed"
       => [llm |-> row.llm, key |-> KeyInUse(row.llm)] \in worked

\* A page at rest that says the settings are synced shows the row, whatever
\* failed on the way, unless something happened to it that README.md describes.
SyncedIsSaved ==
  AtRest /\ strayed = {} /\ page.loaded /\ ~page.dirty
    => page.form = [llm |-> row.llm, key |-> "none", folder |-> row.folder]

\* What a page at rest says of its settings is true of the stores.
PageIsTrue == PassedIsTested /\ SyncedIsSaved

\* No key is ever written to the database: a row with one is an old row. And a
\* page that has loaded has had it removed for good.
NoPlaintext ==
  [][/\ row'.key # "none" => row' = row
     /\ page'.loaded => row'.key = "none"]_vars
=============================================================================
