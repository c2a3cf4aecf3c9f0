----------------------------- MODULE FolderPlan -----------------------------
(***************************************************************************)
(* What the program proposes for a folder, and what becomes of the folder  *)
(* when the user runs the proposal as it stands and analyses again:        *)
(* scan_files, plan_item_from_scan and validate_plan_items, and the effect *)
(* of a run on the files (how a run is carried out is VerifiedMove's and   *)
(* RunLedger's).  Meanwhile the user, or a download, changes files.        *)
(***************************************************************************)
EXTENDS FileNames

CONSTANTS
    Files,          \* the files there are
    Gone,           \* where a file is that is neither in the library nor in quarantine
    Dirs,           \* the directories of the library
    Root,           \* the directory that is analysed
    Above,          \* Above[d]: d and the directories it lies in, down from Root
    Excluded,       \* directories whose names a scan passes over
    Advertising,    \* directories whose names say that all in them is advertising
    Folders,        \* the contents the folder may have at first
    MaxRounds,      \* bound: analyses
    MaxTouches      \* bound: changes somebody else makes

Quarantine == "quarantined"

ASSUME DirsAssumption ==
    /\ Root \in Dirs /\ Above \in [Dirs -> SUBSET Dirs]
    /\ \A d \in Dirs : d \in Above[d]
    /\ Excluded \subseteq Dirs /\ Advertising \subseteq Dirs
    /\ MaxRounds \in Nat /\ MaxTouches \in Nat

Sizes == {"empty", "usual", "large"}   \* large: LARGE_TEMP_JUNK_REVIEW_BYTES or more

(* A file lies in a directory of the library, under a name of its own that *)
(* consists of words.                                                      *)
ASSUME FoldersAssumption ==
    /\ Quarantine \notin Dirs
    /\ \A folder \in Folders :
         /\ folder = [f \in Files |-> folder[f]]
         /\ \A f \in Files :
              folder[f] = Gone \/
              \E d \in Dirs, size \in Sizes :
                folder[f] = [dir |-> d, home |-> d, size |-> size, name |-> folder[f].name]
         /\ \A f \in Files : folder[f] # Gone => folder[f].name.stem \in Texts
         /\ \A f, g \in Files :
              \/ folder[f] = Gone \/ folder[g] = Gone \/ f = g
              \/ folder[f].dir # folder[g].dir \/ folder[f].name # folder[g].name

VARIABLES
    files,          \* files[f]: where f is, its name and its size
    first,          \* history: the files at first
    phase,          \* "idle", "scan", "plan" or "run"
    todo,           \* directories the scan has still to list
    seen,           \* what the scan has listed
    plan,           \* the items of the plan
    left,           \* selected items the run has still to carry out
    rounds,
    touches

vars == <<files, first, phase, todo, seen, plan, left, rounds, touches>>

-----------------------------------------------------------------------------
(* Kinds of files (constants.py, scanner.classify_extension).              *)

VideoExtensions == {"mp4", "ts"}
SidecarExtensions == SubtitleExtensions \cup {"jpg"}
LargeTempJunkExtensions == {"parts"}
JunkExtensions == {"url"} \cup LargeTempJunkExtensions
TextJunkExtensions == {"txt"}
ScannedExtensions ==
    VideoExtensions \cup SidecarExtensions \cup JunkExtensions \cup TextJunkExtensions

Words(name) == {Word(name.stem, i) : i \in DOMAIN name.stem}
HasWord(name, kind) == \E w \in Words(name) : w.kind = kind

InAdvertising(d) == Above[d] \cap Advertising # {}

IsJunk(place) ==                       \* rules.is_junk_file
    LET ext == place.name.ext
    IN  \/ InAdvertising(place.dir)
        \/ HasWord(place.name, "slogan")
        \/ /\ ext \notin SidecarExtensions
           /\ \/ ext \in JunkExtensions
              \/ place.size = "empty"
              \/ ext \in TextJunkExtensions /\ HasWord(place.name, "adDomain")

LargeTemp(place) == place.name.ext \in LargeTempJunkExtensions /\ place.size = "large"

InLibrary(f) == files[f] # Gone /\ files[f].dir # Quarantine
SameName(n, m) == n.stem = m.stem /\ n.ext = m.ext          \* but for the case
Taken(dir, name, but) ==
    \E f \in Files \ but : InLibrary(f) /\ files[f].dir = dir /\ SameName(files[f].name, name)

-----------------------------------------------------------------------------
(* The plan.                                                               *)

Item(place, op, target, code, review, selected) ==
    [place |-> place, op |-> op, target |-> target, code |-> code,
     review |-> review, selected |-> selected]

(* Variant: what needs a review is selected all the same.                  *)
ItemFor_Unreviewed(place, s, op) ==
    IF IsJunk(place) THEN Item(place, "quarantine", place.name, <<>>, FALSE, ~LargeTemp(place))
    ELSE Item(place, op, s.name, s.code, s.review, op = "rename")

(* Variant: a large unfinished download is selected like other junk.       *)
ItemFor_Large(place, s, op) ==
    IF IsJunk(place) THEN Item(place, "quarantine", place.name, <<>>, FALSE, TRUE)
    ELSE Item(place, op, s.name, s.code, s.review, op = "rename" /\ ~s.review)

ItemFor(place, s, op) ==
    CASE IsJunk(place) ->
           Item(place, "quarantine", place.name, <<>>, FALSE, ~LargeTemp(place))
      [] ~IsJunk(place) /\ place.name.ext \in VideoExtensions ->
           IF s.code = <<>>
           THEN Item(place, "review", place.name, <<>>, TRUE, FALSE)
           ELSE Item(place, op, s.name, s.code, s.review, op = "rename" /\ ~s.review)
      [] ~IsJunk(place) /\ place.name.ext \in SidecarExtensions ->
           Item(place, op, IF s.code = <<>> THEN place.name ELSE s.name, s.code, FALSE, FALSE)
      [] OTHER -> Item(place, "keep", place.name, <<>>, FALSE, FALSE)
ItemWith(place, s) ==
    ItemFor(place, s, IF s.code = <<>> \/ s.name = place.name THEN "keep" ELSE "rename")
ItemFromScan(place) == ItemWith(place, Suggest(place.name))   \* planner.plan_item_from_scan

Executable(item) == item.op \in {"rename", "quarantine"}
IsAt(f, place) == InLibrary(f) /\ files[f].dir = place.dir /\ files[f].name = place.name

(* Variant: the snapshot is not compared, the file has only to exist.      *)
Unchanged_Exists(item) == \E f \in Files : IsAt(f, item.place)

Unchanged(item) == \E f \in Files : InLibrary(f) /\ files[f] = item.place

(* Variant: only renames claim a place.                                    *)
Contested_Renames(item, items) ==
    /\ item.op = "rename"
    /\ \E o \in items \ {item} :
         /\ o.op = "rename" /\ o.place.dir = item.place.dir
         /\ SameName(o.target, item.target)

(* validators.validate_conflicts: every executable item claims its target, *)
(* one that is quarantined the place where it is.                          *)
Contested(item, items) ==
    /\ Executable(item)
    /\ \E o \in items \ {item} :
         /\ Executable(o) /\ o.place.dir = item.place.dir
         /\ SameName(o.target, item.target)

(* validators.validate_item_paths                                          *)
Blocked(item) ==
    \/ Executable(item) /\ ~Unchanged(item)
    \/ item.op = "rename"
         /\ Taken(item.place.dir, item.target, {f \in Files : IsAt(f, item.place)})

Validated(items) ==                    \* validators.validate_plan_items
    {IF Blocked(i) \/ Contested(i, items) THEN [i EXCEPT !.review = TRUE, !.selected = FALSE]
     ELSE i : i \in items}

-----------------------------------------------------------------------------
TypeOK ==
    LET Places == {files[f] : f \in Files} \cup {first[f] : f \in Files} \cup seen
                    \cup {i.place : i \in plan}
    IN  /\ \A p \in Places \ {Gone} : p.size \in Sizes /\ p.home \in Dirs
        /\ \A p \in seen : p.dir \in Dirs
        /\ phase \in {"idle", "scan", "plan", "run"}
        /\ todo \subseteq Dirs
        /\ \A i \in plan : /\ i.op \in {"keep", "review", "rename", "quarantine"}
                           /\ i.selected => Executable(i) /\ ~i.review
        /\ left \subseteq {i \in plan : i.selected}
        /\ rounds \in 0..MaxRounds /\ touches \in 0..MaxTouches

Init ==
    /\ files \in Folders /\ first = files
    /\ phase = "idle" /\ todo = {} /\ seen = {} /\ plan = {} /\ left = {}
    /\ rounds = 0 /\ touches = 0

-----------------------------------------------------------------------------
(* An analysis: one step per directory, then the plan.                     *)

StartScan ==
    /\ phase = "idle" /\ rounds < MaxRounds
    /\ phase' = "scan" /\ todo' = {Root} /\ seen' = {} /\ plan' = {}
    /\ rounds' = rounds + 1
    /\ UNCHANGED <<files, first, left, touches>>

(* Variant: the quarantine of another run is listed like other directories.*)
Children_All(d) == {c \in Dirs : c # d /\ Above[c] = Above[d] \cup {c}}

Children(d) == {c \in Dirs \ Excluded : c # d /\ Above[c] = Above[d] \cup {c}}

ListDirectory(d) ==
    /\ phase = "scan" /\ d \in todo
    /\ seen' = seen \cup
         {files[f] : f \in {f \in Files :
            /\ InLibrary(f) /\ files[f].dir = d
            /\ files[f].name.ext \in ScannedExtensions \/ InAdvertising(d)}}
    /\ todo' = (todo \ {d}) \cup Children(d)
    /\ UNCHANGED <<files, first, phase, plan, left, rounds, touches>>

MakePlan ==
    /\ phase = "scan" /\ todo = {}
    /\ plan' = Validated({ItemFromScan(place) : place \in seen})
    /\ phase' = "plan"
    /\ UNCHANGED <<files, first, todo, seen, left, rounds, touches>>

-----------------------------------------------------------------------------
(* The user runs what is selected by default; the plan is validated again  *)
(* before the run, and each item by itself before its turn.                *)

StartRun ==
    /\ phase = "plan"
    /\ IF Validated(plan) = plan /\ \E i \in plan : i.selected
       THEN left' = {i \in plan : i.selected} /\ phase' = "run"
       ELSE phase' = "idle" /\ UNCHANGED left                  \* refused
    /\ UNCHANGED <<files, first, todo, seen, plan, rounds, touches>>

Quarantined(place) == [place EXCEPT !.dir = Quarantine, !.home = place.dir]

RunItem(item) ==
    /\ phase = "run" /\ item \in left
    /\ left' = left \ {item}
    /\ \/ Blocked(item) /\ UNCHANGED files                     \* the item fails
       \/ /\ ~Blocked(item)
          /\ \E f \in Files :
               /\ IsAt(f, item.place)
               /\ files' = [files EXCEPT ![f] =
                    IF item.op = "rename" THEN [@ EXCEPT !.name = item.target]
                    ELSE Quarantined(@)]
    /\ UNCHANGED <<first, phase, todo, seen, plan, rounds, touches>>

EndRun ==
    /\ phase = "run" /\ left = {}
    /\ phase' = "idle"
    /\ UNCHANGED <<files, first, todo, seen, plan, left, rounds, touches>>

-----------------------------------------------------------------------------
(* Somebody else moves, deletes, empties or fills a file of the library    *)
(* (not when all its files but one are gone from the start: such a folder  *)
(* only shows what becomes of a name).                                     *)

Touch(f) ==
    /\ touches < MaxTouches /\ rounds > 0
    /\ \A g \in Files : first[g] # Gone
    /\ InLibrary(f)
    /\ touches' = touches + 1
    /\ \/ \E d \in Dirs \ {files[f].dir} :
            /\ ~Taken(d, files[f].name, {f})
            /\ files' = [files EXCEPT ![f].dir = d]
       \/ files' = [files EXCEPT ![f] = Gone]
       \/ \E size \in Sizes \ {files[f].size} : files' = [files EXCEPT ![f].size = size]
    /\ UNCHANGED <<first, phase, todo, seen, plan, left, rounds>>

Finished ==
    /\ phase = "idle" /\ rounds = MaxRounds
    /\ UNCHANGED vars

Next ==
    \/ StartScan \/ MakePlan \/ StartRun \/ EndRun \/ Finished
    \/ \E d \in Dirs : ListDirectory(d)
    \/ \E i \in left : RunItem(i)
    \/ \E f \in Files : Touch(f)

Spec == Init /\ [][Next]_vars

-----------------------------------------------------------------------------
(* What the words of a name say, but for words that a site took along, for *)
(* the "CD" before a part and for a mark written as one word.              *)
Readable(text) == OfKind(text, {"plain", "fc2"}) \ SiteWords(text)
Fields == {"lead", "letters", "digits", "last"}
Occurrences(text, said) ==
    Cardinality({at \in Readable(text) \X Fields : Word(text, at[1])[at[2]].text = said})
Said(text) ==
    {Word(text, at[1])[at[2]].text : at \in Readable(text) \X Fields} \ ({None.text} \cup PartWords)
KeepsText(old, new) == \A said \in Said(old) : Occurrences(old, said) <= Occurrences(new, said)

(* GHI-789A UC: the letter of the code replaces the variant that follows.  *)
HasTwoVariants(name) ==
    LET text == CleanText(SplitLanguage(name.stem, name.ext).base)
    IN  \E c \in SuffixVariant(text) : ParseTail(From(text, c.to + 1)).variant # <<>>

(* ABC1234A: a number the code is cut from.                                *)
HasCutNumber(name) ==
    LET text == CleanText(SplitLanguage(name.stem, name.ext).base)
    IN  \E i \in DOMAIN text : IsLettered(Word(text, i)) /\ Word(text, i).digits.size > 3

(* After any number of analyses and of runs of what they select by         *)
(* themselves, a file's name still says all its first name said beside ads *)
(* and noise: the rules ask for a review wherever they would drop a word   *)
(* (unrecognized_filename_text, multiple_media_code_candidates), except    *)
(* where a code with a letter is followed by a variant or is cut out of a  *)
(* number of more than three digits.                                       *)
NothingIsLostByDefault ==
    \A f \in Files :
        /\ InLibrary(f) /\ files[f].name # first[f].name
        /\ ~HasTwoVariants(first[f].name) /\ ~HasCutNumber(first[f].name)
        => KeepsText(first[f].name.stem, files[f].name.stem)

(* What is in quarantine was junk when it was moved, whatever it was when  *)
(* the folder was analysed: a placeholder that a download has filled since,*)
(* or a film that has left the advertising directory, stays where it is.   *)
OnlyJunkLeaves ==
    \A f \in Files :
        files[f] # Gone /\ files[f].dir = Quarantine
            => LET was == [files[f] EXCEPT !.dir = files[f].home]
               IN  IsJunk(was) /\ ~LargeTemp(was) /\ was.home \notin Excluded

(* A name the rules suggest is a name they are content with: the same code,*)
(* nothing to change, nothing to review.                                   *)
CleanIsClean ==
    phase = "plan" => \A i \in plan : i.code # <<>> =>
        Suggest(i.target) = [code |-> i.code, name |-> i.target, review |-> FALSE]

(* Who runs what is selected and changes nothing else finds nothing        *)
(* selected by the next analysis: no run makes work for another one.       *)
SecondPlanIsQuiet ==
    phase = "plan" /\ rounds > 1 /\ touches = 0 => \A i \in plan : ~i.selected

(* The rules settle: neither a name nor a folder is changed twice.         *)
AnalysisSettles == CleanIsClean /\ SecondPlanIsQuiet

=============================================================================
