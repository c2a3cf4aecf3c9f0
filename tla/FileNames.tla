----------------------------- MODULE FileNames -----------------------------
(***************************************************************************)
(* The rules that make a clean name out of a file name                     *)
(* (avcleaner/rules.py, suggest_name_with_trace, under the default         *)
(* RuleConfig).                                                            *)
(*                                                                         *)
(* A name is kept as the words the regular expressions tell apart, with one*)
(* separator before each.  A plain word is a run of digits, letters,       *)
(* digits and letters, any of them empty.  Of its own kind are the mark    *)
(* FC2PPV written as one word ("fc2": its digits and letters, if any, are  *)
(* those glued behind it), an advertisement of the list ("adDomain"),      *)
(* another site ("site"), a bracket that advertises ("adBracket") or does  *)
(* not ("bracket"), a noise token, a date and a text that only advertising *)
(* has ("slogan").  "tidy" says that the name has no outer separators, is  *)
(* in NFKC and upper case and has a lower-case extension: what the rules   *)
(* put right whatever else they do.                                        *)
(*                                                                         *)
(* Left out: words of more runs than that, letters and digits other than   *)
(* A to Z and 0 to 9, several separators in a row, words glued to a bracket*)
(* or to a site, and codes inside of brackets.                             *)
(***************************************************************************)
EXTENDS Integers, Sequences, FiniteSets, SequencesExt

Part(text, size) == [text |-> text, size |-> size]
None == Part("", 0)

Plain(lead, letters, digits, last) ==
    [kind |-> "plain", lead |-> lead, letters |-> letters, digits |-> digits, last |-> last]
Label(text, size) == Plain(None, Part(text, size), None, None)
Number(text, size) == Plain(None, None, Part(text, size), None)
Mark(kind, text) ==
    [kind |-> kind, lead |-> None, letters |-> Part(text, 1), digits |-> None, last |-> None]
Date(year, month, day) ==
    [kind |-> "date", lead |-> Part(year, 4), letters |-> Part(month, 2),
     digits |-> Part(day, 2), last |-> None]
Separators == {" ", "-", "_", "."}
Joints == Separators \ {"."}           \* [-_\s], what may stand inside a code

(* SUFFIX_VARIANT cuts a run of digits in two: the label of the code ends  *)
(* with as many of them, up to four, as leave at least three for its number.*)
CutAt(p) == IF p.size < 8 THEN p.size - 3 ELSE 4
FirstOf(p, k) == IF k = 0 THEN None ELSE Part(SubSeq(p.text, 1, k), k)
RestOf(p, k) == IF k = 0 THEN p ELSE Part(SubSeq(p.text, k + 1, p.size), p.size - k)

CONSTANT Runs                         \* the runs of letters or digits there are
ASSUME RunsAssumption ==
    /\ None \in Runs
    /\ \A p \in Runs :
         /\ p \in [text : STRING, size : Nat]
         /\ p.size = 0 => p = None
         /\ p.size \in 4..9 => FirstOf(p, CutAt(p)) \in Runs /\ RestOf(p, CutAt(p)) \in Runs

(* The runs of a word are filled from the letters to the right; those glued*)
(* to a mark, from the digits.                                             *)
Kinds == {"plain", "fc2", "adDomain", "site", "adBracket", "bracket", "noise", "date", "slogan"}
WellFormed ==
    {w \in [kind : Kinds, lead : Runs, letters : Runs, digits : Runs, last : Runs] :
        /\ w.digits = None => w.last = None
        /\ w.kind = "plain" /\ w.letters = None => w.lead = None /\ w.last = None
        /\ w.kind = "fc2" => w.lead = None /\ w.letters = None}

(* The words of a text and its separators: the first separator says        *)
(* nothing and is always " ".                                              *)
Piece(sep, word) == [sep |-> sep, word |-> word]
Word(text, i) == text[i].word
Texts == Seq([sep : Separators, word : WellFormed])
Joined(text, i) == i <= Len(text) /\ text[i].sep \in Joints
From(text, i) == SubSeq(text, i, Len(text))

-----------------------------------------------------------------------------
(* The shapes the expressions of CODE_PATTERNS and of the tail ask for.    *)

IsNumber(w, least, most) ==
    /\ w.kind = "plain"
    /\ w.lead = None /\ w.letters = None /\ w.last = None
    /\ w.digits.size \in least..most
IsLetters(w) ==
    /\ w.kind = "plain"
    /\ w.lead = None /\ w.digits = None /\ w.last = None
    /\ w.letters.size > 0
IsLabel(w) ==                                  \* [A-Z]{2,12}[0-9]{0,4}
    /\ w.kind = "plain"
    /\ w.lead = None /\ w.last = None
    /\ w.letters.size \in 2..12 /\ w.digits.size \in 0..4
IsMixed(w) ==                                  \* [0-9]{2,4}[A-Z]{2,8}
    /\ w.kind = "plain"
    /\ w.lead.size \in 2..4 /\ w.letters.size \in 2..8
    /\ w.digits = None /\ w.last = None
IsCompact(w) ==                                \* [A-Z]{2,8}[0-9]{3,5}
    /\ w.kind = "plain"
    /\ w.lead = None /\ w.last = None
    /\ w.letters.size \in 2..8 /\ w.digits.size \in 3..5

Variants == {"UC", "U", "C", "LEAK", "CH", "SUB", "SUBBED", "VR", "UNCENSORED", "UNCENSOREDLEAK"}
PartWords == {"PART", "PT", "CD", "DISC", "DISK"}
NoisePrefixes == {"AAC", "FLAC", "HEVC", "WEB", "BLURAY", "BIT"}
Languages == {"ZH", "CHS", "CHT", "CN", "EN", "JA", "JP", "KO"}
Regions == {"CN", "TW", "HANS", "HANT"}        \* of ZH

-----------------------------------------------------------------------------
(* Ads, brackets and noise go first.                                       *)

(* What _collapse_separators leaves: every separator is a space then, those*)
(* inside a date too, which is three numbers from there on.                *)
Spread(w) ==
    IF w.kind # "date" THEN <<Piece(" ", w)>>
    ELSE <<Piece(" ", Plain(None, None, w.lead, None)),
           Piece(" ", Plain(None, None, w.letters, None)),
           Piece(" ", Plain(None, None, w.digits, None))>>
Without(text, drop) ==
    IF drop = {} THEN text
    ELSE FlattenSeq([i \in DOMAIN text |-> IF i \in drop THEN <<>> ELSE Spread(Word(text, i))])

OfKind(text, kinds) == {i \in DOMAIN text : Word(text, i).kind \in kinds}

(* GENERIC_DOMAIN_RE starts as far to the left of the site as hyphens and  *)
(* dots reach, at a word no dot stands before.                             *)
SiteStarts(text, i) ==
    {j \in 1..i :
        /\ \A k \in j..(i - 1) : Word(text, k).kind \in {"plain", "fc2", "noise", "date", "site"}
        /\ \A k \in (j + 1)..i : text[k].sep \in {"-", "."}
        /\ j = 1 \/ text[j].sep # "."}
SiteWords(text) ==
    UNION {{k \in 1..i : \E j \in SiteStarts(text, i) : j <= k} :
              i \in OfKind(text, {"site"})}

(* Left out of the model: hyphens and dots that lead from a site to a known*)
(* advertisement or a bracket, which the two substitutions then see in part*)
(* only.                                                                   *)
SitesStandClear(text) ==
    \A i \in OfKind(text, {"site"}), j \in 2..Len(text) :
        /\ j <= i
        /\ Word(text, j - 1).kind \in {"adDomain", "adBracket", "bracket", "slogan"}
        => \E k \in j..i : text[k].sep \in {" ", "_"}

RemoveAdDomains(text) == Without(text, OfKind(text, {"adDomain"}) \cup SiteWords(text))
RemoveBracketAds(text) == Without(text, OfKind(text, {"adBracket"}))
RemoveNoise(text) == Without(text, OfKind(text, {"noise", "date"}))

-----------------------------------------------------------------------------
(* What follows the code: a part, a variant, and what nobody recognised.   *)

PartLength(rest) ==
    CASE /\ Len(rest) >= 1
         /\ \/ IsNumber(Word(rest, 1), 1, 3)
            \/ /\ IsLabel(Word(rest, 1)) /\ Word(rest, 1).letters.text \in PartWords
               /\ Word(rest, 1).digits.size \in 1..3      -> 1
      [] /\ Len(rest) >= 2
         /\ IsLetters(Word(rest, 1)) /\ Word(rest, 1).letters.text \in PartWords
         /\ IsNumber(Word(rest, 2), 1, 3)                 -> 2
      [] OTHER                                            -> 0

(* One word; UNCENSORED takes a LEAK along.                                *)
StartsWithVariant(text) ==
    /\ text # <<>>
    /\ IsLetters(Word(text, 1))
    /\ \/ Word(text, 1).letters.text \in Variants
       \/ Word(text, 1).letters.size = 1
StartsWithLeak(text) ==
    /\ Joined(text, 2)
    /\ IsLetters(Word(text, 1)) /\ Word(text, 1).letters.text = "UNCENSORED"
    /\ IsLetters(Word(text, 2)) /\ Word(text, 2).letters.text = "LEAK"

Suffix(part) == <<Piece("-", part)>>
VariantOf(text) ==
    CASE StartsWithLeak(text)     -> <<Piece("-", Word(text, 1)), Piece("-", Word(text, 2))>>
      [] StartsWithVariant(text) /\ ~StartsWithLeak(text)  -> Suffix(Word(text, 1))
      [] OTHER                    -> <<>>

(* The variant is looked for behind the part, from word n + 1 on.          *)
TailFrom(rest, n, variant) ==
    [part |-> IF n = 0 THEN <<>>
              ELSE Suffix(Plain(None, None, Word(rest, n).digits, None)),
     variant |-> variant,
     left |-> From(rest, n + Len(variant) + 1)]
TailBehind(rest, n) == TailFrom(rest, n, VariantOf(From(rest, n + 1)))
ParseTail(rest) == TailBehind(rest, PartLength(rest))

-----------------------------------------------------------------------------
(* The codes of a text.                                                    *)

Found(weight, from, to, before, code, tail) ==
    [weight |-> weight, from |-> from, to |-> to, before |-> before, code |-> code,
     part |-> tail.part, variant |-> tail.variant, left |-> tail.left]
Candidate(weight, from, to, code, rest) ==
    Found(weight, from, to, from > 1, code, ParseTail(rest))

Code(sep, first, second) == <<Piece(" ", first), Piece(sep, second)>>
DigitsOf(w) == Plain(None, None, w.digits, None)
LettersOf(w) == Plain(None, w.letters, None, None)

(* A number that only no digit may follow can be what a longer word begins *)
(* with: the letters behind it are then what follows the code.             *)
Opens(w, least, most) ==
    IsNumber(w, least, most) \/ (w.kind = "plain" /\ w.lead.size \in least..most)
Opening(w) == IF w.lead = None THEN w ELSE Plain(None, None, w.lead, None)
BehindOpening(text, i) ==
    IF Word(text, i).lead = None THEN From(text, i + 1)
    ELSE <<Piece(" ", [Word(text, i) EXCEPT !.lead = None])>> \o From(text, i + 1)
BehindDigits(text, i) ==
    IF Word(text, i).last = None THEN From(text, i + 1)
    ELSE <<Piece(" ", Plain(None, Word(text, i).last, None, None))>> \o From(text, i + 1)

FC == Plain(None, Part("FC", 2), Part("2", 1), None)
PPV == Plain(None, Part("PPV", 3), None, None)
Fc2Code(number) == <<Piece(" ", FC), Piece("-", PPV), Piece("-", number)>>
Fc2Marks(text) ==                     \* FC2[-_\s]?PPV
    {[from |-> i, to |-> i] : i \in OfKind(text, {"fc2"})}
    \cup {[from |-> i, to |-> i + 1] :
             i \in {i \in 1..(Len(text) - 1) :
                      /\ Word(text, i) = FC /\ Joined(text, i + 1)
                      /\ LettersOf(Word(text, i + 1)) = PPV
                      /\ Word(text, i + 1).kind = "plain" /\ Word(text, i + 1).lead = None}}
Fc2(text) ==
    {Candidate(95, m.from, m.to, Fc2Code(DigitsOf(Word(text, m.to))), BehindDigits(text, m.to)) :
       m \in {m \in Fc2Marks(text) : Word(text, m.to).digits.size \in 5..8}}
    \cup
    {Candidate(95, m.from, m.to + 1, Fc2Code(Opening(Word(text, m.to + 1))),
               BehindOpening(text, m.to + 1)) :
       m \in {m \in Fc2Marks(text) :
                /\ Word(text, m.to).digits = None
                /\ Joined(text, m.to + 1) /\ Opens(Word(text, m.to + 1), 5, 8)}}

(* The six digits may be what a longer word ends with.                     *)
NumericAt(text, separators) ==
    {[Candidate(78, i, i + 1, Code("_", DigitsOf(Word(text, i)), Opening(Word(text, i + 1))),
                BehindOpening(text, i + 1))
        EXCEPT !.before = i > 1 \/ ~IsNumber(Word(text, i), 6, 6)] :
       i \in {i \in 1..(Len(text) - 1) :
                /\ Word(text, i).kind \in {"plain", "fc2"}
                /\ Word(text, i).digits.size = 6 /\ Word(text, i).last = None
                /\ text[i + 1].sep \in separators /\ Opens(Word(text, i + 1), 2, 4)}}

(* Variant: a code is read with a space alone and written with another. *)
NumericUnderscore_Space(text) == NumericAt(text, {" "})

NumericUnderscore(text) == NumericAt(text, {"_", " "})

MixedPrefix(text) ==
    {Candidate(92, i, i + 1, Code("-", Word(text, i), Word(text, i + 1)),
               From(text, i + 2)) :
       i \in {i \in 1..(Len(text) - 1) :
                /\ IsMixed(Word(text, i))
                /\ Joined(text, i + 1) /\ IsNumber(Word(text, i + 1), 1, 5)}}
    \cup
    {LET w == Word(text, i)
     IN  Candidate(92, i, i, Code("-", [w EXCEPT !.digits = None], DigitsOf(w)),
                   From(text, i + 1)) :
       i \in {i \in 1..Len(text) :
                /\ IsMixed([Word(text, i) EXCEPT !.digits = None])
                /\ Word(text, i).digits.size \in 1..5}}

(* The letter of the code is its variant, whatever the tail has            *)
(* (_candidate_from_match sets it over what parse_tail returned).          *)
IsLettered(w) ==
    /\ w.kind = "plain" /\ w.lead = None
    /\ w.letters.size \in 2..12 /\ w.digits.size \in 3..9 /\ w.last.size = 1
Lettered(c, letter) == [c EXCEPT !.variant = Suffix(Plain(None, letter, None, None))]
SuffixVariant(text) ==
    {LET w == Word(text, i)
         k == CutAt(w.digits)
     IN  Lettered(Candidate(90, i, i,
                            Code("-", Plain(None, w.letters, FirstOf(w.digits, k), None),
                                 Plain(None, None, RestOf(w.digits, k), None)),
                            From(text, i + 1)), w.last) :
       i \in {i \in 1..Len(text) : IsLettered(Word(text, i))}}
    \cup
    {LET w == Word(text, i + 1)
     IN  Lettered(Candidate(90, i, i + 1,
                            Code("-", Word(text, i), Plain(None, None, w.lead, None)),
                            From(text, i + 2)), w.letters) :
       i \in {i \in 1..(Len(text) - 1) :
                /\ IsLabel(Word(text, i)) /\ Joined(text, i + 1)
                /\ Word(text, i + 1).kind = "plain" /\ Word(text, i + 1).lead.size \in 3..5
                /\ Word(text, i + 1).letters.size = 1 /\ Word(text, i + 1).digits = None}}

Standard(text) ==
    {Candidate(92, i, i + 1, Code("-", Word(text, i), Word(text, i + 1)),
               From(text, i + 2)) :
       i \in {i \in 1..(Len(text) - 1) :
                /\ IsLabel(Word(text, i))
                /\ Joined(text, i + 1) /\ IsNumber(Word(text, i + 1), 1, 8)
                /\ Word(text, i).digits = None \/ Word(text, i + 1).digits.size > 2}}

Compact(text) ==
    {LET w == Word(text, i)
     IN  Candidate(86, i, i, Code("-", LettersOf(w), DigitsOf(w)), From(text, i + 1)) :
       i \in {i \in 1..Len(text) : IsCompact(Word(text, i))}}

IsNoisePrefix(w) ==                            \* AV1 has a digit
    \/ IsLetters(w) /\ w.letters.text \in NoisePrefixes
    \/ /\ IsLabel(w) /\ w.letters.text = "AV" /\ w.digits.text = "1"
Candidates(text) ==
    {c \in Fc2(text) \cup NumericUnderscore(text) \cup MixedPrefix(text)
             \cup SuffixVariant(text) \cup Standard(text) \cup Compact(text) :
        ~IsNoisePrefix(c.code[1].word)}

(* The best candidate: the most certain one, of those the first.           *)
Best(candidates) ==
    CHOOSE c \in candidates : \A o \in candidates :
        c.weight > o.weight \/ (c.weight = o.weight /\ c.from <= o.from)

(* Another candidate is accepted beside the best one when some candidate   *)
(* has another code and other words.                                       *)
IsAmbiguous(candidates, best) ==
    \E o \in candidates :
        o.code # best.code /\ (o.to < best.from \/ best.to < o.from)

-----------------------------------------------------------------------------
(* The suggestion.                                                         *)

SubtitleExtensions == {"srt"}

(* How many words the language takes at the end of a stem: ZH may have a   *)
(* region.                                                                 *)
IsLanguage(text, i, languages) ==
    /\ i > 1 /\ text[i].sep = "."
    /\ IsLetters(Word(text, i)) /\ Word(text, i).letters.text \in languages
LanguageLength(stem, ext) ==
    LET n == Len(stem)
    IN  CASE ext \in SubtitleExtensions /\ IsLanguage(stem, n, Languages)  -> 1
          [] /\ ext \in SubtitleExtensions /\ IsLanguage(stem, n - 1, {"ZH"})
             /\ stem[n].sep \in {"-", "_"}
             /\ IsLetters(Word(stem, n)) /\ Word(stem, n).letters.text \in Regions  -> 2
          [] OTHER  -> 0
SplitAt(stem, n) == [base |-> SubSeq(stem, 1, n), language |-> From(stem, n + 1)]
SplitLanguage(stem, ext) == SplitAt(stem, Len(stem) - LanguageLength(stem, ext))

CleanText(base) == RemoveNoise(RemoveBracketAds(RemoveAdDomains(base)))

(* Variant: what follows the code and nobody recognises is dropped in      *)
(* silence.                                                                *)
Render_Silent(name, language, best, ambiguous) ==
    [code |-> best.code,
     name |-> [stem |-> best.code \o best.part \o best.variant \o language,
               ext |-> name.ext, tidy |-> TRUE],
     review |-> ambiguous \/ best.before]

Render(name, language, best, ambiguous) ==
    [code |-> best.code,
     name |-> [stem |-> best.code \o best.part \o best.variant \o language,
               ext |-> name.ext, tidy |-> TRUE],
     review |-> \/ ambiguous
                \/ best.before              \* unrecognized_prefix
                \/ best.left # <<>>]        \* unrecognized_suffix

Choose(name, language, candidates, best) ==
    Render(name, language, best, IsAmbiguous(candidates, best))

SuggestFrom(name, language, candidates) ==
    IF candidates = {}
    THEN [code |-> <<>>, name |-> [name EXCEPT !.tidy = TRUE], review |-> TRUE]
    ELSE Choose(name, language, candidates, Best(candidates))

SuggestFor(name, parts) ==
    SuggestFrom(name, parts.language, Candidates(CleanText(parts.base)))

Suggest(name) == SuggestFor(name, SplitLanguage(name.stem, name.ext))

=============================================================================
