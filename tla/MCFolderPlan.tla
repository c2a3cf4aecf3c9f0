---------------------------- MODULE MCFolderPlan ----------------------------
(* Values TLC's configuration gives to the constants of FolderPlan.        *)
EXTENDS FolderPlan

MCDirs == {"library", "series", "promo", "quarantine"}
MCAbove == [d \in MCDirs |-> {"library", d}]

(* One file with a name of one, two or three of these words.               *)
ABC == Label("ABC", 3)
N2 == Number("2", 1)
N123 == Number("123", 3)
N6 == Number("123456", 6)
GHI789A == Plain(None, Part("GHI", 3), Part("789", 3), Part("A", 1))
DEF456 == Plain(None, Part("DEF", 3), Part("456", 3), None)
UC == Label("UC", 2)
CD1 == Plain(None, Part("CD", 2), Part("1", 1), None)
Noise == Mark("noise", "1080p")
AdDomain == Mark("adDomain", "hhd800.com")
Slogan == Mark("slogan", "slogan")

MCWords == {ABC, N2, N123, N6, GHI789A, DEF456, UC, CD1, Label("A", 1), Label("FILM", 4),
            Plain(Part("200", 3), Part("XYZ", 3), None, None), Date("2024", "01", "02"),
            AdDomain, Mark("site", "foo.com"), Noise}

First(w) == <<Piece(" ", w)>>
Joins(stems, seps, words) ==
    {s \in {Append(s, Piece(sep, w)) : s \in stems, sep \in seps, w \in words} :
        SitesStandClear(s)}
OneWord == {First(w) : w \in MCWords}
TwoWords == Joins(OneWord, Separators, MCWords)
ThreeWords == Joins(Joins(OneWord, {" ", "."}, MCWords), {" "}, MCWords)

(* Words that other expressions read, glued ones most of all, each before  *)
(* and behind every word above.                                            *)
Lead01 == Plain(Part("01", 2), Part("B", 1), None, None)
Mark7(last) == [kind |-> "fc2", lead |-> None, letters |-> None,
                digits |-> Part("1234567", 7), last |-> last]
Glued ==
    {FC, PPV, Lead01, Mark7(None), Mark7(Part("A", 1)), Mark7(Part("XYZ", 3)),
     [Mark7(None) EXCEPT !.digits = None], [Mark7(None) EXCEPT !.digits = Part("123456", 6)],
     Plain(None, Part("PPV", 3), Part("1234567", 7), None),
     Plain(Part("12345", 5), Part("UC", 2), None, None),
     Plain(Part("428", 3), Part("SUKE", 4), Part("095", 3), None),
     Plain(Part("01", 2), Part("AB", 2), Part("123456", 6), None),
     Plain(None, Part("ABC", 3), Part("123456", 6), None),
     Plain(None, Part("ABC", 3), Part("1234", 4), Part("A", 1)),
     Plain(None, Part("ABC", 3), Part("12345678", 8), Part("A", 1)),
     Plain(None, Part("AV", 2), Part("1234", 4), Part("A", 1)),
     Plain(None, Part("AV", 2), Part("1", 1), None)}
Rare == {Label("WEB", 3), Mark("adBracket", "[promo]"), Mark("bracket", "[film]"), Slogan}
Clean == Code("-", ABC, N123)
Mixed == {First(w) : w \in Glued \cup Rare}
    \cup Joins(OneWord, Separators, Glued \cup Rare)
    \cup Joins({First(w) : w \in Glued \cup Rare}, Separators, MCWords \cup Glued)
RareStems ==
    {Fc2Code(N6) \o First(w) : w \in MCWords \cup Rare}
    \cup Joins(Joins({First(FC)}, {" ", "-", "."}, {PPV}), {"-"}, Glued)
    \cup {Append(Clean, Piece(" ", w)) : w \in Rare \cup Glued}
    \cup {<<Piece(" ", w), Piece("-", n), Piece(" ", UC)>> : w \in Rare, n \in {N123, N2}}
    \cup Joins(Joins({Clean}, {"-"}, {Label("UNCENSORED", 10)}), Separators,
               {Label("LEAK", 4), UC, CD1})
MCStems == OneWord \cup TwoWords \cup ThreeWords \cup Mixed \cup RareStems

Zh == Label("ZH", 2)
MCLanguages ==
    {<<Piece(".", Zh)>>, <<Piece(".", Zh), Piece("-", Label("CN", 2))>>}

Place(dir, stem, ext, tidy, size) ==
    [dir |-> dir, home |-> dir, size |-> size,
     name |-> [stem |-> stem, ext |-> ext, tidy |-> tidy]]
Alone(place) == ("f1" :> place) @@ ("f2" :> Gone)

OneFile == {Alone(Place("library", s, "mp4", TRUE, "usual")) : s \in MCStems}
    \cup {Alone(Place("library", s \o language, "srt", TRUE, "usual")) :
              s \in TwoWords, language \in MCLanguages}

(* Two files whose names, places and sizes bear on one another.            *)
Films == {Place(d, s, "mp4", t, size) :
            d \in {"library", "promo"}, t \in BOOLEAN, size \in {"empty", "usual"},
            s \in {Clean, Code(" ", ABC, N123), Append(Clean, Piece(" ", Noise))}}
Others == {Place("series", Clean, ext, TRUE, size) :
             ext \in {"parts", "url", "txt", "doc", "srt"}, size \in {"usual", "large"}}
    \cup {Place(d, Append(Clean, Piece(" ", w)), ext, TRUE, "usual") :
             d \in {"library", "quarantine"}, w \in {AdDomain, Slogan}, ext \in {"mp4", "txt"}}

TwoFiles ==
    {folder \in {("f1" :> p) @@ ("f2" :> q) : p \in Films, q \in Films \cup Others} :
        \/ folder["f1"].dir # folder["f2"].dir
        \/ folder["f1"].name # folder["f2"].name}

MCFolders == OneFile \cup TwoFiles

(* The runs of all these words, and those that cutting them leaves.        *)
RunsOf(words) == UNION {{w.lead, w.letters, w.digits, w.last} : w \in words}
Used == RunsOf(MCWords \cup Glued \cup Rare
                 \cup {Label("UNCENSORED", 10), Label("LEAK", 4), Zh, Label("CN", 2)})
Cuts(runs) ==
    runs \cup {FirstOf(p, CutAt(p)) : p \in {p \in runs : p.size \in 4..9}}
         \cup {RestOf(p, CutAt(p)) : p \in {p \in runs : p.size \in 4..9}}
MCRuns == Cuts(Cuts(Cuts(Used)))

=============================================================================
