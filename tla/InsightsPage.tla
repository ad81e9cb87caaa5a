----------------------------- MODULE InsightsPage -----------------------------
(***************************************************************************)
(* The click analytics page: one page of links is loaded when it opens, and*)
(* a pie, a bar chart, a table and the totals are derived from it.  The    *)
(* three pictures colour a link by its place in them, so they agree only if*)
(* they rank the links in the same way.                                    *)
(*                                                                         *)
(* A link is its url_id.  Percentages, dates and tooltips are left out.    *)
(***************************************************************************)
EXTENDS Naturals, Sequences, SequencesExt

CONSTANTS
    MaxLinks, MaxClicks, \* how many links, and clicks each: bounds a run
    LinkLimit,           \* links asked for, 100 in the code
    MaxPie, MaxBar,      \* 7 slices and 8 bars in the code
    Colours              \* how many there are, 8 in the code

ASSUME InsightsAssumption ==
    /\ MaxLinks \in Nat /\ MaxClicks \in Nat
    /\ {LinkLimit, MaxPie, MaxBar, Colours} \subseteq Nat \ {0}
    /\ MaxPie < 20 \* the inverse of the share from which a slice has a label

VARIABLES
    clickCount, \* of each link of the user, in url-service
    urls,       \* useState, links in the order of the list
    clicksSeen, \* their click_count when they were loaded
    insightsLoading,
    loadingAll, \* the request is under way
    mounted

insightsVars == <<clickCount, urls, clicksSeen, insightsLoading, loadingAll,
                  mounted>>

Links == DOMAIN clickCount

InsightsInit ==
    /\ \E n \in 0..MaxLinks : clickCount \in [1..n -> 0..MaxClicks]
    /\ urls = <<>> /\ clicksSeen = <<>>
    /\ insightsLoading = TRUE /\ loadingAll = TRUE /\ mounted = TRUE

\* getUrls: the first page only, newest first.
GetUrls == [i \in 1..Min({LinkLimit, Len(clickCount)}) |->
                Len(clickCount) + 1 - i]

\* A click on a link is counted while the page is open, and it is not told.
LinkClicked ==
    /\ \E u \in Links : /\ clickCount[u] < MaxClicks
                        /\ clickCount' = [clickCount EXCEPT ![u] = @ + 1]
    /\ UNCHANGED <<urls, clicksSeen, insightsLoading, loadingAll, mounted>>

\* An answer that comes after the page was left changes nothing.
InsightsLoaded ==
    /\ loadingAll /\ loadingAll' = FALSE
    /\ IF mounted
       THEN /\ urls' = GetUrls /\ clicksSeen' = clickCount
            /\ insightsLoading' = FALSE
       ELSE UNCHANGED <<urls, clicksSeen, insightsLoading>>
    /\ UNCHANGED <<clickCount, mounted>>

InsightsFailed ==
    /\ loadingAll /\ loadingAll' = FALSE
    /\ insightsLoading' = (insightsLoading /\ ~mounted)
    /\ UNCHANGED <<clickCount, urls, clicksSeen, mounted>>

LeaveInsights ==
    /\ mounted /\ mounted' = FALSE
    /\ UNCHANGED <<clickCount, urls, clicksSeen, insightsLoading, loadingAll>>

InsightsNext == LinkClicked \/ InsightsLoaded \/ InsightsFailed \/ LeaveInsights

InsightsSpec == InsightsInit /\ [][InsightsNext]_insightsVars

----------------------------------------------------------------------------
(* What is derived from the links.                                         *)

\* sort((a, b) => b.click_count - a.click_count), which is stable.
Sorted(s) ==
    LET Before(i, j) == \/ clicksSeen[s[i]] > clicksSeen[s[j]]
                        \/ clicksSeen[s[i]] = clicksSeen[s[j]] /\ i < j
        Place(i) == Cardinality({j \in DOMAIN s : Before(j, i)}) + 1
    IN  [p \in DOMAIN s |-> s[CHOOSE i \in DOMAIN s : Place(i) = p]]

Clicked(u) == clicksSeen[u] > 0

\* filter(u => u.click_count > 0), which keeps the order.
ActiveLinks ==
    FoldLeft(LAMBDA kept, u : IF Clicked(u) THEN Append(kept, u) ELSE kept,
             <<>>, urls)

Total(s) == FoldLeft(LAMBDA sum, u : sum + clicksSeen[u], 0, s)

Slice(s, n) == SubSeq(s, 1, Min({n, Len(s)}))

\* The four cards: totals, and the best link.
StatCards ==
    [links  |-> Len(urls), clicks |-> Total(urls),
     active |-> Len(ActiveLinks),
     best   |-> IF urls # <<>> /\ Clicked(Sorted(urls)[1])
                THEN Sorted(urls)[1] ELSE 0]

\* Mutant: the slice of the others starts one link too late.
PieDataSkipsOne ==
    LET ranked == Sorted(ActiveLinks)
        rest == SubSeq(ranked, MaxPie + 2, Len(ranked))
        Slices(s) ==
            [i \in DOMAIN s |-> [link |-> s[i], value |-> clicksSeen[s[i]]]]
    IN  Slices(Slice(ranked, MaxPie))
        \o IF Total(rest) > 0 THEN <<[link |-> 0, value |-> Total(rest)]>>
                              ELSE <<>>

\* The first links with clicks, and the others in one slice (link 0).
PieData ==
    LET ranked == Sorted(ActiveLinks)
        rest == SubSeq(ranked, MaxPie + 1, Len(ranked))
        Slices(s) ==
            [i \in DOMAIN s |-> [link |-> s[i], value |-> clicksSeen[s[i]]]]
    IN  Slices(Slice(ranked, MaxPie))
        \o IF Total(rest) > 0 THEN <<[link |-> 0, value |-> Total(rest)]>>
                              ELSE <<>>

\* Small slices have no label: those of less than a twentieth.
PieLabels == {i \in DOMAIN PieData : 20 * PieData[i].value >= Total(urls)}

\* Mutant: the first bars are of the newest links with clicks.
BarDataNewest == Slice(Sorted(Slice(urls, MaxBar)), MaxBar)

BarData == Slice(Sorted(urls), MaxBar)
TableRows == Sorted(urls)

Colour(i) == i % Colours

\* Each picture colours by place: the slices of the pie, the bars, the dots and
\* shares of the table.
PieCells  == {[link |-> PieData[i].link, colour |-> Colour(i)] :
                i \in DOMAIN PieData}
BarCells  == {[link |-> BarData[i], colour |-> Colour(i)] :
                i \in DOMAIN BarData}
TableDots == {[link |-> TableRows[i], colour |-> Colour(i)] :
                i \in DOMAIN TableRows}

InsightsView ==
    CASE insightsLoading -> "Loading analytics"
      [] ~insightsLoading /\ urls = <<>> -> "No links yet"
      [] ~insightsLoading /\ urls # <<>> /\ ActiveLinks = <<>> -> "No clicks"
      [] OTHER -> "charts"

----------------------------------------------------------------------------
(* Properties.                                                             *)

\* Every variable keeps its type.
InsightsTypeOK ==
    /\ clickCount \in Seq(0..MaxClicks) /\ urls \in Seq(1..MaxLinks)
    /\ clicksSeen \in Seq(0..MaxClicks)
    /\ {insightsLoading, loadingAll, mounted} \subseteq BOOLEAN

\* The pie is whole: its slices, the one of the others included, add up to the
\* total on the card, none is empty, the first is the best link's, and there is
\* one that is big enough for a label.
PieIsWhole ==
    InsightsView = "charts" =>
        /\ FoldLeft(LAMBDA sum, s : sum + s.value, 0, PieData)
            = StatCards.clicks
        /\ \A i \in DOMAIN PieData : PieData[i].value > 0
        /\ Len(PieData) <= MaxPie + 1
        /\ PieData[1].link = StatCards.best
        /\ PieLabels # {}

\* A link has one colour: the pie ranks the links with clicks, the bars and the
\* table all of them, and yet a slice or a bar is coloured as the link's dot in
\* the table.
ColoursAgree ==
    InsightsView = "charts" =>
        /\ \A c \in PieCells : c.link # 0 => c \in TableDots
        /\ BarCells \subseteq TableDots
=============================================================================
