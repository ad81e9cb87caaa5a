-------------------------------- MODULE Theme --------------------------------
(***************************************************************************)
(* The theme in several tabs of one browser: each keeps it in React state, *)
(* all share one localStorage item, a write by one tab reaches the others  *)
(* as storage events that are handled later, and the operating system's    *)
(* preference changes under the theme "system".                            *)
(*                                                                         *)
(* A tab's effects run at once after its state changes.  Storage events of *)
(* other keys, and other keys pressed, change nothing and are left out.    *)
(***************************************************************************)
EXTENDS Naturals, Sequences

CONSTANTS
    Tabs,
    MaxWrites \* how often the item is written: bounds a run

ASSUME WritesAssumption == MaxWrites \in Nat

DefaultTheme == "light"
ThemeValues == {"dark", "light", "system"}
ResolvedThemes == {"dark", "light"}
Items == ThemeValues \cup {"none", "junk"}

\* Settings offers two themes; "system" may be stored all the same.
ThemeOptions == {"light", "dark"}

VARIABLES
    theme,         \* of each tab
    shownTheme,    \* the class of each tab's root element
    item,          \* localStorage "bittuly_theme"
    osTheme,       \* prefers-color-scheme
    storageEvents, \* of each tab: the values written by others, unhandled
    mediaEvent,    \* of each tab: a change of osTheme that is unhandled
    crossed,       \* history: a tab wrote before it had handled all events
    writes         \* how many writes there were: bounds a run

themeVars == <<theme, shownTheme, item, osTheme, storageEvents, mediaEvent,
               crossed, writes>>

IsTheme(value) == value \in ThemeValues

\* What the item means, on load and in a storage event.
InitialTheme(value) == IF IsTheme(value) THEN value ELSE DefaultTheme

Resolve(t) == IF t = "system" THEN osTheme ELSE t

ThemeInit ==
    /\ item \in Items /\ osTheme \in ResolvedThemes
    /\ theme = [t \in Tabs |-> InitialTheme(item)]
    /\ shownTheme = [t \in Tabs |-> Resolve(theme[t])]
    /\ storageEvents = [t \in Tabs |-> <<>>]
    /\ mediaEvent = [t \in Tabs |-> FALSE]
    /\ crossed = FALSE /\ writes = 0

\* Mutant: the listener of "system" is never removed.
SetThemeStateKeepsListener(t, next) ==
    /\ theme' = [theme EXCEPT ![t] = next]
    /\ shownTheme' = [shownTheme EXCEPT ![t] = Resolve(next)]
    /\ UNCHANGED mediaEvent

\* setThemeState and the effect on [theme]: apply the theme, and listen to the
\* system only while it is "system".  Without a change no effect runs.
SetThemeState(t, next) ==
    \/ /\ next = theme[t]
       /\ UNCHANGED <<theme, shownTheme, mediaEvent>>
    \/ /\ next # theme[t]
       /\ theme' = [theme EXCEPT ![t] = next]
       /\ shownTheme' = [shownTheme EXCEPT ![t] = Resolve(next)]
       /\ mediaEvent' = [mediaEvent EXCEPT ![t] = FALSE]

\* Storage.setItem or removeItem: documents other than the writer hear of it,
\* if the value changes.
Write(writers, value) ==
    /\ writes < MaxWrites /\ writes' = writes + 1
    /\ item' = value
    /\ storageEvents' =
        [t \in Tabs |-> IF t \in writers \/ value = item
                        THEN storageEvents[t]
                        ELSE Append(storageEvents[t], value)]
    /\ crossed' = (crossed \/ \E t \in writers : /\ value # item
                                                 /\ storageEvents[t] # <<>>)

SetTheme(t, next) ==
    /\ Write({t}, next)
    /\ SetThemeState(t, next)
    /\ UNCHANGED osTheme

ChooseTheme(t) == \E next \in ThemeOptions : SetTheme(t, next)

Targets == {"page", "field"}

isEditableTarget(target) == target = "field"

\* The key d: the other of light and dark, also when that is the system's.
KeyD(t, target) ==
    /\ ~isEditableTarget(target)
    /\ SetTheme(t, IF Resolve(theme[t]) = "dark" THEN "light" ELSE "dark")

\* Another program's page of the same origin, or the developer tools.
Foreign == /\ \E value \in {"none", "junk"} : Write({}, value)
           /\ UNCHANGED <<theme, shownTheme, mediaEvent, osTheme>>

\* Mutant: an item that is no theme, or gone, is ignored.
HandleStorageChangeIfTheme(t) ==
    /\ storageEvents[t] # <<>>
    /\ SetThemeState(t, IF IsTheme(Head(storageEvents[t]))
                        THEN Head(storageEvents[t]) ELSE theme[t])
    /\ storageEvents' = [storageEvents EXCEPT ![t] = Tail(@)]
    /\ UNCHANGED <<item, osTheme, crossed, writes>>

HandleStorageChange(t) ==
    /\ storageEvents[t] # <<>>
    /\ SetThemeState(t, InitialTheme(Head(storageEvents[t])))
    /\ storageEvents' = [storageEvents EXCEPT ![t] = Tail(@)]
    /\ UNCHANGED <<item, osTheme, crossed, writes>>

OsChanges ==
    /\ osTheme' \in ResolvedThemes \ {osTheme}
    /\ mediaEvent' = [t \in Tabs |-> mediaEvent[t] \/ theme[t] = "system"]
    /\ UNCHANGED <<theme, shownTheme, item, storageEvents, crossed, writes>>

HandleChange(t) ==
    /\ mediaEvent[t]
    /\ shownTheme' = [shownTheme EXCEPT ![t] = osTheme]
    /\ mediaEvent' = [mediaEvent EXCEPT ![t] = FALSE]
    /\ UNCHANGED <<theme, item, osTheme, storageEvents, crossed, writes>>

ReloadTab(t) ==
    /\ theme' = [theme EXCEPT ![t] = InitialTheme(item)]
    /\ shownTheme' = [shownTheme EXCEPT ![t] = Resolve(InitialTheme(item))]
    /\ storageEvents' = [storageEvents EXCEPT ![t] = <<>>]
    /\ mediaEvent' = [mediaEvent EXCEPT ![t] = FALSE]
    /\ UNCHANGED <<item, osTheme, crossed, writes>>

ThemeNext ==
    \/ \E t \in Tabs : \/ \E target \in Targets : KeyD(t, target)
                       \/ ChooseTheme(t) \/ ReloadTab(t)
                       \/ HandleStorageChange(t) \/ HandleChange(t)
    \/ Foreign \/ OsChanges

ThemeSpec == ThemeInit /\ [][ThemeNext]_themeVars

----------------------------------------------------------------------------
(* Properties.                                                             *)

\* Every variable keeps its type.
ThemeTypeOK ==
    /\ theme \in [Tabs -> ThemeValues]
    /\ shownTheme \in [Tabs -> ResolvedThemes]
    /\ item \in Items /\ osTheme \in ResolvedThemes
    /\ storageEvents \in [Tabs -> Seq(Items)]
    /\ mediaEvent \in [Tabs -> BOOLEAN]
    /\ crossed \in BOOLEAN /\ writes \in 0..MaxWrites

\* What a tab shows is its theme, resolved, except between a change of the
\* system's preference and the event that tells of it: neither a listener that
\* outlives the theme "system" nor a missing one shows the wrong colours.
ShownIsResolved ==
    \A t \in Tabs : ~mediaEvent[t] => shownTheme[t] = Resolve(theme[t])

\* Tabs that have handled their storage events have the theme that is stored,
\* whatever it is, unless two of them wrote at the same time.
TabsAgree ==
    ~crossed => \A t \in Tabs : storageEvents[t] = <<>> =>
                                    theme[t] = InitialTheme(item)
=============================================================================
