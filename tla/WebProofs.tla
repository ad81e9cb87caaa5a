------------------------------- MODULE WebProofs ------------------------------
(***************************************************************************)
(* Proofs about the smaller components of the web client, and about MCWeb, *)
(* which runs all of them side by side, for any values of their constants: *)
(* a behaviour of MCWeb is a behaviour of each component, and so has the   *)
(* properties proved of each alone.                                        *)
(***************************************************************************)
EXTENDS MCWeb, DashboardProofs, InsightsPageProofs

----------------------------------------------------------------------------
(* The theme: types, that each tab shows the theme it has, and that tabs   *)
(* agree with what is stored, however their events and the system's are    *)
(* interleaved.                                                            *)

\* A change of the system's preference is only heard under the theme "system".
OnlySystemListens == \A t \in Tabs : mediaEvent[t] => theme[t] = "system"

Newest(s) == s[Len(s)]

\* A tab is as the item says, or the last event it has not handled will make
\* it so.
CaughtUp(t) ==
    /\ storageEvents[t] = <<>> => theme[t] = InitialTheme(item)
    /\ storageEvents[t] # <<>> => Newest(storageEvents[t]) = item

EventsCatchUp == ~crossed => \A t \in Tabs : CaughtUp(t)

ThemeInv == ThemeTypeOK /\ ShownIsResolved /\ OnlySystemListens /\ EventsCatchUp

LEMMA MeaningFacts ==
    /\ \A value : InitialTheme(value) \in ThemeValues
    /\ \A value \in ThemeValues : InitialTheme(value) = value
BY DEF InitialTheme, IsTheme, ThemeValues, DefaultTheme

LEMMA ResolveFacts ==
    ASSUME osTheme \in ResolvedThemes
    PROVE  /\ \A value \in ThemeValues : Resolve(value) \in ResolvedThemes
           /\ \A value : value # "system" => Resolve(value) = value
           /\ Resolve("system") = osTheme
BY DEF Resolve, ThemeValues, ResolvedThemes

\* The last of a queue, when a value joins it and when its head leaves it.
LEMMA QueueFacts ==
    ASSUME NEW s \in Seq(Items)
    PROVE  /\ \A v \in Items : /\ Append(s, v) \in Seq(Items)
                               /\ Append(s, v) # <<>>
                               /\ Newest(Append(s, v)) = v
           /\ s # <<>> =>
                /\ Head(s) \in Items /\ Tail(s) \in Seq(Items)
                /\ Tail(s) = <<>> => Head(s) = Newest(s)
                /\ Tail(s) # <<>> => Newest(Tail(s)) = Newest(s)
<1>1. ASSUME NEW v \in Items
      PROVE  /\ Append(s, v) \in Seq(Items) /\ Append(s, v) # <<>>
             /\ Newest(Append(s, v)) = v
    BY AppendProperties DEF Newest
<1>2. ASSUME s # <<>>
      PROVE  /\ Head(s) \in Items /\ Tail(s) \in Seq(Items)
             /\ Tail(s) = <<>> => Head(s) = Newest(s)
             /\ Tail(s) # <<>> => Newest(Tail(s)) = Newest(s)
    <2>1. /\ Head(s) = s[1] /\ Head(s) \in Items /\ Tail(s) \in Seq(Items)
          /\ Len(s) \in Nat /\ Len(s) # 0 /\ Len(Tail(s)) = Len(s) - 1
          /\ \A i \in 1..Len(Tail(s)) : Tail(s)[i] = s[i + 1]
        BY <1>2, HeadTailProperties, EmptySeq, LenProperties
    <2>2. ASSUME Tail(s) = <<>> PROVE Head(s) = Newest(s)
        <3>1. Len(Tail(s)) = 0
            BY <2>2, EmptySeq
        <3>2. Len(s) = 1
            <4>1. /\ Len(s) \in Nat
                  /\ Len(Tail(s)) = Len(s) - 1 /\ Len(Tail(s)) = 0
                BY <2>1, <3>1
            <4> QED BY <4>1
        <3> QED BY <2>1, <3>2 DEF Newest
    <2>3. ASSUME Tail(s) # <<>> PROVE Newest(Tail(s)) = Newest(s)
        <3>1. Len(Tail(s)) # 0
            BY <2>1, <2>3, EmptySeq
        <3>2. /\ Len(Tail(s)) \in 1..Len(Tail(s))
              /\ Len(Tail(s)) + 1 = Len(s)
            <4>1. /\ Len(s) \in Nat /\ Len(s) # 0
                  /\ Len(Tail(s)) = Len(s) - 1 /\ Len(Tail(s)) # 0
                BY <2>1, <3>1
            <4> QED BY <4>1
        <3>3. Tail(s)[Len(Tail(s))] = s[Len(s)]
            BY <2>1, <3>2
        <3> QED BY <3>3 DEF Newest
    <2> QED BY <2>1, <2>2, <2>3
<1> QED BY <1>1, <1>2

\* Setting the state of one tab leaves that tab right and the others alone.
LEMMA StateFacts ==
    ASSUME ThemeInv, NEW t \in Tabs, NEW next \in ThemeValues,
           SetThemeState(t, next), osTheme' = osTheme
    PROVE  /\ theme' \in [Tabs -> ThemeValues]
           /\ shownTheme' \in [Tabs -> ResolvedThemes]
           /\ mediaEvent' \in [Tabs -> BOOLEAN]
           /\ ShownIsResolved' /\ OnlySystemListens'
           /\ theme'[t] = next
           /\ \A u \in Tabs \ {t} : theme'[u] = theme[u]
<1>1. /\ theme \in [Tabs -> ThemeValues] /\ osTheme \in ResolvedThemes
      /\ shownTheme \in [Tabs -> ResolvedThemes]
      /\ mediaEvent \in [Tabs -> BOOLEAN]
      /\ ShownIsResolved /\ OnlySystemListens
    BY DEF ThemeInv, ThemeTypeOK
<1>2. \A value : Resolve(value)' = Resolve(value)
    BY DEF Resolve
<1>3. Resolve(next) \in ResolvedThemes
    BY <1>1, ResolveFacts
<1>4. CASE next = theme[t] /\ UNCHANGED <<theme, shownTheme, mediaEvent>>
    <2>1. ShownIsResolved' /\ OnlySystemListens'
        BY <1>1, <1>4 DEF ShownIsResolved, OnlySystemListens, Resolve
    <2> QED BY <1>1, <1>4, <2>1
<1>5. CASE /\ theme' = [theme EXCEPT ![t] = next]
           /\ shownTheme' = [shownTheme EXCEPT ![t] = Resolve(next)]
           /\ mediaEvent' = [mediaEvent EXCEPT ![t] = FALSE]
    <2>1. /\ theme' \in [Tabs -> ThemeValues]
          /\ shownTheme' \in [Tabs -> ResolvedThemes]
          /\ mediaEvent' \in [Tabs -> BOOLEAN]
        BY <1>1, <1>3, <1>5
    <2>2. /\ theme'[t] = next /\ shownTheme'[t] = Resolve(next)
          /\ ~mediaEvent'[t]
        BY <1>1, <1>5
    <2>3. \A u \in Tabs \ {t} : /\ theme'[u] = theme[u]
                                /\ shownTheme'[u] = shownTheme[u]
                                /\ mediaEvent'[u] = mediaEvent[u]
        BY <1>1, <1>5
    <2>4. ShownIsResolved'
        BY <1>1, <2>2, <2>3 DEF ShownIsResolved, Resolve
    <2>5. OnlySystemListens'
        BY <1>1, <2>2, <2>3 DEF OnlySystemListens
    <2> QED BY <2>1, <2>2, <2>3, <2>4, <2>5
<1> QED BY <1>4, <1>5 DEF SetThemeState

\* A write of a value that is not there is an event for every tab but its
\* writers.
LEMMA WriteFacts ==
    ASSUME ThemeTypeOK, NEW writers \in SUBSET Tabs, NEW value \in Items,
           Write(writers, value)
    PROVE  /\ item' = value /\ storageEvents' \in [Tabs -> Seq(Items)]
           /\ crossed' \in BOOLEAN /\ writes' \in 0..MaxWrites
           /\ ~crossed' =>
                /\ ~crossed
                /\ value # item => \A t \in writers : storageEvents[t] = <<>>
           /\ \A t \in Tabs :
                IF t \in writers \/ value = item
                THEN storageEvents'[t] = storageEvents[t]
                ELSE /\ storageEvents'[t] # <<>>
                     /\ Newest(storageEvents'[t]) = value
<1>1. /\ storageEvents \in [Tabs -> Seq(Items)] /\ crossed \in BOOLEAN
      /\ writes \in 0..MaxWrites
    BY DEF ThemeTypeOK
<1>2. /\ writes < MaxWrites /\ writes' = writes + 1 /\ item' = value
      /\ crossed' = (crossed \/ \E t \in writers : /\ value # item
                                                   /\ storageEvents[t] # <<>>)
      /\ storageEvents' =
          [t \in Tabs |-> IF t \in writers \/ value = item
                          THEN storageEvents[t]
                          ELSE Append(storageEvents[t], value)]
    BY DEF Write
<1>3. writes' \in 0..MaxWrites
    BY <1>1, <1>2, WritesAssumption
<1>4. crossed' \in BOOLEAN
    BY <1>2
<1>5. ASSUME NEW t \in Tabs
      PROVE  IF t \in writers \/ value = item
             THEN storageEvents'[t] = storageEvents[t]
             ELSE /\ storageEvents'[t] = Append(storageEvents[t], value)
                  /\ storageEvents'[t] # <<>>
                  /\ Newest(storageEvents'[t]) = value
    <2>1. storageEvents[t] \in Seq(Items)
        BY <1>1
    <2>2. CASE t \in writers \/ value = item
        BY <1>2, <2>2
    <2>3. CASE ~(t \in writers \/ value = item)
        <3>1. storageEvents'[t] = Append(storageEvents[t], value)
            BY <1>2, <2>3
        <3> QED BY <2>1, <2>3, <3>1, QueueFacts
    <2> QED BY <2>2, <2>3
<1>6. storageEvents' \in [Tabs -> Seq(Items)]
    <2>1. \A t \in Tabs : Append(storageEvents[t], value) \in Seq(Items)
        BY <1>1, QueueFacts
    <2> QED BY <1>1, <1>2, <2>1
<1>7. ~crossed' =>
          ~crossed /\ (value # item => \A t \in writers : storageEvents[t] = <<>>)
    BY <1>2
<1> QED BY <1>2, <1>3, <1>4, <1>5, <1>6, <1>7

\* A tab sets a theme, from the settings or by the key.
LEMMA SetThemeHolds ==
    ASSUME ThemeInv, NEW t \in Tabs, NEW next \in ThemeValues, SetTheme(t, next)
    PROVE  ThemeInv'
<1>1. /\ Write({t}, next) /\ SetThemeState(t, next) /\ osTheme' = osTheme
      /\ ThemeTypeOK /\ EventsCatchUp /\ next \in Items
    BY DEF SetTheme, ThemeInv, Items
<1>2. /\ theme' \in [Tabs -> ThemeValues]
      /\ shownTheme' \in [Tabs -> ResolvedThemes]
      /\ mediaEvent' \in [Tabs -> BOOLEAN]
      /\ ShownIsResolved' /\ OnlySystemListens'
      /\ theme'[t] = next /\ \A u \in Tabs \ {t} : theme'[u] = theme[u]
    BY <1>1, StateFacts
<1>3. /\ item' = next /\ storageEvents' \in [Tabs -> Seq(Items)]
      /\ crossed' \in BOOLEAN /\ writes' \in 0..MaxWrites
      /\ ~crossed' => ~crossed /\ (next # item => storageEvents[t] = <<>>)
      /\ storageEvents'[t] = storageEvents[t]
      /\ \A u \in Tabs \ {t} :
            IF next = item THEN storageEvents'[u] = storageEvents[u]
            ELSE storageEvents'[u] # <<>> /\ Newest(storageEvents'[u]) = next
    BY <1>1, WriteFacts
<1>4. ThemeTypeOK'
    BY <1>1, <1>2, <1>3 DEF ThemeTypeOK
<1>5. ASSUME ~crossed', NEW u \in Tabs
      PROVE  CaughtUp(u)'
    <2>1. CaughtUp(u) /\ CaughtUp(t)
        BY <1>1, <1>3, <1>5 DEF EventsCatchUp
    <2>2. InitialTheme(item') = next /\ InitialTheme(item)' = InitialTheme(item')
        BY <1>3, MeaningFacts DEF InitialTheme
    <2>3. CASE u = t
        BY <1>2, <1>3, <1>5, <2>1, <2>2, <2>3 DEF CaughtUp
    <2>4. CASE u # t /\ next = item
        BY <1>2, <1>3, <2>1, <2>2, <2>4 DEF CaughtUp
    <2>5. CASE u # t /\ next # item
        BY <1>3, <2>5 DEF CaughtUp
    <2> QED BY <2>3, <2>4, <2>5
<1> QED BY <1>2, <1>4, <1>5 DEF ThemeInv, EventsCatchUp

LEMMA ThemeInitHolds == ThemeInit => ThemeInv
<1> SUFFICES ASSUME ThemeInit PROVE ThemeInv
    OBVIOUS
<1>1. /\ item \in Items /\ osTheme \in ResolvedThemes
      /\ theme = [t \in Tabs |-> InitialTheme(item)]
      /\ shownTheme = [t \in Tabs |-> Resolve(theme[t])]
      /\ storageEvents = [t \in Tabs |-> <<>>]
      /\ mediaEvent = [t \in Tabs |-> FALSE] /\ ~crossed /\ crossed \in BOOLEAN
      /\ writes = 0
    BY DEF ThemeInit
<1>2. theme \in [Tabs -> ThemeValues]
    BY <1>1, MeaningFacts
<1>3. shownTheme \in [Tabs -> ResolvedThemes]
    BY <1>1, <1>2, ResolveFacts
<1>4. storageEvents \in [Tabs -> Seq(Items)]
    <2>1. <<>> \in Seq(Items)
        BY EmptySeq
    <2> QED BY <1>1, <2>1
<1>5. writes \in 0..MaxWrites
    BY <1>1, WritesAssumption
<1>6. ThemeTypeOK
    BY <1>1, <1>2, <1>3, <1>4, <1>5 DEF ThemeTypeOK
<1>7. ShownIsResolved /\ OnlySystemListens /\ EventsCatchUp
    BY <1>1 DEF ShownIsResolved, OnlySystemListens, EventsCatchUp, CaughtUp
<1> QED BY <1>6, <1>7 DEF ThemeInv

\* Every step of a tab, another page or the system keeps the tabs right.
LEMMA ThemeStep ==
    ASSUME ThemeInv, [ThemeNext]_themeVars
    PROVE  ThemeInv'
<1>0. /\ ThemeTypeOK /\ ShownIsResolved /\ OnlySystemListens /\ EventsCatchUp
      /\ theme \in [Tabs -> ThemeValues]
      /\ shownTheme \in [Tabs -> ResolvedThemes]
      /\ mediaEvent \in [Tabs -> BOOLEAN]
      /\ storageEvents \in [Tabs -> Seq(Items)]
      /\ item \in Items /\ osTheme \in ResolvedThemes
    BY DEF ThemeInv, ThemeTypeOK
<1>1. ASSUME NEW t \in Tabs, NEW target \in Targets, KeyD(t, target)
      PROVE  ThemeInv'
    <2>1. PICK next \in {"light", "dark"} : SetTheme(t, next)
        BY <1>1 DEF KeyD
    <2>2. next \in ThemeValues
        BY DEF ThemeValues
    <2> QED BY <2>1, <2>2, SetThemeHolds
<1>2. ASSUME NEW t \in Tabs, ChooseTheme(t) PROVE ThemeInv'
    <2>1. PICK next \in ThemeOptions : SetTheme(t, next)
        BY <1>2 DEF ChooseTheme
    <2>2. next \in ThemeValues
        BY DEF ThemeValues, ThemeOptions
    <2> QED BY <2>1, <2>2, SetThemeHolds
<1>3. ASSUME NEW t \in Tabs, ReloadTab(t) PROVE ThemeInv'
    <2>1. /\ theme' = [theme EXCEPT ![t] = InitialTheme(item)]
          /\ shownTheme' = [shownTheme EXCEPT ![t] = Resolve(InitialTheme(item))]
          /\ storageEvents' = [storageEvents EXCEPT ![t] = <<>>]
          /\ mediaEvent' = [mediaEvent EXCEPT ![t] = FALSE]
          /\ UNCHANGED <<item, osTheme, crossed, writes>>
        BY <1>3 DEF ReloadTab
    <2>2. /\ InitialTheme(item) \in ThemeValues
          /\ Resolve(InitialTheme(item)) \in ResolvedThemes
          /\ <<>> \in Seq(Items)
        BY <1>0, MeaningFacts, ResolveFacts, EmptySeq
    <2>3. ThemeTypeOK'
        BY <1>0, <2>1, <2>2 DEF ThemeTypeOK
    <2>4. ShownIsResolved'
        BY <1>0, <2>1 DEF ShownIsResolved, Resolve
    <2>5. OnlySystemListens'
        BY <1>0, <2>1 DEF OnlySystemListens
    <2>6. EventsCatchUp'
        BY <1>0, <2>1 DEF EventsCatchUp, CaughtUp, InitialTheme
    <2> QED BY <2>3, <2>4, <2>5, <2>6 DEF ThemeInv
<1>4. ASSUME NEW t \in Tabs, HandleStorageChange(t) PROVE ThemeInv'
    <2> DEFINE value == Head(storageEvents[t])
    <2>1. /\ storageEvents[t] # <<>> /\ SetThemeState(t, InitialTheme(value))
          /\ storageEvents' = [storageEvents EXCEPT ![t] = Tail(@)]
          /\ item' = item /\ osTheme' = osTheme /\ crossed' = crossed
          /\ writes' = writes
        BY <1>4 DEF HandleStorageChange
    <2>2. /\ Tail(storageEvents[t]) \in Seq(Items)
          /\ Tail(storageEvents[t]) = <<>> => value = Newest(storageEvents[t])
          /\ Tail(storageEvents[t]) # <<>> =>
                Newest(Tail(storageEvents[t])) = Newest(storageEvents[t])
        BY <1>0, <2>1, QueueFacts
    <2>3. /\ theme' \in [Tabs -> ThemeValues]
          /\ shownTheme' \in [Tabs -> ResolvedThemes]
          /\ mediaEvent' \in [Tabs -> BOOLEAN]
          /\ ShownIsResolved' /\ OnlySystemListens'
          /\ theme'[t] = InitialTheme(value)
          /\ \A u \in Tabs \ {t} : theme'[u] = theme[u]
        BY <2>1, MeaningFacts, StateFacts
    <2>4. /\ storageEvents' \in [Tabs -> Seq(Items)]
          /\ storageEvents'[t] = Tail(storageEvents[t])
          /\ \A u \in Tabs \ {t} : storageEvents'[u] = storageEvents[u]
        BY <1>0, <2>1, <2>2
    <2>5. ThemeTypeOK'
        BY <1>0, <2>1, <2>3, <2>4 DEF ThemeTypeOK
    <2>6. ASSUME ~crossed', NEW u \in Tabs PROVE CaughtUp(u)'
        <3>1. CaughtUp(u) /\ CaughtUp(t)
            BY <1>0, <2>1, <2>6 DEF EventsCatchUp
        <3>2. InitialTheme(item)' = InitialTheme(item)
            BY <2>1 DEF InitialTheme
        <3>3. CASE u = t
            <4>1. Newest(storageEvents[t]) = item
                BY <2>1, <3>1 DEF CaughtUp
            <4> QED BY <2>1, <2>2, <2>3, <2>4, <3>2, <3>3, <4>1 DEF CaughtUp
        <3>4. CASE u # t
            BY <2>1, <2>3, <2>4, <3>1, <3>2, <3>4 DEF CaughtUp
        <3> QED BY <3>3, <3>4
    <2> QED BY <2>3, <2>5, <2>6 DEF ThemeInv, EventsCatchUp
<1>5. ASSUME NEW t \in Tabs, HandleChange(t) PROVE ThemeInv'
    <2>1. /\ mediaEvent[t]
          /\ shownTheme' = [shownTheme EXCEPT ![t] = osTheme]
          /\ mediaEvent' = [mediaEvent EXCEPT ![t] = FALSE]
          /\ UNCHANGED <<theme, item, osTheme, storageEvents, crossed, writes>>
        BY <1>5 DEF HandleChange
    <2>2. theme[t] = "system"
        BY <1>0, <2>1 DEF OnlySystemListens
    <2>3. ThemeTypeOK'
        BY <1>0, <2>1 DEF ThemeTypeOK
    <2>4. ShownIsResolved'
        BY <1>0, <2>1, <2>2 DEF ShownIsResolved, Resolve
    <2>5. OnlySystemListens' /\ EventsCatchUp'
        BY <1>0, <2>1 DEF OnlySystemListens, EventsCatchUp, CaughtUp, InitialTheme
    <2> QED BY <2>3, <2>4, <2>5 DEF ThemeInv
<1>6. CASE Foreign
    <2>1. PICK value \in {"none", "junk"} : Write({}, value)
        BY <1>6 DEF Foreign
    <2>2. /\ UNCHANGED <<theme, shownTheme, mediaEvent, osTheme>>
          /\ value \in Items /\ {} \in SUBSET Tabs
        BY <1>6 DEF Foreign, Items
    <2>3. /\ item' = value /\ storageEvents' \in [Tabs -> Seq(Items)]
          /\ crossed' \in BOOLEAN /\ writes' \in 0..MaxWrites
          /\ ~crossed' => ~crossed
          /\ \A t \in Tabs :
                IF value = item THEN storageEvents'[t] = storageEvents[t]
                ELSE storageEvents'[t] # <<>> /\ Newest(storageEvents'[t]) = value
        <3>0. PICK nobody \in SUBSET Tabs : nobody = {} /\ Write(nobody, value)
            BY <2>1, <2>2
        <3>1. \A t \in Tabs :
                IF t \in nobody \/ value = item
                THEN storageEvents'[t] = storageEvents[t]
                ELSE storageEvents'[t] # <<>> /\ Newest(storageEvents'[t]) = value
            BY <1>0, <2>2, <3>0, WriteFacts
        <3>2. /\ item' = value /\ storageEvents' \in [Tabs -> Seq(Items)]
              /\ crossed' \in BOOLEAN /\ writes' \in 0..MaxWrites
              /\ ~crossed' => ~crossed
            BY <1>0, <2>2, <3>0, WriteFacts
        <3> QED BY <3>0, <3>1, <3>2
    <2>4. ThemeTypeOK'
        BY <1>0, <2>2, <2>3 DEF ThemeTypeOK
    <2>5. ShownIsResolved' /\ OnlySystemListens'
        BY <1>0, <2>2 DEF ShownIsResolved, OnlySystemListens, Resolve
    <2>6. ASSUME ~crossed', NEW u \in Tabs PROVE CaughtUp(u)'
        <3>1. CaughtUp(u)
            BY <1>0, <2>3, <2>6 DEF EventsCatchUp
        <3>2. CASE value = item
            BY <2>2, <2>3, <3>1, <3>2 DEF CaughtUp, InitialTheme
        <3>3. CASE value # item
            BY <2>3, <3>3 DEF CaughtUp
        <3> QED BY <3>2, <3>3
    <2> QED BY <2>4, <2>5, <2>6 DEF ThemeInv, EventsCatchUp
<1>7. CASE OsChanges
    <2>1. /\ osTheme' \in ResolvedThemes
          /\ mediaEvent' = [t \in Tabs |-> mediaEvent[t] \/ theme[t] = "system"]
          /\ UNCHANGED <<theme, shownTheme, item, storageEvents, crossed, writes>>
        BY <1>7 DEF OsChanges
    <2>2. mediaEvent' \in [Tabs -> BOOLEAN]
        BY <2>1
    <2>3. ThemeTypeOK'
        BY <1>0, <2>1, <2>2 DEF ThemeTypeOK
    <2>4. ASSUME NEW t \in Tabs, ~mediaEvent'[t]
          PROVE  shownTheme'[t] = Resolve(theme[t])'
        <3>1. ~mediaEvent[t] /\ theme[t] # "system"
            BY <2>1, <2>4
        <3>2. shownTheme[t] = Resolve(theme[t])
            BY <1>0, <3>1 DEF ShownIsResolved
        <3> QED BY <2>1, <3>1, <3>2 DEF Resolve
    <2>5. ShownIsResolved'
        BY <2>4 DEF ShownIsResolved
    <2>6. OnlySystemListens' /\ EventsCatchUp'
        BY <1>0, <2>1 DEF OnlySystemListens, EventsCatchUp, CaughtUp, InitialTheme
    <2> QED BY <2>3, <2>5, <2>6 DEF ThemeInv
<1>8. CASE UNCHANGED themeVars
    BY <1>0, <1>8 DEF themeVars, ThemeInv, ThemeTypeOK, ShownIsResolved, Resolve,
                      OnlySystemListens, EventsCatchUp, CaughtUp, InitialTheme
<1> QED BY <1>1, <1>2, <1>3, <1>4, <1>5, <1>6, <1>7, <1>8 DEF ThemeNext

LEMMA ThemeInvariant == ThemeSpec => []ThemeInv
BY ThemeInitHolds, ThemeStep, PTL DEF ThemeSpec

\* Themes, events and the item keep their types.
THEOREM ThemeTypes == ThemeSpec => []ThemeTypeOK
<1>1. ThemeInv => ThemeTypeOK
    BY DEF ThemeInv
<1> QED BY ThemeInvariant, <1>1, PTL

\* A tab shows its theme, resolved, unless it has yet to hear of the system's.
THEOREM ColoursFollowTheme == ThemeSpec => []ShownIsResolved
<1>1. ThemeInv => ShownIsResolved
    BY DEF ThemeInv
<1> QED BY ThemeInvariant, <1>1, PTL

\* Tabs that have handled their events have the stored theme, unless two of
\* them wrote at the same time.
THEOREM TabsFollowTheItem == ThemeSpec => []TabsAgree
<1>1. ThemeInv => TabsAgree
    BY DEF ThemeInv, EventsCatchUp, CaughtUp, TabsAgree
<1> QED BY ThemeInvariant, <1>1, PTL

----------------------------------------------------------------------------
(* The health page: types, how old what is shown may be, that the button   *)
(* is given back, and that the banner agrees with the cards.               *)

\* Seconds since the interval was last due and, if it is due now, not yet served.
SinceDue == IF wakeUp THEN Interval ELSE sinceFetch

\* What is shown was at most RequestTime old when the last answer came; since
\* then, either less than an interval has passed, or a fetch that is under way
\* was sent within an interval of that answer.
AnswerExpected ==
    \/ healthAge <= RequestTime + SinceDue
    \/ \E c \in checking : healthAge <= RequestTime + Interval + c.age

\* A report is healthy if both dependencies are.
ReportIsHonest ==
    health # Null =>
        (isHealthy <=> health.postgres = "ok" /\ health.redis = "ok")

\* At most one fetch by hand is under way, and none while the timer is set.
OneByHand ==
    /\ spinTimer => \A c \in checking : ~c.manual
    /\ \A c, d \in checking : c.manual /\ d.manual => c = d

HealthInv ==
    /\ HealthTypeOK /\ SpinningEnds /\ OneByHand
    /\ AnswerExpected /\ ReportIsHonest

Ages == [age: 0..RequestTime, manual: BOOLEAN]

LEMMA TimesHold == Interval \in Nat \ {0} /\ RequestTime \in Nat
BY TimeAssumption

LEMMA FetchFacts ==
    \A m \in BOOLEAN : Fetch(m) \in Ages /\ Fetch(m).manual = m /\ Fetch(m).age = 0
BY TimesHold DEF Fetch, Ages

\* A second later, every fetch is a second older.
Older(c) == [c EXCEPT !.age = @ + 1]

LEMMA OlderFacts ==
    ASSUME checking \subseteq Ages, Second
    PROVE  /\ checking' = {Older(c) : c \in checking}
           /\ \A c \in checking : /\ Older(c) \in Ages
                                  /\ Older(c).age = c.age + 1
                                  /\ Older(c).manual = c.manual
<1>1. ASSUME NEW c \in checking
      PROVE  /\ Older(c) \in Ages /\ Older(c).age = c.age + 1
             /\ Older(c).manual = c.manual
    <2>1. c \in Ages /\ c.age < RequestTime
        BY DEF Second
    <2>2. c.age + 1 \in 0..RequestTime
        BY <2>1, TimesHold DEF Ages
    <2> QED BY <2>1, <2>2 DEF Older, Ages
<1> QED BY <1>1 DEF Second, Older

\* The interval's clock.
LEMMA ClockFacts ==
    ASSUME sinceFetch \in 0..(Interval - 1), Second
    PROVE  /\ sinceFetch' = IF sinceFetch + 1 = Interval THEN 0
                            ELSE sinceFetch + 1
           /\ sinceFetch' \in 0..(Interval - 1) /\ wakeUp' \in BOOLEAN
           /\ ~wakeUp /\ SinceDue' = SinceDue + 1
<1>1. (sinceFetch + 1) % Interval = IF sinceFetch + 1 = Interval THEN 0
                                    ELSE sinceFetch + 1
    BY TimesHold
<1>2. sinceFetch' = IF sinceFetch + 1 = Interval THEN 0 ELSE sinceFetch + 1
    BY <1>1 DEF Second
<1>3. ~wakeUp /\ wakeUp' = (sinceFetch' = 0)
    BY DEF Second
<1>4. SinceDue' = SinceDue + 1
    <2>1. SinceDue = sinceFetch
        BY <1>3 DEF SinceDue
    <2>2. CASE sinceFetch + 1 = Interval
        <3>1. wakeUp'
            BY <1>2, <1>3, <2>2
        <3> QED BY <2>1, <2>2, <3>1 DEF SinceDue
    <2>3. CASE sinceFetch + 1 # Interval
        <3>1. sinceFetch' = sinceFetch + 1 /\ sinceFetch' # 0
            BY <1>2, <2>3, TimesHold
        <3>2. ~wakeUp'
            BY <1>3, <3>1
        <3> QED BY <2>1, <3>1, <3>2 DEF SinceDue
    <2> QED BY <2>2, <2>3
<1> QED BY <1>2, <1>3, <1>4, TimesHold

\* A fetch's answer is a report.
LEMMA AnswerFacts ==
    ASSUME NEW data \in Reports, GetHealth(data)
    PROVE  /\ data # Null
           /\ data.status = "healthy" <=> data.postgres = "ok" /\ data.redis = "ok"
BY DEF GetHealth, HealthOf, Report, Reports, Checks, Null

LEMMA HealthInitHolds == HealthInit => HealthInv
<1> SUFFICES ASSUME HealthInit PROVE HealthInv
    OBVIOUS
<1>1. checking = {Fetch(FALSE)} /\ Fetch(FALSE) \in Ages /\ ~Fetch(FALSE).manual
    BY FetchFacts DEF HealthInit
<1>2. HealthTypeOK
    <2>1. health \in Reports \cup {Null} /\ healthAge \in Nat
        BY DEF HealthInit
    <2>2. checking \subseteq [age: 0..RequestTime, manual: BOOLEAN]
        BY <1>1 DEF Ages
    <2>3. spinning \in BOOLEAN /\ spinTimer \in BOOLEAN /\ wakeUp \in BOOLEAN
        BY DEF HealthInit
    <2>4. countdown = Interval /\ sinceFetch = 0
        BY DEF HealthInit
    <2>5. countdown \in 0..Interval /\ sinceFetch \in 0..(Interval - 1)
        BY <2>4, TimesHold
    <2> QED BY <2>1, <2>2, <2>3, <2>5 DEF HealthTypeOK
<1>3. SpinningEnds /\ OneByHand
    BY <1>1 DEF HealthInit, SpinningEnds, OneByHand
<1>4. AnswerExpected
    <2>1. healthAge = 0 /\ SinceDue = 0
        BY DEF HealthInit, SinceDue
    <2> QED BY <2>1, TimesHold DEF AnswerExpected
<1>5. ReportIsHonest
    BY DEF HealthInit, ReportIsHonest
<1> QED BY <1>2, <1>3, <1>4, <1>5 DEF HealthInv

\* Every step keeps the page in time.
LEMMA HealthStep ==
    ASSUME HealthInv, [HealthNext]_healthVars
    PROVE  HealthInv'
<1>0. /\ HealthTypeOK /\ SpinningEnds /\ OneByHand
      /\ AnswerExpected /\ ReportIsHonest /\ checking \subseteq Ages
    BY DEF HealthInv, HealthTypeOK, Ages
<1>1. CASE Refresh
    <2>1. /\ checking' = checking \cup {Fetch(TRUE)} /\ spinning' = TRUE
          /\ Fetch(TRUE) \in Ages /\ Fetch(TRUE).manual
          /\ UNCHANGED <<health, healthAge, spinTimer, countdown, sinceFetch,
                         wakeUp>>
        BY <1>1, FetchFacts DEF Refresh
    <2>2. HealthTypeOK'
        BY <1>0, <2>1 DEF HealthTypeOK, Ages
    <2>3. SpinningEnds' /\ OneByHand'
        <3>1. ~spinning
            BY <1>1 DEF Refresh
        <3>2. ~spinTimer /\ \A c \in checking : ~c.manual
            BY <1>0, <3>1 DEF SpinningEnds
        <3> QED BY <2>1, <3>2 DEF SpinningEnds, OneByHand
    <2>4. AnswerExpected' /\ ReportIsHonest'
        BY <1>0, <2>1 DEF AnswerExpected, SinceDue, ReportIsHonest, isHealthy
    <2> QED BY <2>2, <2>3, <2>4 DEF HealthInv
<1>2. CASE EndSpin
    <2>1. HealthTypeOK' /\ AnswerExpected' /\ ReportIsHonest'
        BY <1>0, <1>2 DEF EndSpin, HealthTypeOK, AnswerExpected, SinceDue,
                          ReportIsHonest, isHealthy
    <2>2. SpinningEnds' /\ OneByHand'
        <3>1. spinTimer /\ ~spinning' /\ ~spinTimer' /\ checking' = checking
            BY <1>2 DEF EndSpin
        <3>2. \A c \in checking : ~c.manual
            BY <1>0, <3>1 DEF OneByHand
        <3> QED BY <3>1, <3>2 DEF SpinningEnds, OneByHand
    <2> QED BY <2>1, <2>2 DEF HealthInv
<1>3. CASE AutoRefresh
    <2>1. /\ checking' = checking \cup {Fetch(FALSE)} /\ wakeUp /\ ~wakeUp'
          /\ wakeUp' \in BOOLEAN
          /\ Fetch(FALSE) \in Ages /\ ~Fetch(FALSE).manual /\ Fetch(FALSE).age = 0
          /\ UNCHANGED <<health, healthAge, spinning, spinTimer, countdown,
                         sinceFetch>>
        BY <1>3, FetchFacts DEF AutoRefresh
    <2>2. HealthTypeOK'
        BY <1>0, <2>1 DEF HealthTypeOK, Ages
    <2>3. SpinningEnds' /\ OneByHand' /\ ReportIsHonest'
        BY <1>0, <2>1 DEF SpinningEnds, OneByHand, ReportIsHonest, isHealthy
    <2>4. AnswerExpected'
        <3>1. CASE healthAge <= RequestTime + SinceDue
            <4>1. SinceDue = Interval /\ healthAge \in Nat
                BY <1>0, <2>1 DEF SinceDue, HealthTypeOK
            <4>2. healthAge <= RequestTime + Interval + Fetch(FALSE).age
                <5>1. Fetch(FALSE).age = 0
                    BY <2>1
                <5>2. healthAge <= RequestTime + Interval
                    BY <3>1, <4>1
                <5>3. RequestTime + Interval + 0 = RequestTime + Interval
                    BY TimesHold
                <5> QED BY <5>1, <5>2, <5>3
            <4>3. Fetch(FALSE) \in checking'
                BY <2>1
            <4>4. \E c \in checking' : healthAge <= RequestTime + Interval + c.age
                BY <4>2, <4>3
            <4> QED BY <2>1, <4>4 DEF AnswerExpected
        <3>2. CASE \E c \in checking :
                    healthAge <= RequestTime + Interval + c.age
            BY <2>1, <3>2 DEF AnswerExpected
        <3> QED BY <1>0, <3>1, <3>2 DEF AnswerExpected
    <2> QED BY <2>2, <2>3, <2>4 DEF HealthInv
<1>4. CASE Second
    <2>1. /\ checking' = {Older(c) : c \in checking}
          /\ \A c \in checking : /\ Older(c) \in Ages /\ Older(c).age = c.age + 1
                                 /\ Older(c).manual = c.manual
        BY <1>0, <1>4, OlderFacts
    <2>2. /\ sinceFetch' \in 0..(Interval - 1) /\ wakeUp' \in BOOLEAN
          /\ ~wakeUp /\ SinceDue' = SinceDue + 1
        BY <1>0, <1>4, ClockFacts DEF HealthTypeOK
    <2>3. /\ healthAge' \in Nat /\ healthAge' <= healthAge + 1
          /\ countdown' \in 0..Interval
        BY <1>0, <1>4, TimesHold DEF Second, HealthTypeOK
    <2>4. UNCHANGED <<health, spinning, spinTimer>>
        BY <1>4 DEF Second
    <2>5. HealthTypeOK'
        BY <1>0, <2>1, <2>2, <2>3, <2>4 DEF HealthTypeOK, Ages
    <2>6. SpinningEnds' /\ OneByHand' /\ ReportIsHonest'
        BY <1>0, <2>1, <2>4 DEF SpinningEnds, OneByHand, ReportIsHonest, isHealthy
    <2>7. AnswerExpected'
        <3>1. healthAge \in Nat /\ SinceDue \in Nat
            BY <1>0, TimesHold DEF HealthTypeOK, SinceDue
        <3>2. CASE healthAge <= RequestTime + SinceDue
            <4>1. healthAge' <= RequestTime + SinceDue'
                BY <2>2, <2>3, <3>1, <3>2, TimesHold
            <4> QED BY <4>1 DEF AnswerExpected
        <3>3. ASSUME NEW c \in checking,
                     healthAge <= RequestTime + Interval + c.age
              PROVE  AnswerExpected'
            <4>1. Older(c) \in checking' /\ Older(c).age = c.age + 1 /\ c.age \in Nat
                BY <1>0, <2>1, TimesHold DEF Ages
            <4>2. healthAge' <= RequestTime + Interval + Older(c).age
                BY <2>3, <3>1, <3>3, <4>1, TimesHold
            <4> QED BY <4>1, <4>2 DEF AnswerExpected
        <3> QED BY <1>0, <3>2, <3>3 DEF AnswerExpected
    <2> QED BY <2>5, <2>6, <2>7 DEF HealthInv
<1>5. ASSUME NEW c \in checking, NEW data \in Reports,
             GetHealth(data), FetchHealth(c, data)
      PROVE  HealthInv'
    <2>1. /\ health' = data /\ healthAge' = c.age /\ countdown' = Interval
          /\ checking' = checking \ {c} /\ spinTimer' = (spinTimer \/ c.manual)
          /\ UNCHANGED <<spinning, sinceFetch, wakeUp>>
        BY <1>5 DEF FetchHealth
    <2>2. c.age \in 0..RequestTime /\ c.manual \in BOOLEAN
        BY <1>0 DEF Ages
    <2>3. HealthTypeOK'
        BY <1>0, <2>1, <2>2, TimesHold DEF HealthTypeOK
    <2>4. SpinningEnds' /\ OneByHand'
        BY <1>0, <2>1, <2>2 DEF SpinningEnds, OneByHand
    <2>5. AnswerExpected'
        <3>1. healthAge' <= RequestTime + SinceDue'
            BY <1>0, <2>1, <2>2, TimesHold DEF SinceDue, HealthTypeOK
        <3> QED BY <3>1 DEF AnswerExpected
    <2>6. ReportIsHonest'
        BY <1>5, <2>1, AnswerFacts DEF ReportIsHonest, isHealthy
    <2> QED BY <2>3, <2>4, <2>5, <2>6 DEF HealthInv
<1>6. CASE UNCHANGED healthVars
    BY <1>0, <1>6 DEF healthVars, HealthInv, HealthTypeOK, SpinningEnds, OneByHand,
                      SinceDue, AnswerExpected, ReportIsHonest, isHealthy
<1> QED BY <1>1, <1>2, <1>3, <1>4, <1>5, <1>6 DEF HealthNext

LEMMA HealthInvariant == HealthSpec => []HealthInv
BY HealthInitHolds, HealthStep, PTL DEF HealthSpec

\* The page's fetches, timers and report keep their types.
THEOREM HealthTypes == HealthSpec => []HealthTypeOK
<1>1. HealthInv => HealthTypeOK
    BY DEF HealthInv
<1> QED BY HealthInvariant, <1>1, PTL

\* What is shown is never older than an interval and two requests, whatever
\* overtakes what and however many fetches are under way.
THEOREM ShownIsFresh == HealthSpec => []HealthIsFresh
<1>1. HealthInv => HealthIsFresh
    <2> SUFFICES ASSUME HealthInv PROVE HealthIsFresh
        OBVIOUS
    <2>1. healthAge \in Nat /\ checking \subseteq Ages
        BY DEF HealthInv, HealthTypeOK, Ages
    <2>2. CASE healthAge <= RequestTime + SinceDue
        <3>1. SinceDue \in 0..Interval
            BY TimesHold DEF SinceDue, HealthInv, HealthTypeOK
        <3> QED BY <2>1, <2>2, <3>1, TimesHold DEF HealthIsFresh
    <2>3. ASSUME NEW c \in checking, healthAge <= RequestTime + Interval + c.age
          PROVE  HealthIsFresh
        <3>1. c.age \in 0..RequestTime
            BY <2>1 DEF Ages
        <3> QED BY <2>1, <2>3, <3>1, TimesHold DEF HealthIsFresh
    <2> QED BY <2>2, <2>3 DEF HealthInv, AnswerExpected
<1> QED BY HealthInvariant, <1>1, PTL

\* The button spins exactly while a fetch by hand, or its timer, will end it.
THEOREM ButtonComesBack == HealthSpec => []SpinningEnds
<1>1. HealthInv => SpinningEnds
    BY DEF HealthInv
<1> QED BY HealthInvariant, <1>1, PTL

\* The banner says what the cards say.
THEOREM BannerAgrees == HealthSpec => []BannerMatchesCards
<1>1. HealthInv => BannerMatchesCards
    <2> SUFFICES ASSUME HealthInv, ~pageLoading PROVE Banner = "green" <=> Cards = {"Online"}
        BY DEF BannerMatchesCards
    <2>1. health # Null
        BY DEF pageLoading
    <2>2. Banner = "green" <=> isHealthy
        BY DEF Banner
    <2>3. Cards = {ServiceCard(health.postgres), ServiceCard(health.redis)}
        BY <2>1 DEF Cards
    <2>4. Cards = {"Online"} <=> health.postgres = "ok" /\ health.redis = "ok"
        BY <2>3 DEF ServiceCard
    <2> QED BY <2>1, <2>2, <2>4 DEF HealthInv, ReportIsHonest
<1> QED BY HealthInvariant, <1>1, PTL

----------------------------------------------------------------------------
(* The dashboard's form: a message over the field is about what stands in  *)
(* it.                                                                     *)

\* No message stands while a request is under way, so that the answer, which
\* clears the field, leaves none over it.
QuietWhilePosting == posting => ~inputError

FormInv == FormTypeOK /\ ErrorIsAboutInput /\ QuietWhilePosting

LEMMA FormInitHolds == FormInit => FormInv
BY DEF FormInit, FormInv, FormTypeOK, ErrorIsAboutInput, QuietWhilePosting

LEMMA FormStep == FormInv /\ [FormNext]_formVars => FormInv'
<1> SUFFICES ASSUME FormInv, [FormNext]_formVars PROVE FormInv'
    OBVIOUS
<1> USE DEF FormInv, FormTypeOK, ErrorIsAboutInput, QuietWhilePosting, isValidUrl
<1>1. CASE TypeUrl
    BY <1>1 DEF TypeUrl
<1>2. CASE AddExpiry \/ SetExpiry \/ RemoveExpiry
    BY <1>2 DEF AddExpiry, SetExpiry, RemoveExpiry
<1>3. CASE RejectUrl
    BY <1>3 DEF RejectUrl, CanSubmit
<1>4. CASE SubmitUrl
    BY <1>4 DEF SubmitUrl
<1>5. CASE PostOk \/ PostFails
    <2>1. /\ ~inputError /\ inputError' = inputError /\ posting' = FALSE
          /\ rejected' = rejected /\ inputError \in BOOLEAN
        BY <1>5 DEF PostOk, PostFails
    <2>2. FormTypeOK'
        BY <1>5 DEF PostOk, PostFails
    <2> QED BY <2>1, <2>2
<1>6. CASE UNCHANGED formVars
    BY <1>6 DEF formVars
<1> QED BY <1>1, <1>2, <1>3, <1>4, <1>5, <1>6 DEF FormNext

LEMMA FormInvariant == FormSpec => []FormInv
BY FormInitHolds, FormStep, PTL DEF FormSpec

----------------------------------------------------------------------------
(* The form of the code: its message stands over no code that was not      *)
(* tried, and the shaking ends.                                            *)

\* Every timer is of a refusal, and every refusal of a submission.
TimersAreOfTries ==
    /\ shakeTimers <= tries
    /\ verifying => shakeTimers < tries

OtpInv ==
    OtpTypeOK /\ ShakingEnds /\ OtpErrorIsAboutCode /\ TimersAreOfTries

LEMMA OtpInitHolds == OtpInit => OtpInv
<1> SUFFICES ASSUME OtpInit PROVE OtpInv
    OBVIOUS
<1>1. /\ otp = "empty" /\ ~otpError /\ ~verifying /\ ~shaking
      /\ {otpError, verifying, shaking} \subseteq BOOLEAN
      /\ shakeTimers = 0 /\ tries = 0
    BY DEF OtpInit
<1>2. {shakeTimers, tries} \subseteq 0..MaxTries
    BY <1>1, TriesAssumption
<1>3. OtpTypeOK
    BY <1>1, <1>2 DEF OtpTypeOK
<1> QED
    BY <1>1, <1>3 DEF OtpInv, ShakingEnds, OtpErrorIsAboutCode, TimersAreOfTries

LEMMA OtpStep == OtpInv /\ [OtpNext]_otpVars => OtpInv'
<1> SUFFICES ASSUME OtpInv, [OtpNext]_otpVars PROVE OtpInv'
    OBVIOUS
<1>0. /\ otp \in {"empty", "partial", "full"}
      /\ {otpError, verifying, shaking} \subseteq BOOLEAN
      /\ shakeTimers \in 0..MaxTries /\ tries \in 0..MaxTries /\ MaxTries \in Nat
      /\ shaking => shakeTimers > 0
      /\ otpError => (otp = "empty" /\ ~verifying)
      /\ shakeTimers <= tries
      /\ verifying => shakeTimers < tries
    BY TriesAssumption
       DEF OtpInv, OtpTypeOK, ShakingEnds, OtpErrorIsAboutCode, TimersAreOfTries
<1>g. ASSUME otp' \in {"empty", "partial", "full"},
             {otpError', verifying', shaking'} \subseteq BOOLEAN,
             shakeTimers' \in 0..MaxTries, tries' \in 0..MaxTries,
             shaking' => shakeTimers' > 0,
             otpError' => (otp' = "empty" /\ ~verifying'),
             shakeTimers' <= tries',
             verifying' => shakeTimers' < tries'
      PROVE  OtpInv'
    BY <1>g
       DEF OtpInv, OtpTypeOK, ShakingEnds, OtpErrorIsAboutCode, TimersAreOfTries
<1>1. CASE TypeCode
    BY <1>0, <1>1, <1>g DEF TypeCode
<1>2. CASE SubmitCode
    <2>1. /\ tries' = tries + 1 /\ tries < MaxTries
          /\ ~otpError' /\ otpError' \in BOOLEAN /\ verifying'
          /\ verifying' \in BOOLEAN /\ UNCHANGED <<otp, shaking, shakeTimers>>
        BY <1>2 DEF SubmitCode
    <2>2. tries' \in 0..MaxTries /\ shakeTimers' < tries' /\ shakeTimers' <= tries'
        BY <1>0, <2>1
    <2> QED BY <1>0, <1>g, <2>1, <2>2
<1>3. CASE CodeRefused
    <2>1. /\ verifying /\ ~verifying' /\ verifying' \in BOOLEAN
          /\ otpError' \in BOOLEAN /\ otp' = "empty" /\ shaking' \in BOOLEAN
          /\ shakeTimers' = shakeTimers + 1 /\ tries' = tries
        BY <1>3 DEF CodeRefused, TriggerShake
    <2>2. /\ shakeTimers' \in 0..MaxTries /\ shakeTimers' > 0
          /\ shakeTimers' <= tries' /\ tries' \in 0..MaxTries
        BY <1>0, <2>1
    <2> QED BY <1>g, <2>1, <2>2
<1>4. CASE EndShake
    <2>1. /\ shakeTimers > 0 /\ shakeTimers' = shakeTimers - 1
          /\ ~shaking' /\ shaking' \in BOOLEAN
          /\ UNCHANGED <<otp, otpError, verifying, tries>>
        BY <1>4 DEF EndShake
    <2>2. /\ shakeTimers' \in 0..MaxTries /\ shakeTimers' < tries'
          /\ shakeTimers' <= tries' /\ tries' \in 0..MaxTries
        BY <1>0, <2>1
    <2> QED BY <1>0, <1>g, <2>1, <2>2
<1>5. CASE UNCHANGED otpVars
    BY <1>0, <1>5, <1>g DEF otpVars
<1> QED BY <1>1, <1>2, <1>3, <1>4, <1>5 DEF OtpNext

LEMMA OtpInvariant == OtpSpec => []OtpInv
BY OtpInitHolds, OtpStep, PTL DEF OtpSpec

----------------------------------------------------------------------------
(* A row of the list: "Copied" ends, and a badge says nothing too soon.    *)

\* Every write to the clipboard and every timer is of a press of the button.
WritesAreOfPresses == copying + copyTimers <= copies

ItemInv == ItemTypeOK /\ CopiedEnds /\ WritesAreOfPresses

\* What a rendering says of the link's expiry.
LEMMA BadgeFacts ==
    ASSUME expiry \in {"never", "future", "past"}
    PROVE  /\ ExpiryBadge \in {"", "Active", "Expired"}
           /\ ExpiryBadge = "Expired" <=> expiry = "past"
<1>1. CASE expiry = "never"
    BY <1>1 DEF ExpiryBadge
<1>2. CASE expiry = "future"
    BY <1>2 DEF ExpiryBadge
<1>3. CASE expiry = "past"
    BY <1>3 DEF ExpiryBadge
<1> QED BY <1>1, <1>2, <1>3

\* ItemInv, its numbers apart from its Booleans.
ItemNumbers ==
    /\ copying \in 0..MaxCopies /\ copyTimers \in 0..MaxCopies
    /\ copies \in 0..MaxCopies /\ copying + copyTimers <= copies

ItemFlags ==
    /\ {rowMounted, detailsOpen, deleteOpen, copied} \subseteq BOOLEAN
    /\ expiry \in {"never", "future", "past"}
    /\ badge \in {"", "Active", "Expired"}

LEMMA ItemParts == ItemInv <=> ItemNumbers /\ ItemFlags /\ CopiedEnds
BY DEF ItemInv, ItemNumbers, ItemFlags, ItemTypeOK, WritesAreOfPresses

LEMMA ItemInitHolds == ItemInit => ItemInv
<1> SUFFICES ASSUME ItemInit PROVE ItemInv
    OBVIOUS
<1>1. ItemNumbers
    BY CopiesAssumption DEF ItemInit, ItemNumbers
<1>2. ItemFlags /\ (badge = "Expired" => expiry = "past") /\ ~copied
    BY BadgeFacts DEF ItemInit, ItemFlags
<1>3. CopiedEnds
    BY <1>2 DEF CopiedEnds
<1> QED BY <1>1, <1>2, <1>3, ItemParts

\* A rendering leaves a badge that is true of the link.
LEMMA RenderFacts ==
    ASSUME ItemFlags, Renders, expiry' = expiry
    PROVE  /\ badge' \in {"", "Active", "Expired"}
           /\ badge' = "Expired" => expiry' = "past"
BY BadgeFacts DEF ItemFlags, Renders

\* A click on the row or in one of its dialogs renders the row, and moves neither
\* a write nor a timer.
LEMMA ItemClick ==
    ASSUME ItemInv, Renders, UNCHANGED <<rowMounted, copyState, expiry>>,
           {detailsOpen', deleteOpen'} \subseteq BOOLEAN
    PROVE  ItemInv'
<1>1. ItemNumbers /\ ItemFlags /\ CopiedEnds
    BY ItemParts
<1>2. UNCHANGED <<copied, copying, copyTimers, copies>>
    BY DEF copyState
<1>3. ItemNumbers'
    BY <1>1, <1>2 DEF ItemNumbers
<1>4. ItemFlags'
    BY <1>1, <1>2, RenderFacts DEF ItemFlags
<1>5. CopiedEnds'
    BY <1>1, <1>2, RenderFacts DEF CopiedEnds
<1> QED BY <1>3, <1>4, <1>5 DEF ItemInv, ItemNumbers, ItemFlags, ItemTypeOK,
                                WritesAreOfPresses

LEMMA ItemStep == ItemInv /\ [ItemNext]_itemVars => ItemInv'
<1> SUFFICES ASSUME ItemInv, [ItemNext]_itemVars PROVE ItemInv'
    OBVIOUS
<1> USE DEF dialogs
<1>0. ItemNumbers /\ ItemFlags /\ CopiedEnds /\ MaxCopies \in Nat
    BY ItemParts, CopiesAssumption
<1>a. {rowMounted, detailsOpen, deleteOpen, copied} \subseteq BOOLEAN
    BY <1>0 DEF ItemFlags
<1>g. ASSUME ItemNumbers', ItemFlags', CopiedEnds' PROVE ItemInv'
    BY <1>g DEF ItemInv, ItemNumbers, ItemFlags, ItemTypeOK, WritesAreOfPresses
<1>1. CASE ClickRow \/ ClickTrash
    BY <1>1, <1>a, ItemClick DEF ClickRow, ClickTrash
<1>2. CASE CloseDetails \/ DismissDetails \/ DeleteFromDetails
    BY <1>2, <1>a, ItemClick DEF CloseDetails, DismissDetails, DeleteFromDetails
<1>3. CASE ClickConfirmation \/ CancelConfirmation \/ EscapeConfirmation
    BY <1>3, <1>a, ItemClick
       DEF ClickConfirmation, CancelConfirmation, EscapeConfirmation
<1>4. CASE ConfirmDelete
    <2>1. /\ ~rowMounted' /\ rowMounted' \in BOOLEAN
          /\ UNCHANGED <<detailsOpen, deleteOpen, copied, copying, copyTimers,
                         copies, expiry, badge>>
        BY <1>4 DEF ConfirmDelete, copyState
    <2> QED BY <1>0, <1>g, <2>1 DEF ItemNumbers, ItemFlags, CopiedEnds
<1>5. CASE HandleCopy
    <2>1. /\ copies < MaxCopies /\ copies' = copies + 1 /\ copying' = copying + 1
          /\ UNCHANGED <<rowMounted, detailsOpen, deleteOpen, copied, copyTimers,
                         expiry, badge>>
        BY <1>5 DEF HandleCopy
    <2>2. ItemNumbers'
        BY <1>0, <2>1 DEF ItemNumbers
    <2>3. ItemFlags' /\ CopiedEnds'
        BY <1>0, <2>1 DEF ItemFlags, CopiedEnds
    <2> QED BY <1>g, <2>2, <2>3
<1>6. CASE CopyOk
    <2>1. /\ copying > 0 /\ copying' = copying - 1 /\ copyTimers' = copyTimers + 1
          /\ UNCHANGED <<rowMounted, detailsOpen, deleteOpen, copies, expiry>>
        BY <1>6 DEF CopyOk
    <2>2. ItemNumbers' /\ copyTimers' > 0
        BY <1>0, <2>1 DEF ItemNumbers
    <2>3. CASE rowMounted
        <3>1. Renders /\ copied' \in BOOLEAN
            BY <1>6, <2>3 DEF CopyOk, SetCopied
        <3> QED BY <1>0, <1>g, <2>1, <2>2, <3>1, RenderFacts
                DEF ItemFlags, CopiedEnds
    <2>4. CASE ~rowMounted
        <3>1. UNCHANGED <<copied, badge>>
            BY <1>6, <2>4 DEF CopyOk, SetCopied
        <3> QED BY <1>0, <1>g, <2>1, <2>2, <2>4, <3>1 DEF ItemFlags, CopiedEnds
    <2> QED BY <2>3, <2>4
<1>7. CASE CopyFails
    <2>1. /\ copying > 0 /\ copying' = copying - 1
          /\ UNCHANGED <<rowMounted, detailsOpen, deleteOpen, copied, copyTimers,
                         copies, expiry, badge>>
        BY <1>7 DEF CopyFails
    <2>2. ItemNumbers'
        BY <1>0, <2>1 DEF ItemNumbers
    <2>3. ItemFlags' /\ CopiedEnds'
        BY <1>0, <2>1 DEF ItemFlags, CopiedEnds
    <2> QED BY <1>g, <2>2, <2>3
<1>8. CASE EndCopied
    <2>1. /\ copyTimers > 0 /\ copyTimers' = copyTimers - 1
          /\ UNCHANGED <<rowMounted, detailsOpen, deleteOpen, copying, copies,
                         expiry>>
        BY <1>8 DEF EndCopied
    <2>2. ItemNumbers'
        BY <1>0, <2>1 DEF ItemNumbers
    <2>3. CASE rowMounted
        <3>1. Renders /\ ~copied' /\ copied' \in BOOLEAN
            BY <1>8, <2>3 DEF EndCopied, SetCopied
        <3> QED BY <1>0, <1>g, <2>1, <2>2, <3>1, RenderFacts
                DEF ItemFlags, CopiedEnds
    <2>4. CASE ~rowMounted
        <3>1. UNCHANGED <<copied, badge>>
            BY <1>8, <2>4 DEF EndCopied, SetCopied
        <3> QED BY <1>0, <1>g, <2>1, <2>2, <2>4, <3>1 DEF ItemFlags, CopiedEnds
    <2> QED BY <2>3, <2>4
<1>9. CASE LinkExpires
    <2>1. /\ expiry' = "past"
          /\ UNCHANGED <<rowMounted, detailsOpen, deleteOpen, copied, copying,
                         copyTimers, copies, badge>>
        BY <1>9 DEF LinkExpires, copyState
    <2> QED BY <1>0, <1>g, <2>1 DEF ItemNumbers, ItemFlags, CopiedEnds
<1>10. CASE UNCHANGED itemVars
    BY <1>0, <1>10, <1>g
       DEF itemVars, copyState, ItemNumbers, ItemFlags, CopiedEnds
<1> QED
    BY <1>1, <1>2, <1>3, <1>4, <1>5, <1>6, <1>7, <1>8, <1>9, <1>10 DEF ItemNext

LEMMA ItemInvariant == ItemSpec => []ItemInv
BY ItemInitHolds, ItemStep, PTL DEF ItemSpec

----------------------------------------------------------------------------
(* The shell around a page: toggling always changes what is on the screen. *)

\* React knows how wide the window is, but for an event that is due.
MobileIsKnown == ~mqlEvent => isMobile = narrow

ShellInv == ShellTypeOK /\ MobileIsKnown

LEMMA ShellInitHolds == ShellInit => ShellInv
BY DEF ShellInit, ShellInv, ShellTypeOK, MobileIsKnown

LEMMA ShellStep == ShellInv /\ [ShellNext]_shellVars => ShellInv'
<1> SUFFICES ASSUME ShellInv, [ShellNext]_shellVars PROVE ShellInv'
    OBVIOUS
<1> USE DEF ShellInv, ShellTypeOK, MobileIsKnown
<1>1. ASSUME NEW page \in ShellPages, Navigate(page) \/ ChooseItem(page)
      PROVE  ShellInv'
    BY <1>1 DEF Navigate, ChooseItem, MountLayout
<1>2. CASE OpenMenu \/ CloseMenu
    BY <1>2 DEF OpenMenu, CloseMenu
<1>3. CASE ClickTrigger \/ PressShortcut
    BY <1>3 DEF ClickTrigger, PressShortcut, ToggleSidebar
<1>4. CASE DismissSheet
    BY <1>4 DEF DismissSheet
<1>5. CASE Resize
    BY <1>5 DEF Resize
<1>6. CASE MobileChange
    BY <1>6 DEF MobileChange
<1>7. CASE UNCHANGED shellVars
    BY <1>7 DEF shellVars
<1> QED BY <1>1, <1>2, <1>3, <1>4, <1>5, <1>6, <1>7 DEF ShellNext

LEMMA ShellInvariant == ShellSpec => []ShellInv
BY ShellInitHolds, ShellStep, PTL DEF ShellSpec

\* What a step of the shell that moves the sidebar shows or hides.
ToggleShows ==
    ~mqlEvent /\ path' = path /\ <<open, openMobile>>' # <<open, openMobile>>
        => SidebarShown' # SidebarShown

LEMMA ToggleStep == ShellInv /\ [ShellNext]_shellVars => ToggleShows
<1> SUFFICES ASSUME ShellInv, [ShellNext]_shellVars, ~mqlEvent, path' = path,
                    <<open, openMobile>>' # <<open, openMobile>>
             PROVE  SidebarShown' # SidebarShown
    BY DEF ToggleShows
<1>1. /\ isMobile = narrow /\ isMobile \in BOOLEAN /\ open \in BOOLEAN
      /\ openMobile \in BOOLEAN
    BY DEF ShellInv, ShellTypeOK, MobileIsKnown
<1>2. ~\E page \in ShellPages : Navigate(page) \/ ChooseItem(page)
    BY DEF Navigate, ChooseItem
<1>3. ~(OpenMenu \/ CloseMenu \/ Resize \/ MobileChange \/ UNCHANGED shellVars)
    BY DEF OpenMenu, CloseMenu, Resize, MobileChange, shellVars
<1>4. CASE ToggleSidebar
    BY <1>1, <1>4 DEF ToggleSidebar, SidebarShown
<1>5. CASE DismissSheet
    BY <1>1, <1>5 DEF DismissSheet, SidebarShown
<1> QED BY <1>2, <1>3, <1>4, <1>5 DEF ShellNext, ClickTrigger, PressShortcut

\* Toggling the sidebar always shows or hides something, whatever is resized and
\* wherever one navigates, unless React has yet to hear of a resize.
THEOREM TogglingIsSeen == ShellSpec => TogglesWhatIsShown
<1>1. ShellInv /\ [ShellNext]_shellVars => [ToggleShows]_shellVars
    BY ToggleStep
<1> QED BY ShellInvariant, <1>1, PTL
        DEF ShellSpec, TogglesWhatIsShown, ToggleShows

----------------------------------------------------------------------------
(* The components side by side.                                            *)

\* The initial states of MCWeb are initial states of every component.
LEMMA WebInitIsEach ==
    WebInit => /\ Init /\ FormInit /\ OtpInit /\ ItemInit /\ ThemeInit
               /\ HealthInit /\ InsightsInit /\ ShellInit
BY DEF WebInit

\* A step of MCWeb is a step of the scene's component, and of no other.
LEMMA WebStepIsEach ==
    [WebNext]_webVars =>
        /\ [Next]_vars /\ [FormNext]_formVars /\ [OtpNext]_otpVars
        /\ [ItemNext]_itemVars /\ [ThemeNext]_themeVars
        /\ [HealthNext]_healthVars /\ [InsightsNext]_insightsVars
        /\ [ShellNext]_shellVars
<1> SUFFICES ASSUME [WebNext]_webVars
             PROVE  /\ [Next]_vars /\ [FormNext]_formVars /\ [OtpNext]_otpVars
                    /\ [ItemNext]_itemVars /\ [ThemeNext]_themeVars
                    /\ [HealthNext]_healthVars /\ [InsightsNext]_insightsVars
                    /\ [ShellNext]_shellVars
    OBVIOUS
<1>1. CASE UNCHANGED webVars
    BY <1>1 DEF webVars
<1>2. CASE WebNext
    <2>1. [Next]_vars
        BY <1>2 DEF WebNext, Rests
    <2>2. [FormNext]_formVars
        BY <1>2 DEF WebNext, Rests
    <2>3. [OtpNext]_otpVars
        BY <1>2 DEF WebNext, Rests
    <2>4. [ItemNext]_itemVars
        BY <1>2 DEF WebNext, Rests
    <2>5. [ThemeNext]_themeVars
        BY <1>2 DEF WebNext, Rests
    <2>6. [HealthNext]_healthVars
        BY <1>2 DEF WebNext, Rests
    <2>7. [InsightsNext]_insightsVars
        BY <1>2 DEF WebNext, Rests
    <2>8. [ShellNext]_shellVars
        BY <1>2 DEF WebNext, Rests
    <2> QED BY <2>1, <2>2, <2>3, <2>4, <2>5, <2>6, <2>7, <2>8
<1> QED BY <1>1, <1>2

\* MCWeb implements the specification of every component: what is checked of it
\* is checked of each of them.
THEOREM WebRunsEach ==
    WebSpec => /\ Spec /\ FormSpec /\ OtpSpec /\ ItemSpec /\ ThemeSpec
               /\ HealthSpec /\ InsightsSpec /\ ShellSpec
BY WebInitIsEach, WebStepIsEach, PTL
   DEF WebSpec, Spec, FormSpec, OtpSpec, ItemSpec, ThemeSpec, HealthSpec,
       InsightsSpec, ShellSpec

\* Every variable of every component keeps its type.
THEOREM WebTypes == WebSpec => []WebTypeOK
<1>1. /\ FormInv => FormTypeOK
      /\ OtpInv => OtpTypeOK
      /\ ItemInv => ItemTypeOK
      /\ InsightsInv => InsightsTypeOK
      /\ ShellInv => ShellTypeOK
    BY DEF FormInv, OtpInv, ItemInv, InsightsInv, ShellInv
<1>2. /\ TypeOK /\ FormTypeOK /\ OtpTypeOK /\ ItemTypeOK /\ ThemeTypeOK
      /\ HealthTypeOK /\ InsightsTypeOK /\ ShellTypeOK
      => WebTypeOK
    BY DEF WebTypeOK
<1> QED
    BY <1>1, <1>2, WebRunsEach, TypeCorrect, FormInvariant, OtpInvariant,
       ItemInvariant, ThemeTypes, HealthTypes, InsightsInvariant,
       ShellInvariant, PTL

\* A message over a field is about what stands in it, in the form of the
\* dashboard and in that of the code, whatever is typed, pressed and answered.
THEOREM MessagesAreAboutInput == WebSpec => []ErrorsAreAboutInput
<1>1. FormInv /\ OtpInv => ErrorsAreAboutInput
    BY DEF FormInv, OtpInv, ErrorsAreAboutInput
<1> QED BY <1>1, WebRunsEach, FormInvariant, OtpInvariant, PTL

\* "Copied" and the shaking wait for a timer as long as they last.
THEOREM EveryMomentEnds == WebSpec => []MomentsEnd
<1>1. ItemInv /\ OtpInv => MomentsEnd
    BY DEF ItemInv, OtpInv, MomentsEnd
<1> QED BY <1>1, WebRunsEach, ItemInvariant, OtpInvariant, PTL
=============================================================================
