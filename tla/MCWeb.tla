-------------------------------- MODULE MCWeb --------------------------------
(***************************************************************************)
(* An instance of the web client's components for TLC.  They share no      *)
(* state: in each behaviour one of them moves, the scene, and the others   *)
(* rest in one initial state, so that the states to check are the sum of   *)
(* the components' and not their product.                                  *)
(***************************************************************************)
EXTENDS Dashboard, ShortenForm, OtpForm, UrlItem, Theme, HealthPage,
        InsightsPage, AppShell

\* One search, which finds every row but the oldest.
MCMatching == [s \in Searches |-> IF s = NoSearch THEN Ids ELSE Ids \ {1}]

VARIABLE scene

webVars == <<scene, vars, formVars, otpVars, itemVars, themeVars,
             healthVars, insightsVars, shellVars>>

Scenes == {"dashboard", "form", "otp", "item", "theme", "health", "insights",
           "shell"}

WebInit ==
    /\ scene \in Scenes
    /\ Init /\ call[CHOOSE l \in Loads : TRUE].kind = "first"
    /\ FormInit
    /\ OtpInit
    /\ ItemInit     /\ (scene # "item" => expiry = "never")
    /\ ThemeInit    /\ (scene # "theme" => item = "none" /\ osTheme = "light")
    /\ HealthInit
    /\ InsightsInit /\ (scene # "insights" => clickCount = <<>>)
    /\ ShellInit    /\ (scene # "shell" =>
                            path = (CHOOSE p \in ShellPages : TRUE) /\ narrow)

Rests(name, variables) ==
    IF scene = name THEN TRUE ELSE UNCHANGED variables

WebNext ==
    /\ \/ scene = "dashboard" /\ Next
       \/ scene = "form"      /\ FormNext
       \/ scene = "otp"       /\ OtpNext
       \/ scene = "item"      /\ ItemNext
       \/ scene = "theme"     /\ ThemeNext
       \/ scene = "health"    /\ HealthNext
       \/ scene = "insights"  /\ InsightsNext
       \/ scene = "shell"     /\ ShellNext
    /\ Rests("dashboard", vars)
    /\ Rests("form", formVars)
    /\ Rests("otp", otpVars)
    /\ Rests("item", itemVars)
    /\ Rests("theme", themeVars)
    /\ Rests("health", healthVars)
    /\ Rests("insights", insightsVars)
    /\ Rests("shell", shellVars)
    /\ UNCHANGED scene

WebSpec == WebInit /\ [][WebNext]_webVars

\* Every variable of every component keeps its type.
WebTypeOK ==
    /\ TypeOK /\ FormTypeOK /\ OtpTypeOK /\ ItemTypeOK /\ ThemeTypeOK
    /\ HealthTypeOK /\ InsightsTypeOK /\ ShellTypeOK

\* What is shown for a moment ends, however presses, answers and the timers of
\* earlier ones interleave: "Copied" in a row, the shaking of the code's form.
MomentsEnd == CopiedEnds /\ ShakingEnds

\* A message over a field is about what stands in it, also if it was typed over
\* while a request was under way.
ErrorsAreAboutInput == ErrorIsAboutInput /\ OtpErrorIsAboutCode
=============================================================================
