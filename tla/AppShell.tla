------------------------------- MODULE AppShell -------------------------------
(***************************************************************************)
(* What stands around a protected page: the navigation and its sidebar, a  *)
(* panel beside the page on a wide window and a sheet over it on a narrow  *)
(* one.  Each page renders a layout of its own, so that the state of the   *)
(* sidebar lives as long as the page.                                      *)
(***************************************************************************)

CONSTANTS
    ShellPages, \* the protected pages
    MenuPages   \* those that the user menu leads to

ASSUME MenuAssumption == MenuPages \subseteq ShellPages

VARIABLES
    path,       \* the page
    narrow,     \* the window is below the breakpoint (768)
    isMobile,   \* useIsMobile
    mqlEvent,   \* the media query's change event is due
    open,       \* the panel, on a wide window
    openMobile, \* the sheet
    menuOpen,   \* the user menu
    cookie      \* sidebar_state

shellVars == <<path, narrow, isMobile, mqlEvent, open, openMobile, menuOpen,
               cookie>>

\* A layout is mounted: the effect of useIsMobile reads the window.
MountLayout == /\ isMobile' = narrow /\ mqlEvent' = FALSE
               /\ open' = TRUE /\ openMobile' = FALSE /\ menuOpen' = FALSE

ShellInit ==
    /\ path \in ShellPages
    /\ narrow \in BOOLEAN /\ isMobile = narrow /\ mqlEvent = FALSE
    /\ open = TRUE /\ openMobile = FALSE /\ menuOpen = FALSE
    /\ cookie = "none"

\* A link of the sidebar, the browser's back button; the link to the page itself
\* mounts nothing.
Navigate(page) ==
    /\ page # path /\ path' = page
    /\ MountLayout
    /\ UNCHANGED <<narrow, cookie>>

\* The stylesheet follows the window at once, React with the event.
Resize ==
    /\ narrow' = ~narrow /\ mqlEvent' = TRUE
    /\ UNCHANGED <<path, isMobile, open, openMobile, menuOpen, cookie>>

MobileChange ==
    /\ mqlEvent /\ mqlEvent' = FALSE
    /\ isMobile' = narrow
    /\ UNCHANGED <<path, narrow, open, openMobile, menuOpen, cookie>>

\* Mutant: the panel is toggled on a phone, too.
ToggleSidebarDesktop ==
    /\ open' = ~open /\ cookie' = (IF open' THEN "true" ELSE "false")
    /\ UNCHANGED <<path, narrow, isMobile, mqlEvent, openMobile, menuOpen>>

\* Only setOpen writes the cookie, and nothing reads it.
ToggleSidebar ==
    /\ \/ /\ isMobile
          /\ openMobile' = ~openMobile
          /\ UNCHANGED <<open, cookie>>
       \/ /\ ~isMobile
          /\ open' = ~open /\ cookie' = (IF open' THEN "true" ELSE "false")
          /\ UNCHANGED openMobile
    /\ UNCHANGED <<path, narrow, isMobile, mqlEvent, menuOpen>>

\* The button of the top bar, unless a sheet or a menu lies over it.
ClickTrigger == ~menuOpen /\ ~(isMobile /\ openMobile) /\ ToggleSidebar

\* Ctrl or Cmd with B, whatever lies over the page.
PressShortcut == ToggleSidebar

\* The sheet: a click beside it, or Escape.
DismissSheet ==
    /\ isMobile /\ openMobile
    /\ openMobile' = FALSE
    /\ UNCHANGED <<path, narrow, isMobile, mqlEvent, open, menuOpen, cookie>>

\* The menu's button, unless the sheet lies over it.
OpenMenu ==
    /\ ~menuOpen /\ ~(isMobile /\ openMobile)
    /\ menuOpen' = TRUE
    /\ UNCHANGED <<path, narrow, isMobile, mqlEvent, open, openMobile, cookie>>

\* A click beside the menu, Escape, or an item that leads nowhere else: that of
\* the page itself, and "Sign out" as long as its request is under way (what
\* comes of it is in module Session).
CloseMenu ==
    /\ menuOpen /\ menuOpen' = FALSE
    /\ UNCHANGED <<path, narrow, isMobile, mqlEvent, open, openMobile, cookie>>

\* The menu's "View Profile" and "Settings".
ChooseItem(page) == menuOpen /\ page \in MenuPages /\ Navigate(page)

ShellNext == \/ \E page \in ShellPages : Navigate(page) \/ ChooseItem(page)
             \/ OpenMenu \/ CloseMenu
             \/ ClickTrigger \/ PressShortcut \/ DismissSheet
             \/ Resize \/ MobileChange

ShellSpec == ShellInit /\ [][ShellNext]_shellVars

----------------------------------------------------------------------------
\* The sidebar on the screen: the sheet, or the panel, which the stylesheet
\* hides on a narrow window.
SidebarShown == \/ isMobile /\ openMobile
                \/ ~isMobile /\ ~narrow /\ open

\* A navigation item's tooltip is only for a panel that is collapsed, which the
\* "offcanvas" sidebar then hides with its items.
TooltipShown == ~isMobile /\ ~open

\* Every variable keeps its type.
ShellTypeOK ==
    /\ path \in ShellPages
    /\ {narrow, isMobile, mqlEvent, open, openMobile, menuOpen} \subseteq BOOLEAN
    /\ cookie \in {"none", "true", "false"}

\* Toggling always shows or hides something: of the two states a sidebar has,
\* the one that changes is the one on the screen, through resizes and
\* navigation, except before React has heard of a resize.
TogglesWhatIsShown ==
    [][~mqlEvent /\ path' = path /\ <<open, openMobile>>' # <<open, openMobile>>
        => SidebarShown' # SidebarShown]_shellVars
=============================================================================
