------------------------------- MODULE UrlItem -------------------------------
(***************************************************************************)
(* One row of the list: its details, its confirmation of a deletion, and   *)
(* the copy button that stands both in the row and in the details.         *)
(*                                                                         *)
(* The dialogs are modal and the upper one, the confirmation, takes clicks *)
(* and Escape.  It is rendered inside the row: in React a click on it goes *)
(* up to the row, wherever the portal puts it on the page.                 *)
(***************************************************************************)
EXTENDS Naturals

CONSTANT MaxCopies \* presses of the copy button: bounds a run

ASSUME CopiesAssumption == MaxCopies \in Nat

VARIABLES
    rowMounted,
    detailsOpen, deleteOpen, copied,
    copying,    \* clipboard writes under way
    copyTimers, \* timers of 2 s that end "copied"
    copies,     \* presses of the button: bounds a run
    expiry,     \* of the link: "never", "future" or "past"
    badge       \* what the last rendering says of it

dialogs == <<detailsOpen, deleteOpen>>
copyState == <<copied, copying, copyTimers, copies>>
itemVars == <<rowMounted, dialogs, copyState, expiry, badge>>

\* isExpired and formattedExpiry, with the browser's clock of this rendering.
ExpiryBadge == [never |-> "", future |-> "Active", past |-> "Expired"][expiry]

\* Every change of state renders the row again.
Renders == badge' = ExpiryBadge

ItemInit ==
    /\ rowMounted = TRUE
    /\ detailsOpen = FALSE /\ deleteOpen = FALSE
    /\ copied = FALSE /\ copying = 0 /\ copyTimers = 0 /\ copies = 0
    /\ expiry \in {"never", "future", "past"} /\ badge = ExpiryBadge

RowClickable     == rowMounted /\ ~detailsOpen /\ ~deleteOpen
DetailsClickable == rowMounted /\ detailsOpen /\ ~deleteOpen
ConfirmClickable == rowMounted /\ deleteOpen

\* The short link, and the trash, stop the click from going on to the row.
ClickRow ==
    /\ RowClickable
    /\ detailsOpen' = TRUE /\ Renders
    /\ UNCHANGED <<rowMounted, deleteOpen, copyState, expiry>>

ClickTrash ==
    /\ RowClickable
    /\ deleteOpen' = TRUE /\ Renders
    /\ UNCHANGED <<rowMounted, detailsOpen, copyState, expiry>>

\* The button of the details.
CloseDetails ==
    /\ DetailsClickable
    /\ detailsOpen' = FALSE /\ Renders
    /\ UNCHANGED <<rowMounted, deleteOpen, copyState, expiry>>

\* A click beside them, or Escape.
DismissDetails ==
    /\ DetailsClickable
    /\ detailsOpen' = FALSE /\ Renders
    /\ UNCHANGED <<rowMounted, deleteOpen, copyState, expiry>>

DeleteFromDetails ==
    /\ DetailsClickable
    /\ deleteOpen' = TRUE /\ Renders
    /\ UNCHANGED <<rowMounted, detailsOpen, copyState, expiry>>

\* A click on the confirmation reaches the row's onClick and opens the details.
ClickConfirmation ==
    /\ ConfirmClickable
    /\ detailsOpen' = TRUE /\ Renders
    /\ UNCHANGED <<rowMounted, deleteOpen, copyState, expiry>>

\* And so does its Cancel.
CancelConfirmation ==
    /\ ConfirmClickable
    /\ deleteOpen' = FALSE /\ detailsOpen' = TRUE /\ Renders
    /\ UNCHANGED <<rowMounted, copyState, expiry>>

\* Unlike the details, it does not close with a click beside it.
EscapeConfirmation ==
    /\ ConfirmClickable
    /\ deleteOpen' = FALSE /\ Renders
    /\ UNCHANGED <<rowMounted, detailsOpen, copyState, expiry>>

\* onDelete takes the row off the list: its state and its dialogs are gone, but
\* not its timers and clipboard writes.
ConfirmDelete ==
    /\ ConfirmClickable
    /\ rowMounted' = FALSE
    /\ UNCHANGED <<dialogs, copyState, expiry, badge>>

\* Mutant: the timer starts with the press, not with the copy.
HandleCopyStartsTimer ==
    /\ RowClickable \/ DetailsClickable
    /\ copies < MaxCopies /\ copies' = copies + 1
    /\ copying' = copying + 1
    /\ copyTimers' = copyTimers + 1
    /\ UNCHANGED <<rowMounted, dialogs, copied, expiry, badge>>

\* executeCopy, with the clipboard or a hidden text area.
HandleCopy ==
    /\ RowClickable \/ DetailsClickable
    /\ copies < MaxCopies /\ copies' = copies + 1
    /\ copying' = copying + 1
    /\ UNCHANGED <<rowMounted, dialogs, copied, copyTimers, expiry, badge>>

\* A row that is gone has no state to set.
SetCopied(value) ==
    IF rowMounted THEN copied' = value /\ Renders
                  ELSE UNCHANGED <<copied, badge>>

\* Mutant: no timer is set.
CopyOkNoTimer ==
    /\ copying > 0 /\ copying' = copying - 1
    /\ SetCopied(TRUE)
    /\ UNCHANGED <<rowMounted, dialogs, copyTimers, copies, expiry>>

\* Copied, for 2 s: an earlier timer is not stopped, and may end it sooner.
CopyOk ==
    /\ copying > 0 /\ copying' = copying - 1
    /\ SetCopied(TRUE)
    /\ copyTimers' = copyTimers + 1
    /\ UNCHANGED <<rowMounted, dialogs, copies, expiry>>

CopyFails ==
    /\ copying > 0 /\ copying' = copying - 1
    /\ UNCHANGED <<rowMounted, dialogs, copied, copyTimers, copies, expiry,
                   badge>>

EndCopied ==
    /\ copyTimers > 0 /\ copyTimers' = copyTimers - 1
    /\ SetCopied(FALSE)
    /\ UNCHANGED <<rowMounted, dialogs, copying, copies, expiry>>

\* Nothing renders the row when its link expires.
LinkExpires ==
    /\ expiry = "future" /\ expiry' = "past"
    /\ UNCHANGED <<rowMounted, dialogs, copyState, badge>>

ItemNext ==
    \/ ClickRow \/ ClickTrash
    \/ CloseDetails \/ DismissDetails \/ DeleteFromDetails
    \/ ClickConfirmation \/ CancelConfirmation \/ EscapeConfirmation
    \/ ConfirmDelete
    \/ HandleCopy \/ CopyOk \/ CopyFails \/ EndCopied \/ LinkExpires

ItemSpec == ItemInit /\ [][ItemNext]_itemVars

----------------------------------------------------------------------------
(* Properties.                                                             *)

\* Every variable keeps its type.
ItemTypeOK ==
    /\ {rowMounted, detailsOpen, deleteOpen, copied} \subseteq BOOLEAN
    /\ {copying, copyTimers, copies} \subseteq 0..MaxCopies
    /\ expiry \in {"never", "future", "past"}
    /\ badge \in {"", "Active", "Expired"}

\* "Copied" does not stay for ever: a row that says so waits for a timer,
\* however presses, answers of the clipboard and older timers interleave; and a
\* rendering never calls a link expired that is not.
CopiedEnds ==
    rowMounted => /\ copied => copyTimers > 0
                  /\ badge = "Expired" => expiry = "past"
=============================================================================
