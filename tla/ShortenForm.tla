----------------------------- MODULE ShortenForm -----------------------------
(***************************************************************************)
(* The form of the dashboard, with what is typed while a request is under  *)
(* way.  The list that its answer goes to is in module Dashboard.          *)
(*                                                                         *)
(* What is typed is only whether it is blank, a URL of http or https, or   *)
(* something else; the expiry is only whether its field is shown and set.  *)
(***************************************************************************)

VARIABLES
    inputUrl,   \* "blank", "invalid" or "valid"
    expiryField, \* "hidden", "shown" or "set"
    inputError,
    posting,    \* isShortening
    rejected    \* history: what the last rejected submission held, or "none"

formVars == <<inputUrl, expiryField, inputError, posting, rejected>>

\* The URL parser's answer, for what is typed.
isValidUrl(url) == url = "valid"

FormInit ==
    /\ inputUrl = "blank" /\ expiryField = "hidden"
    /\ inputError = FALSE /\ posting = FALSE /\ rejected = "none"

TypeUrl ==
    /\ inputUrl' \in {"blank", "invalid", "valid"}
    /\ inputError' = FALSE
    /\ UNCHANGED <<expiryField, posting, rejected>>

AddExpiry ==
    /\ expiryField = "hidden" /\ expiryField' = "shown"
    /\ UNCHANGED <<inputUrl, inputError, posting, rejected>>

SetExpiry ==
    /\ expiryField # "hidden" /\ expiryField' \in {"shown", "set"}
    /\ UNCHANGED <<inputUrl, inputError, posting, rejected>>

RemoveExpiry ==
    /\ expiryField # "hidden" /\ expiryField' = "hidden"
    /\ UNCHANGED <<inputUrl, inputError, posting, rejected>>

\* Mutant: the button is not disabled while a request is under way.
CanSubmitAlways == TRUE

\* The submit button, and Enter with it.
CanSubmit == ~posting

RejectUrl ==
    /\ CanSubmit /\ ~isValidUrl(inputUrl)
    /\ inputError' = TRUE /\ rejected' = inputUrl
    /\ UNCHANGED <<inputUrl, expiryField, posting>>

SubmitUrl ==
    /\ CanSubmit /\ isValidUrl(inputUrl)
    /\ inputError' = FALSE /\ posting' = TRUE
    /\ UNCHANGED <<inputUrl, expiryField, rejected>>

\* Whatever stands in the fields by now is cleared.
PostOk ==
    /\ posting /\ posting' = FALSE
    /\ inputUrl' = "blank" /\ expiryField' = "hidden"
    /\ UNCHANGED <<inputError, rejected>>

PostFails ==
    /\ posting /\ posting' = FALSE
    /\ UNCHANGED <<inputUrl, expiryField, inputError, rejected>>

FormNext ==
    \/ TypeUrl \/ AddExpiry \/ SetExpiry \/ RemoveExpiry
    \/ RejectUrl \/ SubmitUrl \/ PostOk \/ PostFails

FormSpec == FormInit /\ [][FormNext]_formVars

----------------------------------------------------------------------------
(* Properties.                                                             *)

\* Every variable keeps its type.
FormTypeOK ==
    /\ inputUrl \in {"blank", "invalid", "valid"}
    /\ expiryField \in {"hidden", "shown", "set"}
    /\ inputError \in BOOLEAN /\ posting \in BOOLEAN
    /\ rejected \in {"none", "blank", "invalid"}

\* "Please enter a valid URL." is about what stands in the field: neither
\* typing nor the answer of a request that was submitted before leaves it over
\* something that was not rejected.
ErrorIsAboutInput == inputError => (inputUrl = rejected /\ ~isValidUrl(inputUrl))
=============================================================================
