------------------------------- MODULE OtpForm -------------------------------
(***************************************************************************)
(* The form of /verify-otp.  What comes of an accepted code is in module   *)
(* Session; here it may be typed while a request is under way, and every   *)
(* refusal shakes the form for half a second with a timer of its own.      *)
(*                                                                         *)
(* What is typed is only how full its slots are.  The check of the length  *)
(* in handleSubmit, and the message for a 422, are left out: the button    *)
(* and Enter are disabled until the code is full.                          *)
(***************************************************************************)
EXTENDS Naturals

CONSTANT MaxTries \* codes that are submitted: bounds a run

ASSUME TriesAssumption == MaxTries \in Nat

VARIABLES
    otp,         \* "empty", "partial" or "full"
    otpError,    \* "Incorrect code. Please try again."
    verifying,   \* isLoading
    shaking,
    shakeTimers, \* timers of 500 ms that end the shaking
    tries        \* how many codes were submitted: bounds a run

otpVars == <<otp, otpError, verifying, shaking, shakeTimers, tries>>

OtpInit ==
    /\ otp = "empty" /\ otpError = FALSE /\ verifying = FALSE
    /\ shaking = FALSE /\ shakeTimers = 0 /\ tries = 0

\* A key or a paste, in slots that are never disabled.
TypeCode ==
    /\ otp' \in {"empty", "partial", "full"}
    /\ otpError' = FALSE
    /\ UNCHANGED <<verifying, shaking, shakeTimers, tries>>

SubmitCode ==
    /\ otp = "full" /\ ~verifying
    /\ tries < MaxTries /\ tries' = tries + 1
    /\ otpError' = FALSE /\ verifying' = TRUE
    /\ UNCHANGED <<otp, shaking, shakeTimers>>

\* An earlier timer is not stopped, and may end this shaking sooner.
TriggerShake ==
    /\ shaking' = TRUE
    /\ shakeTimers' = shakeTimers + 1

\* Any failure but a 422: a wrong code, a pending token that has expired, an
\* e-mail taken meanwhile, or no answer at all.
CodeRefused ==
    /\ verifying /\ verifying' = FALSE
    /\ otpError' = TRUE /\ otp' = "empty"
    /\ TriggerShake
    /\ UNCHANGED tries

EndShake ==
    /\ shakeTimers > 0 /\ shakeTimers' = shakeTimers - 1
    /\ shaking' = FALSE
    /\ UNCHANGED <<otp, otpError, verifying, tries>>

OtpNext == TypeCode \/ SubmitCode \/ CodeRefused \/ EndShake

OtpSpec == OtpInit /\ [][OtpNext]_otpVars

----------------------------------------------------------------------------
(* Properties.                                                             *)

\* Every variable keeps its type.
OtpTypeOK ==
    /\ otp \in {"empty", "partial", "full"}
    /\ {otpError, verifying, shaking} \subseteq BOOLEAN
    /\ {shakeTimers, tries} \subseteq 0..MaxTries

\* The shaking ends, whichever timers of earlier refusals are still set.
ShakingEnds == shaking => shakeTimers > 0

\* "Incorrect code." never stands over a code that has not been tried, also if
\* it was typed over while the request was under way.
OtpErrorIsAboutCode == otpError => (otp = "empty" /\ ~verifying)
=============================================================================
