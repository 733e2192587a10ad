--------------------------- MODULE CooldownCurve ---------------------------
(***************************************************************************)
(* How long one failure keeps an endpoint out of rotation (router.go).     *)
(*                                                                         *)
(* A failure is abstracted to the two things the classifiers look at: the  *)
(* HTTP status (0 when there was no response) and what the error text      *)
(* says, of which only three messages matter.  Durations are natural       *)
(* numbers of an unspecified unit; the code's values, in seconds, are in   *)
(* MCEndpointHealth.                                                       *)
(***************************************************************************)
EXTENDS Integers

CONSTANTS
    TransientBase,      \* first cooldown of a 429, a 5xx or a statusless failure
    GatewayTimeoutBase, \* first cooldown of a 504
    TimeoutBase,        \* timeoutCooldownBase
    AuthBase,           \* 401 and 403
    MissingBase,        \* 404
    ProtocolBan,        \* protocolUnsupportedCooldown
    MaxCooldown,        \* maxCooldown, the ceiling of the transient escalation
    SoftBan,            \* a permanent-looking failure, from SoftBanAfter on
    HardBan,            \* the same, from HardBanAfter on
    SoftBanAfter, HardBanAfter,
    ErrorCap,           \* CooldownEntry.ErrorCount is capped here
    JitterPercent       \* cooldownJitter: a fraction set once, not a random draw

Durations == {TransientBase, GatewayTimeoutBase, TimeoutBase, AuthBase,
              MissingBase, ProtocolBan, MaxCooldown, SoftBan, HardBan}

ASSUME DurationsAssumption == Durations \subseteq Nat
ASSUME TransientAssumption ==
    /\ TransientBase \in 1..MaxCooldown
    /\ GatewayTimeoutBase \in 1..MaxCooldown
    /\ TimeoutBase \in 1..MaxCooldown
ASSUME CountAssumption ==
    /\ SoftBanAfter \in Nat /\ HardBanAfter \in Nat
    /\ SoftBanAfter > 1 /\ HardBanAfter >= SoftBanAfter
    /\ ErrorCap \in Nat /\ ErrorCap >= 1
    /\ JitterPercent \in 0..25

Message == {"plain", "timeout", "quota", "protocol"}
FailureType == [status : Nat, says : Message]

----------------------------------------------------------------------------
(* The classifiers. *)

IsServerError(f) == f.status \in 500..599

IsClientRequestError(f) == f.status \in {400, 413, 422}

IsProtocolUnsupported(f) ==
    f.says = "protocol" /\ f.status \in {400, 404, 422, 501}

IsQuotaRefusal(f) == f.says = "quota" /\ f.status = 400

\* A timeout counts as one only without an HTTP status.
IsTimeout(f) == f.says = "timeout" /\ f.status = 0

IsTransient(f) == f.status \in {0, 429} \/ IsServerError(f)

----------------------------------------------------------------------------
(* The curves.  n is the number of consecutive failures, this one included. *)

\* The loop of escalateCooldown: k more doublings of d, none past the ceiling.
Climb[d \in Nat, k \in Nat] ==
    IF k = 0 \/ d >= MaxCooldown THEN d ELSE Climb[2 * d, k - 1]

\* Mutant: one doubling too many.
EscalateTooFar(base, n) ==
    LET d == Climb[base, n] IN
    IF d \in 0..MaxCooldown THEN d ELSE MaxCooldown

\* d \in 0..MaxCooldown: not above the ceiling.
EscalateCooldown(base, n) ==
    LET d == Climb[base, n - 1] IN
    IF d \in 0..MaxCooldown THEN d ELSE MaxCooldown

BaseCooldown(status) ==
    IF status = 504 THEN GatewayTimeoutBase
    ELSE IF status = 404 THEN MissingBase
    ELSE IF status \in {401, 403} THEN AuthBase
    ELSE TransientBase

\* A permanent-looking failure: never less than its own base.
PermanentCooldown(base, n) ==
    IF n >= HardBanAfter THEN HardBan
    ELSE IF n >= SoftBanAfter /\ SoftBan > base THEN SoftBan
    ELSE base

CooldownForError(f, n) ==
    IF IsClientRequestError(f) THEN 0
    ELSE LET base == BaseCooldown(f.status) IN
         IF n <= 1 THEN base
         ELSE IF IsTransient(f) THEN EscalateCooldown(base, n)
                                ELSE PermanentCooldown(base, n)

\* applyCooldown's overrides of the classification above.
Duration(f, n) ==
    IF IsTimeout(f) THEN EscalateCooldown(TimeoutBase, n)
    ELSE IF IsQuotaRefusal(f) THEN EscalateCooldown(BaseCooldown(429), n)
    ELSE IF IsProtocolUnsupported(f) THEN ProtocolBan
    ELSE CooldownForError(f, n)

\* The upstream's Retry-After is a floor, except for a client error.
Floored(f, n, retryAfter) ==
    IF ~IsClientRequestError(f) /\ retryAfter > Duration(f, n)
    THEN retryAfter ELSE Duration(f, n)

\* What applyCooldown adds to the clock.
Backoff(f, n, retryAfter) ==
    LET d == Floored(f, n, retryAfter) IN
    IF f.status = 429 \/ IsServerError(f)
    THEN d + (d * JitterPercent) \div 100 ELSE d

=============================================================================
