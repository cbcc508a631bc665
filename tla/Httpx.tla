------------------------------- MODULE Httpx -------------------------------
(***************************************************************************)
(* The errors of internal/platform/httpx/errors.go that the quote path     *)
(* uses.  An error is its code, its status, the wait it carries, and the   *)
(* classification marker vendor.go wraps around it; wording and cause are  *)
(* left out.                                                               *)
(***************************************************************************)
EXTENDS Naturals

\* "none": neither ErrTransient nor ErrRequestFault is in the chain.
Markers == {"none", "transient", "fault"}

HttpError(code, status) ==
  [code |-> code, status |-> status, marker |-> "none", retryAfter |-> 0]

UpstreamUnavailable == HttpError("UPSTREAM_UNAVAILABLE", 502)
UpstreamContract    == HttpError("UPSTREAM_CONTRACT", 502)
UpstreamTimeout     == HttpError("UPSTREAM_TIMEOUT", 504)

CircuitOpen(wait) ==
  [HttpError("UPSTREAM_CIRCUIT_OPEN", 503) EXCEPT !.retryAfter = wait]

\* A nil error, and the answer of a request that has none yet.
NoError == HttpError("NONE", 200)

\* Validation() and Malformed() alike: both carry details.
ValidationFailed == HttpError("VALIDATION_FAILED", 400)
Unauthenticated  == HttpError("UNAUTHENTICATED", 401)
Forbidden        == HttpError("FORBIDDEN", 403)
Internal         == HttpError("INTERNAL", 500)

\* A response whose body is not the error envelope.
NotAnEnvelope == HttpError("", 404)
=============================================================================
