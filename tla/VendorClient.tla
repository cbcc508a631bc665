---------------------------- MODULE VendorClient ----------------------------
(***************************************************************************)
(* How one call to the vendor is classified:                               *)
(* internal/cqappmiddleware/vendor.go.  The call itself (what the vendor   *)
(* and the network do) is in Retrier; here is what VendorClient makes of   *)
(* each way it can end.                                                    *)
(***************************************************************************)
EXTENDS Httpx

\* The statuses translate() tells apart; 500 stands for every other one.
VendorStatuses == {201, 429, 502, 503, 504, 401, 403, 400, 500}

Transient(e)    == [e EXCEPT !.marker = "transient"]
RequestFault(e) == [e EXCEPT !.marker = "fault"]

\* transportError(): the deadline is looked for first, in the error or in the
\* request's context, so an expired context decides whatever the error was.
TransportError(cause, ctxExpired) ==
  IF cause = "deadline" \/ ctxExpired THEN Transient(UpstreamTimeout)
  ELSE IF cause = "canceled" THEN UpstreamTimeout
  ELSE Transient(UpstreamUnavailable)

\* decode(): only a body that reads and parses whole is a quote.
Decode(bodyUsable) == IF bodyUsable THEN NoError ELSE UpstreamContract

\* Mutant: a 500 is repeated like every other 5xx.
TranslateRetrying500(status, wait, bodyUsable) ==
  CASE status = 201               -> Decode(bodyUsable)
    [] status = 429               -> Transient([UpstreamUnavailable EXCEPT !.retryAfter = wait])
    [] status >= 500              -> Transient(UpstreamUnavailable)
    [] status = 400               -> RequestFault(UpstreamContract)
    [] OTHER                      -> UpstreamUnavailable

\* translate(); wait is the vendor's Retry-After, zero when it sent none.
Translate(status, wait, bodyUsable) ==
  CASE status = 201               -> Decode(bodyUsable)
    [] status = 429               -> Transient([UpstreamUnavailable EXCEPT !.retryAfter = wait])
    [] status \in {502, 503, 504} -> Transient(UpstreamUnavailable)
    [] status \in {401, 403}      -> UpstreamUnavailable
    [] status = 400               -> RequestFault(UpstreamContract)
    [] OTHER                      -> UpstreamUnavailable
=============================================================================
