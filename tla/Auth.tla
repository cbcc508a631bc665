-------------------------------- MODULE Auth --------------------------------
(***************************************************************************)
(* Who may have a quote: the token the BFF mints for each request          *)
(* (platform/authtoken), which the Middleware checks by its own clock       *)
(* (auth.go), and the directory it asks what the subject may do             *)
(* (entitle.go, staffdir.go). cmd/devtoken mints tokens of any subject,     *)
(* scope and life with the same key.                                       *)
(*                                                                         *)
(* Instants are ticks of the BFF's clock, counted from when the token was   *)
(* minted; a second has Second of them, because a token's dates are whole  *)
(* seconds. The Middleware's clock is ahead by skew, which may jump. A      *)
(* token says nothing of the others, so there is one at a time.            *)
(***************************************************************************)
EXTENDS Integers

CONSTANTS
  Staff,
  Second,      \* ticks
  TokenTTL,    \* BFF_TOKEN_TTL
  DevTTLs,     \* -ttl of devtoken
  ClockSkew,   \* MIDDLEWARE_CLOCK_SKEW, the verifier's leeway
  BFFTimeout,  \* for how long the BFF waits for the Middleware
  MaxSkew,     \* how far the clocks are ever apart
  Horizon      \* tokens are not told apart that are older

\* BFFTimeout + Second <= TokenTTL: 8 s and 1 s of 60 s. Load does not check it.
ASSUME AuthAssumption ==
  /\ {Second, TokenTTL, ClockSkew, BFFTimeout, MaxSkew, Horizon} \subseteq Nat
  /\ Second > 0 /\ BFFTimeout + Second <= TokenTTL
  /\ DevTTLs \subseteq Int
  /\ \A ttl \in DevTTLs \cup {TokenTTL} : ttl + ClockSkew + MaxSkew < Horizon

VARIABLES
  signedIn,  \* people the BFF has sessions of
  scopes,    \* the Middleware's directory: what each person in it is granted
  phase,     \* the BFF's clock within its second
  skew,      \* the Middleware's clock minus the BFF's
  token,     \* the token, or none
  answer     \* what the Middleware made of a request with it, until the next step

avars == <<signedIn, scopes, phase, skew, token, answer>>

QuoteGenerate == "quote:generate"

Stranger == "stranger"
NoSubject == "blank"
Subjects == Staff \cup {Stranger, NoSubject}

ASSUME NamesAssumption == {Stranger, NoSubject} \cap Staff = {}

NoToken == [by |-> "nobody"]
NoAnswer == [status |-> 0]

Directories == UNION {[known -> SUBSET {QuoteGenerate}] : known \in SUBSET Staff}

AuthInit ==
  /\ signedIn \in SUBSET Staff
  /\ scopes \in Directories
  /\ phase \in 0..(Second - 1)
  /\ skew \in -MaxSkew..MaxSkew
  /\ token = NoToken
  /\ answer = NoAnswer

-----------------------------------------------------------------------------
(* Minting. *)

\* Mutant: the dates keep their fractions.
MintedToTheTick(by, subject, requested, ttl) ==
  [by |-> by, subject |-> subject, scope |-> requested, ttl |-> ttl, since |-> 0,
   iat |-> 0, exp |-> ttl]

\* NewNumericDate keeps the whole seconds of now and of now + ttl.
Minted(by, subject, requested, ttl) ==
  [by |-> by, subject |-> subject, scope |-> requested, ttl |-> ttl, since |-> 0,
   iat |-> -phase, exp |-> ttl - ((phase + ttl) % Second)]

New(t) ==
  /\ token' = t
  /\ answer' = NoAnswer
  /\ UNCHANGED <<signedIn, scopes, phase, skew>>

\* MiddlewareClient.Quote, for whoever is signed in.
BFFMints(s) ==
  /\ token = NoToken /\ s \in signedIn
  /\ New(Minted("bff", s, {QuoteGenerate}, TokenTTL))

\* devtoken -sub -scope -ttl; without -sub it takes somebody entitled.
DevTokenMints(s, requested, ttl) ==
  /\ token = NoToken
  /\ New(Minted("devtoken", s, requested, ttl))

\* A token of another key, algorithm, issuer or audience.
ForeignToken(s) ==
  /\ token = NoToken
  /\ New(Minted("another", s, {QuoteGenerate}, TokenTTL))

Forget == token # NoToken /\ New(NoToken)

-----------------------------------------------------------------------------
(* The Middleware: Authenticate, then Authorise. *)

\* Its clock, counted as the token's dates are.
Now == token.since + skew

\* Mutant: the leeway is allowed for the end of the life only.
InLifeNoLeewayAtStart == Now < token.exp + ClockSkew /\ Now >= token.iat

\* Mutant: nobody looks at the end.
InLifeForEver == Now >= token.iat - ClockSkew

\* jwt's validator with WithLeeway, WithExpirationRequired and WithIssuedAt.
InLife == Now < token.exp + ClockSkew /\ Now >= token.iat - ClockSkew

\* bearerToken: the scheme in any case, and something after it.
BearerSchemes == {"Bearer", "bearer"}

Verified == token.by \in {"bff", "devtoken"} /\ InLife /\ token.subject # NoSubject

\* Granted: whoever is not in the directory holds nothing.
Granted(s) == IF s \in DOMAIN scopes THEN scopes[s] ELSE {}

Allows(s, scope) == scope \in Granted(s)

\* Both are required: that the token asks, and that the directory grants.
Authorise == QuoteGenerate \in token.scope /\ Allows(token.subject, QuoteGenerate)

\* 401 for whoever has not established who they are, 403 for whoever has and may
\* not; 200 stands for the handler behind both.
Arrive(scheme) ==
  /\ token # NoToken
  /\ answer' = [status |-> IF ~(scheme \in BearerSchemes /\ Verified) THEN 401
                           ELSE IF ~Authorise THEN 403 ELSE 200,
                scheme |-> scheme]
  /\ UNCHANGED <<signedIn, scopes, phase, skew, token>>

-----------------------------------------------------------------------------
(* What happens around them. *)

Tick ==
  /\ phase' = (phase + 1) % Second
  /\ token' = IF token # NoToken /\ token.since < Horizon
              THEN [token EXCEPT !.since = @ + 1] ELSE token
  /\ answer' = NoAnswer
  /\ UNCHANGED <<signedIn, scopes, skew>>

\* Either clock is set.
ClockIsSet ==
  /\ skew' \in -MaxSkew..MaxSkew
  /\ answer' = NoAnswer
  /\ UNCHANGED <<signedIn, scopes, phase, token>>

\* The directory is edited and the Middleware started again; a run of the BFF
\* ends with its sessions.
MiddlewareRestarts ==
  /\ scopes' \in Directories
  /\ answer' = NoAnswer
  /\ UNCHANGED <<signedIn, phase, skew, token>>

SessionsChange ==
  /\ signedIn' \in SUBSET Staff
  /\ answer' = NoAnswer
  /\ UNCHANGED <<scopes, phase, skew, token>>

AuthNext ==
  \/ \E s \in Subjects :
       \/ BFFMints(s) \/ ForeignToken(s)
       \/ \E requested \in SUBSET {QuoteGenerate}, ttl \in DevTTLs : DevTokenMints(s, requested, ttl)
  \/ \E scheme \in BearerSchemes \cup {"Basic", "none"} : Arrive(scheme)
  \/ Forget \/ Tick \/ ClockIsSet \/ MiddlewareRestarts \/ SessionsChange

AuthSpec == AuthInit /\ [][AuthNext]_avars

-----------------------------------------------------------------------------
Token ==
  [by : {"bff", "devtoken", "another"}, subject : Subjects, scope : SUBSET {QuoteGenerate},
   ttl : DevTTLs \cup {TokenTTL}, since : 0..Horizon, iat : -Second..0, exp : Int]

(* Every variable has its type, a token's dates are whole seconds, and the   *)
(* BFF mints for people it knows, for its own life.                        *)
AuthTypeOK ==
  /\ signedIn \subseteq Staff
  /\ scopes \in Directories
  /\ phase \in 0..(Second - 1)
  /\ skew \in -MaxSkew..MaxSkew
  /\ token \in Token \cup {NoToken}
  /\ token # NoToken => (token.exp - token.iat) % Second = 0
  /\ token.by = "bff" => token.subject \in Staff /\ token.ttl = TokenTTL
  /\ answer.status \in {0, 200, 401, 403}

(* A request whose answer the BFF still waits for, and whose clocks differ   *)
(* by no more than the leeway, is not taken for an anonymous one: neither   *)
(* by an issued-at in the future nor by an end of life that lost up to a    *)
(* second when it was written down (token.go:90-91, 100).                  *)
InTimeIsNot401 ==
  token.by = "bff" /\ answer.status = 401 /\ answer.scheme \in BearerSchemes =>
    token.since > BFFTimeout \/ skew \notin -ClockSkew..ClockSkew

(* What a token is good for is bounded twice. In time, by its life, the       *)
(* leeway and what the clocks differ, however they are set in between and  *)
(* however often it is presented, nor is it good before it is minted by    *)
(* more than a second. And by the directory the Middleware runs with: what *)
(* was granted when it was minted, or what it asks, grants nothing         *)
(* (contract.md:397-400).                                                  *)
GoodForNoMore ==
  /\ answer.status \in {200, 403} =>
       /\ token.since < token.ttl + ClockSkew - skew
       /\ -ClockSkew - Second < token.since + skew
  /\ answer.status = 200 =>
       token.subject \in DOMAIN scopes /\ scopes[token.subject] = {QuoteGenerate}
=============================================================================
