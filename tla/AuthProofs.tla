----------------------------- MODULE AuthProofs -----------------------------
(***************************************************************************)
(* Theorems about Auth, for any people, any lives of tokens, any leeway and *)
(* any two clocks. An answer speaks of the token, the clocks and the       *)
(* directory it was given for, because every other step withdraws it; what *)
(* remains is arithmetic on what is lost when a date is written down.      *)
(***************************************************************************)
EXTENDS Auth, TLAPS

LEMMA Numbers ==
  /\ Second \in Nat /\ TokenTTL \in Nat /\ ClockSkew \in Nat /\ BFFTimeout \in Nat
  /\ MaxSkew \in Nat /\ Horizon \in Nat /\ Second > 0 /\ BFFTimeout + Second <= TokenTTL
BY AuthAssumption

\* What is left of a number when a date keeps whole seconds only.
LEMMA WholeSeconds ==
  ASSUME NEW x \in Int
  PROVE  /\ x % Second \in Int /\ 0 <= x % Second /\ x % Second < Second
         /\ (x - (x % Second)) % Second = 0
<1>1. Second \in Int /\ Second > 0
  BY Numbers
<1>2. PICK q \in Int : x = Second * q + (x % Second)
  BY <1>1
<1>3. x % Second \in Int /\ 0 <= x % Second /\ x % Second < Second
  BY <1>1
<1>4. PICK d \in Int : d = x - (x % Second)
  BY <1>3
<1>5. d = Second * q
  BY <1>1, <1>2, <1>3, <1>4
<1>6. PICK p \in Int : d = Second * p + (d % Second)
  BY <1>1
<1>7. d % Second \in Int /\ 0 <= d % Second /\ d % Second < Second
  BY <1>1
<1>8. d % Second = Second * (q - p)
  BY <1>1, <1>5, <1>6, <1>7
<1>9. q - p < 1
  BY <1>1, <1>7, <1>8
<1>10. q - p > -1
  BY <1>1, <1>7, <1>8
<1>11. q - p = 0
  BY <1>9, <1>10
<1> QED BY <1>1, <1>3, <1>4, <1>8, <1>11

-----------------------------------------------------------------------------
\* A token's dates: what the two roundings leave of its life.
TokenOK ==
  /\ token \in Token \cup {NoToken}
  /\ token # NoToken =>
       /\ token.ttl - Second < token.exp /\ token.exp <= token.ttl
       /\ -Second < token.iat /\ token.iat <= 0
       /\ (token.exp - token.iat) % Second = 0
  /\ token.by = "bff" => token # NoToken /\ token.subject \in Staff /\ token.ttl = TokenTTL

WorldOK ==
  /\ signedIn \subseteq Staff /\ scopes \in Directories
  /\ phase \in 0..(Second - 1) /\ skew \in -MaxSkew..MaxSkew

\* An answer is the one that the request would be given now.
AnswerOK ==
  /\ answer.status \in {0, 200, 401, 403}
  /\ answer.status = 401 => ~(answer.scheme \in BearerSchemes /\ Verified)
  /\ answer.status \in {200, 403} => token # NoToken /\ Verified
  /\ answer.status = 200 => Authorise

AuthInv == WorldOK /\ TokenOK /\ AnswerOK

LEMMA NoTokenIsNobodys == NoToken \notin Token /\ NoToken.by = "nobody"
BY DEF NoToken, Token

LEMMA Answerless == ASSUME answer' = NoAnswer PROVE AnswerOK'
BY DEF AnswerOK, NoAnswer

LEMMA TokenTypes ==
  ASSUME NEW t \in Token PROVE t.since \in Nat /\ t.exp \in Int /\ t.iat \in Int /\ t.ttl \in Int
<1>1. t.since \in 0..Horizon /\ t.iat \in -Second..0 /\ t.exp \in Int /\ t.ttl \in DevTTLs \cup {TokenTTL}
  BY DEF Token
<1>2. t.since \in Nat /\ t.iat \in Int
  BY <1>1, Numbers
<1>3. t.ttl \in Int
  <2>1. \A ttl \in DevTTLs : ttl \in Int
    BY AuthAssumption
  <2>2. TokenTTL \in Int
    BY Numbers
  <2> QED BY <1>1, <2>1, <2>2
<1> QED BY <1>1, <1>2, <1>3

\* A token of whoever mints.
LEMMA MintedOK ==
  ASSUME WorldOK, NEW by \in {"bff", "devtoken", "another"}, NEW subject \in Subjects,
         NEW requested \in SUBSET {QuoteGenerate}, NEW ttl \in DevTTLs \cup {TokenTTL},
         by = "bff" => subject \in Staff /\ ttl = TokenTTL, New(Minted(by, subject, requested, ttl))
  PROVE  AuthInv'
<1>1. phase \in Int /\ 0 <= phase /\ phase < Second /\ ttl \in Int /\ phase + ttl \in Int
  BY Numbers, AuthAssumption DEF WorldOK
<1>2. PICK x \in Int : x = phase + ttl
  BY <1>1
<1>3. PICK r : r = x % Second
  OBVIOUS
<1>4. r \in Int /\ 0 <= r /\ r < Second /\ (x - r) % Second = 0
  BY <1>2, <1>3, WholeSeconds
<1>5. PICK t : t = Minted(by, subject, requested, ttl)
  OBVIOUS
<1>6. /\ t.by = by /\ t.subject = subject /\ t.ttl = ttl /\ t.iat = -phase /\ t.exp = ttl - r
      /\ t \in Token
  BY <1>1, <1>2, <1>3, <1>4, <1>5, Numbers DEF Minted, Token
<1>7. t.exp - t.iat = x - r /\ t # NoToken
  BY <1>1, <1>2, <1>4, <1>6, NoTokenIsNobodys
<1>8. token' = t /\ UNCHANGED <<signedIn, scopes, phase, skew>> /\ answer' = NoAnswer
  BY <1>5 DEF New
<1>9. TokenOK'
  BY <1>1, <1>4, <1>6, <1>7, <1>8, Numbers DEF TokenOK
<1> QED BY <1>8, <1>9, Answerless DEF AuthInv, WorldOK

LEMMA InitAuth == AuthInit => AuthInv
<1> SUFFICES ASSUME AuthInit PROVE AuthInv
  OBVIOUS
<1>1. WorldOK
  BY DEF AuthInit, WorldOK
<1>2. TokenOK
  BY NoTokenIsNobodys DEF AuthInit, TokenOK
<1>3. AnswerOK
  BY DEF AuthInit, AnswerOK, NoAnswer
<1> QED BY <1>1, <1>2, <1>3 DEF AuthInv

LEMMA AuthStep == AuthInv /\ [AuthNext]_avars => AuthInv'
<1> SUFFICES ASSUME AuthInv, [AuthNext]_avars PROVE AuthInv'
  OBVIOUS
<1>1. WorldOK /\ TokenOK /\ AnswerOK
  BY DEF AuthInv
<1>2. ASSUME NEW s \in Subjects, BFFMints(s) PROVE AuthInv'
  BY <1>1, <1>2, MintedOK DEF BFFMints, WorldOK
<1>3. ASSUME NEW s \in Subjects, ForeignToken(s) PROVE AuthInv'
  BY <1>1, <1>3, MintedOK DEF ForeignToken
<1>4. ASSUME NEW s \in Subjects, NEW requested \in SUBSET {QuoteGenerate}, NEW ttl \in DevTTLs,
             DevTokenMints(s, requested, ttl)
      PROVE  AuthInv'
  BY <1>1, <1>4, MintedOK DEF DevTokenMints
<1>5. ASSUME NEW scheme, Arrive(scheme) PROVE AuthInv'
  <2>1. UNCHANGED <<signedIn, scopes, phase, skew, token>> /\ token # NoToken
    BY <1>5 DEF Arrive
  <2>2. WorldOK' /\ TokenOK'
    BY <1>1, <2>1 DEF WorldOK, TokenOK
  <2>3. (Verified' <=> Verified) /\ (Authorise' <=> Authorise)
    BY <2>1 DEF Verified, InLife, Now, Authorise, Allows, Granted
  <2>4. /\ answer'.scheme = scheme
        /\ answer'.status = IF ~(scheme \in BearerSchemes /\ Verified) THEN 401
                            ELSE IF ~Authorise THEN 403 ELSE 200
    BY <1>5 DEF Arrive
  <2>5. AnswerOK'
    BY <2>1, <2>3, <2>4 DEF AnswerOK, BearerSchemes
  <2> QED BY <2>2, <2>5 DEF AuthInv
<1>6. CASE Forget
  BY <1>1, <1>6, Answerless, NoTokenIsNobodys DEF Forget, New, AuthInv, WorldOK, TokenOK
<1>7. CASE Tick
  <2>1. phase \in Int /\ Second \in Int /\ Second > 0 /\ Horizon \in Nat
    BY <1>1, Numbers DEF WorldOK
  <2>2. phase' \in 0..(Second - 1)
    BY <1>7, <2>1 DEF Tick
  <2>3. WorldOK'
    BY <1>1, <1>7, <2>2 DEF Tick, WorldOK
  <2>4. PICK t : t = token
    OBVIOUS
  <2>5. CASE token # NoToken /\ token.since < Horizon
    <3>1. t \in Token
      BY <1>1, <2>4, <2>5 DEF TokenOK
    <3>2. token' = [t EXCEPT !.since = @ + 1] /\ t.since \in 0..Horizon /\ t.since < Horizon
      BY <1>7, <2>4, <2>5, <3>1 DEF Tick, Token
    <3>3. t.since + 1 \in 0..Horizon
      BY <2>1, <3>2
    <3>4. token' \in Token /\ token'.by = t.by /\ token'.subject = t.subject /\ token'.ttl = t.ttl
          /\ token'.iat = t.iat /\ token'.exp = t.exp
      BY <3>1, <3>2, <3>3 DEF Token
    <3>5. TokenOK'
      BY <1>1, <2>4, <2>5, <3>4, NoTokenIsNobodys DEF TokenOK
    <3> QED BY <1>7, <2>3, <3>5, Answerless DEF AuthInv, Tick
  <2>6. CASE ~(token # NoToken /\ token.since < Horizon)
    <3>1. TokenOK'
      BY <1>1, <1>7, <2>6 DEF Tick, TokenOK
    <3> QED BY <1>7, <2>3, <3>1, Answerless DEF AuthInv, Tick
  <2> QED BY <2>5, <2>6
<1>8. CASE ClockIsSet
  BY <1>1, <1>8, Answerless DEF ClockIsSet, AuthInv, WorldOK, TokenOK
<1>9. CASE MiddlewareRestarts
  BY <1>1, <1>9, Answerless DEF MiddlewareRestarts, AuthInv, WorldOK, TokenOK
<1>10. CASE SessionsChange
  BY <1>1, <1>10, Answerless DEF SessionsChange, AuthInv, WorldOK, TokenOK
<1>11. CASE UNCHANGED avars
  BY <1>1, <1>11 DEF avars, AuthInv, WorldOK, TokenOK, AnswerOK, Verified, InLife, Now, Authorise,
                     Allows, Granted
<1> QED BY <1>2, <1>3, <1>4, <1>5, <1>6, <1>7, <1>8, <1>9, <1>10, <1>11 DEF AuthNext

LEMMA AuthAlways == AuthSpec => []AuthInv
BY InitAuth, AuthStep, PTL DEF AuthSpec

-----------------------------------------------------------------------------
(* Every variable has its type, a token's dates are whole seconds, and what  *)
(* the BFF mints is for people it knows and for its own life (token.go).     *)
THEOREM AuthTypes == AuthSpec => []AuthTypeOK
<1>1. AuthInv => AuthTypeOK
  BY DEF AuthInv, WorldOK, TokenOK, AnswerOK, AuthTypeOK
<1> QED BY <1>1, AuthAlways, PTL

(* However long the BFF waits, up to its timeout, and however the clocks     *)
(* differ, up to the leeway: the Middleware does not answer 401 to a token   *)
(* the BFF minted for that request (token.go, auth.go).                      *)
THEOREM InTime == AuthSpec => []InTimeIsNot401
<1>1. AuthInv => InTimeIsNot401
  <2> SUFFICES ASSUME AuthInv, token.by = "bff", answer.status = 401, answer.scheme \in BearerSchemes,
                      ~(token.since > BFFTimeout), skew \in -ClockSkew..ClockSkew
               PROVE  FALSE
    BY DEF InTimeIsNot401
  <2>1. token \in Token /\ token.subject \in Staff /\ token.ttl = TokenTTL
        /\ token.ttl - Second < token.exp /\ token.iat <= 0
    BY DEF AuthInv, TokenOK
  <2>2. token.since \in Nat /\ token.exp \in Int /\ token.iat \in Int
    BY <2>1, TokenTypes
  <2>3. InLife
    BY <2>1, <2>2, Numbers DEF InLife, Now
  <2>4. Verified
    BY <2>1, <2>3, NamesAssumption DEF Verified
  <2> QED BY <2>4 DEF AuthInv, AnswerOK
<1> QED BY <1>1, AuthAlways, PTL

(* Whoever minted it and however often it is presented: a token is good for  *)
(* no more than its life and the leeway, and for a quote only if the         *)
(* directory the Middleware runs with grants it now (auth.go, entitle.go).   *)
THEOREM ForNoMore == AuthSpec => []GoodForNoMore
<1>1. AuthInv => GoodForNoMore
  <2> SUFFICES ASSUME AuthInv PROVE GoodForNoMore
    OBVIOUS
  <2>1. ASSUME answer.status \in {200, 403}
        PROVE  token.since < token.ttl + ClockSkew - skew /\ -ClockSkew - Second < token.since + skew
    <3>1. token \in Token /\ token.exp <= token.ttl /\ -Second < token.iat /\ InLife
      BY <2>1 DEF AuthInv, TokenOK, AnswerOK, Verified
    <3>2. token.since \in Nat /\ token.exp \in Int /\ token.iat \in Int /\ token.ttl \in Int /\ skew \in Int
      BY <3>1, TokenTypes, Numbers DEF AuthInv, WorldOK
    <3> QED BY <3>1, <3>2, Numbers DEF InLife, Now
  <2>2. ASSUME answer.status = 200
        PROVE  token.subject \in DOMAIN scopes /\ scopes[token.subject] = {QuoteGenerate}
    <3>1. QuoteGenerate \in Granted(token.subject)
      BY <2>2 DEF AuthInv, AnswerOK, Authorise, Allows
    <3>2. token.subject \in DOMAIN scopes /\ QuoteGenerate \in scopes[token.subject]
      BY <3>1 DEF Granted
    <3>3. PICK known \in SUBSET Staff : scopes \in [known -> SUBSET {QuoteGenerate}]
      BY DEF AuthInv, WorldOK, Directories
    <3> QED BY <3>2, <3>3
  <2> QED BY <2>1, <2>2 DEF GoodForNoMore
<1> QED BY <1>1, AuthAlways, PTL
=============================================================================
