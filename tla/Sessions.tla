------------------------------ MODULE Sessions ------------------------------
(***************************************************************************)
(* Sign in, sign out and who a quote belongs to: the session store and the *)
(* handlers of the BFF (internal/cqappbff), the browser's cookie, and what *)
(* the web app (web/src/App.tsx) shows in each of its tabs.                *)
(*                                                                         *)
(* A call of the web app carries the cookie the browser held when it was   *)
(* sent. It is handled by the BFF, which takes the store's lock once per   *)
(* operation: a sign out looks the session up and deletes it in two steps, *)
(* and a quote spends the time of the Middleware's answer between its      *)
(* session check and its response. The response's headers change the       *)
(* cookie, then the tab's code continues. Calls overtake each other, and a *)
(* connection can break at any time, which the BFF does not notice.        *)
(***************************************************************************)
EXTENDS FiniteSets, Integers

CONSTANTS
  Tabs,      \* tabs of one browser
  Staff,     \* people with a credential
  Ids,       \* session ids: 256 random bits, so each is issued once
  Calls,     \* calls of the web app that can be under way at once
  SessionTTL \* ticks

ASSUME SessionsAssumption == IsFiniteSet(Ids) /\ SessionTTL \in Nat

VARIABLES
  byID,      \* SessionStore.byID: who each stored session is of
  left,      \* ticks to the session's ExpiresAt
  cookie,    \* the browser's cq_session
  screen,    \* of each tab: "closed", "loading" or "ready"
  staff,     \* App's staff, of each tab
  quote,     \* Quoting's quote: whose token it was made with
  forbidden, \* tabs that show NotEntitled
  calls,     \* the calls under way
  issued,    \* history: ids handed out
  signedOut  \* history: ids whose sign out the BFF has carried out

server == <<byID, left, issued, signedOut>>
tabs   == <<screen, staff, quote, forbidden>>
svars  == <<server, cookie, tabs, calls>>

Nobody == "nobody"
NoId   == "noId"

ASSUME NotNames == Nobody \notin Staff /\ NoId \notin Ids

\* A slot with no call in it.
NoCall == [phase |-> "none"]

SessionsInit ==
  /\ byID = [id \in {} |-> Nobody]
  /\ left = [id \in Ids |-> 0]
  /\ cookie = NoId
  /\ screen = [t \in Tabs |-> "closed"]
  /\ staff = [t \in Tabs |-> Nobody]
  /\ quote = [t \in Tabs |-> Nobody]
  /\ forbidden = {}
  /\ calls = [c \in Calls |-> NoCall]
  /\ issued = {}
  /\ signedOut = {}

Underway == {c \in Calls : calls[c].phase # "none"}

\* The calls a tab still listens to.
Awaited(t) == {c \in Underway : calls[c].tab = t /\ calls[c].awaited}

-----------------------------------------------------------------------------
(* The session store. *)

Live(id) == id \in DOMAIN byID /\ left[id] > 0

Without(id) == [i \in DOMAIN byID \ {id} |-> byID[i]]

\* Get: an expired session is removed, not returned.
Get(id) == byID' = IF id \in DOMAIN byID /\ left[id] = 0 THEN Without(id) ELSE byID

Create(id, s) ==
  /\ id \notin issued
  /\ issued' = issued \cup {id}
  /\ byID' = [i \in DOMAIN byID \cup {id} |-> IF i = id THEN s ELSE byID[i]]
  /\ left' = [left EXCEPT ![id] = SessionTTL]

\* Mutant: only the cookie is cleared.
DeleteNothing(id) == UNCHANGED <<byID, left>>

Delete(id) ==
  /\ byID' = Without(id)
  /\ left' = [left EXCEPT ![id] = 0]

Expire ==
  /\ \E id \in Ids : left[id] > 0
  /\ left' = [id \in Ids |-> IF left[id] > 0 THEN left[id] - 1 ELSE 0]
  /\ UNCHANGED <<byID, issued, signedOut, cookie, tabs, calls>>

-----------------------------------------------------------------------------
(* The web app: what a tab sends. *)

\* fetch(): the cookie is attached now; who is the identity typed in, if any.
Send(c, t, kind, who) ==
  /\ c \notin Underway
  /\ calls' = [calls EXCEPT ![c] =
       [phase |-> "sent", kind |-> kind, tab |-> t, who |-> who, id |-> cookie,
        result |-> "ok", awaited |-> TRUE, mounted |-> kind = "quote"]]
  /\ UNCHANGED <<server, cookie>>

\* App mounts and asks who is signed in.
Load(c, t) ==
  /\ screen[t] = "closed"
  /\ screen' = [screen EXCEPT ![t] = "loading"]
  /\ Send(c, t, "load", Nobody)
  /\ UNCHANGED <<staff, quote, forbidden>>

\* Mutant: the button stays enabled.
SubmitSignInAgain(c, t, s) ==
  /\ screen[t] = "ready" /\ staff[t] = Nobody
  /\ Send(c, t, "signIn", s)
  /\ UNCHANGED tabs

\* SignIn's submit; its button is disabled while one is under way.
SubmitSignIn(c, t, s) ==
  /\ screen[t] = "ready" /\ staff[t] = Nobody
  /\ \A d \in Awaited(t) : calls[d].kind # "signIn"
  /\ Send(c, t, "signIn", s)
  /\ UNCHANGED tabs

\* The Sign out button stays enabled while it works.
ClickSignOut(c, t) ==
  /\ staff[t] # Nobody
  /\ Send(c, t, "signOut", Nobody)
  /\ UNCHANGED tabs

\* Quoting's submit, with an input that validates.
SubmitQuote(c, t) ==
  /\ staff[t] # Nobody /\ quote[t] = Nobody /\ t \notin forbidden
  /\ \A d \in Awaited(t) : ~calls[d].mounted
  /\ Send(c, t, "quote", Nobody)
  /\ UNCHANGED tabs

\* QuoteSummary's onEdit.
Edit(t) ==
  /\ quote[t] # Nobody
  /\ quote' = [quote EXCEPT ![t] = Nobody]
  /\ UNCHANGED <<server, cookie, screen, staff, forbidden, calls>>

-----------------------------------------------------------------------------
(* The BFF's handlers. *)

Sent(c, kind) == calls[c].phase = "sent" /\ calls[c].kind = kind
Working(c, kind) == calls[c].phase = "working" /\ calls[c].kind = kind

OwnerOf(id) == IF Live(id) THEN byID[id] ELSE Nobody

\* The handler writes its response, to whoever still listens.
Answer(c, who, result) ==
  calls' = [calls EXCEPT ![c] =
    IF calls[c].awaited
    THEN [calls[c] EXCEPT !.phase = "answered", !.who = who, !.result = result] ELSE NoCall]

Work(c, who) == calls' = [calls EXCEPT ![c].phase = "working", ![c].who = who]

CurrentSession(c) ==
  /\ Sent(c, "load")
  /\ Get(calls[c].id)
  /\ Answer(c, OwnerOf(calls[c].id), IF Live(calls[c].id) THEN "ok" ELSE "unauthenticated")
  /\ UNCHANGED <<left, issued, signedOut, cookie, tabs>>

\* Authenticate accepts the credential and a session starts.
SignInAccepted(c, id) ==
  /\ Sent(c, "signIn")
  /\ Create(id, calls[c].who)
  /\ calls' = [calls EXCEPT ![c] =
       IF calls[c].awaited THEN [calls[c] EXCEPT !.phase = "answered", !.id = id] ELSE NoCall]
  /\ UNCHANGED <<signedOut, cookie, tabs>>

\* refuse().
SignInRefused(c) ==
  /\ Sent(c, "signIn")
  /\ Answer(c, Nobody, "unauthenticated")
  /\ UNCHANGED <<server, cookie, tabs>>

\* SignOut: Get under the lock, then Delete under the lock again.
SignOutFinds(c) ==
  /\ Sent(c, "signOut")
  /\ Get(calls[c].id)
  /\ IF Live(calls[c].id) THEN Work(c, Nobody) ELSE Answer(c, Nobody, "ok")
  /\ UNCHANGED <<left, issued, signedOut, cookie, tabs>>

SignOutDeletes(c) ==
  /\ Working(c, "signOut")
  /\ Delete(calls[c].id)
  /\ signedOut' = signedOut \cup {calls[c].id}
  /\ Answer(c, Nobody, "ok")
  /\ UNCHANGED <<issued, cookie, tabs>>

\* Quote: the session check, and the token minted for its owner.
QuoteChecked(c) ==
  /\ Sent(c, "quote")
  /\ Get(calls[c].id)
  /\ IF Live(calls[c].id) THEN Work(c, byID[calls[c].id]) ELSE Answer(c, Nobody, "unauthenticated")
  /\ UNCHANGED <<left, issued, signedOut, cookie, tabs>>

\* The Middleware's answer: a quote, a 403, or a failure of any other kind. A
\* 401 of the Middleware is one of those (quotes.go:129).
QuoteAnswered(c) ==
  /\ Working(c, "quote")
  /\ \E result \in {"ok", "forbidden", "failure"} : Answer(c, calls[c].who, result)
  /\ UNCHANGED <<server, cookie, tabs>>

\* A process that restarts has lost the sessions and the work in hand.
Restart ==
  /\ DOMAIN byID # {}
  /\ byID' = [id \in {} |-> Nobody]
  /\ left' = [id \in Ids |-> 0]
  /\ calls' = [c \in Calls |->
       IF calls[c].phase # "working" THEN calls[c]
       ELSE IF calls[c].awaited THEN [calls[c] EXCEPT !.phase = "dead"] ELSE NoCall]
  /\ UNCHANGED <<issued, signedOut, cookie, tabs>>

-----------------------------------------------------------------------------
(* The web app: what a tab does with the end of a call. *)

\* Set-Cookie takes effect with the headers, before the tab's code runs.
Headers(c) ==
  /\ calls[c].phase = "answered"
  /\ calls' = [calls EXCEPT ![c].phase = "received"]
  /\ cookie' = CASE calls[c].kind = "signOut" -> NoId
                 [] calls[c].kind = "signIn" /\ calls[c].result = "ok" -> calls[c].id
                 [] OTHER -> cookie
  /\ UNCHANGED <<server, tabs>>

Received(c, t, kind) ==
  calls[c].phase = "received" /\ calls[c].kind = kind /\ calls[c].tab = t

\* The call is over and t's components stay as they are.
End(c) == calls' = [calls EXCEPT ![c] = NoCall]

\* setStaff(s) where SignIn or nothing was shown.
ShowStaff(t, s) ==
  /\ staff' = [staff EXCEPT ![t] = s]
  /\ UNCHANGED <<quote, forbidden>>

\* What the BFF still has of a call whose connection is gone: it carries on
\* with one that is on its way or in hand.
Remainder(c) == IF calls[c].phase \in {"sent", "working"}
                THEN [calls[c] EXCEPT !.awaited = FALSE, !.mounted = FALSE] ELSE NoCall

\* Mutant: Quoting's state is kept for the next person.
ClearStaffOnly(c, t, rest) ==
  /\ staff' = [staff EXCEPT ![t] = Nobody]
  /\ calls' = [calls EXCEPT ![c] = rest]
  /\ UNCHANGED <<quote, forbidden>>

\* setStaff(null) as c ends: Quoting is unmounted, its state gone, and its
\* calls left with no component to tell.
ClearStaff(c, t, rest) ==
  /\ staff' = [staff EXCEPT ![t] = Nobody]
  /\ quote' = [quote EXCEPT ![t] = Nobody]
  /\ forbidden' = forbidden \ {t}
  /\ calls' = [d \in Calls |->
       IF d = c THEN rest
       ELSE IF d \in Awaited(t) /\ staff[t] # Nobody THEN [calls[d] EXCEPT !.mounted = FALSE]
       ELSE calls[d]]

\* .then(setStaff).catch(() => setStaff(null)).finally(...)
Loaded(c, t) ==
  /\ Received(c, t, "load")
  /\ screen' = [screen EXCEPT ![t] = "ready"]
  /\ ShowStaff(t, calls[c].who)
  /\ End(c)
  /\ UNCHANGED <<server, cookie>>

\* onSignedIn, or the banner.
SignedIn(c, t) ==
  /\ Received(c, t, "signIn")
  /\ ShowStaff(t, calls[c].who)
  /\ End(c)
  /\ UNCHANGED <<server, cookie, screen>>

\* signOut().finally(() => setStaff(null)): answered or broken.
SignedOut(c, t) ==
  /\ c \in Awaited(t) /\ calls[c].kind = "signOut"
  /\ \/ Received(c, t, "signOut") /\ ClearStaff(c, t, NoCall)
     \/ calls[c].phase # "received" /\ ClearStaff(c, t, Remainder(c))
  /\ UNCHANGED <<server, cookie, screen>>

\* Mutant: a quote is shown to whoever is there to see it.
ShowAnyQuote(c, t) == quote' = [quote EXCEPT ![t] = calls[c].who]

\* A setState of a Quoting that is gone does nothing.
ShowQuote(c, t) ==
  quote' = IF calls[c].mounted THEN [quote EXCEPT ![t] = calls[c].who] ELSE quote

Quoted(c, t) ==
  /\ Received(c, t, "quote") /\ calls[c].result = "ok"
  /\ ShowQuote(c, t)
  /\ End(c)
  /\ UNCHANGED <<server, cookie, screen, staff, forbidden>>

\* handle(): UNAUTHENTICATED calls onSessionLost, which is App's and works
\* whether or not the Quoting that sent the call is still there.
SessionLost(c, t) ==
  /\ Received(c, t, "quote") /\ calls[c].result = "unauthenticated"
  /\ ClearStaff(c, t, NoCall)
  /\ UNCHANGED <<server, cookie, screen>>

NotQuoted(c, t) ==
  /\ Received(c, t, "quote") /\ calls[c].result \in {"forbidden", "failure"}
  /\ forbidden' = IF calls[c].mounted /\ calls[c].result = "forbidden"
                  THEN forbidden \cup {t} ELSE forbidden
  /\ End(c)
  /\ UNCHANGED <<server, cookie, screen, staff, quote>>

\* The connection breaks, or the body is lost: a banner or nothing in either
\* form, and the sign in form for a tab that was loading.
Broken(c, t) ==
  /\ c \in Awaited(t) /\ calls[c].kind # "signOut"
  /\ screen' = [screen EXCEPT ![t] = "ready"]
  /\ calls' = [calls EXCEPT ![c] = Remainder(c)]
  /\ UNCHANGED <<server, cookie, staff, quote, forbidden>>

\* A request nobody waits for may never reach the BFF.
NeverArrives(c) ==
  /\ calls[c].phase = "sent" /\ ~calls[c].awaited
  /\ calls' = [calls EXCEPT ![c] = NoCall]
  /\ UNCHANGED <<server, cookie, tabs>>

\* The tab is closed or reloaded: its state and its calls are dropped.
Close(t) ==
  /\ screen[t] # "closed"
  /\ screen' = [screen EXCEPT ![t] = "closed"]
  /\ staff' = [staff EXCEPT ![t] = Nobody]
  /\ quote' = [quote EXCEPT ![t] = Nobody]
  /\ forbidden' = forbidden \ {t}
  /\ calls' = [c \in Calls |-> IF c \in Awaited(t) THEN Remainder(c) ELSE calls[c]]
  /\ UNCHANGED <<server, cookie>>

Clicks(c, t) ==
  \/ Load(c, t) \/ ClickSignOut(c, t) \/ SubmitQuote(c, t)
  \/ \E s \in Staff : SubmitSignIn(c, t, s)

Handles(c) ==
  \/ CurrentSession(c) \/ SignInRefused(c) \/ SignOutFinds(c) \/ SignOutDeletes(c)
  \/ QuoteChecked(c) \/ QuoteAnswered(c)
  \/ \E id \in Ids : SignInAccepted(c, id)

Continues(c, t) ==
  \/ Loaded(c, t) \/ SignedIn(c, t) \/ SignedOut(c, t) \/ Quoted(c, t)
  \/ SessionLost(c, t) \/ NotQuoted(c, t) \/ Broken(c, t)

SessionsNext ==
  \/ Expire \/ Restart
  \/ \E c \in Calls : Handles(c) \/ Headers(c) \/ NeverArrives(c)
  \/ \E t \in Tabs : Edit(t) \/ Close(t)
  \/ \E c \in Calls, t \in Tabs : Clicks(c, t) \/ Continues(c, t)

SessionsSpec == SessionsInit /\ [][SessionsNext]_svars

-----------------------------------------------------------------------------
SomeCall ==
  [phase : {"sent", "working", "answered", "received", "dead"},
   kind : {"load", "signIn", "signOut", "quote"}, tab : Tabs, who : Staff \cup {Nobody},
   id : Ids \cup {NoId}, result : {"ok", "unauthenticated", "forbidden", "failure"},
   awaited : BOOLEAN, mounted : BOOLEAN]

(* Every variable has its type; nothing is shown in a tab that is not ready, *)
(* and no stored session outlives its TTL.                                   *)
SessionsTypeOK ==
  /\ DOMAIN byID \subseteq issued
  /\ \A id \in DOMAIN byID : byID[id] \in Staff
  /\ left \in [Ids -> 0..SessionTTL]
  /\ cookie \in issued \cup {NoId}
  /\ screen \in [Tabs -> {"closed", "loading", "ready"}]
  /\ {staff, quote} \subseteq [Tabs -> Staff \cup {Nobody}]
  /\ \A t \in Tabs : screen[t] # "ready" => staff[t] = Nobody
  /\ forbidden \subseteq {t \in Tabs : staff[t] # Nobody}
  /\ \A c \in Calls : calls[c] \in SomeCall \cup {NoCall}
  /\ issued \subseteq Ids
  /\ signedOut \subseteq issued

(* Once the BFF has carried a sign out out, a copy of the cookie is of no    *)
(* use, whatever was under way when it did (session.go:74-75).               *)
SignOutInvalidates == signedOut \cap DOMAIN byID = {}

(* In a browser with one tab, the person the tab names is the one the BFF    *)
(* takes the browser for, unless the session is over: sign ins, sign outs,   *)
(* reloads and late answers in any order do not cross two people.            *)
OwnSession ==
  \A t \in Tabs : staff[t] # Nobody /\ Live(cookie) => byID[cookie] = staff[t]

(* The quote under "Signed in as" was made for that person, not for whoever  *)
(* used the tab before (QuoteSummary.tsx:19).                                *)
QuoteIsOwn == \A t \in Tabs : quote[t] # Nobody => quote[t] = staff[t]

(* "Your session has expired. Sign in again." (contract.md:204): a tab whose *)
(* quote is answered UNAUTHENTICATED leaves a session that is over.          *)
ExpiredMeansExpired ==
  [][\A c \in Calls, t \in Tabs :
       SessionLost(c, t) /\ staff[t] # Nobody
         => ~(Live(cookie) /\ byID[cookie] = staff[t])]_svars
=============================================================================
