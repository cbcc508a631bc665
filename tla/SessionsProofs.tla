--------------------------- MODULE SessionsProofs ---------------------------
(***************************************************************************)
(* Theorems about Sessions, for any number of people, session ids and calls *)
(* under way and any lifetime of a session; what is said of the person a   *)
(* tab names is said of a browser with one tab.                            *)
(*                                                                         *)
(* Two invariants carry them. The first says of every call what the tab it *)
(* belongs to can look like: a tab that loads waits for one answer only, a  *)
(* tab that somebody is signed in on waits for no sign in, and a Quoting   *)
(* that is mounted has somebody signed in above it. The second follows a   *)
(* name from the session's owner through the answers to the tab.           *)
(***************************************************************************)
EXTENDS Sessions, TLAPS

-----------------------------------------------------------------------------
(* What a call and its tab have to do with each other.                       *)

StoreOK ==
  /\ DOMAIN byID \subseteq issued
  /\ \A id \in DOMAIN byID : byID[id] \in Staff
  /\ left \in [Ids -> 0..SessionTTL]
  /\ cookie \in issued \cup {NoId}
  /\ issued \subseteq Ids /\ signedOut \subseteq issued

ScreensOK ==
  /\ screen \in [Tabs -> {"closed", "loading", "ready"}]
  /\ staff \in [Tabs -> Staff \cup {Nobody}] /\ quote \in [Tabs -> Staff \cup {Nobody}]
  /\ \A t \in Tabs : screen[t] # "ready" => staff[t] = Nobody
  /\ forbidden \subseteq {t \in Tabs : staff[t] # Nobody}

\* What can be said of a call by itself.
CallOK(k) ==
  /\ k \in SomeCall
  /\ k.id \in issued \cup {NoId}
  /\ k.phase = "working" => k.id \in issued /\ k.kind \in {"signOut", "quote"}
  /\ k.phase \in {"answered", "received", "dead"} => k.awaited
  /\ k.kind = "signIn" => k.phase # "working" /\ (k.phase = "sent" => k.who \in Staff)
  /\ k.mounted => k.kind = "quote" /\ k.awaited

\* And of its tab.
TabOK(k) ==
  /\ k.awaited /\ k.kind = "load" => screen[k.tab] = "loading"
  /\ k.awaited /\ k.kind # "load" => screen[k.tab] = "ready"
  /\ k.awaited /\ k.kind = "signIn" => staff[k.tab] = Nobody
  /\ k.mounted => staff[k.tab] # Nobody

\* A tab waits for one load at a time, and for one sign in.
Rivals(j, k) ==
  /\ j.awaited /\ k.awaited /\ j.tab = k.tab
  /\ j.kind = k.kind /\ k.kind \in {"load", "signIn"}

CallsOK ==
  /\ calls \in [Calls -> SomeCall \cup {NoCall}]
  /\ \A c \in Underway : CallOK(calls[c]) /\ TabOK(calls[c])
  /\ \A c, d \in Underway : Rivals(calls[c], calls[d]) => c = d

TabsInv == StoreOK /\ ScreensOK /\ CallsOK

LEMMA TabsInvTypes == TabsInv => SessionsTypeOK
BY DEF TabsInv, StoreOK, ScreensOK, CallsOK, SessionsTypeOK

LEMMA NoCallIsNone == NoCall.phase = "none" /\ NoCall \notin SomeCall
BY DEF NoCall, SomeCall

LEMMA UnderwayIs == ASSUME CallsOK PROVE \A c \in Calls : c \in Underway <=> calls[c] # NoCall
BY NoCallIsNone DEF CallsOK, Underway, SomeCall, NoCall

LEMMA InitTabs == SessionsInit => TabsInv
<1> SUFFICES ASSUME SessionsInit PROVE TabsInv
  OBVIOUS
<1>1. StoreOK
  BY SessionsAssumption DEF SessionsInit, StoreOK
<1>2. ScreensOK
  BY DEF SessionsInit, ScreensOK
<1>3. CallsOK
  BY NoCallIsNone DEF SessionsInit, CallsOK, Underway
<1> QED BY <1>1, <1>2, <1>3 DEF TabsInv

-----------------------------------------------------------------------------
(* One call goes on while its tab stays as it is.                            *)

\* k continues the call c.
Advances(c, k) ==
  k # NoCall =>
    /\ c \in Underway
    /\ k.kind = calls[c].kind /\ k.tab = calls[c].tab
    /\ k.awaited => calls[c].awaited
    /\ k.mounted => calls[c].mounted

LEMMA CallsAdvance ==
  ASSUME CallsOK, NEW c \in Calls, NEW k, calls' = [calls EXCEPT ![c] = k],
         UNCHANGED <<screen, staff>>, issued \subseteq issued', Advances(c, k), k # NoCall => CallOK(k)'
  PROVE  CallsOK'
<1>1. calls' \in [Calls -> SomeCall \cup {NoCall}] /\ calls'[c] = k
  BY DEF CallsOK, CallOK
<1>2. \A d \in Calls : d # c => calls'[d] = calls[d]
  BY DEF CallsOK
<1>3. \A d \in Underway' : d # c => d \in Underway
  BY <1>2 DEF Underway
<1>4. c \in Underway' => k # NoCall
  BY <1>1, NoCallIsNone DEF Underway
<1>5. ASSUME NEW d \in Underway' PROVE CallOK(calls[d])' /\ TabOK(calls[d])'
  <2>1. CASE d = c
    <3>1. TabOK(k)
      BY <1>4, <2>1 DEF Advances, CallsOK, TabOK
    <3> QED BY <1>1, <1>4, <2>1, <3>1 DEF TabOK, CallOK
  <2>2. CASE d # c
    <3>1. d \in Underway /\ d \in Calls /\ calls'[d] = calls[d]
      BY <1>2, <1>3, <2>2 DEF Underway
    <3>2. CallOK(calls[d]) /\ TabOK(calls[d])
      BY <3>1 DEF CallsOK
    <3> QED BY <3>1, <3>2 DEF CallOK, TabOK
  <2> QED BY <2>1, <2>2
<1>6. ASSUME NEW d \in Underway', NEW e \in Underway', Rivals(calls'[d], calls'[e]) PROVE d = e
  <2>1. d \in Underway /\ e \in Underway /\ d \in Calls /\ e \in Calls
    BY <1>3, <1>4 DEF Advances, Underway
  <2>2. Rivals(calls[d], calls[e])
    BY <1>1, <1>2, <1>4, <1>6, <2>1 DEF Advances, Rivals
  <2> QED BY <2>1, <2>2 DEF CallsOK
<1> QED BY <1>1, <1>5, <1>6 DEF CallsOK

\* What becomes of a call as its handler goes on: what the tab put in it stays.
Handled(j, k) ==
  /\ k.kind = j.kind /\ k.tab = j.tab /\ k.id = j.id
  /\ k.awaited = j.awaited /\ k.mounted = j.mounted

Results == {"ok", "unauthenticated", "forbidden", "failure"}

Answered(j, who, result) == [j EXCEPT !.phase = "answered", !.who = who, !.result = result]

Worked(j, who) == [j EXCEPT !.phase = "working", !.who = who]

LEMMA AnsweredCall ==
  ASSUME NEW j \in SomeCall, NEW who \in Staff \cup {Nobody},
         NEW result \in Results,
         NEW k, k = Answered(j, who, result)
  PROVE  k \in SomeCall /\ Handled(j, k) /\ k.phase = "answered" /\ k.who = who /\ k.result = result
BY DEF SomeCall, Handled, Answered, Results

LEMMA WorkedCall ==
  ASSUME NEW j \in SomeCall, NEW who \in Staff \cup {Nobody}, NEW k, k = Worked(j, who)
  PROVE  k \in SomeCall /\ Handled(j, k) /\ k.phase = "working" /\ k.who = who /\ k.result = j.result
BY DEF SomeCall, Handled, Worked

LEMMA UnderwayCall == ASSUME CallsOK, NEW c \in Underway
                      PROVE  c \in Calls /\ calls[c] \in SomeCall /\ CallOK(calls[c]) /\ TabOK(calls[c])
BY DEF CallsOK, CallOK, Underway

LEMMA AnswerKeeps ==
  ASSUME CallsOK, UNCHANGED tabs, issued \subseteq issued', NEW c \in Underway,
         NEW who \in Staff \cup {Nobody},
         NEW result \in Results,
         Answer(c, who, result)
  PROVE  CallsOK'
<1>1. c \in Calls /\ calls[c] \in SomeCall /\ CallOK(calls[c])
  BY UnderwayCall
<1>2. PICK j : j = calls[c]
  OBVIOUS
<1>3. PICK k : k = Answered(j, who, result)
  OBVIOUS
<1>4. PICK n : n = IF j.awaited THEN k ELSE NoCall
  OBVIOUS
<1>5. k \in SomeCall /\ Handled(j, k) /\ k.phase = "answered"
  BY <1>1, <1>2, <1>3, AnsweredCall
<1>6. calls' = [calls EXCEPT ![c] = n]
  BY <1>2, <1>3, <1>4 DEF Answer, Answered
<1>7. Advances(c, n)
  BY <1>2, <1>4, <1>5 DEF Advances, Handled
<1>8. n # NoCall => CallOK(n)'
  BY <1>1, <1>2, <1>4, <1>5 DEF CallOK, Handled
<1> QED BY <1>1, <1>6, <1>7, <1>8, CallsAdvance DEF tabs

LEMMA WorkKeeps ==
  ASSUME CallsOK, UNCHANGED tabs, issued \subseteq issued', NEW c \in Underway,
         NEW who \in Staff \cup {Nobody}, Work(c, who),
         calls[c].kind \in {"signOut", "quote"}, calls[c].id \in issued
  PROVE  CallsOK'
<1>1. c \in Calls /\ calls[c] \in SomeCall /\ CallOK(calls[c])
  BY UnderwayCall
<1>2. PICK j : j = calls[c]
  OBVIOUS
<1>3. PICK k : k = Worked(j, who)
  OBVIOUS
<1>4. k \in SomeCall /\ Handled(j, k) /\ k.phase = "working"
  BY <1>1, <1>2, <1>3, WorkedCall
<1>5. calls' = [calls EXCEPT ![c] = k]
  BY <1>1, <1>2, <1>3 DEF Work, Worked, CallsOK
<1>6. CallOK(k)' /\ Advances(c, k)
  BY <1>1, <1>2, <1>4 DEF CallOK, Handled, Advances
<1> QED BY <1>1, <1>5, <1>6, CallsAdvance DEF tabs

\* A call that is over.
LEMMA EndWithin ==
  ASSUME CallsOK, UNCHANGED <<screen, staff, issued>>, NEW c \in Calls,
         calls' = [calls EXCEPT ![c] = NoCall]
  PROVE  CallsOK'
BY CallsAdvance DEF Advances

LEMMA ScreensStay == ASSUME ScreensOK, UNCHANGED tabs PROVE ScreensOK'
BY DEF ScreensOK, tabs

\* Who a stored session is of.
LEMMA OwnerIsStaff ==
  ASSUME StoreOK, NEW id PROVE OwnerOf(id) \in Staff \cup {Nobody} /\ (Live(id) => byID[id] \in Staff)
BY DEF StoreOK, OwnerOf, Live

LEMMA GetKeeps ==
  ASSUME StoreOK, NEW id, Get(id), UNCHANGED <<left, issued, signedOut, cookie>> PROVE StoreOK'
BY DEF StoreOK, Get, Without

-----------------------------------------------------------------------------
(* The handlers of the BFF.                                                  *)

LEMMA HandlesKeep == ASSUME TabsInv, NEW c \in Calls, Handles(c) PROVE TabsInv'
<1>1. StoreOK /\ ScreensOK /\ CallsOK
  BY DEF TabsInv
<1>2. UNCHANGED tabs
  BY DEF Handles, CurrentSession, SignInRefused, SignOutFinds, SignOutDeletes, QuoteChecked,
         QuoteAnswered, SignInAccepted
<1>3. ScreensOK'
  BY <1>1, <1>2, ScreensStay
<1>4. c \in Underway
  BY DEF Handles, CurrentSession, SignInRefused, SignOutFinds, SignOutDeletes, QuoteChecked,
         QuoteAnswered, SignInAccepted, Sent, Working, Underway
<1>5. calls[c] \in SomeCall /\ CallOK(calls[c])
  BY <1>1, <1>4, UnderwayCall
<1>6. CASE CurrentSession(c)
  <2>1. StoreOK'
    BY <1>1, <1>6, GetKeeps DEF CurrentSession
  <2>2. CallsOK'
    BY <1>1, <1>2, <1>4, <1>6, OwnerIsStaff, AnswerKeeps DEF CurrentSession, Results
  <2> QED BY <1>3, <2>1, <2>2 DEF TabsInv
<1>7. CASE SignInRefused(c)
  <2>1. StoreOK'
    BY <1>1, <1>7 DEF SignInRefused, StoreOK, server
  <2>2. CallsOK'
    BY <1>1, <1>2, <1>4, <1>7, AnswerKeeps DEF SignInRefused, Results, server
  <2> QED BY <1>3, <2>1, <2>2 DEF TabsInv
<1>8. CASE SignOutFinds(c)
  <2>1. StoreOK'
    BY <1>1, <1>8, GetKeeps DEF SignOutFinds
  <2>2. CallsOK'
    <3>1. CASE Live(calls[c].id)
      BY <1>1, <1>2, <1>4, <1>8, <3>1, WorkKeeps DEF SignOutFinds, Sent, Live, StoreOK
    <3>2. CASE ~Live(calls[c].id)
      BY <1>1, <1>2, <1>4, <1>8, <3>2, AnswerKeeps DEF SignOutFinds, Results
    <3> QED BY <3>1, <3>2
  <2> QED BY <1>3, <2>1, <2>2 DEF TabsInv
<1>9. CASE SignOutDeletes(c)
  <2>1. StoreOK'
    BY <1>1, <1>5, <1>9, SessionsAssumption
       DEF SignOutDeletes, Working, CallOK, StoreOK, Delete, Without
  <2>2. CallsOK'
    BY <1>1, <1>2, <1>4, <1>9, AnswerKeeps DEF SignOutDeletes, Results
  <2> QED BY <1>3, <2>1, <2>2 DEF TabsInv
<1>10. CASE QuoteChecked(c)
  <2>1. StoreOK'
    BY <1>1, <1>10, GetKeeps DEF QuoteChecked
  <2>2. CallsOK'
    <3>1. CASE Live(calls[c].id)
      BY <1>1, <1>2, <1>4, <1>10, <3>1, OwnerIsStaff, WorkKeeps DEF QuoteChecked, Sent, Live, StoreOK
    <3>2. CASE ~Live(calls[c].id)
      BY <1>1, <1>2, <1>4, <1>10, <3>2, AnswerKeeps DEF QuoteChecked, Results
    <3> QED BY <3>1, <3>2
  <2> QED BY <1>3, <2>1, <2>2 DEF TabsInv
<1>11. CASE QuoteAnswered(c)
  <2>1. StoreOK'
    BY <1>1, <1>11 DEF QuoteAnswered, StoreOK, server
  <2>2. calls[c].who \in Staff \cup {Nobody}
    BY <1>5 DEF SomeCall
  <2>3. PICK result \in {"ok", "forbidden", "failure"} : Answer(c, calls[c].who, result)
    BY <1>11 DEF QuoteAnswered
  <2>4. result \in Results
    BY DEF Results
  <2>5. CallsOK'
    BY <1>1, <1>2, <1>4, <1>11, <2>2, <2>3, <2>4, AnswerKeeps DEF QuoteAnswered, server
  <2> QED BY <1>3, <2>1, <2>5 DEF TabsInv
<1>12. CASE \E id \in Ids : SignInAccepted(c, id)
  <2>1. PICK id \in Ids : SignInAccepted(c, id)
    BY <1>12
  <2>2. calls[c].kind = "signIn" /\ calls[c].who \in Staff
    BY <1>5, <2>1 DEF SignInAccepted, Sent, CallOK
  <2>3. StoreOK'
    BY <1>1, <2>1, <2>2, SessionsAssumption DEF SignInAccepted, Create, StoreOK
  <2>4. PICK j : j = calls[c]
    OBVIOUS
  <2>5. PICK k : k = [j EXCEPT !.phase = "answered", !.id = id]
    OBVIOUS
  <2>6. PICK n : n = IF j.awaited THEN k ELSE NoCall
    OBVIOUS
  <2>7. k \in SomeCall /\ k.phase = "answered" /\ k.kind = j.kind /\ k.tab = j.tab /\ k.id = id
        /\ k.awaited = j.awaited /\ k.mounted = j.mounted
    BY <1>5, <2>4, <2>5 DEF SomeCall
  <2>8. CallOK(k)' \/ ~j.awaited
    BY <1>5, <2>1, <2>2, <2>4, <2>7 DEF CallOK, SignInAccepted, Create
  <2>9. Advances(c, n)
    BY <1>4, <2>4, <2>6, <2>7 DEF Advances
  <2>10. calls' = [calls EXCEPT ![c] = n]
    BY <2>1, <2>4, <2>5, <2>6 DEF SignInAccepted
  <2>11. issued \subseteq issued'
    BY <2>1 DEF SignInAccepted, Create
  <2>12. CallsOK'
    BY <1>1, <1>2, <2>6, <2>8, <2>9, <2>10, <2>11, CallsAdvance DEF tabs
  <2> QED BY <1>3, <2>3, <2>12 DEF TabsInv
<1> QED BY <1>6, <1>7, <1>8, <1>9, <1>10, <1>11, <1>12 DEF Handles

-----------------------------------------------------------------------------
(* The tabs.                                                                 *)

\* Several calls go on, and a tab with them.
LEMMA CallsContinue ==
  ASSUME CallsOK, calls' \in [Calls -> SomeCall \cup {NoCall}],
         \A c \in Underway' : Advances(c, calls'[c]) /\ CallOK(calls[c])' /\ TabOK(calls[c])'
  PROVE  CallsOK'
<1>1. ASSUME NEW c \in Underway' PROVE calls'[c] # NoCall /\ c \in Underway
  BY <1>1, NoCallIsNone DEF Advances, Underway
<1>2. ASSUME NEW c \in Underway', NEW d \in Underway', Rivals(calls'[c], calls'[d]) PROVE c = d
  <2>1. Rivals(calls[c], calls[d])
    BY <1>1, <1>2 DEF Advances, Rivals
  <2> QED BY <1>1, <2>1 DEF CallsOK
<1> QED BY <1>2 DEF CallsOK

\* A tab that loads, and one whose sign in is under way, waits for nothing of the kind besides.
LEMMA Alone ==
  ASSUME CallsOK, NEW c \in Underway, NEW d \in Underway, d # c,
         calls[c].awaited, calls[c].kind \in {"load", "signIn"}, calls[d].tab = calls[c].tab
  PROVE  /\ calls[d].awaited => calls[c].kind = "signIn" /\ calls[d].kind \in {"signOut", "quote"}
         /\ ~calls[d].mounted
<1>1. CallOK(calls[d]) /\ TabOK(calls[d]) /\ TabOK(calls[c]) /\ calls[d] \in SomeCall
  BY UnderwayCall
<1>2. ~Rivals(calls[c], calls[d])
  BY DEF CallsOK
<1> QED BY <1>1, <1>2 DEF CallOK, TabOK, Rivals, SomeCall

LEMMA NewCall ==
  ASSUME CallsOK, NEW c \in Calls, NEW t \in Tabs, NEW kind, NEW who, Send(c, t, kind, who),
         kind \in {"load", "signIn", "signOut", "quote"}, who \in Staff \cup {Nobody},
         kind = "signIn" => who \in Staff, cookie \in issued \cup {NoId}, issued \subseteq Ids
  PROVE  /\ calls' \in [Calls -> SomeCall \cup {NoCall}]
         /\ c \notin Underway /\ CallOK(calls[c])'
         /\ calls'[c].tab = t /\ calls'[c].kind = kind /\ calls'[c].awaited
         /\ calls'[c].phase = "sent" /\ calls'[c].id = cookie /\ calls'[c].result = "ok"
         /\ calls'[c].mounted <=> kind = "quote"
         /\ \A d \in Underway' : d # c => d \in Underway /\ calls'[d] = calls[d]
         /\ UNCHANGED <<byID, left, issued, signedOut, cookie>>
<1>1. PICK k : k = [phase |-> "sent", kind |-> kind, tab |-> t, who |-> who, id |-> cookie,
                    result |-> "ok", awaited |-> TRUE, mounted |-> kind = "quote"]
  OBVIOUS
<1>2. k \in SomeCall /\ k.phase = "sent" /\ k.kind = kind /\ k.tab = t /\ k.who = who /\ k.id = cookie
      /\ k.result = "ok" /\ k.awaited /\ (k.mounted <=> kind = "quote")
  BY <1>1 DEF SomeCall
<1>3. calls' = [calls EXCEPT ![c] = k] /\ c \notin Underway
  BY <1>1 DEF Send
<1>4. UNCHANGED <<byID, left, issued, signedOut, cookie>>
  BY DEF Send, server
<1>5. CallOK(k)'
  BY <1>2, <1>4 DEF CallOK
<1>6. calls' \in [Calls -> SomeCall \cup {NoCall}] /\ calls'[c] = k
  BY <1>2, <1>3 DEF CallsOK
<1>7. \A d \in Underway' : d # c => d \in Underway /\ calls'[d] = calls[d]
  BY <1>3 DEF Underway, CallsOK
<1> QED BY <1>2, <1>3, <1>4, <1>5, <1>6, <1>7

LEMMA ClicksKeep == ASSUME TabsInv, NEW c \in Calls, NEW t \in Tabs, Clicks(c, t) PROVE TabsInv'
<1>1. StoreOK /\ ScreensOK /\ CallsOK
  BY DEF TabsInv
<1>2. cookie \in issued \cup {NoId} /\ issued \subseteq Ids
  BY <1>1 DEF StoreOK
<1>3. ASSUME UNCHANGED <<byID, left, issued, signedOut, cookie>> PROVE StoreOK'
  BY <1>1, <1>3 DEF StoreOK
<1>4. CASE Load(c, t)
  <2>1. Send(c, t, "load", Nobody)
    BY <1>4 DEF Load
  <2>2. ScreensOK'
    BY <1>1, <1>4 DEF Load, ScreensOK
  <2>3. \A d \in Underway : calls[d].tab = t => ~calls[d].awaited /\ ~calls[d].mounted
    BY <1>1, <1>4, UnderwayCall DEF Load, TabOK, CallOK
  <2>4. \A d \in Underway : TabOK(calls[d])
    BY <1>1, UnderwayCall
  <2>5. \A d \in Underway' : CallOK(calls[d])' /\ TabOK(calls[d])'
    BY <1>1, <1>2, <1>4, <2>1, <2>3, <2>4, NewCall, UnderwayCall DEF Load, CallOK, TabOK, ScreensOK
  <2>6. ASSUME NEW d \in Underway', NEW e \in Underway', Rivals(calls'[d], calls'[e]) PROVE d = e
    BY <1>1, <1>2, <2>1, <2>3, <2>6, NewCall DEF Rivals, CallsOK
  <2>7. CallsOK'
    BY <1>1, <1>2, <2>1, <2>5, <2>6, NewCall DEF CallsOK
  <2> QED BY <1>1, <1>2, <1>3, <2>1, <2>2, <2>7, NewCall DEF TabsInv
<1>5. CASE ClickSignOut(c, t)
  <2>1. Send(c, t, "signOut", Nobody) /\ UNCHANGED tabs
    BY <1>5 DEF ClickSignOut
  <2>2. screen[t] = "ready" /\ staff[t] # Nobody
    BY <1>1, <1>5 DEF ClickSignOut, ScreensOK
  <2>3. \A d \in Underway : TabOK(calls[d])
    BY <1>1, UnderwayCall
  <2>4. \A d \in Underway' : CallOK(calls[d])' /\ TabOK(calls[d])'
    BY <1>1, <1>2, <2>1, <2>2, <2>3, NewCall, UnderwayCall DEF CallOK, TabOK, tabs
  <2>5. ASSUME NEW d \in Underway', NEW e \in Underway', Rivals(calls'[d], calls'[e]) PROVE d = e
    BY <1>1, <1>2, <2>1, <2>5, NewCall DEF Rivals, CallsOK
  <2>6. CallsOK'
    BY <1>1, <1>2, <2>1, <2>4, <2>5, NewCall DEF CallsOK
  <2> QED BY <1>1, <1>2, <1>3, <2>1, <2>6, NewCall, ScreensStay DEF TabsInv
<1>6. CASE SubmitQuote(c, t)
  <2>1. Send(c, t, "quote", Nobody) /\ UNCHANGED tabs
    BY <1>6 DEF SubmitQuote
  <2>2. screen[t] = "ready" /\ staff[t] # Nobody
    BY <1>1, <1>6 DEF SubmitQuote, ScreensOK
  <2>3. \A d \in Underway : TabOK(calls[d])
    BY <1>1, UnderwayCall
  <2>4. \A d \in Underway' : CallOK(calls[d])' /\ TabOK(calls[d])'
    BY <1>1, <1>2, <2>1, <2>2, <2>3, NewCall, UnderwayCall DEF CallOK, TabOK, tabs
  <2>5. ASSUME NEW d \in Underway', NEW e \in Underway', Rivals(calls'[d], calls'[e]) PROVE d = e
    BY <1>1, <1>2, <2>1, <2>5, NewCall DEF Rivals, CallsOK
  <2>6. CallsOK'
    BY <1>1, <1>2, <2>1, <2>4, <2>5, NewCall DEF CallsOK
  <2> QED BY <1>1, <1>2, <1>3, <2>1, <2>6, NewCall, ScreensStay DEF TabsInv
<1>7. CASE \E s \in Staff : SubmitSignIn(c, t, s)
  <2>1. PICK s \in Staff : SubmitSignIn(c, t, s)
    BY <1>7
  <2>2. Send(c, t, "signIn", s) /\ UNCHANGED tabs
    BY <2>1 DEF SubmitSignIn
  <2>3. screen[t] = "ready" /\ staff[t] = Nobody
    BY <2>1 DEF SubmitSignIn
  <2>4. \A d \in Underway : calls[d].tab = t /\ calls[d].awaited => calls[d].kind # "signIn"
    BY <2>1 DEF SubmitSignIn, Awaited
  <2>5. \A d \in Underway : TabOK(calls[d])
    BY <1>1, UnderwayCall
  <2>6. \A d \in Underway' : CallOK(calls[d])' /\ TabOK(calls[d])'
    BY <1>1, <1>2, <2>2, <2>3, <2>5, NewCall, UnderwayCall DEF CallOK, TabOK, tabs
  <2>7. ASSUME NEW d \in Underway', NEW e \in Underway', Rivals(calls'[d], calls'[e]) PROVE d = e
    BY <1>1, <1>2, <2>2, <2>4, <2>7, NewCall DEF Rivals, CallsOK
  <2>8. CallsOK'
    BY <1>1, <1>2, <2>2, <2>6, <2>7, NewCall DEF CallsOK
  <2> QED BY <1>1, <1>2, <1>3, <2>2, <2>8, NewCall, ScreensStay DEF TabsInv
<1> QED BY <1>4, <1>5, <1>6, <1>7 DEF Clicks

\* A call of which nothing is new but that nobody listens, or that it is dead.
Weakens(j, k) ==
  /\ k.kind = j.kind /\ k.tab = j.tab /\ k.who = j.who /\ k.id = j.id /\ k.result = j.result
  /\ k.phase \in {j.phase, "dead"}
  /\ k.awaited => j.awaited
  /\ k.mounted => j.mounted

\* A call whose connection is gone.
LEMMA RemainderCall ==
  ASSUME CallsOK, NEW c \in Underway, NEW k, k = Remainder(c)
  PROVE  /\ k \in SomeCall \cup {NoCall} /\ Advances(c, k)
         /\ k # NoCall => CallOK(k) /\ ~k.awaited /\ ~k.mounted /\ Weakens(calls[c], k)
<1>1. PICK j : j = calls[c]
  OBVIOUS
<1>2. j \in SomeCall /\ CallOK(j)
  BY <1>1, UnderwayCall
<1>3. PICK r : r = [j EXCEPT !.awaited = FALSE, !.mounted = FALSE]
  OBVIOUS
<1>4. k = IF j.phase \in {"sent", "working"} THEN r ELSE NoCall
  BY <1>1, <1>3 DEF Remainder
<1>5. r \in SomeCall /\ r.kind = j.kind /\ r.tab = j.tab /\ r.who = j.who /\ r.id = j.id
      /\ r.phase = j.phase /\ r.result = j.result /\ ~r.awaited /\ ~r.mounted
  BY <1>2, <1>3 DEF SomeCall
<1>6. j.phase \in {"sent", "working"} => CallOK(r)
  BY <1>2, <1>5 DEF CallOK
<1>7. Advances(c, r)
  BY <1>1, <1>5 DEF Advances
<1>8. Weakens(calls[c], r)
  BY <1>1, <1>5 DEF Weakens
<1> QED BY <1>4, <1>5, <1>6, <1>7, <1>8 DEF Advances

\* A call that Quoting sent and that Quoting no longer hears.
LEMMA UnmountedCall ==
  ASSUME CallsOK, NEW c \in Underway, NEW k, k = [calls[c] EXCEPT !.mounted = FALSE]
  PROVE  /\ k \in SomeCall /\ Advances(c, k) /\ CallOK(k)
         /\ Weakens(calls[c], k) /\ ~k.mounted /\ k.awaited = calls[c].awaited
<1>1. PICK j : j = calls[c]
  OBVIOUS
<1>2. j \in SomeCall /\ CallOK(j)
  BY <1>1, UnderwayCall
<1>3. k \in SomeCall /\ k.kind = j.kind /\ k.tab = j.tab /\ k.who = j.who /\ k.id = j.id
      /\ k.phase = j.phase /\ k.result = j.result /\ k.awaited = j.awaited /\ ~k.mounted
  BY <1>1, <1>2 DEF SomeCall
<1> QED BY <1>1, <1>2, <1>3 DEF Advances, CallOK, Weakens

\* setStaff(null): the tab names nobody, and no call of its Quoting is listened to.
LEMMA ClearStaffKeeps ==
  ASSUME ScreensOK, CallsOK, NEW t \in Tabs, NEW c \in Awaited(t), NEW rest,
         rest = NoCall \/ rest = Remainder(c), screen[t] = "ready",
         ClearStaff(c, t, rest), UNCHANGED <<issued, screen>>
  PROVE  ScreensOK' /\ CallsOK'
<1>1. c \in Underway /\ c \in Calls
  BY DEF Awaited, Underway
<1>2. ScreensOK'
  BY DEF ScreensOK, ClearStaff
<1>3. rest \in SomeCall \cup {NoCall} /\ Advances(c, rest) /\ (rest # NoCall => CallOK(rest) /\ ~rest.awaited /\ ~rest.mounted)
  BY <1>1, RemainderCall DEF Advances
<1>4. calls'[c] = rest
  BY <1>1 DEF ClearStaff
<1>5. ASSUME NEW d \in Calls, d # c
      PROVE  /\ calls'[d] \in SomeCall \cup {NoCall}
             /\ calls'[d] # NoCall =>
                  /\ d \in Underway /\ Advances(d, calls'[d]) /\ CallOK(calls'[d])
                  /\ calls'[d].awaited = calls[d].awaited
                  /\ calls[d].tab = t => ~calls'[d].mounted
  <2>1. CASE d \in Awaited(t) /\ staff[t] # Nobody
    <3>1. calls'[d] = [calls[d] EXCEPT !.mounted = FALSE] /\ d \in Underway
      BY <1>5, <2>1 DEF ClearStaff, Awaited
    <3> QED BY <3>1, UnmountedCall
  <2>2. CASE ~(d \in Awaited(t) /\ staff[t] # Nobody)
    <3>1. calls'[d] = calls[d]
      BY <1>5, <2>2 DEF ClearStaff
    <3>2. CASE d \in Underway
      <4>1. calls[d] \in SomeCall /\ CallOK(calls[d]) /\ TabOK(calls[d])
        BY <3>2, UnderwayCall
      <4>2. calls[d].tab = t => ~calls[d].mounted
        BY <2>2, <3>2, <4>1 DEF Awaited, CallOK, TabOK
      <4> QED BY <3>1, <3>2, <4>1, <4>2 DEF Advances
    <3>3. CASE d \notin Underway
      BY <3>1, <3>3, UnderwayIs
    <3> QED BY <3>2, <3>3
  <2> QED BY <2>1, <2>2
<1>6. calls' \in [Calls -> SomeCall \cup {NoCall}]
  <2>1. calls' = [d \in Calls |-> calls'[d]]
    BY DEF ClearStaff
  <2>2. \A d \in Calls : calls'[d] \in SomeCall \cup {NoCall}
    BY <1>3, <1>4, <1>5
  <2> QED BY <2>1, <2>2
<1>7. ASSUME NEW d \in Underway' PROVE Advances(d, calls'[d]) /\ CallOK(calls[d])' /\ TabOK(calls[d])'
  <2>1. d \in Calls /\ calls'[d] # NoCall
    BY <1>7, NoCallIsNone DEF Underway
  <2>2. Advances(d, calls'[d]) /\ CallOK(calls'[d]) /\ d \in Underway
    BY <1>1, <1>3, <1>4, <1>5, <2>1
  <2>3. TabOK(calls[d])
    BY <2>2, UnderwayCall
  <2>4. staff'[t] = Nobody /\ \A u \in Tabs : u # t => staff'[u] = staff[u]
    BY DEF ClearStaff, ScreensOK
  <2>5. calls'[d].tab \in Tabs /\ calls'[d].tab = calls[d].tab
    BY <2>1, <2>2, <1>6 DEF CallOK, Advances, SomeCall
  <2>6. calls'[d].mounted => calls'[d].tab # t
    BY <1>3, <1>4, <1>5, <2>1, <2>5
  <2>7. TabOK(calls[d])'
    BY <2>1, <2>2, <2>3, <2>4, <2>5, <2>6 DEF TabOK, Advances
  <2> QED BY <2>2, <2>7 DEF CallOK
<1>8. CallsOK'
  BY <1>6, <1>7, CallsContinue
<1> QED BY <1>2, <1>8

\* setStaff(s) as the only answer the tab waited for arrives.
LEMMA ShowStaffKeeps ==
  ASSUME ScreensOK, CallsOK, NEW t \in Tabs, NEW c \in Underway, NEW s \in Staff \cup {Nobody},
         calls[c].awaited, calls[c].tab = t, calls[c].kind \in {"load", "signIn"},
         End(c), ShowStaff(t, s), screen' = [screen EXCEPT ![t] = "ready"], UNCHANGED issued
  PROVE  ScreensOK' /\ CallsOK'
<1>1. c \in Calls /\ TabOK(calls[c])
  BY UnderwayCall
<1>2. forbidden \subseteq Tabs \ {t}
  BY <1>1 DEF TabOK, ScreensOK
<1>3. ScreensOK'
  BY <1>2 DEF ScreensOK, ShowStaff
<1>4. calls' \in [Calls -> SomeCall \cup {NoCall}] /\ calls'[c] = NoCall
  BY <1>1 DEF CallsOK, End
<1>5. ASSUME NEW d \in Underway' PROVE d # c /\ d \in Underway /\ calls'[d] = calls[d]
  BY <1>4, NoCallIsNone DEF End, Underway, CallsOK
<1>6. ASSUME NEW d \in Underway' PROVE Advances(d, calls'[d]) /\ CallOK(calls[d])' /\ TabOK(calls[d])'
  <2>1. calls[d] \in SomeCall /\ CallOK(calls[d]) /\ TabOK(calls[d])
    BY <1>5, UnderwayCall
  <2>2. calls[d].tab = t => ~calls[d].mounted /\ (calls[d].awaited => calls[d].kind \in {"signOut", "quote"})
    BY <1>5, Alone
  <2>3. calls[d].tab # t => staff'[calls[d].tab] = staff[calls[d].tab]
                          /\ screen'[calls[d].tab] = screen[calls[d].tab]
    BY <2>1 DEF ShowStaff, ScreensOK, SomeCall
  <2>4. screen'[t] = "ready"
    BY DEF ScreensOK
  <2>5. TabOK(calls[d])'
    BY <1>5, <2>1, <2>2, <2>3, <2>4 DEF TabOK
  <2> QED BY <1>5, <2>1, <2>5 DEF Advances, CallOK
<1>7. CallsOK'
  BY <1>4, <1>6, CallsContinue
<1> QED BY <1>3, <1>7

LEMMA ContinuesKeep == ASSUME TabsInv, NEW c \in Calls, NEW t \in Tabs, Continues(c, t) PROVE TabsInv'
<1>1. StoreOK /\ ScreensOK /\ CallsOK
  BY DEF TabsInv
<1>2. c \in Underway /\ calls[c].tab = t /\ calls[c].awaited
  <2>1. c \in Underway /\ calls[c].tab = t
    BY DEF Continues, Loaded, SignedIn, SignedOut, Quoted, SessionLost, NotQuoted, Broken, Received,
           Awaited, Underway
  <2>2. calls[c].phase = "received" => calls[c].awaited
    BY <1>1, <2>1, UnderwayCall DEF CallOK
  <2> QED BY <2>1, <2>2 DEF Continues, Loaded, SignedIn, SignedOut, Quoted, SessionLost, NotQuoted,
                            Broken, Received, Awaited
<1>3. calls[c] \in SomeCall /\ CallOK(calls[c]) /\ TabOK(calls[c]) /\ c \in Awaited(t)
  BY <1>1, <1>2, UnderwayCall DEF Awaited
<1>4. UNCHANGED <<byID, left, issued, signedOut, cookie>>
  BY DEF Continues, Loaded, SignedIn, SignedOut, Quoted, SessionLost, NotQuoted, Broken, server
<1>5. StoreOK'
  BY <1>1, <1>4 DEF StoreOK
<1>6. CASE Loaded(c, t)
  <2>1. calls[c].who \in Staff \cup {Nobody} /\ calls[c].kind = "load"
    BY <1>3, <1>6 DEF Loaded, Received, SomeCall
  <2>2. ScreensOK' /\ CallsOK'
    BY <1>1, <1>2, <1>4, <1>6, <2>1, ShowStaffKeeps DEF Loaded
  <2> QED BY <1>5, <2>2 DEF TabsInv
<1>7. CASE SignedIn(c, t)
  <2>1. calls[c].who \in Staff \cup {Nobody} /\ calls[c].kind = "signIn"
    BY <1>3, <1>7 DEF SignedIn, Received, SomeCall
  <2>2. screen' = [screen EXCEPT ![t] = "ready"]
    BY <1>1, <1>2, <1>3, <1>7, <2>1 DEF SignedIn, TabOK, ScreensOK
  <2>3. ScreensOK' /\ CallsOK'
    BY <1>1, <1>2, <1>4, <1>7, <2>1, <2>2, ShowStaffKeeps DEF SignedIn
  <2> QED BY <1>5, <2>3 DEF TabsInv
<1>8. CASE SignedOut(c, t)
  <2>1. screen[t] = "ready"
    BY <1>2, <1>3, <1>8 DEF SignedOut, TabOK
  <2>2. ScreensOK' /\ CallsOK'
    BY <1>1, <1>3, <1>4, <1>8, <2>1, ClearStaffKeeps DEF SignedOut
  <2> QED BY <1>5, <2>2 DEF TabsInv
<1>9. CASE SessionLost(c, t)
  <2>1. screen[t] = "ready"
    BY <1>2, <1>3, <1>9 DEF SessionLost, Received, TabOK
  <2>2. ScreensOK' /\ CallsOK'
    BY <1>1, <1>3, <1>4, <1>9, <2>1, ClearStaffKeeps DEF SessionLost
  <2> QED BY <1>5, <2>2 DEF TabsInv
<1>10. CASE Quoted(c, t)
  <2>1. calls[c].who \in Staff \cup {Nobody}
    BY <1>3 DEF SomeCall
  <2>2. ScreensOK'
    BY <1>1, <1>10, <2>1 DEF Quoted, ShowQuote, ScreensOK
  <2>3. calls' = [calls EXCEPT ![c] = NoCall] /\ UNCHANGED <<screen, staff>>
    BY <1>10 DEF Quoted, End
  <2>4. CallsOK'
    BY <1>1, <1>4, <2>3, EndWithin
  <2> QED BY <1>5, <2>2, <2>4 DEF TabsInv
<1>11. CASE NotQuoted(c, t)
  <2>1. calls[c].mounted => staff[t] # Nobody
    BY <1>2, <1>3 DEF TabOK
  <2>2. ScreensOK'
    BY <1>1, <1>11, <2>1 DEF NotQuoted, ScreensOK
  <2>3. calls' = [calls EXCEPT ![c] = NoCall] /\ UNCHANGED <<screen, staff>>
    BY <1>11 DEF NotQuoted, End
  <2>4. CallsOK'
    BY <1>1, <1>4, <2>3, EndWithin
  <2> QED BY <1>5, <2>2, <2>4 DEF TabsInv
<1>12. CASE Broken(c, t)
  <2>1. ScreensOK'
    BY <1>1, <1>12 DEF Broken, ScreensOK
  <2>2. PICK k : k = Remainder(c)
    OBVIOUS
  <2>3. k \in SomeCall \cup {NoCall} /\ Advances(c, k) /\ (k # NoCall => CallOK(k) /\ ~k.awaited /\ ~k.mounted)
    BY <1>1, <1>2, <2>2, RemainderCall
  <2>4. calls' = [calls EXCEPT ![c] = k] /\ screen' = [screen EXCEPT ![t] = "ready"] /\ UNCHANGED staff
    BY <1>12, <2>2 DEF Broken
  <2>5. calls' \in [Calls -> SomeCall \cup {NoCall}] /\ calls'[c] = k
    BY <1>1, <2>3, <2>4 DEF CallsOK
  <2>6. ASSUME NEW d \in Underway'
        PROVE  Advances(d, calls'[d]) /\ CallOK(calls[d])' /\ TabOK(calls[d])'
    <3>1. CASE d = c
      <4>1. k # NoCall
        BY <2>5, <2>6, <3>1, NoCallIsNone DEF Underway
      <4>2. TabOK(calls[d])'
        BY <2>3, <2>5, <3>1, <4>1 DEF TabOK
      <4> QED BY <1>4, <2>3, <2>5, <3>1, <4>1, <4>2 DEF CallOK
    <3>2. CASE d # c
      <4>1. d \in Underway /\ calls'[d] = calls[d]
        BY <1>1, <2>4, <2>6, <3>2 DEF CallsOK, Underway
      <4>2. calls[d] \in SomeCall /\ CallOK(calls[d]) /\ TabOK(calls[d])
        BY <1>1, <4>1, UnderwayCall
      <4>3. calls[d].tab = t /\ calls[d].awaited => calls[d].kind # "load"
        BY <1>1, <1>2, <3>2, <4>1, <4>2 DEF CallsOK, Rivals, TabOK
      <4>4. calls[d].tab # t => screen'[calls[d].tab] = screen[calls[d].tab]
        BY <1>1, <2>4, <4>2 DEF ScreensOK, SomeCall
      <4>5. screen'[t] = "ready"
        BY <1>1, <2>4 DEF ScreensOK
      <4>6. TabOK(calls[d])'
        BY <2>4, <4>1, <4>2, <4>3, <4>4, <4>5 DEF TabOK
      <4> QED BY <1>4, <4>1, <4>2, <4>6 DEF Advances, CallOK
    <3> QED BY <3>1, <3>2
  <2>7. CallsOK'
    BY <1>1, <2>5, <2>6, CallsContinue
  <2> QED BY <1>5, <2>1, <2>7 DEF TabsInv
<1> QED BY <1>6, <1>7, <1>8, <1>9, <1>10, <1>11, <1>12 DEF Continues

LEMMA HeadersKeep == ASSUME TabsInv, NEW c \in Calls, Headers(c) PROVE TabsInv'
<1>1. StoreOK /\ ScreensOK /\ CallsOK
  BY DEF TabsInv
<1>2. c \in Underway
  BY DEF Headers, Underway
<1>3. PICK j : j = calls[c]
  OBVIOUS
<1>4. j \in SomeCall /\ CallOK(j)
  BY <1>1, <1>2, <1>3, UnderwayCall
<1>5. StoreOK'
  BY <1>1, <1>3, <1>4 DEF Headers, StoreOK, CallOK, server
<1>6. ScreensOK'
  BY <1>1, ScreensStay DEF Headers
<1>7. PICK k : k = [j EXCEPT !.phase = "received"]
  OBVIOUS
<1>8. k \in SomeCall /\ Handled(j, k) /\ k.phase = "received" /\ k.who = j.who
  BY <1>4, <1>7 DEF SomeCall, Handled
<1>9. calls' = [calls EXCEPT ![c] = k]
  BY <1>1, <1>3, <1>7 DEF Headers, CallsOK
<1>10. CallOK(k)' /\ Advances(c, k)
  BY <1>2, <1>3, <1>4, <1>8 DEF Headers, CallOK, Handled, Advances, server
<1>11. CallsOK'
  BY <1>1, <1>9, <1>10, CallsAdvance DEF Headers, server, tabs
<1> QED BY <1>5, <1>6, <1>11 DEF TabsInv

LEMMA NeverArrivesKeeps == ASSUME TabsInv, NEW c \in Calls, NeverArrives(c) PROVE TabsInv'
<1>1. StoreOK'
  BY DEF TabsInv, StoreOK, NeverArrives, server
<1>2. ScreensOK'
  BY ScreensStay DEF TabsInv, NeverArrives
<1>3. CallsOK'
  BY EndWithin DEF TabsInv, NeverArrives, server, tabs
<1> QED BY <1>1, <1>2, <1>3 DEF TabsInv

LEMMA CloseKeeps == ASSUME TabsInv, NEW t \in Tabs, Close(t) PROVE TabsInv'
<1>1. StoreOK /\ ScreensOK /\ CallsOK
  BY DEF TabsInv
<1>2. StoreOK'
  BY <1>1 DEF StoreOK, Close, server
<1>3. ScreensOK'
  BY <1>1 DEF ScreensOK, Close
<1>4. calls' = [c \in Calls |-> calls'[c]]
  BY DEF Close
<1>5. ASSUME NEW c \in Calls
      PROVE  /\ calls'[c] \in SomeCall \cup {NoCall}
             /\ calls'[c] # NoCall =>
                  /\ c \in Underway /\ Advances(c, calls'[c]) /\ CallOK(calls'[c])
                  /\ calls[c].tab = t => ~calls'[c].awaited /\ ~calls'[c].mounted
  <2>1. CASE c \in Awaited(t)
    <3>1. calls'[c] = Remainder(c) /\ c \in Underway
      BY <2>1 DEF Close, Awaited
    <3> QED BY <1>1, <3>1, RemainderCall
  <2>2. CASE c \notin Awaited(t)
    <3>1. calls'[c] = calls[c]
      BY <2>2 DEF Close
    <3>2. CASE c \in Underway
      <4>1. calls[c] \in SomeCall /\ CallOK(calls[c])
        BY <1>1, <3>2, UnderwayCall
      <4>2. calls[c].tab = t => ~calls[c].awaited /\ ~calls[c].mounted
        BY <2>2, <3>2, <4>1 DEF Awaited, CallOK
      <4> QED BY <3>1, <3>2, <4>1, <4>2 DEF Advances
    <3>3. CASE c \notin Underway
      BY <1>1, <3>1, <3>3, UnderwayIs
    <3> QED BY <3>2, <3>3
  <2> QED BY <2>1, <2>2
<1>6. calls' \in [Calls -> SomeCall \cup {NoCall}]
  BY <1>4, <1>5
<1>7. ASSUME NEW c \in Underway' PROVE Advances(c, calls'[c]) /\ CallOK(calls[c])' /\ TabOK(calls[c])'
  <2>1. c \in Calls /\ calls'[c] # NoCall
    BY <1>7, NoCallIsNone DEF Underway
  <2>2. c \in Underway /\ Advances(c, calls'[c]) /\ CallOK(calls'[c])
    BY <1>5, <2>1
  <2>3. TabOK(calls[c])
    BY <1>1, <2>2, UnderwayCall
  <2>4. calls'[c].tab \in Tabs /\ calls'[c].tab = calls[c].tab
    BY <1>6, <2>1, <2>2 DEF CallOK, Advances, SomeCall
  <2>5. \A u \in Tabs : u # t => staff'[u] = staff[u] /\ screen'[u] = screen[u]
    BY <1>1 DEF Close, ScreensOK
  <2>6. calls[c].tab = t => ~calls'[c].awaited /\ ~calls'[c].mounted
    BY <1>5, <2>1
  <2>7. TabOK(calls[c])'
    BY <2>1, <2>2, <2>3, <2>4, <2>5, <2>6 DEF TabOK, Advances
  <2> QED BY <2>2, <2>7 DEF CallOK, Close, server
<1>8. CallsOK'
  BY <1>1, <1>6, <1>7, CallsContinue
<1> QED BY <1>2, <1>3, <1>8 DEF TabsInv

LEMMA EditKeeps == ASSUME TabsInv, NEW t \in Tabs, Edit(t) PROVE TabsInv'
<1>1. StoreOK /\ ScreensOK /\ CallsOK
  BY DEF TabsInv
<1>2. StoreOK'
  BY <1>1 DEF StoreOK, Edit, server
<1>3. ScreensOK'
  BY <1>1 DEF ScreensOK, Edit
<1>4. CallsOK'
  BY <1>1 DEF CallsOK, CallOK, TabOK, Rivals, Underway, Edit, server
<1> QED BY <1>2, <1>3, <1>4 DEF TabsInv

LEMMA ExpireKeeps == ASSUME TabsInv, Expire PROVE TabsInv'
<1>1. StoreOK /\ ScreensOK /\ CallsOK
  BY DEF TabsInv
<1>2. StoreOK'
  BY <1>1, SessionsAssumption DEF StoreOK, Expire
<1>3. ScreensOK'
  BY <1>1, ScreensStay DEF Expire
<1>4. CallsOK'
  BY <1>1 DEF CallsOK, CallOK, TabOK, Rivals, Underway, Expire, tabs
<1> QED BY <1>2, <1>3, <1>4 DEF TabsInv

LEMMA RestartKeeps == ASSUME TabsInv, Restart PROVE TabsInv'
<1>1. StoreOK /\ ScreensOK /\ CallsOK
  BY DEF TabsInv
<1>2. StoreOK'
  BY <1>1, SessionsAssumption DEF StoreOK, Restart
<1>3. ScreensOK'
  BY <1>1, ScreensStay DEF Restart
<1>4. calls' = [c \in Calls |-> calls'[c]]
  BY DEF Restart
<1>5. ASSUME NEW c \in Calls
      PROVE  /\ calls'[c] \in SomeCall \cup {NoCall}
             /\ calls'[c] # NoCall => c \in Underway /\ Advances(c, calls'[c]) /\ CallOK(calls'[c])
  <2>1. PICK j : j = calls[c]
    OBVIOUS
  <2>2. CASE j.phase = "working"
    <3>1. c \in Underway
      BY <2>1, <2>2 DEF Underway
    <3>2. j \in SomeCall /\ CallOK(j)
      BY <1>1, <2>1, <3>1, UnderwayCall
    <3>3. PICK k : k = [j EXCEPT !.phase = "dead"]
      OBVIOUS
    <3>4. k \in SomeCall /\ Handled(j, k) /\ k.phase = "dead" /\ k.who = j.who
      BY <3>2, <3>3 DEF SomeCall, Handled
    <3>5. calls'[c] = IF j.awaited THEN k ELSE NoCall
      BY <2>1, <2>2, <3>3 DEF Restart
    <3>6. j.awaited => CallOK(k)
      BY <3>2, <3>4 DEF CallOK, Handled
    <3>7. Advances(c, k)
      BY <2>1, <3>1, <3>4 DEF Advances, Handled
    <3> QED BY <3>1, <3>4, <3>5, <3>6, <3>7
  <2>3. CASE j.phase # "working"
    <3>1. calls'[c] = calls[c]
      BY <2>1, <2>3 DEF Restart
    <3> QED BY <1>1, <3>1, UnderwayIs, UnderwayCall DEF Advances
  <2> QED BY <2>2, <2>3
<1>6. calls' \in [Calls -> SomeCall \cup {NoCall}]
  BY <1>4, <1>5
<1>7. ASSUME NEW c \in Underway' PROVE Advances(c, calls'[c]) /\ CallOK(calls[c])' /\ TabOK(calls[c])'
  <2>1. c \in Calls /\ calls'[c] # NoCall
    BY <1>7, NoCallIsNone DEF Underway
  <2>2. c \in Underway /\ Advances(c, calls'[c]) /\ CallOK(calls'[c])
    BY <1>5, <2>1
  <2>3. TabOK(calls[c])
    BY <1>1, <2>2, UnderwayCall
  <2> QED BY <2>1, <2>2, <2>3 DEF TabOK, CallOK, Advances, Restart, tabs
<1>8. CallsOK'
  BY <1>1, <1>6, <1>7, CallsContinue
<1> QED BY <1>2, <1>3, <1>8 DEF TabsInv

LEMMA TabsStep == TabsInv /\ [SessionsNext]_svars => TabsInv'
<1> SUFFICES ASSUME TabsInv, [SessionsNext]_svars PROVE TabsInv'
  OBVIOUS
<1>1. CASE SessionsNext
  BY <1>1, ExpireKeeps, RestartKeeps, HandlesKeep, HeadersKeep, NeverArrivesKeeps, EditKeeps,
     CloseKeeps, ClicksKeep, ContinuesKeep DEF SessionsNext
<1>2. CASE UNCHANGED svars
  BY <1>2 DEF TabsInv, StoreOK, ScreensOK, CallsOK, CallOK, TabOK, Rivals, Underway, svars, server, tabs
<1> QED BY <1>1, <1>2

LEMMA TabsAlways == SessionsSpec => []TabsInv
BY InitTabs, TabsStep, PTL DEF SessionsSpec

(* Whatever is clicked, in however many tabs, whatever is under way and      *)
(* whatever breaks: every variable has its type, a tab that is not ready     *)
(* names nobody, no session is stored that was not issued, and none outlives *)
(* its TTL (session.go, App.tsx).                                            *)
THEOREM SessionsTypes == SessionsSpec => []SessionsTypeOK
BY TabsAlways, TabsInvTypes, PTL

-----------------------------------------------------------------------------
(* What is signed out stays out.                                             *)

LEMMA SignedOutStaysOut ==
  ASSUME StoreOK, SignOutInvalidates, [SessionsNext]_svars PROVE SignOutInvalidates'
<1>1. ASSUME NEW c \in Calls, Handles(c) PROVE SignOutInvalidates'
  <2>1. CASE CurrentSession(c) \/ SignOutFinds(c) \/ QuoteChecked(c)
    BY <2>1 DEF SignOutInvalidates, CurrentSession, SignOutFinds, QuoteChecked, Get, Without
  <2>2. CASE SignOutDeletes(c)
    BY <2>2 DEF SignOutInvalidates, SignOutDeletes, Delete, Without
  <2>3. CASE \E id \in Ids : SignInAccepted(c, id)
    BY <2>3 DEF SignOutInvalidates, StoreOK, SignInAccepted, Create
  <2>4. CASE SignInRefused(c) \/ QuoteAnswered(c)
    BY <2>4 DEF SignOutInvalidates, SignInRefused, QuoteAnswered, server
  <2> QED BY <1>1, <2>1, <2>2, <2>3, <2>4 DEF Handles
<1>2. CASE Restart
  BY <1>2 DEF SignOutInvalidates, Restart
<1>3. CASE Expire
  BY <1>3 DEF SignOutInvalidates, Expire
<1>4. CASE UNCHANGED server
  BY <1>4 DEF SignOutInvalidates, server
<1>5. ASSUME NEW c \in Calls, NEW t \in Tabs, Clicks(c, t) \/ Continues(c, t) PROVE UNCHANGED server
  BY <1>5 DEF Clicks, Load, ClickSignOut, SubmitQuote, SubmitSignIn, Send, Continues, Loaded, SignedIn,
              SignedOut, Quoted, SessionLost, NotQuoted, Broken
<1>6. ASSUME NEW c \in Calls, Headers(c) \/ NeverArrives(c) PROVE UNCHANGED server
  BY <1>6 DEF Headers, NeverArrives
<1>7. ASSUME NEW t \in Tabs, Edit(t) \/ Close(t) PROVE UNCHANGED server
  BY <1>7 DEF Edit, Close
<1>8. CASE UNCHANGED svars
  BY <1>4, <1>8 DEF svars
<1> QED BY <1>1, <1>2, <1>3, <1>4, <1>5, <1>6, <1>7, <1>8 DEF SessionsNext

(* Once the BFF has carried a sign out out, no step stores that session      *)
(* again: not a sign in, which takes an id that was never issued, nor a      *)
(* request that was under way and had looked the session up (session.go).    *)
THEOREM SignedOutForGood == SessionsSpec => []SignOutInvalidates
<1>1. SessionsInit => SignOutInvalidates
  BY DEF SessionsInit, SignOutInvalidates
<1>2. StoreOK /\ SignOutInvalidates /\ [SessionsNext]_svars => SignOutInvalidates'
  BY SignedOutStaysOut
<1>3. TabsInv => StoreOK
  BY DEF TabsInv
<1> QED BY <1>1, <1>2, <1>3, TabsAlways, PTL DEF SessionsSpec

-----------------------------------------------------------------------------
(* A browser with one tab: a name on its way from the session to the tab.    *)

OneTab == \A t, u \in Tabs : t = u

\* The session, if it is stored, is of s.
Owns(s, id) == id \in DOMAIN byID => byID[id] = s

\* The person the tab names is the one whose cookie the browser holds.
TabOwns == \A t \in Tabs : staff[t] # Nobody => Owns(staff[t], cookie)

\* The answer to a load names the cookie's owner, the answer to a sign in the
\* owner of the cookie it brings, and a call that Quoting still listens to was
\* sent with the session of the person named above it, and served for them.
CallOwns(k) ==
  /\ k.kind = "load" /\ k.awaited =>
       /\ k.id = cookie
       /\ k.phase \in {"answered", "received"} /\ k.who # Nobody => Owns(k.who, cookie)
  /\ k.kind = "signIn" /\ k.result = "ok" =>
       /\ k.phase \in {"answered", "received"} => Owns(k.who, k.id)
       /\ k.phase = "received" => cookie \in {k.id, NoId}
  /\ k.kind = "signIn" /\ k.result # "ok" => k.who = Nobody
  /\ k.phase \in {"sent", "working"} => k.result = "ok"
  /\ k.mounted =>
       /\ k.phase = "sent" => Owns(staff[k.tab], k.id)
       /\ k.phase \in {"working", "answered", "received"} /\ k.result = "ok" => k.who = staff[k.tab]

CallsOwn == \A c \in Underway : CallOwns(calls[c])

NamesOwn == TabOwns /\ QuoteIsOwn /\ CallsOwn

\* No step gives an id that is out another owner.
Agrees == \A id \in issued \cup {NoId} :
            id \in DOMAIN byID' => id \in DOMAIN byID /\ byID'[id] = byID[id]

LEMMA StepAgrees == ASSUME StoreOK, [SessionsNext]_svars PROVE Agrees
<1>1. ASSUME NEW c \in Calls, Handles(c) PROVE Agrees
  <2>1. CASE CurrentSession(c) \/ SignOutFinds(c) \/ QuoteChecked(c)
    BY <2>1 DEF Agrees, CurrentSession, SignOutFinds, QuoteChecked, Get, Without
  <2>2. CASE SignOutDeletes(c)
    BY <2>2 DEF Agrees, SignOutDeletes, Delete, Without
  <2>3. CASE \E id \in Ids : SignInAccepted(c, id)
    BY <2>3, NotNames DEF Agrees, StoreOK, SignInAccepted, Create
  <2>4. CASE SignInRefused(c) \/ QuoteAnswered(c)
    BY <2>4 DEF Agrees, SignInRefused, QuoteAnswered, server
  <2> QED BY <1>1, <2>1, <2>2, <2>3, <2>4 DEF Handles
<1>2. CASE Restart
  BY <1>2 DEF Agrees, Restart
<1>3. CASE UNCHANGED byID
  BY <1>3 DEF Agrees
<1>4. ASSUME NEW c \in Calls, NEW t \in Tabs, Clicks(c, t) \/ Continues(c, t) PROVE UNCHANGED byID
  BY <1>4 DEF Clicks, Load, ClickSignOut, SubmitQuote, SubmitSignIn, Send, Continues, Loaded, SignedIn,
              SignedOut, Quoted, SessionLost, NotQuoted, Broken, server
<1>5. ASSUME NEW c \in Calls, Headers(c) \/ NeverArrives(c) PROVE UNCHANGED byID
  BY <1>5 DEF Headers, NeverArrives, server
<1>6. ASSUME NEW t \in Tabs, Edit(t) \/ Close(t) PROVE UNCHANGED byID
  BY <1>6 DEF Edit, Close, server
<1>7. CASE Expire \/ UNCHANGED svars
  BY <1>3, <1>7 DEF Expire, svars, server
<1> QED BY <1>1, <1>2, <1>3, <1>4, <1>5, <1>6, <1>7 DEF SessionsNext

LEMMA OwnsStays == ASSUME Agrees, NEW s, NEW id \in issued \cup {NoId}, Owns(s, id) PROVE Owns(s, id)'
BY DEF Agrees, Owns

LEMMA NoIdIsNobodys == ASSUME StoreOK, NEW s PROVE Owns(s, NoId)
BY NotNames DEF StoreOK, Owns

\* A call that a step does not touch.
LEMMA CallOwnsStays ==
  ASSUME Agrees, StoreOK, NEW k, CallOK(k), CallOwns(k), UNCHANGED cookie,
         k.mounted => staff'[k.tab] = staff[k.tab]
  PROVE  CallOwns(k)'
<1>1. k.id \in issued \cup {NoId} /\ cookie \in issued \cup {NoId}
  BY DEF StoreOK, CallOK
<1>2. Owns(k.who, cookie) => Owns(k.who, cookie)'
  BY <1>1 DEF Agrees, Owns
<1>3. Owns(k.who, k.id) => Owns(k.who, k.id)'
  BY <1>1 DEF Agrees, Owns
<1>4. k.mounted /\ Owns(staff[k.tab], k.id) => Owns(staff[k.tab], k.id)'
  BY <1>1 DEF Agrees, Owns
<1> QED BY <1>2, <1>3, <1>4 DEF CallOwns

LEMMA TabOwnsStays == ASSUME Agrees, StoreOK, TabOwns, UNCHANGED <<cookie, staff>> PROVE TabOwns'
BY DEF Agrees, StoreOK, TabOwns, Owns

\* One call goes on; the tab and the cookie stay.
LEMMA OneCallOwns ==
  ASSUME TabsInv, NamesOwn, Agrees, NEW c \in Calls, NEW k, calls' = [calls EXCEPT ![c] = k],
         UNCHANGED <<cookie, staff, quote>>, k # NoCall => CallOwns(k)'
  PROVE  NamesOwn'
<1>1. StoreOK /\ CallsOK /\ TabOwns /\ QuoteIsOwn /\ CallsOwn
  BY DEF TabsInv, NamesOwn
<1>2. TabOwns' /\ QuoteIsOwn'
  BY <1>1, TabOwnsStays DEF QuoteIsOwn
<1>3. ASSUME NEW d \in Underway' PROVE CallOwns(calls[d])'
  <2>1. CASE d = c
    <3>1. calls'[d] = k /\ k # NoCall
      BY <1>1, <1>3, <2>1, NoCallIsNone DEF CallsOK, Underway
    <3> QED BY <3>1 DEF CallOwns
  <2>2. CASE d # c
    <3>1. d \in Underway /\ calls'[d] = calls[d]
      BY <1>1, <1>3, <2>2 DEF CallsOK, Underway
    <3>2. PICK j : j = calls[d]
      OBVIOUS
    <3>3. CallOK(j) /\ CallOwns(j)
      BY <1>1, <3>1, <3>2, UnderwayCall DEF CallsOwn
    <3>4. CallOwns(j)'
      BY <1>1, <3>3, CallOwnsStays
    <3> QED BY <3>1, <3>2, <3>4
  <2> QED BY <2>1, <2>2
<1> QED BY <1>2, <1>3 DEF NamesOwn, CallsOwn

LEMMA AnswerOwns ==
  ASSUME TabsInv, NamesOwn, Agrees, NEW c \in Underway, NEW who \in Staff \cup {Nobody},
         NEW result \in Results, Answer(c, who, result), UNCHANGED <<cookie, staff, quote>>,
         calls[c].kind = "load" /\ who # Nobody => Owns(who, cookie)',
         calls[c].kind = "signIn" => result # "ok" /\ who = Nobody,
         calls[c].mounted /\ result = "ok" => who = staff[calls[c].tab]
  PROVE  NamesOwn'
<1>1. PICK j : j = calls[c]
  OBVIOUS
<1>2. c \in Calls /\ j \in SomeCall /\ CallOwns(j)
  BY <1>1, UnderwayCall DEF TabsInv, NamesOwn, CallsOwn
<1>3. PICK k : k = Answered(j, who, result)
  OBVIOUS
<1>4. k \in SomeCall /\ Handled(j, k) /\ k.phase = "answered" /\ k.who = who /\ k.result = result
  BY <1>2, <1>3, AnsweredCall
<1>5. PICK n : n = IF j.awaited THEN k ELSE NoCall
  OBVIOUS
<1>6. calls' = [calls EXCEPT ![c] = n]
  BY <1>1, <1>3, <1>5 DEF Answer, Answered
<1>7. CallOwns(k)'
  <2>1. k.kind = "load" /\ k.awaited => k.id = cookie' /\ (k.who # Nobody => Owns(k.who, cookie)')
    BY <1>1, <1>2, <1>4 DEF Handled, CallOwns
  <2>2. k.mounted /\ k.result = "ok" => k.who = staff'[k.tab]
    BY <1>1, <1>4 DEF Handled
  <2>3. k.kind = "signIn" => k.result # "ok" /\ k.who = Nobody
    BY <1>1, <1>4 DEF Handled
  <2> QED BY <1>4, <2>1, <2>2, <2>3 DEF CallOwns
<1> QED BY <1>2, <1>5, <1>6, <1>7, OneCallOwns

LEMMA WorkOwns ==
  ASSUME TabsInv, NamesOwn, Agrees, NEW c \in Underway, NEW who \in Staff \cup {Nobody},
         Work(c, who), UNCHANGED <<cookie, staff, quote>>, calls[c].kind \in {"signOut", "quote"},
         calls[c].phase = "sent", calls[c].mounted => who = staff[calls[c].tab]
  PROVE  NamesOwn'
<1>1. PICK j : j = calls[c]
  OBVIOUS
<1>2. c \in Calls /\ j \in SomeCall /\ CallOwns(j)
  BY <1>1, UnderwayCall DEF TabsInv, NamesOwn, CallsOwn
<1>3. PICK k : k = Worked(j, who)
  OBVIOUS
<1>4. k \in SomeCall /\ Handled(j, k) /\ k.phase = "working" /\ k.who = who /\ k.result = j.result
  BY <1>2, <1>3, WorkedCall
<1>5. calls' = [calls EXCEPT ![c] = k]
  BY <1>1, <1>2, <1>3 DEF Work, Worked, TabsInv, CallsOK
<1>6. CallOwns(k)'
  <2>1. k.mounted => k.who = staff'[k.tab]
    BY <1>1, <1>4 DEF Handled
  <2>2. k.kind \in {"signOut", "quote"}
    BY <1>1, <1>4 DEF Handled
  <2>3. k.result = "ok"
    BY <1>1, <1>2, <1>4 DEF CallOwns
  <2> QED BY <1>4, <2>1, <2>2, <2>3 DEF CallOwns
<1> QED BY <1>2, <1>5, <1>6, OneCallOwns

LEMMA HandlesOwn == ASSUME TabsInv, NamesOwn, Agrees, NEW c \in Calls, Handles(c) PROVE NamesOwn'
<1>1. StoreOK /\ CallsOK /\ TabOwns /\ QuoteIsOwn /\ CallsOwn
  BY DEF TabsInv, NamesOwn
<1>2. UNCHANGED <<cookie, staff, quote>>
  BY DEF Handles, CurrentSession, SignInRefused, SignOutFinds, SignOutDeletes, QuoteChecked,
         QuoteAnswered, SignInAccepted, tabs
<1>3. c \in Underway
  BY DEF Handles, CurrentSession, SignInRefused, SignOutFinds, SignOutDeletes, QuoteChecked,
         QuoteAnswered, SignInAccepted, Sent, Working, Underway
<1>4. calls[c] \in SomeCall /\ CallOK(calls[c]) /\ CallOwns(calls[c])
  BY <1>1, <1>3, UnderwayCall DEF CallsOwn
<1>5. calls[c].mounted => calls[c].kind = "quote" /\ calls[c].awaited
  BY <1>4 DEF CallOK
<1>6. CASE CurrentSession(c)
  <2>1. calls[c].kind = "load" /\ ~calls[c].mounted
    BY <1>5, <1>6 DEF CurrentSession, Sent
  <2>2. CASE calls[c].awaited
    <3>1. calls[c].id = cookie /\ cookie \in issued \cup {NoId}
      BY <1>1, <1>4, <2>1, <2>2 DEF CallOwns, StoreOK
    <3>2. OwnerOf(cookie) # Nobody => Owns(OwnerOf(cookie), cookie)
      BY DEF OwnerOf, Owns, Live
    <3>3. \A s : Owns(s, cookie) => Owns(s, cookie)'
      BY <1>2, <3>1 DEF Agrees, Owns
    <3> QED BY <1>1, <1>2, <1>3, <1>6, <2>1, <3>1, <3>2, <3>3, OwnerIsStaff, AnswerOwns
            DEF CurrentSession, Results
  <2>3. CASE ~calls[c].awaited
    <3>1. calls' = [calls EXCEPT ![c] = NoCall]
      BY <1>6, <2>3 DEF CurrentSession, Answer
    <3> QED BY <1>2, <3>1, OneCallOwns
  <2> QED BY <2>2, <2>3
<1>7. CASE SignInRefused(c)
  BY <1>2, <1>3, <1>5, <1>7, AnswerOwns DEF SignInRefused, Sent, Results
<1>8. CASE SignOutFinds(c)
  <2>1. calls[c].kind = "signOut" /\ ~calls[c].mounted /\ calls[c].phase = "sent"
    BY <1>5, <1>8 DEF SignOutFinds, Sent
  <2> QED BY <1>2, <1>3, <1>8, <2>1, AnswerOwns, WorkOwns DEF SignOutFinds, Results
<1>9. CASE SignOutDeletes(c)
  <2>1. calls[c].kind = "signOut" /\ ~calls[c].mounted
    BY <1>5, <1>9 DEF SignOutDeletes, Working
  <2> QED BY <1>2, <1>3, <1>9, <2>1, AnswerOwns DEF SignOutDeletes, Results
<1>10. CASE QuoteChecked(c)
  <2>1. calls[c].kind = "quote" /\ calls[c].phase = "sent"
    BY <1>10 DEF QuoteChecked, Sent
  <2>2. CASE Live(calls[c].id)
    <3>1. byID[calls[c].id] \in Staff
      BY <1>1, <2>2, OwnerIsStaff
    <3>2. calls[c].mounted => byID[calls[c].id] = staff[calls[c].tab]
      BY <1>4, <1>10, <2>2 DEF CallOwns, Owns, Live, QuoteChecked, Sent
    <3> QED BY <1>2, <1>3, <1>10, <2>1, <2>2, <3>1, <3>2, WorkOwns DEF QuoteChecked
  <2>3. CASE ~Live(calls[c].id)
    BY <1>2, <1>3, <1>10, <2>1, <2>3, AnswerOwns DEF QuoteChecked, Results
  <2> QED BY <2>2, <2>3
<1>11. CASE QuoteAnswered(c)
  <2>1. calls[c].kind = "quote" /\ calls[c].who \in Staff \cup {Nobody} /\ calls[c].phase = "working"
    BY <1>4, <1>11 DEF QuoteAnswered, Working, SomeCall
  <2>2. calls[c].mounted => calls[c].result = "ok" /\ calls[c].who = staff[calls[c].tab]
    BY <1>4, <2>1 DEF CallOwns
  <2>3. PICK result \in {"ok", "forbidden", "failure"} : Answer(c, calls[c].who, result)
    BY <1>11 DEF QuoteAnswered
  <2>4. result \in Results
    BY DEF Results
  <2> QED BY <1>2, <1>3, <2>1, <2>2, <2>3, <2>4, AnswerOwns
<1>12. CASE \E id \in Ids : SignInAccepted(c, id)
  <2>1. PICK id \in Ids : SignInAccepted(c, id)
    BY <1>12
  <2>2. PICK j : j = calls[c]
    OBVIOUS
  <2>3. PICK k : k = [j EXCEPT !.phase = "answered", !.id = id]
    OBVIOUS
  <2>4. PICK n : n = IF j.awaited THEN k ELSE NoCall
    OBVIOUS
  <2>5. k.phase = "answered" /\ k.kind = j.kind /\ k.tab = j.tab /\ k.id = id /\ k.who = j.who
        /\ k.result = j.result /\ k.awaited = j.awaited /\ k.mounted = j.mounted
    BY <1>4, <2>2, <2>3 DEF SomeCall
  <2>6. calls' = [calls EXCEPT ![c] = n]
    BY <2>1, <2>2, <2>3, <2>4 DEF SignInAccepted
  <2>7. j.kind = "signIn" /\ j.phase = "sent" /\ j.who \in Staff /\ ~j.mounted
    BY <1>4, <1>5, <2>1, <2>2 DEF SignInAccepted, Sent, CallOK
  <2>8. Owns(j.who, id)'
    BY <2>1, <2>2 DEF SignInAccepted, Create, Owns
  <2>9. j.result = "ok"
    BY <1>4, <2>2, <2>7, NotNames DEF CallOwns
  <2>10. CallOwns(k)'
    BY <2>5, <2>7, <2>8, <2>9 DEF CallOwns
  <2> QED BY <1>2, <2>4, <2>6, <2>10, OneCallOwns
<1> QED BY <1>6, <1>7, <1>8, <1>9, <1>10, <1>11, <1>12 DEF Handles

LEMMA ClicksOwn == ASSUME TabsInv, NamesOwn, Agrees, NEW c \in Calls, NEW t \in Tabs, Clicks(c, t)
                   PROVE  NamesOwn'
<1>1. StoreOK /\ CallsOK /\ TabOwns /\ QuoteIsOwn /\ CallsOwn
  BY DEF TabsInv, NamesOwn
<1>2. cookie \in issued \cup {NoId} /\ issued \subseteq Ids
  BY <1>1 DEF StoreOK
<1>3. UNCHANGED <<staff, quote>>
  BY DEF Clicks, Load, ClickSignOut, SubmitQuote, SubmitSignIn, tabs
<1>4. PICK kind \in {"load", "signIn", "signOut", "quote"}, who \in Staff \cup {Nobody} :
        Send(c, t, kind, who) /\ (kind = "signIn" => who \in Staff) /\ (kind = "quote" => staff[t] # Nobody)
  BY DEF Clicks, Load, ClickSignOut, SubmitQuote, SubmitSignIn
<1>5. /\ c \notin Underway /\ UNCHANGED cookie
      /\ calls'[c].tab = t /\ calls'[c].kind = kind /\ calls'[c].phase = "sent"
      /\ calls'[c].id = cookie /\ calls'[c].result = "ok" /\ (calls'[c].mounted <=> kind = "quote")
      /\ \A d \in Underway' : d # c => d \in Underway /\ calls'[d] = calls[d]
  BY <1>1, <1>2, <1>4, NewCall
<1>6. TabOwns' /\ QuoteIsOwn'
  BY <1>1, <1>3, <1>5, TabOwnsStays DEF QuoteIsOwn
<1>7. ASSUME NEW d \in Underway' PROVE CallOwns(calls[d])'
  <2>1. CASE d = c
    <3>1. calls'[c].mounted => Owns(staff[t], cookie)'
      BY <1>1, <1>3, <1>4, <1>5, <1>6 DEF TabOwns
    <3> QED BY <1>5, <2>1, <3>1 DEF CallOwns, Owns
  <2>2. CASE d # c
    <3>1. d \in Underway /\ calls'[d] = calls[d]
      BY <1>5, <1>7, <2>2
    <3>2. PICK j : j = calls[d]
      OBVIOUS
    <3>3. CallOK(j) /\ CallOwns(j)
      BY <1>1, <3>1, <3>2, UnderwayCall DEF CallsOwn
    <3>4. CallOwns(j)'
      BY <1>1, <1>3, <1>5, <3>3, CallOwnsStays
    <3> QED BY <3>1, <3>2, <3>4
  <2> QED BY <2>1, <2>2
<1> QED BY <1>6, <1>7 DEF NamesOwn, CallsOwn

\* Set-Cookie is the one place where a second tab would matter.
LEMMA HeadersOwn == ASSUME OneTab, TabsInv, NamesOwn, NEW c \in Calls, Headers(c) PROVE NamesOwn'
<1>1. StoreOK /\ CallsOK /\ TabOwns /\ QuoteIsOwn /\ CallsOwn
  BY DEF TabsInv, NamesOwn
<1>2. c \in Underway
  BY DEF Headers, Underway
<1>3. PICK j : j = calls[c]
  OBVIOUS
<1>4. j \in SomeCall /\ CallOK(j) /\ TabOK(j) /\ CallOwns(j) /\ j.phase = "answered" /\ j.awaited
  BY <1>1, <1>2, <1>3, UnderwayCall DEF CallsOwn, Headers, CallOK
<1>5. PICK k : k = [j EXCEPT !.phase = "received"]
  OBVIOUS
<1>6. k \in SomeCall /\ Handled(j, k) /\ k.phase = "received" /\ k.who = j.who /\ k.result = j.result
  BY <1>4, <1>5 DEF SomeCall, Handled
<1>7. calls' = [calls EXCEPT ![c] = k] /\ UNCHANGED <<byID, issued, staff, quote, screen>>
  BY <1>1, <1>3, <1>5 DEF Headers, CallsOK, server, tabs
<1>8. cookie' = CASE j.kind = "signOut" -> NoId
                  [] j.kind = "signIn" /\ j.result = "ok" -> j.id
                  [] OTHER -> cookie
  BY <1>3 DEF Headers
<1>9. CASE j.kind # "signOut" /\ ~(j.kind = "signIn" /\ j.result = "ok")
  <2>1. UNCHANGED cookie
    BY <1>8, <1>9
  <2>2. Agrees
    BY <1>7 DEF Agrees
  <2>3. CallOwns(k)'
    BY <1>4, <1>6, <1>7, <1>9, <2>1 DEF CallOwns, Handled, Owns
  <2> QED BY <1>7, <2>1, <2>2, <2>3, OneCallOwns
<1>10. CASE j.kind = "signOut" \/ (j.kind = "signIn" /\ j.result = "ok")
  <2>1. cookie' \in {NoId, j.id}
    BY <1>8, <1>10
  <2>2. j.kind = "signIn" => j.result = "ok" /\ cookie' = j.id
    BY <1>8, <1>10
  <2>3. j.kind = "signOut" => cookie' = NoId
    BY <1>8
  <2>4. j.tab \in Tabs /\ screen[j.tab] = "ready" /\ (j.kind = "signIn" => staff[j.tab] = Nobody)
    BY <1>4, <1>10 DEF TabOK, SomeCall
  <2>5. TabOwns'
    BY <1>1, <1>7, <1>10, <2>2, <2>3, <2>4, NoIdIsNobodys DEF TabOwns, Owns, OneTab
  <2>6. QuoteIsOwn'
    BY <1>1, <1>7 DEF QuoteIsOwn
  <2>7. ASSUME NEW d \in Underway' PROVE CallOwns(calls[d])'
    <3>1. CASE d = c
      <4>1. calls'[d] = k
        BY <1>1, <1>7, <2>7, <3>1 DEF CallsOK
      <4>2. CallOwns(k)'
        BY <1>4, <1>6, <1>7, <1>10, <2>2 DEF CallOwns, Handled, Owns, CallOK
      <4> QED BY <4>1, <4>2 DEF CallOwns
    <3>2. CASE d # c
      <4>1. d \in Underway /\ calls'[d] = calls[d]
        BY <1>1, <1>7, <2>7, <3>2 DEF CallsOK, Underway
      <4>2. PICK i : i = calls[d]
        OBVIOUS
      <4>3. i \in SomeCall /\ CallOK(i) /\ TabOK(i) /\ CallOwns(i)
        BY <1>1, <4>1, <4>2, UnderwayCall DEF CallsOwn
      <4>4. i.tab = j.tab
        BY <1>4, <4>3 DEF OneTab, SomeCall
      <4>5. ~(i.kind = "load" /\ i.awaited)
        BY <2>4, <4>3, <4>4 DEF TabOK
      <4>6. i.kind = "signIn" /\ i.phase = "received" => j.kind = "signOut"
        BY <1>1, <1>2, <1>3, <1>4, <1>10, <3>2, <4>1, <4>2, <4>3, <4>4 DEF CallsOK, Rivals, CallOK
      <4>7. CallOwns(i)'
        BY <1>7, <2>3, <4>3, <4>5, <4>6 DEF CallOwns, Owns
      <4> QED BY <4>1, <4>2, <4>7
    <3> QED BY <3>1, <3>2
  <2> QED BY <2>5, <2>6, <2>7 DEF NamesOwn, CallsOwn
<1> QED BY <1>9, <1>10

\* Steps that end calls, or leave them with fewer to listen.
LEMMA WeakenedOwns ==
  ASSUME TabsInv, NamesOwn, Agrees, UNCHANGED cookie, TabOwns', QuoteIsOwn',
         \A d \in Underway' :
            /\ d \in Underway /\ Weakens(calls[d], calls'[d])
            /\ calls'[d].mounted => staff'[calls[d].tab] = staff[calls[d].tab]
  PROVE  NamesOwn'
<1>1. ASSUME NEW d \in Underway' PROVE CallOwns(calls[d])'
  <2>1. PICK j : j = calls[d]
    OBVIOUS
  <2>2. PICK k : k = calls'[d]
    OBVIOUS
  <2>3. d \in Underway /\ Weakens(j, k) /\ (k.mounted => staff'[k.tab] = staff[k.tab])
    BY <1>1, <2>1, <2>2 DEF Weakens
  <2>4. CallOK(j) /\ CallOwns(j)
    BY <2>1, <2>3, UnderwayCall DEF TabsInv, NamesOwn, CallsOwn
  <2>5. j.id \in issued \cup {NoId} /\ cookie \in issued \cup {NoId}
    BY <2>4 DEF TabsInv, StoreOK, CallOK
  <2>6. \A s : (Owns(s, cookie) => Owns(s, cookie)') /\ (Owns(s, j.id) => Owns(s, j.id)')
    BY <2>5 DEF Agrees, Owns
  <2>7. k.mounted /\ Owns(staff[k.tab], k.id) => Owns(staff[k.tab], k.id)'
    BY <2>3, <2>5 DEF Agrees, Owns, Weakens
  <2>8. CallOwns(k)'
    BY <2>3, <2>4, <2>6, <2>7 DEF CallOwns, Weakens
  <2> QED BY <2>2, <2>8 DEF CallOwns
<1> QED BY <1>1 DEF NamesOwn, CallsOwn

\* All calls but c stay as they are, and c ends or loses its listener.
LEMMA OneCallWeakens ==
  ASSUME CallsOK, NEW c \in Calls, NEW k, calls' = [calls EXCEPT ![c] = k],
         k # NoCall => c \in Underway /\ Weakens(calls[c], k) /\ ~k.mounted
  PROVE  \A d \in Underway' :
           /\ d \in Underway /\ Weakens(calls[d], calls'[d])
           /\ d = c => ~calls'[d].mounted
           /\ d # c => calls'[d] = calls[d]
<1> SUFFICES ASSUME NEW d \in Underway'
             PROVE  /\ d \in Underway /\ Weakens(calls[d], calls'[d])
                    /\ d = c => ~calls'[d].mounted
                    /\ d # c => calls'[d] = calls[d]
  OBVIOUS
<1>1. CASE d = c
  <2>1. calls'[d] = k /\ k # NoCall
    BY <1>1, NoCallIsNone DEF CallsOK, Underway
  <2> QED BY <1>1, <2>1
<1>2. CASE d # c
  <2>1. d \in Underway /\ calls'[d] = calls[d]
    BY <1>2 DEF CallsOK, Underway
  <2> QED BY <1>2, <2>1 DEF Weakens
<1> QED BY <1>1, <1>2

LEMMA ClearStaffOwns ==
  ASSUME TabsInv, NamesOwn, Agrees, UNCHANGED cookie, NEW t \in Tabs, NEW c \in Awaited(t), NEW rest,
         rest = NoCall \/ rest = Remainder(c), ClearStaff(c, t, rest)
  PROVE  NamesOwn'
<1>1. StoreOK /\ ScreensOK /\ CallsOK /\ TabOwns /\ QuoteIsOwn /\ CallsOwn
  BY DEF TabsInv, NamesOwn
<1>2. c \in Underway /\ c \in Calls
  BY DEF Awaited, Underway
<1>3. \A u \in Tabs : IF u = t THEN staff'[u] = Nobody /\ quote'[u] = Nobody
                               ELSE staff'[u] = staff[u] /\ quote'[u] = quote[u]
  BY <1>1 DEF ClearStaff, ScreensOK
<1>4. TabOwns'
  <2>1. \A r : Owns(r, cookie) => Owns(r, cookie)'
    BY <1>1 DEF Agrees, Owns, StoreOK
  <2>2. \A u \in Tabs : staff'[u] # Nobody => Owns(staff'[u], cookie)
    BY <1>1, <1>3 DEF TabOwns
  <2> QED BY <2>1, <2>2 DEF TabOwns, Owns
<1>5. QuoteIsOwn'
  BY <1>1, <1>3 DEF QuoteIsOwn
<1>6. ASSUME NEW d \in Underway'
      PROVE  /\ d \in Underway /\ Weakens(calls[d], calls'[d])
             /\ calls'[d].mounted => staff'[calls[d].tab] = staff[calls[d].tab]
  <2>1. CASE d = c
    <3>1. calls'[d] = rest /\ rest # NoCall
      BY <1>2, <1>6, <2>1, NoCallIsNone DEF ClearStaff, Underway
    <3> QED BY <1>1, <1>2, <2>1, <3>1, RemainderCall
  <2>2. CASE d # c /\ d \in Awaited(t) /\ staff[t] # Nobody
    <3>1. calls'[d] = [calls[d] EXCEPT !.mounted = FALSE] /\ d \in Underway
      BY <2>2 DEF ClearStaff, Awaited, Underway
    <3> QED BY <1>1, <3>1, UnmountedCall
  <2>3. CASE d # c /\ ~(d \in Awaited(t) /\ staff[t] # Nobody)
    <3>1. calls'[d] = calls[d] /\ d \in Underway
      BY <1>6, <2>3 DEF ClearStaff, Underway
    <3>2. calls[d] \in SomeCall /\ CallOK(calls[d]) /\ TabOK(calls[d])
      BY <1>1, <3>1, UnderwayCall
    <3>3. calls[d].mounted => calls[d].tab # t
      BY <2>3, <3>1, <3>2 DEF Awaited, CallOK, TabOK
    <3>4. calls[d].mounted => staff'[calls[d].tab] = staff[calls[d].tab]
      BY <1>3, <3>2, <3>3 DEF SomeCall
    <3> QED BY <3>1, <3>4 DEF Weakens
  <2> QED BY <2>1, <2>2, <2>3
<1> QED BY <1>4, <1>5, <1>6, WeakenedOwns

LEMMA ShowStaffOwns ==
  ASSUME TabsInv, NamesOwn, Agrees, UNCHANGED cookie, NEW t \in Tabs, NEW c \in Underway, NEW s,
         calls[c].awaited, calls[c].tab = t, calls[c].kind \in {"load", "signIn"},
         End(c), ShowStaff(t, s), s # Nobody => Owns(s, cookie)
  PROVE  NamesOwn'
<1>1. StoreOK /\ ScreensOK /\ CallsOK /\ TabOwns /\ QuoteIsOwn /\ CallsOwn
  BY DEF TabsInv, NamesOwn
<1>2. c \in Calls /\ TabOK(calls[c])
  BY <1>1, UnderwayCall
<1>3. staff[t] = Nobody
  BY <1>1, <1>2 DEF TabOK, ScreensOK
<1>4. \A u \in Tabs : staff'[u] = IF u = t THEN s ELSE staff[u]
  BY <1>1 DEF ShowStaff, ScreensOK
<1>5. TabOwns'
  <2>1. \A r : Owns(r, cookie) => Owns(r, cookie)'
    BY <1>1 DEF Agrees, Owns, StoreOK
  <2>2. \A u \in Tabs : staff'[u] # Nobody => Owns(staff'[u], cookie)
    BY <1>1, <1>4 DEF TabOwns
  <2> QED BY <2>1, <2>2 DEF TabOwns, Owns
<1>6. QuoteIsOwn'
  BY <1>1, <1>3, <1>4 DEF QuoteIsOwn, ShowStaff
<1>7. \A d \in Underway' :
        d \in Underway /\ Weakens(calls[d], calls'[d]) /\ d # c /\ calls'[d] = calls[d]
  <2>1. calls' = [calls EXCEPT ![c] = NoCall] /\ c \notin Underway'
    BY <1>1, <1>2, NoCallIsNone DEF End, Underway, CallsOK
  <2> QED BY <1>1, <1>2, <2>1, OneCallWeakens
<1>8. ASSUME NEW d \in Underway', calls'[d].mounted PROVE staff'[calls[d].tab] = staff[calls[d].tab]
  <2>1. calls[d].tab # t /\ calls[d] \in SomeCall
    BY <1>1, <1>7, <1>8, Alone, UnderwayCall
  <2> QED BY <1>4, <2>1 DEF SomeCall
<1> QED BY <1>5, <1>6, <1>7, <1>8, WeakenedOwns

LEMMA ContinuesOwn == ASSUME TabsInv, NamesOwn, Agrees, NEW c \in Calls, NEW t \in Tabs, Continues(c, t)
                      PROVE  NamesOwn'
<1>1. StoreOK /\ ScreensOK /\ CallsOK /\ TabOwns /\ QuoteIsOwn /\ CallsOwn
  BY DEF TabsInv, NamesOwn
<1>2. c \in Underway /\ calls[c].tab = t /\ calls[c].awaited
  <2>1. c \in Underway /\ calls[c].tab = t
    BY DEF Continues, Loaded, SignedIn, SignedOut, Quoted, SessionLost, NotQuoted, Broken, Received,
           Awaited, Underway
  <2>2. calls[c].phase = "received" => calls[c].awaited
    BY <1>1, <2>1, UnderwayCall DEF CallOK
  <2> QED BY <2>1, <2>2 DEF Continues, Loaded, SignedIn, SignedOut, Quoted, SessionLost, NotQuoted,
                            Broken, Received, Awaited
<1>3. calls[c] \in SomeCall /\ CallOwns(calls[c]) /\ c \in Awaited(t)
  BY <1>1, <1>2, UnderwayCall DEF Awaited, CallsOwn
<1>4. UNCHANGED cookie
  BY DEF Continues, Loaded, SignedIn, SignedOut, Quoted, SessionLost, NotQuoted, Broken
<1>5. CASE Loaded(c, t)
  <2>1. calls[c].kind = "load" /\ (calls[c].who # Nobody => Owns(calls[c].who, cookie))
    BY <1>2, <1>3, <1>5 DEF Loaded, Received, CallOwns
  <2> QED BY <1>2, <1>4, <1>5, <2>1, ShowStaffOwns DEF Loaded
<1>6. CASE SignedIn(c, t)
  <2>1. calls[c].kind = "signIn" /\ (calls[c].who # Nobody => Owns(calls[c].who, cookie))
    BY <1>1, <1>3, <1>6, NoIdIsNobodys DEF SignedIn, Received, CallOwns
  <2> QED BY <1>2, <1>4, <1>6, <2>1, ShowStaffOwns DEF SignedIn
<1>7. CASE SignedOut(c, t)
  BY <1>3, <1>4, <1>7, ClearStaffOwns DEF SignedOut
<1>8. CASE SessionLost(c, t)
  BY <1>3, <1>4, <1>8, ClearStaffOwns DEF SessionLost
<1>9. CASE Quoted(c, t)
  <2>1. calls' = [calls EXCEPT ![c] = NoCall] /\ UNCHANGED staff
    BY <1>9 DEF Quoted, End
  <2>2. calls[c].mounted => calls[c].who = staff[t]
    BY <1>2, <1>3, <1>9 DEF Quoted, Received, CallOwns
  <2>3. QuoteIsOwn'
    BY <1>1, <1>9, <2>2 DEF Quoted, ShowQuote, QuoteIsOwn, ScreensOK
  <2>4. TabOwns'
    BY <1>1, <1>4, <2>1, TabOwnsStays
  <2>5. \A d \in Underway' : d \in Underway /\ Weakens(calls[d], calls'[d])
    BY <1>1, <2>1, OneCallWeakens
  <2> QED BY <1>4, <2>1, <2>3, <2>4, <2>5, WeakenedOwns
<1>10. CASE NotQuoted(c, t)
  <2>1. calls' = [calls EXCEPT ![c] = NoCall] /\ UNCHANGED <<staff, quote>>
    BY <1>10 DEF NotQuoted, End
  <2> QED BY <1>4, <2>1, OneCallOwns
<1>11. CASE Broken(c, t)
  <2>1. PICK k : k = Remainder(c)
    OBVIOUS
  <2>2. calls' = [calls EXCEPT ![c] = k] /\ UNCHANGED <<staff, quote>>
    BY <1>11, <2>1 DEF Broken
  <2>3. k # NoCall => Weakens(calls[c], k) /\ ~k.mounted
    BY <1>1, <1>2, <2>1, RemainderCall
  <2>4. \A d \in Underway' : d \in Underway /\ Weakens(calls[d], calls'[d])
    BY <1>1, <1>2, <2>2, <2>3, OneCallWeakens
  <2>5. TabOwns' /\ QuoteIsOwn'
    BY <1>1, <1>4, <2>2, TabOwnsStays DEF QuoteIsOwn
  <2> QED BY <1>4, <2>2, <2>4, <2>5, WeakenedOwns
<1> QED BY <1>5, <1>6, <1>7, <1>8, <1>9, <1>10, <1>11 DEF Continues

LEMMA CloseOwns == ASSUME TabsInv, NamesOwn, Agrees, NEW t \in Tabs, Close(t) PROVE NamesOwn'
<1>1. StoreOK /\ ScreensOK /\ CallsOK /\ TabOwns /\ QuoteIsOwn /\ CallsOwn
  BY DEF TabsInv, NamesOwn
<1>2. UNCHANGED cookie
  BY DEF Close
<1>3. \A u \in Tabs : IF u = t THEN staff'[u] = Nobody /\ quote'[u] = Nobody
                               ELSE staff'[u] = staff[u] /\ quote'[u] = quote[u]
  BY <1>1 DEF Close, ScreensOK
<1>4. TabOwns'
  <2>1. \A r : Owns(r, cookie) => Owns(r, cookie)'
    BY <1>1, <1>2 DEF Agrees, Owns, StoreOK
  <2>2. \A u \in Tabs : staff'[u] # Nobody => Owns(staff'[u], cookie)
    BY <1>1, <1>3 DEF TabOwns
  <2> QED BY <2>1, <2>2 DEF TabOwns, Owns
<1>5. QuoteIsOwn'
  BY <1>1, <1>3 DEF QuoteIsOwn
<1>6. ASSUME NEW d \in Underway'
      PROVE  /\ d \in Underway /\ Weakens(calls[d], calls'[d])
             /\ calls'[d].mounted => staff'[calls[d].tab] = staff[calls[d].tab]
  <2>1. CASE d \in Awaited(t)
    <3>1. calls'[d] = Remainder(d) /\ d \in Underway
      BY <2>1 DEF Close, Awaited, Underway
    <3>2. calls'[d] # NoCall
      BY <1>6, NoCallIsNone DEF Underway
    <3> QED BY <1>1, <3>1, <3>2, RemainderCall
  <2>2. CASE d \notin Awaited(t)
    <3>1. calls'[d] = calls[d] /\ d \in Underway
      BY <1>6, <2>2 DEF Close, Underway
    <3>2. calls[d] \in SomeCall /\ CallOK(calls[d])
      BY <1>1, <3>1, UnderwayCall
    <3>3. calls[d].mounted => calls[d].tab # t
      BY <2>2, <3>1, <3>2 DEF Awaited, CallOK
    <3>4. calls[d].mounted => staff'[calls[d].tab] = staff[calls[d].tab]
      BY <1>3, <3>2, <3>3 DEF SomeCall
    <3> QED BY <3>1, <3>4 DEF Weakens
  <2> QED BY <2>1, <2>2
<1> QED BY <1>2, <1>4, <1>5, <1>6, WeakenedOwns

LEMMA RestartOwns == ASSUME TabsInv, NamesOwn, Agrees, Restart PROVE NamesOwn'
<1>1. StoreOK /\ CallsOK /\ TabOwns /\ QuoteIsOwn
  BY DEF TabsInv, NamesOwn
<1>2. UNCHANGED <<cookie, staff, quote>>
  BY DEF Restart, tabs
<1>3. TabOwns' /\ QuoteIsOwn'
  BY <1>1, <1>2, TabOwnsStays DEF QuoteIsOwn
<1>4. ASSUME NEW d \in Underway' PROVE d \in Underway /\ Weakens(calls[d], calls'[d])
  <2>1. d \in Calls /\ calls'[d] # NoCall
    BY <1>4, NoCallIsNone DEF Underway
  <2>2. d \in Underway
    BY <1>4 DEF Restart, Underway
  <2>3. PICK j : j = calls[d]
    OBVIOUS
  <2>4. j \in SomeCall
    BY <1>1, <2>2, <2>3, UnderwayCall
  <2>5. PICK k : k = [j EXCEPT !.phase = "dead"]
    OBVIOUS
  <2>6. calls'[d] \in {j, k}
    BY <2>1, <2>3, <2>5 DEF Restart
  <2>7. Weakens(j, k) /\ Weakens(j, j)
    BY <2>4, <2>5 DEF Weakens, SomeCall
  <2> QED BY <2>2, <2>3, <2>6, <2>7
<1> QED BY <1>2, <1>3, <1>4, WeakenedOwns

\* Steps that touch no call.
LEMMA NothingSentOwns ==
  ASSUME TabsInv, NamesOwn, Agrees, UNCHANGED <<cookie, staff, calls>>, QuoteIsOwn' PROVE NamesOwn'
<1>1. StoreOK /\ TabOwns
  BY DEF TabsInv, NamesOwn
<1>2. TabOwns'
  BY <1>1, TabOwnsStays
<1>3. \A d \in Underway' : d \in Underway /\ Weakens(calls[d], calls'[d])
  BY DEF Underway, Weakens
<1> QED BY <1>2, <1>3, WeakenedOwns

LEMMA NamesOwnStep == OneTab /\ TabsInv /\ NamesOwn /\ [SessionsNext]_svars => NamesOwn'
<1> SUFFICES ASSUME OneTab, TabsInv, NamesOwn, [SessionsNext]_svars PROVE NamesOwn'
  OBVIOUS
<1>1. Agrees
  BY StepAgrees DEF TabsInv
<1>2. QuoteIsOwn
  BY DEF NamesOwn
<1>3. CASE Expire
  BY <1>1, <1>2, <1>3, NothingSentOwns DEF Expire, QuoteIsOwn, tabs
<1>4. CASE UNCHANGED svars
  BY <1>1, <1>2, <1>4, NothingSentOwns DEF svars, tabs, QuoteIsOwn
<1>5. ASSUME NEW t \in Tabs, Edit(t) PROVE NamesOwn'
  <2>1. QuoteIsOwn'
    BY <1>2, <1>5 DEF Edit, QuoteIsOwn, TabsInv, ScreensOK
  <2> QED BY <1>1, <1>5, <2>1, NothingSentOwns DEF Edit
<1>6. ASSUME NEW c \in Calls, NeverArrives(c) PROVE NamesOwn'
  BY <1>1, <1>6, OneCallOwns DEF NeverArrives, tabs
<1> QED BY <1>1, <1>3, <1>4, <1>5, <1>6, RestartOwns, HandlesOwn, HeadersOwn, CloseOwns, ClicksOwn,
           ContinuesOwn DEF SessionsNext

LEMMA NamesAlways == ASSUME OneTab PROVE SessionsSpec => []NamesOwn
<1>1. SessionsInit => NamesOwn
  BY NoCallIsNone DEF SessionsInit, NamesOwn, TabOwns, QuoteIsOwn, CallsOwn, Underway
<1>2. TabsInv /\ NamesOwn /\ [SessionsNext]_svars => NamesOwn'
  BY NamesOwnStep
<1> QED BY <1>1, <1>2, TabsAlways, PTL DEF SessionsSpec

(* In a browser with one tab the person named on the screen is the one the   *)
(* BFF takes the browser for, unless the session is over: however sign ins,  *)
(* sign outs, reloads, late answers, broken connections and restarts follow  *)
(* each other (App.tsx, session.go, auth.go).                               *)
THEOREM OneTabIsOwn == ASSUME OneTab PROVE SessionsSpec => []OwnSession
<1>1. NamesOwn => OwnSession
  BY DEF NamesOwn, TabOwns, Owns, OwnSession, Live
<1> QED BY <1>1, NamesAlways, PTL

(* And the quote it shows was made for that person, not for whoever used the *)
(* tab before: a quote asked for under one name is dropped with that name    *)
(* (QuoteSummary.tsx, App.tsx).                                              *)
THEOREM OneTabQuoteIsOwn == ASSUME OneTab PROVE SessionsSpec => []QuoteIsOwn
<1>1. NamesOwn => QuoteIsOwn
  BY DEF NamesOwn
<1> QED BY <1>1, NamesAlways, PTL
=============================================================================
