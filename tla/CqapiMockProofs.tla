-------------------------- MODULE CqapiMockProofs ---------------------------
(***************************************************************************)
(* Theorems about CqapiMock, for any number of requests, any source of      *)
(* random values and any latencies.                                        *)
(*                                                                         *)
(* The lock makes the draws one behind the other: who holds it is the last *)
(* in the order, the part of the stream that is used ends where the values *)
(* it has drawn so far end, and everybody before it has drawn all of its   *)
(* own. What is used of the stream never changes again, so a fate that was *)
(* read off it once can be read off it for ever.                           *)
(***************************************************************************)
EXTENDS CqapiMock, TLAPS

LEMMA Constants ==
  /\ LatencyMin \in Nat /\ LatencyMax \in Nat /\ SlowDelay \in Nat /\ LatencyMin <= LatencyMax
  /\ \A v \in Values : v \in Nat
BY MockAssumption

Before  == {"off", "arrived", "injector"}
Drawing == {"fail", "slow", "latency"}
Past    == {"sleep", "handler", "done"}

Turns == 1..Len(order)
Turn  == [by : Requests, at : Nat]

\* The draw that is under way, or was the last.
Last == order[Len(order)]

TypesOK ==
  /\ taken \in Seq(Values)
  /\ order \in Seq(Turn)
  /\ pc \in [Requests -> Before \cup Drawing \cup Past]
  /\ fate \in [Requests -> [fail : BOOLEAN, slow : BOOLEAN, latency : Nat]]
  /\ lock \in Requests \cup {Nobody}
  /\ keyed \subseteq Requests

\* Everybody takes the lock once, with the key.
OrderOK ==
  /\ \A n \in Turns : order[n].by \in keyed /\ pc[order[n].by] \notin Before
  /\ \A m, n \in Turns : order[m].by = order[n].by => m = n
  /\ \A r \in Requests \ keyed : pc[r] \in {"off", "arrived", "done"}

\* Only who holds the lock draws.
LockOK ==
  /\ \A r \in Requests : pc[r] \in Drawing <=> lock = r
  /\ lock # Nobody => Len(order) > 0 /\ Last.by = lock

ChainOK == \A n \in Turns :
  order[n].at = IF n = 1 THEN 0 ELSE order[n - 1].at + Takes(order[n - 1].at)

\* The fate of r is what the stream says from at on.
FateIs(r, at) ==
  /\ fate[r].fail <=> Stream(at + 1) = 0
  /\ fate[r].slow <=> Stream(at + 2) = 0
  /\ fate[r].latency = IF fate[r].slow THEN SlowDelay
                       ELSE IF Spread = 0 THEN LatencyMin
                       ELSE LatencyMin + (Stream(at + 3) % Spread)

PastOK == \A n \in Turns :
  pc[order[n].by] \in Past =>
    /\ order[n].at + Takes(order[n].at) <= Len(taken)
    /\ FateIs(order[n].by, order[n].at)
    /\ pc[order[n].by] = "handler" => ~fate[order[n].by].fail

\* How far the stream is used.
FarOK ==
  /\ lock = Nobody => Len(taken) = IF Len(order) = 0 THEN 0 ELSE Last.at + Takes(Last.at)
  /\ lock # Nobody =>
       /\ pc[lock] = "fail" => Len(taken) = Last.at
       /\ pc[lock] = "slow" => Len(taken) = Last.at + 1
       /\ pc[lock] = "latency" => Len(taken) = Last.at + 2 /\ (fate[lock].slow <=> Stream(Last.at + 2) = 0)
       /\ pc[lock] \in {"slow", "latency"} => (fate[lock].fail <=> Stream(Last.at + 1) = 0)

RefusedOK == \A r \in Requests \ keyed : pc[r] = "done" => status[r] = 401

TruthOK == \A r \in Requests : made[r] = IF pc[r] = "done" /\ status[r] = 201 THEN 1 ELSE 0

HistoriesOK == status \in [Requests -> Nat] /\ made \in [Requests -> Nat]

DrawsOK == TypesOK /\ OrderOK /\ LockOK /\ ChainOK /\ PastOK /\ FarOK

\* What is answered and what is made of it.
AnswersOK == RefusedOK /\ TruthOK /\ HistoriesOK

MockInv == DrawsOK /\ AnswersOK

LEMMA InitMock == MockInit => MockInv
<1> SUFFICES ASSUME MockInit PROVE MockInv
  OBVIOUS
<1>1. NoFate \in [fail : BOOLEAN, slow : BOOLEAN, latency : Nat]
  BY DEF NoFate
<1>2. TypesOK
  BY <1>1 DEF MockInit, TypesOK, Before
<1>3. OrderOK /\ LockOK /\ ChainOK /\ PastOK /\ FarOK
  BY NobodyAssumption DEF MockInit, OrderOK, LockOK, ChainOK, PastOK, FarOK, Turns, Before, Drawing, Past
<1>4. RefusedOK /\ TruthOK /\ HistoriesOK
  BY DEF MockInit, RefusedOK, TruthOK, HistoriesOK
<1> QED BY <1>2, <1>3, <1>4 DEF MockInv, DrawsOK, AnswersOK

-----------------------------------------------------------------------------
(* The stream.                                                               *)

LEMMA StreamGrows ==
  ASSUME taken \in Seq(Values), NEW v \in Values, taken' = Append(taken, v)
  PROVE  /\ taken' \in Seq(Values) /\ Len(taken) \in Nat /\ Len(taken)' = Len(taken) + 1
         /\ \A i \in Nat : i > 0 /\ i <= Len(taken) => Stream(i)' = Stream(i)
         /\ \A i : i = Len(taken) + 1 => Stream(i)' = v
<1>1. taken' \in Seq(Values) /\ Len(taken) \in Nat /\ Len(taken)' = Len(taken) + 1
  OBVIOUS
<1>2. \A i \in 1..Len(taken) : taken'[i] = taken[i]
  OBVIOUS
<1>3. taken'[Len(taken) + 1] = v
  OBVIOUS
<1> QED BY <1>1, <1>2, <1>3 DEF Stream

\* One value is drawn, or none.
Grows == taken' = taken \/ \E v \in Values : taken' = Append(taken, v)

LEMMA StreamStays ==
  ASSUME taken \in Seq(Values), Grows
  PROVE  /\ taken' \in Seq(Values) /\ Len(taken) \in Nat /\ Len(taken)' \in Nat
         /\ Len(taken) <= Len(taken)'
         /\ \A i \in Nat : i > 0 /\ i <= Len(taken) => Stream(i)' = Stream(i)
<1>1. CASE taken' = taken
  BY <1>1 DEF Stream
<1>2. CASE \E v \in Values : taken' = Append(taken, v)
  <2>1. PICK v \in Values : taken' = Append(taken, v)
    BY <1>2
  <2> QED BY <2>1, StreamGrows
<1> QED BY <1>1, <1>2 DEF Grows

\* Of an entry of the order: it has its type, and entries before it are entries.
LEMMA TurnTypes ==
  ASSUME TypesOK, NEW n \in Turns
  PROVE  /\ order[n].by \in Requests /\ order[n].at \in Nat /\ n \in Nat /\ n >= 1
         /\ Len(order) \in Nat /\ n <= Len(order) /\ (n # 1 => n - 1 \in Turns)
<1>1. Len(order) \in Nat /\ n \in 1..Len(order)
  BY DEF TypesOK, Turns
<1>2. order[n] \in Turn
  BY <1>1 DEF TypesOK
<1>3. order[n].by \in Requests /\ order[n].at \in Nat
  BY <1>2 DEF Turn
<1> QED BY <1>1, <1>3 DEF Turns

LEMMA TakesSome == ASSUME NEW at PROVE Takes(at) \in {2, 3}
BY DEF Takes

\* What is over stays as it was drawn.
LEMMA FateStays ==
  ASSUME TypesOK, Grows, NEW r, NEW at \in Nat, fate'[r] = fate[r], FateIs(r, at),
         at + Takes(at) <= Len(taken)
  PROVE  FateIs(r, at)' /\ Takes(at)' = Takes(at) /\ at + Takes(at)' <= Len(taken)'
<1>1. Len(taken) \in Nat /\ Len(taken)' \in Nat /\ Len(taken) <= Len(taken)'
      /\ \A i \in Nat : i > 0 /\ i <= Len(taken) => Stream(i)' = Stream(i)
  BY StreamStays DEF TypesOK
<1>2. at + 1 <= Len(taken) /\ at + 2 <= Len(taken) /\ (Takes(at) = 3 => at + 3 <= Len(taken))
  BY <1>1, TakesSome
<1>3. Stream(at + 1)' = Stream(at + 1) /\ Stream(at + 2)' = Stream(at + 2)
  BY <1>1, <1>2
<1>4. Takes(at) = 3 => Stream(at + 3)' = Stream(at + 3)
  BY <1>1, <1>2
<1>5. Takes(at)' = Takes(at)
  BY <1>3 DEF Takes
<1>6. Takes(at) # 3 => fate[r].slow \/ Spread = 0
  BY DEF Takes, FateIs
<1>7. FateIs(r, at)'
  BY <1>3, <1>4, <1>6 DEF FateIs
<1> QED BY <1>1, <1>5, <1>7, TakesSome

-----------------------------------------------------------------------------
(* Steps outside the lock.                                                   *)

\* r goes on to p without drawing.
Moves(r, p) ==
  /\ pc' = [pc EXCEPT ![r] = p]
  /\ p \in Before \cup Past
  /\ pc[r] \in Before => p \in Before \/ r \notin keyed
  /\ pc[r] \in Past => p \in Past
  /\ r \notin keyed => p \in {"arrived", "done"}
  /\ p = "handler" => ~fate[r].fail

LEMMA MoveKeeps ==
  ASSUME DrawsOK, NEW r \in Requests, NEW p, Moves(r, p), pc[r] \notin Drawing,
         UNCHANGED <<taken, lock, keyed, fate, order>>
  PROVE  DrawsOK'
<1>1. TypesOK /\ OrderOK /\ LockOK /\ ChainOK /\ PastOK /\ FarOK
  BY DEF DrawsOK
<1>2. TypesOK'
  BY <1>1 DEF TypesOK, Moves
<1>3. pc'[r] = p /\ \A s \in Requests : s # r => pc'[s] = pc[s]
  BY <1>1 DEF TypesOK, Moves
<1>4. \A n \in Turns : order[n].by \in Requests /\ order[n].by \in keyed
  BY <1>1, TurnTypes DEF OrderOK
<1>5. \A n \in Turns : order[n].by = r => pc[r] \in Past /\ p \in Past
  BY <1>1, <1>4 DEF OrderOK, Moves, TypesOK
<1>6. OrderOK'
  BY <1>1, <1>3, <1>4, <1>5 DEF OrderOK, Turns, Moves, Past, Before
<1>7. LockOK'
  BY <1>1, <1>3 DEF LockOK, Last, Moves, Past, Before, Drawing
<1>8. ChainOK'
  BY <1>1 DEF ChainOK, Turns, Takes, Stream
<1>9. PastOK'
  <2> SUFFICES ASSUME NEW n \in Turns, pc'[order[n].by] \in Past
               PROVE  /\ order[n].at + Takes(order[n].at) <= Len(taken)
                      /\ FateIs(order[n].by, order[n].at)
                      /\ pc'[order[n].by] = "handler" => ~fate[order[n].by].fail
    BY DEF PastOK, Turns, Takes, Stream, FateIs
  <2>1. CASE order[n].by = r
    BY <1>1, <1>3, <1>5, <2>1 DEF PastOK, Moves
  <2>2. CASE order[n].by # r
    BY <1>1, <1>3, <1>4, <2>2 DEF PastOK
  <2> QED BY <2>1, <2>2
<1>10. FarOK'
  <2>1. lock # Nobody => lock # r /\ lock \in Requests /\ pc'[lock] = pc[lock]
    BY <1>1, <1>3 DEF LockOK, TypesOK
  <2> QED BY <1>1, <2>1 DEF FarOK, Last, Takes, Stream
<1> QED BY <1>2, <1>6, <1>7, <1>8, <1>9, <1>10 DEF DrawsOK

-----------------------------------------------------------------------------
(* Under the lock.                                                           *)

\* What there is besides the draw under way.
LEMMA Others ==
  ASSUME DrawsOK, NEW r \in Requests, lock = r
  PROVE  /\ Len(order) \in Turns /\ Last.by = r /\ Last.at \in Nat /\ pc[r] \in Drawing
         /\ \A n \in Turns : n # Len(order) => order[n].by # r /\ pc[order[n].by] \in Past
<1>1. TypesOK /\ OrderOK /\ LockOK
  BY DEF DrawsOK
<1>2. Len(order) > 0 /\ Last.by = r /\ pc[r] \in Drawing
  BY <1>1, NobodyAssumption DEF LockOK
<1>3. Len(order) \in Turns
  BY <1>1, <1>2 DEF TypesOK, Turns
<1>4. Last.at \in Nat
  BY <1>1, <1>3, TurnTypes DEF Last
<1>5. ASSUME NEW n \in Turns, n # Len(order) PROVE order[n].by # r /\ pc[order[n].by] \in Past
  <2>1. order[n].by # r
    BY <1>1, <1>2, <1>3, <1>5 DEF OrderOK, Last
  <2>2. order[n].by \in Requests
    BY <1>1, TurnTypes
  <2> QED BY <1>1, <2>1, <2>2 DEF OrderOK, LockOK, TypesOK
<1> QED BY <1>2, <1>3, <1>4, <1>5

\* The holder draws a value, or none, and keeps the lock or gives it back.
LEMMA DrawKeeps ==
  ASSUME DrawsOK, NEW r \in Requests, lock = r, Grows, NEW f, NEW next, Draw(r, f, next),
         f \in [fail : BOOLEAN, slow : BOOLEAN, latency : Nat],
         lock' \in {r, Nobody}, lock' = r <=> next \in Drawing, next \in Drawing \cup {"sleep"},
         next = "sleep" => (Last.at + Takes(Last.at) = Len(taken) /\ FateIs(r, Last.at))',
         FarOK'
  PROVE  DrawsOK'
<1>1. TypesOK /\ OrderOK /\ LockOK /\ ChainOK /\ PastOK /\ FarOK
  BY DEF DrawsOK
<1>2. /\ Len(order) \in Turns /\ Last.by = r /\ Last.at \in Nat /\ pc[r] \in Drawing
      /\ \A n \in Turns : n # Len(order) => order[n].by # r /\ pc[order[n].by] \in Past
  BY Others
<1>3. UNCHANGED <<keyed, order>> /\ pc' = [pc EXCEPT ![r] = next] /\ fate' = [fate EXCEPT ![r] = f]
  BY DEF Draw
<1>4. TypesOK'
  BY <1>1, <1>3, StreamStays DEF TypesOK, Past
<1>5. pc'[r] = next /\ \A s \in Requests : s # r => pc'[s] = pc[s] /\ fate'[s] = fate[s]
  BY <1>1, <1>3 DEF TypesOK
<1>6. \A n \in Turns : order[n].by \in Requests
  BY <1>1, TurnTypes
<1>7. OrderOK'
  BY <1>1, <1>2, <1>3, <1>5, <1>6 DEF OrderOK, Turns, Before, Drawing
<1>8. LockOK'
  BY <1>1, <1>2, <1>3, <1>5, NobodyAssumption DEF LockOK, Last, Turns, Drawing, TypesOK
<1>9. ASSUME NEW n \in Turns, n # Len(order)
      PROVE  /\ Takes(order[n].at)' = Takes(order[n].at) /\ FateIs(order[n].by, order[n].at)'
             /\ (order[n].at + Takes(order[n].at) <= Len(taken))'
             /\ pc'[order[n].by] = "handler" => ~fate'[order[n].by].fail
  <2>1. order[n].by # r /\ order[n].by \in Requests /\ pc[order[n].by] \in Past /\ order[n].at \in Nat
    BY <1>1, <1>2, <1>9, TurnTypes
  <2>2. FateIs(order[n].by, order[n].at) /\ order[n].at + Takes(order[n].at) <= Len(taken)
    BY <1>1, <2>1 DEF PastOK
  <2>3. PICK s, at : s = order[n].by /\ at = order[n].at
    OBVIOUS
  <2>4. FateIs(s, at)' /\ Takes(at)' = Takes(at) /\ at + Takes(at)' <= Len(taken)'
    BY <1>1, <1>5, <2>1, <2>2, <2>3, FateStays
  <2>5. pc'[s] = "handler" => ~fate'[s].fail
    BY <1>1, <1>5, <2>1, <2>3 DEF PastOK
  <2> QED BY <1>3, <2>3, <2>4, <2>5 DEF FateIs, Takes, Stream
<1>10. ChainOK'
  <2> SUFFICES ASSUME NEW n \in Turns, n # 1
               PROVE  Takes(order[n - 1].at)' = Takes(order[n - 1].at)
    BY <1>1, <1>3 DEF ChainOK, Turns
  <2>1. n - 1 \in Turns /\ n - 1 # Len(order)
    BY <1>1, TurnTypes
  <2> QED BY <1>9, <2>1
<1>11. PastOK'
  <2> SUFFICES ASSUME NEW n \in Turns, pc'[order[n].by] \in Past
               PROVE  /\ (order[n].at + Takes(order[n].at) <= Len(taken))'
                      /\ FateIs(order[n].by, order[n].at)'
                      /\ pc'[order[n].by] = "handler" => ~fate'[order[n].by].fail
    BY <1>3 DEF PastOK, Turns
  <2>1. CASE n = Len(order)
    <3>1. next = "sleep" /\ order[n] = Last
      BY <1>2, <1>5, <2>1 DEF Last, Past, Drawing
    <3>2. (Last.at + Takes(Last.at) = Len(taken))' /\ FateIs(r, Last.at)' /\ Last' = Last
      BY <1>3, <3>1 DEF Last, FateIs
    <3>3. order[n].by = r /\ pc'[r] = "sleep"
      BY <1>2, <1>5, <3>1
    <3>4. Len(taken)' \in Nat
      BY <1>1, StreamStays DEF TypesOK
    <3> QED BY <1>3, <3>1, <3>2, <3>3, <3>4 DEF FateIs, Takes, Stream
  <2>2. CASE n # Len(order)
    BY <1>9, <2>2
  <2> QED BY <2>1, <2>2
<1> QED BY <1>4, <1>7, <1>8, <1>10, <1>11 DEF DrawsOK

LEMMA LockKeeps == ASSUME DrawsOK, NEW r \in Requests, Lock(r) PROVE DrawsOK'
<1>1. TypesOK /\ OrderOK /\ LockOK /\ ChainOK /\ PastOK /\ FarOK
  BY DEF DrawsOK
<1>2. PICK e : e = [by |-> r, at |-> Len(taken)]
  OBVIOUS
<1>3. e.by = r /\ e.at = Len(taken) /\ e \in Turn
  BY <1>1, <1>2 DEF Turn, TypesOK
<1>4. order' = Append(order, e) /\ lock = Nobody /\ lock' = r /\ pc[r] = "injector"
      /\ pc' = [pc EXCEPT ![r] = "fail"] /\ UNCHANGED <<taken, keyed, fate>>
  BY <1>2 DEF Lock
<1>5. /\ Len(order) \in Nat /\ Len(order') = Len(order) + 1 /\ order'[Len(order) + 1] = e
      /\ \A n \in Turns : order'[n] = order[n]
      /\ Turns' = Turns \cup {Len(order) + 1}
  BY <1>1, <1>3, <1>4 DEF TypesOK, Turns
<1>6. pc'[r] = "fail" /\ \A s \in Requests : s # r => pc'[s] = pc[s]
  BY <1>1, <1>4 DEF TypesOK
<1>7. TypesOK'
  BY <1>1, <1>3, <1>4 DEF TypesOK, Drawing
<1>8. \A n \in Turns : order[n].by \in Requests /\ order[n].by # r /\ pc[order[n].by] \in Past
  <2>1. SUFFICES ASSUME NEW n \in Turns
                 PROVE order[n].by \in Requests /\ order[n].by # r /\ pc[order[n].by] \in Past
    OBVIOUS
  <2>2. order[n].by \in Requests /\ pc[order[n].by] \notin Before
    BY <1>1, TurnTypes DEF OrderOK
  <2>3. order[n].by # r
    BY <1>4, <2>2 DEF Before
  <2>4. pc[order[n].by] \notin Drawing
    BY <1>1, <1>4, <2>2, NobodyAssumption DEF LockOK
  <2> QED BY <1>1, <2>2, <2>3, <2>4 DEF TypesOK
<1>9. r \in keyed
  BY <1>1, <1>4 DEF OrderOK
<1>10. \A n \in Turns : n # Len(order) + 1
  BY <1>5 DEF Turns
<1>11. OrderOK'
  <2>1. ASSUME NEW n \in Turns' PROVE order'[n].by \in keyed' /\ pc'[order'[n].by] \notin Before
    <3>1. CASE n \in Turns
      <4>1. order'[n].by = order[n].by /\ pc'[order[n].by] = pc[order[n].by]
        BY <1>5, <1>6, <1>8, <3>1
      <4> QED BY <1>1, <1>4, <3>1, <4>1 DEF OrderOK
    <3>2. CASE n = Len(order) + 1
      BY <1>3, <1>4, <1>5, <1>6, <1>9, <3>2 DEF Before
    <3> QED BY <1>5, <3>1, <3>2
  <2>2. \A m, n \in Turns' : order'[m].by = order'[n].by => m = n
    BY <1>1, <1>3, <1>5, <1>8, <1>10 DEF OrderOK
  <2>3. \A s \in Requests \ keyed' : pc'[s] \in {"off", "arrived", "done"}
    BY <1>1, <1>4, <1>6, <1>9 DEF OrderOK
  <2> QED BY <2>1, <2>2, <2>3 DEF OrderOK
<1>12. LockOK'
  BY <1>1, <1>3, <1>4, <1>5, <1>6, NobodyAssumption DEF LockOK, Last, Drawing
<1>13. ChainOK'
  <2>1. ASSUME NEW n \in Turns
        PROVE  order'[n].at = IF n = 1 THEN 0 ELSE order'[n - 1].at + Takes(order[n - 1].at)
    <3>1. n # 1 => n - 1 \in Turns
      BY <1>1, TurnTypes
    <3> QED BY <1>1, <1>5, <3>1 DEF ChainOK
  <2>2. Len(order) = 0 => e.at = 0
    BY <1>1, <1>3, <1>4 DEF FarOK
  <2>3. Len(order) # 0 => e.at = order[Len(order)].at + Takes(order[Len(order)].at)
    BY <1>1, <1>3, <1>4 DEF FarOK, Last
  <2>4. \A at : Takes(at)' = Takes(at)
    BY <1>4 DEF Takes, Stream
  <2>5. Len(order) # 0 => Len(order) \in Turns
    BY <1>5 DEF Turns
  <2>6. ASSUME NEW n \in Turns'
        PROVE  order'[n].at = IF n = 1 THEN 0 ELSE order'[n - 1].at + Takes(order'[n - 1].at)
    <3>1. CASE n \in Turns
      <4>1. n # 1 => n - 1 \in Turns
        BY <1>1, <3>1, TurnTypes
      <4> QED BY <1>5, <2>1, <3>1, <4>1
    <3>2. CASE n = Len(order) + 1
      <4>1. order'[n] = e
        BY <1>5, <3>2
      <4>2. CASE Len(order) = 0
        BY <2>2, <3>2, <4>1, <4>2
      <4>3. CASE Len(order) # 0
        <5>1. n # 1 /\ n - 1 = Len(order) /\ order'[n - 1] = order[Len(order)]
          BY <1>5, <2>5, <3>2, <4>3
        <5> QED BY <2>3, <4>1, <4>3, <5>1
      <4> QED BY <4>2, <4>3
    <3> QED BY <1>5, <3>1, <3>2
  <2> QED BY <1>4, <2>6 DEF ChainOK, Takes, Stream
<1>14. PastOK'
  <2> SUFFICES ASSUME NEW n \in Turns', pc'[order'[n].by] \in Past
               PROVE  /\ order'[n].at + Takes(order'[n].at) <= Len(taken)
                      /\ FateIs(order'[n].by, order'[n].at)
                      /\ pc'[order'[n].by] = "handler" => ~fate[order'[n].by].fail
    BY <1>4 DEF PastOK, Takes, Stream, FateIs
  <2>1. n \in Turns /\ order'[n] = order[n]
    BY <1>3, <1>5, <1>6 DEF Past
  <2>2. pc'[order[n].by] = pc[order[n].by]
    BY <1>6, <1>8, <2>1
  <2> QED BY <1>1, <2>1, <2>2 DEF PastOK
<1>15. FarOK'
  BY <1>3, <1>4, <1>5, <1>6, NobodyAssumption DEF FarOK, Last
<1> QED BY <1>7, <1>11, <1>12, <1>13, <1>14, <1>15 DEF DrawsOK

LEMMA DrawFailKeeps == ASSUME DrawsOK, NEW r \in Requests, DrawFail(r) PROVE DrawsOK'
<1>1. TypesOK /\ LockOK /\ FarOK
  BY DEF DrawsOK
<1>2. lock = r /\ lock' = r
  BY <1>1 DEF LockOK, DrawFail, Drawing
<1>3. Last.at \in Nat
  BY <1>2, Others
<1>4. Len(taken) = Last.at
  BY <1>1, <1>2, NobodyAssumption DEF FarOK, DrawFail
<1>5. PICK v \in Values : taken' = Append(taken, v) /\ Draw(r, [fate[r] EXCEPT !.fail = v = 0], "slow")
  BY DEF DrawFail
<1>6. PICK f : f = [fate[r] EXCEPT !.fail = v = 0]
  OBVIOUS
<1>7. f \in [fail : BOOLEAN, slow : BOOLEAN, latency : Nat] /\ (f.fail <=> v = 0)
  BY <1>1, <1>6 DEF TypesOK
<1>8. Len(taken)' = Len(taken) + 1 /\ \A i : i = Len(taken) + 1 => Stream(i)' = v
  BY <1>1, <1>5, StreamGrows DEF TypesOK
<1>9. UNCHANGED order /\ pc'[r] = "slow" /\ fate'[r] = f
  BY <1>1, <1>5, <1>6 DEF Draw, TypesOK
<1>10. \A i : i = Last.at + 1 => Stream(i)' = v
  BY <1>4, <1>8
<1>11. FarOK'
  BY <1>2, <1>4, <1>7, <1>8, <1>9, <1>10, NobodyAssumption DEF FarOK, Last, Stream
<1> QED BY <1>2, <1>5, <1>6, <1>7, <1>11, DrawKeeps DEF Grows, Drawing

LEMMA DrawSlowKeeps == ASSUME DrawsOK, NEW r \in Requests, DrawSlow(r) PROVE DrawsOK'
<1>1. TypesOK /\ LockOK /\ FarOK
  BY DEF DrawsOK
<1>2. lock = r /\ lock' = r
  BY <1>1 DEF LockOK, DrawSlow, Drawing
<1>3. Last.at \in Nat
  BY <1>2, Others
<1>4. Len(taken) = Last.at + 1 /\ (fate[r].fail <=> Stream(Last.at + 1) = 0)
  BY <1>1, <1>2, NobodyAssumption DEF FarOK, DrawSlow
<1>5. PICK v \in Values : taken' = Append(taken, v) /\ Draw(r, [fate[r] EXCEPT !.slow = v = 0], "latency")
  BY DEF DrawSlow
<1>6. PICK f : f = [fate[r] EXCEPT !.slow = v = 0]
  OBVIOUS
<1>7. /\ f \in [fail : BOOLEAN, slow : BOOLEAN, latency : Nat]
      /\ (f.slow <=> v = 0) /\ f.fail = fate[r].fail
  BY <1>1, <1>6 DEF TypesOK
<1>8. /\ Len(taken)' = Len(taken) + 1 /\ \A i : i = Len(taken) + 1 => Stream(i)' = v
      /\ \A i \in Nat : i > 0 /\ i <= Len(taken) => Stream(i)' = Stream(i)
  BY <1>1, <1>5, StreamGrows DEF TypesOK
<1>9. UNCHANGED order /\ pc'[r] = "latency" /\ fate'[r] = f
  BY <1>1, <1>5, <1>6 DEF Draw, TypesOK
<1>10. PICK a \in Nat : a = Last.at /\ a = Last'.at
  BY <1>3, <1>9 DEF Last
<1>11. Stream(a + 2)' = v /\ Stream(a + 1)' = Stream(a + 1)
  BY <1>4, <1>8, <1>10
<1>12. Len(taken)' = a + 2 /\ (f.slow <=> Stream(a + 2)' = 0) /\ (f.fail <=> Stream(a + 1)' = 0)
  BY <1>4, <1>7, <1>8, <1>10, <1>11
<1>13. FarOK'
  BY <1>2, <1>9, <1>10, <1>12, NobodyAssumption DEF FarOK, Stream
<1> QED BY <1>2, <1>5, <1>6, <1>7, <1>13, DrawKeeps DEF Grows, Drawing

LEMMA DrawLatencyKeeps == ASSUME DrawsOK, NEW r \in Requests, DrawLatency(r) PROVE DrawsOK'
<1>1. TypesOK /\ LockOK /\ FarOK
  BY DEF DrawsOK
<1>2. lock = r /\ lock' = Nobody /\ pc[r] = "latency"
  BY <1>1 DEF LockOK, DrawLatency, Drawing
<1>3. Last.at \in Nat
  BY <1>2, Others
<1>4. /\ Len(taken) = Last.at + 2
      /\ (fate[r].fail <=> Stream(Last.at + 1) = 0) /\ (fate[r].slow <=> Stream(Last.at + 2) = 0)
  BY <1>1, <1>2, NobodyAssumption DEF FarOK
<1>5. PICK a \in Nat : a = Last.at
  BY <1>3
<1>6. PICK f : /\ Draw(r, f, "sleep") /\ f \in [fail : BOOLEAN, slow : BOOLEAN, latency : Nat]
               /\ f.fail = fate[r].fail /\ f.slow = fate[r].slow
               /\ \/ /\ fate[r].slow \/ Spread = 0
                     /\ UNCHANGED taken
                     /\ f.latency = IF fate[r].slow THEN SlowDelay ELSE LatencyMin
                  \/ /\ ~(fate[r].slow \/ Spread = 0)
                     /\ \E v \in Values : taken' = Append(taken, v) /\ f.latency = LatencyMin + (v % Spread)
  <2>1. CASE fate[r].slow \/ Spread = 0
    <3>1. PICK l \in Nat : l = IF fate[r].slow THEN SlowDelay ELSE LatencyMin
      BY Constants
    <3>2. PICK f : f = [fate[r] EXCEPT !.latency = l]
      OBVIOUS
    <3>3. f \in [fail : BOOLEAN, slow : BOOLEAN, latency : Nat]
          /\ f.fail = fate[r].fail /\ f.slow = fate[r].slow /\ f.latency = l
      BY <1>1, <3>2 DEF TypesOK
    <3>4. Draw(r, f, "sleep") /\ UNCHANGED taken
      BY <2>1, <3>1, <3>2 DEF DrawLatency, SetLatency
    <3> QED BY <2>1, <3>1, <3>3, <3>4
  <2>2. CASE ~(fate[r].slow \/ Spread = 0)
    <3>1. PICK v \in Values : /\ taken' = Append(taken, v)
                              /\ Draw(r, [fate[r] EXCEPT !.latency = LatencyMin + (v % Spread)], "sleep")
      BY <2>2 DEF DrawLatency, SetLatency
    <3>2. Spread \in Nat /\ Spread > 0 /\ v \in Nat
      BY <2>2, Constants DEF Spread
    <3>3. PICK l \in Nat : l = LatencyMin + (v % Spread)
      BY <3>2, Constants
    <3>4. PICK f : f = [fate[r] EXCEPT !.latency = l]
      OBVIOUS
    <3>5. f \in [fail : BOOLEAN, slow : BOOLEAN, latency : Nat]
          /\ f.fail = fate[r].fail /\ f.slow = fate[r].slow /\ f.latency = l
      BY <1>1, <3>4 DEF TypesOK
    <3> QED BY <2>2, <3>1, <3>3, <3>4, <3>5
  <2> QED BY <2>1, <2>2
<1>7. UNCHANGED order /\ fate'[r] = f /\ Last' = Last
  BY <1>1, <1>6 DEF Draw, TypesOK, Last
<1>8. Grows
  BY <1>6 DEF Grows
<1>9. Stream(a + 1)' = Stream(a + 1) /\ Stream(a + 2)' = Stream(a + 2)
  BY <1>1, <1>4, <1>5, <1>8, StreamStays DEF TypesOK
<1>10. FateIs(r, a)' /\ a + Takes(a)' = Len(taken)'
  <2>1. CASE fate[r].slow \/ Spread = 0
    <3>1. Takes(a)' = 2
      BY <1>4, <1>5, <1>9, <2>1 DEF Takes
    <3> QED BY <1>4, <1>5, <1>6, <1>7, <1>9, <2>1, <3>1 DEF FateIs
  <2>2. CASE ~(fate[r].slow \/ Spread = 0)
    <3>1. PICK v \in Values : taken' = Append(taken, v) /\ f.latency = LatencyMin + (v % Spread)
      BY <1>6, <2>2
    <3>2. Len(taken)' = Len(taken) + 1 /\ Stream(a + 3)' = v
      BY <1>1, <1>4, <1>5, <3>1, StreamGrows DEF TypesOK
    <3>3. Takes(a)' = 3
      BY <1>4, <1>5, <1>9, <2>2 DEF Takes
    <3> QED BY <1>4, <1>5, <1>6, <1>7, <1>9, <2>2, <3>1, <3>2, <3>3 DEF FateIs
  <2> QED BY <2>1, <2>2
<1>11. (Last.at + Takes(Last.at) = Len(taken) /\ FateIs(r, Last.at))'
  BY <1>5, <1>7, <1>10 DEF FateIs, Takes, Stream
<1>12. Len(order') # 0
  BY <1>2, <1>7, NobodyAssumption DEF DrawsOK, LockOK
<1>13. FarOK'
  BY <1>2, <1>11, <1>12 DEF FarOK
<1> QED BY <1>2, <1>6, <1>8, <1>11, <1>13, NobodyAssumption, DrawKeeps DEF Drawing

-----------------------------------------------------------------------------
(* All steps.                                                                *)

LEMMA DrawsStep == ASSUME DrawsOK, [MockNext]_mvars PROVE DrawsOK'
<1>1. TypesOK /\ OrderOK /\ LockOK
  BY DEF DrawsOK
<1>2. ASSUME NEW r \in Requests, Arrive(r) PROVE DrawsOK'
  BY <1>2, MoveKeeps DEF Arrive, Moves, Before, Drawing, Past
<1>3. ASSUME NEW r \in Requests, RequireAPIKey(r) PROVE DrawsOK'
  <2>1. UNCHANGED <<taken, lock, keyed, fate, order>> /\ pc[r] = "arrived"
    BY <1>3 DEF RequireAPIKey
  <2>2. CASE r \in keyed
    BY <1>3, <2>1, <2>2, MoveKeeps DEF RequireAPIKey, Moves, Before, Drawing, Past
  <2>3. CASE r \notin keyed
    BY <1>3, <2>1, <2>3, MoveKeeps DEF RequireAPIKey, Done, Moves, Before, Drawing, Past
  <2> QED BY <2>2, <2>3
<1>4. ASSUME NEW r \in Requests, pc[r] \in {"sleep", "handler"} PROVE r \in keyed
  BY <1>1, <1>4 DEF OrderOK
<1>5. ASSUME NEW r \in Requests, Wakes(r) PROVE DrawsOK'
  <2>1. UNCHANGED <<taken, lock, keyed, fate, order>> /\ pc[r] = "sleep" /\ r \in keyed
    BY <1>4, <1>5 DEF Wakes
  <2>2. CASE fate[r].fail
    BY <1>5, <2>1, <2>2, MoveKeeps DEF Wakes, Done, Moves, Before, Drawing, Past
  <2>3. CASE ~fate[r].fail
    BY <1>5, <2>1, <2>3, MoveKeeps DEF Wakes, Moves, Before, Drawing, Past
  <2> QED BY <2>2, <2>3
<1>6. ASSUME NEW r \in Requests, Cancelled(r) PROVE DrawsOK'
  BY <1>4, <1>6, MoveKeeps DEF Cancelled, Done, Moves, Before, Drawing, Past
<1>7. ASSUME NEW r \in Requests, Quote(r) PROVE DrawsOK'
  BY <1>4, <1>7, MoveKeeps DEF Quote, Done, Moves, Before, Drawing, Past
<1>8. ASSUME UNCHANGED <<taken, lock, pc, keyed, fate, order>> PROVE DrawsOK'
  BY <1>8 DEF DrawsOK, TypesOK, OrderOK, LockOK, ChainOK, PastOK, FarOK, Turns, Last, Takes, Stream, FateIs
<1>9. ASSUME NEW r \in Requests, GivesUp(r) PROVE DrawsOK'
  BY <1>8, <1>9 DEF GivesUp
<1>10. CASE UNCHANGED mvars
  BY <1>8, <1>10 DEF mvars
<1> QED BY <1>2, <1>3, <1>5, <1>6, <1>7, <1>9, <1>10, LockKeeps, DrawFailKeeps, DrawSlowKeeps,
           DrawLatencyKeeps DEF MockNext, Handles

LEMMA AnswersStep == ASSUME DrawsOK, AnswersOK, [MockNext]_mvars PROVE AnswersOK'
<1>1. TypesOK /\ OrderOK /\ LockOK /\ RefusedOK /\ TruthOK /\ HistoriesOK
  BY DEF DrawsOK, AnswersOK
<1>2. ASSUME NEW r \in Requests, pc[r] # "done", NEW p, p # "done", pc' = [pc EXCEPT ![r] = p],
             UNCHANGED <<keyed, status, made>>
      PROVE  AnswersOK'
  <2>1. pc'[r] = p /\ \A s \in Requests : s # r => pc'[s] = pc[s]
    BY <1>1, <1>2 DEF TypesOK
  <2> QED BY <1>1, <1>2, <2>1 DEF AnswersOK, RefusedOK, TruthOK, HistoriesOK
<1>3. ASSUME NEW r \in Requests, pc[r] # "done", NEW code \in Nat, Done(r, code), UNCHANGED keyed,
             r \notin keyed => code = 401,
             IF code = 201 THEN made' = [made EXCEPT ![r] = @ + 1] ELSE UNCHANGED made
      PROVE  AnswersOK'
  <2>1. /\ pc'[r] = "done" /\ status'[r] = code
        /\ \A s \in Requests : s # r => pc'[s] = pc[s] /\ status'[s] = status[s]
    BY <1>1, <1>3 DEF Done, TypesOK, HistoriesOK
  <2>2. made[r] = 0
    BY <1>1, <1>3 DEF TruthOK
  <2>3. /\ made'[r] = IF code = 201 THEN 1 ELSE 0
        /\ \A s \in Requests : s # r => made'[s] = made[s]
        /\ made' \in [Requests -> Nat]
    BY <1>1, <1>3, <2>2 DEF HistoriesOK
  <2>4. RefusedOK'
    BY <1>1, <1>3, <2>1 DEF RefusedOK
  <2>5. TruthOK'
    BY <1>1, <2>1, <2>3 DEF TruthOK
  <2>6. HistoriesOK'
    BY <1>1, <1>3, <2>3 DEF Done, HistoriesOK
  <2> QED BY <2>4, <2>5, <2>6 DEF AnswersOK
<1>4. ASSUME UNCHANGED <<pc, keyed, status, made>> PROVE AnswersOK'
  BY <1>1, <1>4 DEF AnswersOK, RefusedOK, TruthOK, HistoriesOK
<1>5. ASSUME NEW r \in Requests, pc[r] \in {"sleep", "handler"} PROVE r \in keyed
  BY <1>1, <1>5 DEF OrderOK
<1>6. ASSUME NEW r \in Requests, Arrive(r) \/ Lock(r) PROVE AnswersOK'
  BY <1>2, <1>6 DEF Arrive, Lock
<1>7. ASSUME NEW r \in Requests, DrawFail(r) \/ DrawSlow(r) PROVE AnswersOK'
  BY <1>2, <1>7 DEF DrawFail, DrawSlow, Draw
<1>8. ASSUME NEW r \in Requests, DrawLatency(r) PROVE AnswersOK'
  BY <1>2, <1>8 DEF DrawLatency, SetLatency, Draw
<1>9. ASSUME NEW r \in Requests, RequireAPIKey(r) PROVE AnswersOK'
  <2>1. CASE r \in keyed
    BY <1>2, <1>9, <2>1 DEF RequireAPIKey
  <2>2. CASE r \notin keyed
    BY <1>3, <1>9, <2>2 DEF RequireAPIKey
  <2> QED BY <2>1, <2>2
<1>10. ASSUME NEW r \in Requests, Wakes(r) PROVE AnswersOK'
  <2>1. r \in keyed
    BY <1>5, <1>10 DEF Wakes
  <2>2. CASE fate[r].fail
    BY <1>3, <1>10, <2>1, <2>2 DEF Wakes
  <2>3. CASE ~fate[r].fail
    BY <1>2, <1>10, <2>3 DEF Wakes
  <2> QED BY <2>2, <2>3
<1>11. ASSUME NEW r \in Requests, Cancelled(r) PROVE AnswersOK'
  BY <1>3, <1>5, <1>11 DEF Cancelled
<1>12. ASSUME NEW r \in Requests, Quote(r) PROVE AnswersOK'
  <2>1. r \in keyed /\ UNCHANGED keyed /\ pc[r] # "done"
    BY <1>5, <1>12 DEF Quote
  <2>2. CASE Done(r, 201) /\ made' = [made EXCEPT ![r] = @ + 1]
    BY <1>3, <2>1, <2>2
  <2>3. CASE Done(r, 400) /\ UNCHANGED made
    BY <1>3, <2>1, <2>3
  <2> QED BY <1>12, <2>2, <2>3 DEF Quote
<1>13. ASSUME NEW r \in Requests, GivesUp(r) PROVE AnswersOK'
  BY <1>4, <1>13 DEF GivesUp
<1>14. CASE UNCHANGED mvars
  BY <1>4, <1>14 DEF mvars
<1> QED BY <1>6, <1>7, <1>8, <1>9, <1>10, <1>11, <1>12, <1>13, <1>14 DEF MockNext, Handles

LEMMA MockAlways == MockSpec => []MockInv
<1>1. MockInv /\ [MockNext]_mvars => MockInv'
  BY DrawsStep, AnswersStep DEF MockInv
<1> QED BY <1>1, InitMock, PTL DEF MockSpec

(* However the goroutines interleave, the fate of the n-th request that the  *)
(* injector draws for is read off the seed's stream alone, from where the    *)
(* one before it ended; a request without the key takes nothing of the       *)
(* stream and is answered 401 (inject.go).                                   *)
THEOREM FateBySeed == MockSpec => []FateBySeedAndOrder
<1>1. MockInv => FateBySeedAndOrder
  BY DEF MockInv, DrawsOK, OrderOK, ChainOK, PastOK, AnswersOK, RefusedOK, FateBySeedAndOrder, Turns, Past, FateIs
<1> QED BY <1>1, MockAlways, PTL

(* A quote is made for a request exactly when it is answered 201: a 503 that *)
(* was injected, a refusal and a request given up in the sleep leave none    *)
(* (inject.go, handler.go).                                                 *)
THEOREM StatusIsTrue == MockSpec => []StatusTellsTheTruth
<1>1. MockInv => StatusTellsTheTruth
  BY DEF MockInv, AnswersOK, TruthOK, StatusTellsTheTruth
<1> QED BY <1>1, MockAlways, PTL
=============================================================================
