------------------------ MODULE StaffFixturesProofs ------------------------
(***************************************************************************)
(* Theorems about StaffFixtures, for any number of runs of devstaff, any   *)
(* ids and any way to type them.                                           *)
(*                                                                         *)
(* That a run writes who a person is first is a fact about its place in    *)
(* run(): the invariant says of each place what the run has written.       *)
(***************************************************************************)
EXTENDS StaffFixtures, TLAPS

\* What a run has in the two files, by how far it has come.
OwnLines ==
  \A r \in Runs :
    /\ r \in credentialLines => r \in staffLines
    /\ pc[r] \in {"half", "added"} => r \in staffLines
    /\ pc[r] = "off" => r \notin staffLines

PlacesOK ==
  /\ pc \in [Runs -> {"off", "refused", "checked", "half", "failed", "added"}]
  /\ args \in [Runs -> [id : Ids, padded : BOOLEAN, shape : Shapes \cup {"row"}]]
  /\ staffLines \subseteq Runs /\ credentialLines \subseteq Runs

WritesInv == PlacesOK /\ OwnLines

-----------------------------------------------------------------------------
(* Credentials are for people who are in the directory, on disk.             *)

LEMMA WritesInit == FixturesInit => WritesInv
<1> SUFFICES ASSUME FixturesInit PROVE WritesInv
  OBVIOUS
<1>1. (CHOOSE i \in Ids : TRUE) \in Ids
  BY FixturesAssumption
<1>2. PlacesOK
  BY <1>1, FixturesAssumption DEF FixturesInit, PlacesOK
<1>3. OwnLines
  BY FixturesAssumption DEF FixturesInit, OwnLines
<1> QED BY <1>2, <1>3 DEF WritesInv

LEMMA WritesStep == WritesInv /\ [FixturesNext]_fvars => WritesInv'
<1> SUFFICES ASSUME WritesInv, [FixturesNext]_fvars PROVE WritesInv'
  OBVIOUS
<1> USE DEF WritesInv, PlacesOK, OwnLines
<1>1. ASSUME NEW r \in Runs, NEW a \in Arguments, Check(r, a) PROVE WritesInv'
  <2>1. a \in [id : Ids, padded : BOOLEAN, shape : Shapes \cup {"row"}]
    BY <1>1, FixturesAssumption DEF Arguments
  <2> QED BY <1>1, <2>1 DEF Check, files
<1>2. ASSUME NEW r \in Runs, AppendStaff(r) PROVE WritesInv'
  BY <1>2 DEF AppendStaff
<1>3. ASSUME NEW r \in Runs, AppendCredential(r) PROVE WritesInv'
  BY <1>3 DEF AppendCredential
<1>4. ASSUME NEW r \in Runs, Fails(r) PROVE WritesInv'
  <2>1. pc[r] \in {"checked", "half"}
    BY <1>4 DEF Fails, Busy
  <2>2. CASE UNCHANGED <<staffLines, credentialLines>>
    BY <1>4, <2>1, <2>2 DEF Fails
  <2>3. CASE pc[r] = "checked" /\ staffLines' = staffLines \cup {r} /\ UNCHANGED credentialLines
    BY <1>4, <2>3 DEF Fails
  <2>4. CASE pc[r] = "half" /\ credentialLines' = credentialLines \cup {r} /\ UNCHANGED staffLines
    BY <1>4, <2>4 DEF Fails
  <2> QED BY <1>4, <2>1, <2>2, <2>3, <2>4 DEF Fails, files
<1>5. CASE UNCHANGED <<pc, args, files>>
  BY <1>5 DEF files
<1>6. ASSUME StartMiddleware \/ StopMiddleware \/ LoadStaff \/ LoadCredentials \/ StopBFF
      PROVE  UNCHANGED <<pc, args, files>>
  BY <1>6 DEF StartMiddleware, StopMiddleware, LoadStaff, LoadCredentials, StopBFF
<1>7. CASE UNCHANGED fvars
  BY <1>5, <1>7 DEF fvars
<1> QED BY <1>1, <1>2, <1>3, <1>4, <1>5, <1>6, <1>7 DEF FixturesNext

\* Whatever devstaff is stopped at and however many runs there are, nobody has
\* a credential without a row in the directory (devstaff/main.go:80-85).
THEOREM CredentialsAfterIdentities == FixturesSpec => []NoOrphanCredential
<1>1. WritesInv => NoOrphanCredential
  BY DEF WritesInv, PlacesOK, OwnLines, NoOrphanCredential, IdsIn, Rows
<1> QED BY <1>1, WritesInit, WritesStep, PTL DEF FixturesSpec

-----------------------------------------------------------------------------
(* And in the BFF, which may have read the two files at different times.     *)

LEMMA ServingStep ==
  NoCredentialWithoutIdentity /\ [FixturesNext]_fvars => NoCredentialWithoutIdentity'
<1> SUFFICES ASSUME NoCredentialWithoutIdentity, [FixturesNext]_fvars
             PROVE  NoCredentialWithoutIdentity'
  OBVIOUS
<1> USE DEF NoCredentialWithoutIdentity
<1>1. CASE UNCHANGED <<bff, bffStaff, bffHashes>>
  BY <1>1
<1>2. CASE LoadStaff
  BY <1>2 DEF LoadStaff
<1>3. CASE LoadCredentials
  <2>1. CASE FixtureAuthAccepts(bffStaff)
    BY <1>3, <2>1 DEF LoadCredentials, FixtureAuthAccepts, NobodyWithoutIdentity
  <2>2. CASE ~FixtureAuthAccepts(bffStaff)
    BY <1>3, <2>2 DEF LoadCredentials
  <2> QED BY <2>1, <2>2
<1>4. CASE StopBFF
  BY <1>4 DEF StopBFF
<1>5. ASSUME NEW r \in Runs,
             (\E a \in Arguments : Check(r, a)) \/ AppendStaff(r) \/ AppendCredential(r) \/ Fails(r)
      PROVE  UNCHANGED <<bff, bffStaff, bffHashes>>
  BY <1>5 DEF Check, AppendStaff, AppendCredential, Fails, services
<1>6. ASSUME StartMiddleware \/ StopMiddleware PROVE UNCHANGED <<bff, bffStaff, bffHashes>>
  BY <1>6 DEF StartMiddleware, StopMiddleware
<1>7. CASE UNCHANGED fvars
  BY <1>1, <1>7 DEF fvars, services
<1> QED BY <1>1, <1>2, <1>3, <1>4, <1>5, <1>6, <1>7 DEF FixturesNext

\* NewFixtureAuth's check covers the serving BFF: a credential without an
\* identity never authenticates (auth.go:84-88), whatever is written between
\* the two reads of its start.
THEOREM IdentitiesServed == FixturesSpec => []NoCredentialWithoutIdentity
<1>1. FixturesInit => NoCredentialWithoutIdentity
  BY DEF FixturesInit, NoCredentialWithoutIdentity
<1> QED BY <1>1, ServingStep, PTL DEF FixturesSpec

-----------------------------------------------------------------------------
(* And the services can start from what is on disk.                          *)

\* A run whose id is looked up as it will be read.
Plain(r) == ~args[r].padded /\ args[r].shape # "comment"

\* While no two runs had the same id in hand: who is about to write an id writes
\* a new one.
NamesOK ==
  ~raced =>
    /\ \A r, s \in Runs : Busy(r) /\ Busy(s) /\ args[r].id = args[s].id => r = s
    /\ \A r \in Runs : pc[r] = "checked" /\ Plain(r) => args[r].id \notin IdsIn(staffLines)
    /\ (\A r \in staffLines : ~args[r].padded) => Distinct(staffLines)

LEMMA NamesInit == FixturesInit => NamesOK
BY FixturesAssumption DEF FixturesInit, NamesOK, Busy, Distinct, Rows

\* A line of a run that is past its look-up.
LEMMA LineKeepsNames ==
  ASSUME WritesInv, NamesOK, NEW r \in Runs, pc[r] = "checked", UNCHANGED <<args, raced>>,
         staffLines' \in {staffLines, staffLines \cup {r}},
         NEW p \in {"half", "failed"}, pc' = [pc EXCEPT ![r] = p]
  PROVE  NamesOK'
<1> SUFFICES ASSUME ~raced PROVE NamesOK'
  BY DEF NamesOK
<1>1. /\ \A q, s \in Runs : Busy(q) /\ Busy(s) /\ args[q].id = args[s].id => q = s
      /\ \A q \in Runs : pc[q] = "checked" /\ Plain(q) => args[q].id \notin IdsIn(staffLines)
      /\ (\A q \in staffLines : ~args[q].padded) => Distinct(staffLines)
  BY DEF NamesOK
<1>2. pc'[r] = p /\ \A s \in Runs : s # r => pc'[s] = pc[s]
  BY DEF WritesInv, PlacesOK
<1>3. \A q, s \in Runs : Busy(q)' /\ Busy(s)' /\ args'[q].id = args'[s].id => q = s
  BY <1>1, <1>2 DEF Busy
<1>4. ASSUME NEW q \in Runs, pc'[q] = "checked", Plain(q)' PROVE args'[q].id \notin IdsIn(staffLines)'
  <2>1. q # r /\ pc[q] = "checked" /\ Plain(q)
    BY <1>2, <1>4 DEF Plain
  <2>2. args[q].id # args[r].id
    BY <1>1, <2>1 DEF Busy
  <2> QED BY <1>1, <2>1, <2>2 DEF IdsIn, Rows
<1>5. ASSUME \A q \in staffLines' : ~args'[q].padded PROVE Distinct(staffLines)'
  <2>1. Distinct(staffLines)
    BY <1>1, <1>5
  <2>2. CASE staffLines' = staffLines
    BY <2>1, <2>2 DEF Distinct, Rows
  <2>3. CASE staffLines' = staffLines \cup {r}
    <3>1. ~args[r].padded
      BY <1>5, <2>3
    <3>2. args[r].shape # "comment" => args[r].id \notin IdsIn(staffLines)
      BY <1>1, <3>1 DEF Plain
    <3> QED BY <2>1, <2>3, <3>2 DEF Distinct, Rows, IdsIn
  <2> QED BY <2>2, <2>3
<1> QED BY <1>3, <1>4, <1>5 DEF NamesOK

LEMMA NamesStep == WritesInv /\ NamesOK /\ [FixturesNext]_fvars => NamesOK'
<1> SUFFICES ASSUME WritesInv, NamesOK, [FixturesNext]_fvars PROVE NamesOK'
  OBVIOUS
<1>1. ASSUME NEW r \in Runs, NEW a \in Arguments, Check(r, a) PROVE NamesOK'
  <2> SUFFICES ASSUME ~raced' PROVE NamesOK'
    BY DEF NamesOK
  <2>1. ~raced /\ \A s \in Runs : Busy(s) => args[s].id # a.id
    BY <1>1 DEF Check
  <2>2. /\ \A q, s \in Runs : Busy(q) /\ Busy(s) /\ args[q].id = args[s].id => q = s
        /\ \A q \in Runs : pc[q] = "checked" /\ Plain(q) => args[q].id \notin IdsIn(staffLines)
        /\ (\A q \in staffLines : ~args[q].padded) => Distinct(staffLines)
    BY <2>1 DEF NamesOK
  <2>3. /\ pc'[r] = IF StaffParses /\ ~Exists(a) THEN "checked" ELSE "refused"
        /\ args'[r] = a /\ r \notin staffLines /\ UNCHANGED staffLines
        /\ \A s \in Runs : s # r => pc'[s] = pc[s] /\ args'[s] = args[s]
    BY <1>1 DEF Check, files, WritesInv, PlacesOK, OwnLines
  <2>4. \A s \in staffLines : s \in Runs /\ args'[s] = args[s]
    BY <2>3 DEF WritesInv, PlacesOK
  <2>5. Rows(staffLines)' = Rows(staffLines) /\ IdsIn(staffLines)' = IdsIn(staffLines)
    BY <2>3, <2>4 DEF Rows, IdsIn
  <2>6. \A q, s \in Runs : Busy(q)' /\ Busy(s)' /\ args'[q].id = args'[s].id => q = s
    BY <2>1, <2>2, <2>3 DEF Busy
  <2>7. \A q \in Runs : pc'[q] = "checked" /\ Plain(q)' => args'[q].id \notin IdsIn(staffLines)'
    BY <2>2, <2>3, <2>5 DEF Plain, Exists
  <2>8. (\A q \in staffLines' : ~args'[q].padded) => Distinct(staffLines)'
    BY <2>2, <2>3, <2>4, <2>5 DEF Distinct, Rows
  <2> QED BY <2>6, <2>7, <2>8 DEF NamesOK
<1>2. ASSUME NEW r \in Runs, AppendStaff(r) PROVE NamesOK'
  BY <1>2, LineKeepsNames DEF AppendStaff
<1>3. ASSUME NEW r \in Runs, pc[r] = "half", NEW p \in {"added", "failed"}, pc' = [pc EXCEPT ![r] = p],
             UNCHANGED <<args, staffLines, raced>>
      PROVE  NamesOK'
  <2>1. pc'[r] = p /\ \A s \in Runs : s # r => pc'[s] = pc[s]
    BY <1>3 DEF WritesInv, PlacesOK
  <2> QED BY <1>3, <2>1 DEF NamesOK, Busy, Plain, IdsIn, Rows, Distinct
<1>4. ASSUME NEW r \in Runs, AppendCredential(r) PROVE NamesOK'
  BY <1>3, <1>4 DEF AppendCredential
<1>5. ASSUME NEW r \in Runs, Fails(r) PROVE NamesOK'
  <2>1. /\ pc[r] \in {"checked", "half"} /\ pc' = [pc EXCEPT ![r] = "failed"] /\ UNCHANGED <<args, raced>>
        /\ staffLines' \in {staffLines, staffLines \cup {r}}
        /\ pc[r] = "half" => UNCHANGED staffLines
    BY <1>5 DEF Fails, Busy, files
  <2> QED BY <1>3, <2>1, LineKeepsNames
<1>6. CASE UNCHANGED <<pc, args, staffLines, raced>>
  BY <1>6 DEF NamesOK, Busy, Plain, IdsIn, Rows, Distinct
<1>7. ASSUME StartMiddleware \/ StopMiddleware \/ LoadStaff \/ LoadCredentials \/ StopBFF
      PROVE  UNCHANGED <<pc, args, staffLines, raced>>
  BY <1>7 DEF StartMiddleware, StopMiddleware, LoadStaff, LoadCredentials, StopBFF, files
<1>8. CASE UNCHANGED fvars
  BY <1>6, <1>8 DEF fvars, files
<1> QED BY <1>1, <1>2, <1>4, <1>5, <1>6, <1>7, <1>8 DEF FixturesNext

\* What devstaff leaves behind at whatever point and in however many runs, the
\* services can start from, unless a line was cut short, two runs had the same
\* id in hand, or an argument breaks or pads its own line (devstaff/main.go,
\* staffdir.go, auth.go).
THEOREM StartsUnlessMishap == FixturesSpec => []StartableUnlessMishap
<1>1. WritesInv /\ NamesOK => StartableUnlessMishap
  <2> SUFFICES ASSUME WritesInv, NamesOK, ~Mishap PROVE Startable
    BY DEF StartableUnlessMishap
  <2>1. /\ torn = {} /\ ~raced
        /\ \A r \in staffLines : ~args[r].padded /\ args[r].shape # "broken"
    BY DEF Mishap
  <2>2. Distinct(staffLines) /\ credentialLines \subseteq staffLines
    BY <2>1 DEF NamesOK, WritesInv, PlacesOK, OwnLines
  <2>3. \A r \in Rows(staffLines) : args[r].shape = "row"
    <3>1. \A r \in Runs : args[r].shape \in {"row", "broken", "comment"}
      BY FixturesAssumption DEF WritesInv, PlacesOK
    <3> QED BY <2>1, <3>1 DEF Rows, WritesInv, PlacesOK
  <2>4. Distinct(credentialLines) /\ IdsIn(credentialLines) \subseteq IdsIn(staffLines)
    BY <2>2 DEF Distinct, IdsIn, Rows
  <2> QED BY <2>1, <2>2, <2>3, <2>4 DEF Startable, StaffParses, CredentialsParse
<1> QED BY <1>1, WritesInit, WritesStep, NamesInit, NamesStep, PTL DEF FixturesSpec
=============================================================================
