--------------------------- MODULE StaffFixtures ---------------------------
(***************************************************************************)
(* The two fixture files, the tool that appends to them (cmd/devstaff), and *)
(* the two services that read them when they start: the Middleware the     *)
(* directory (internal/platform/staffdir), the BFF the directory and then  *)
(* the credentials (internal/cqappbff/auth.go).                            *)
(*                                                                         *)
(* Runs of devstaff are processes of their own. A run reads the directory  *)
(* and looks its id up, and later appends one line to each file, staff     *)
(* first; it can end anywhere, and a write can fail or be cut short. A     *)
(* line is the run that wrote it: a file is the set of runs with a line in *)
(* it, the committed lines being a run that is over.                       *)
(***************************************************************************)
EXTENDS Naturals

CONSTANTS
  Runs,      \* runs of devstaff
  Committed, \* the one that stands for the files as committed
  Ids,
  Padding,   \* whether an id may be typed with a space before it
  Shapes     \* what a line may look like to the csv reader

ASSUME FixturesAssumption ==
  /\ Committed \in Runs
  /\ Ids # {}
  /\ Padding \subseteq BOOLEAN
  /\ Shapes \subseteq {"row", "broken", "comment"}

VARIABLES
  pc,          \* of each run
  args,        \* what was typed: -id, -name and -scopes
  staffLines, credentialLines,
  torn,        \* files that end in part of a line
  raced,       \* history: two runs were past the look-up with the same id
  middleware, mwStaff,        \* the Middleware and the directory it has loaded
  bff, bffStaff, bffHashes    \* the BFF, its directory and its credentials

files    == <<staffLines, credentialLines, torn>>
services == <<middleware, mwStaff, bff, bffStaff, bffHashes>>
fvars    == <<pc, args, files, raced, services>>

\* "broken": a comma in -scopes or a quote in -name, which run() does not look
\* for. "comment": an id that begins with #, with no space before it.
Arguments ==
  {a \in [id : Ids, padded : Padding, shape : Shapes] : a.shape = "comment" => ~a.padded}

FixturesInit ==
  /\ pc = [r \in Runs |-> IF r = Committed THEN "added" ELSE "off"]
  /\ args = [r \in Runs |-> [id |-> CHOOSE i \in Ids : TRUE, padded |-> FALSE, shape |-> "row"]]
  /\ staffLines = {Committed}
  /\ credentialLines = {Committed}
  /\ torn = {}
  /\ raced = FALSE
  /\ middleware = "down" /\ mwStaff = {}
  /\ bff = "down" /\ bffStaff = {} /\ bffHashes = {}

-----------------------------------------------------------------------------
(* Reading the files. *)

\* The rows Parse keeps, by the ids they trim to.
Rows(lines) == {r \in lines : args[r].shape # "comment"}
IdsIn(lines) == {args[r].id : r \in Rows(lines)}

Distinct(lines) == \A r, s \in Rows(lines) : args[r].id = args[s].id => r = s

\* staffdir.Parse.
StaffParses ==
  /\ "staff" \notin torn
  /\ \A r \in Rows(staffLines) : args[r].shape = "row"
  /\ Distinct(staffLines)

\* parseCredentials. A line here has neither name nor scopes to break it.
CredentialsParse ==
  /\ "credentials" \notin torn
  /\ Distinct(credentialLines)

\* Mutant: the two files are compared the other way round.
EveryoneHasCredential(staff) == staff \subseteq IdsIn(credentialLines)

\* NewFixtureAuth: a credential for nobody is a startup failure.
NobodyWithoutIdentity(staff) == IdsIn(credentialLines) \subseteq staff

\* Mutant: what was read is not compared.
AnyoneAuthenticates(staff) == CredentialsParse

FixtureAuthAccepts(staff) == CredentialsParse /\ NobodyWithoutIdentity(staff)

-----------------------------------------------------------------------------
(* devstaff. *)

Busy(r) == pc[r] \in {"checked", "half"}

\* Lookup(*id): the directory's keys are trimmed, what was typed is not; no
\* key begins with #.
Exists(a) == ~a.padded /\ a.shape # "comment" /\ a.id \in IdsIn(staffLines)

\* Mutant: the directory is read and not looked at.
CheckNothing(r, a) ==
  /\ pc[r] = "off"
  /\ args' = [args EXCEPT ![r] = a]
  /\ pc' = [pc EXCEPT ![r] = IF StaffParses THEN "checked" ELSE "refused"]
  /\ raced' = (raced \/ \E s \in Runs : Busy(s) /\ args[s].id = a.id)
  /\ UNCHANGED <<files, services>>

Check(r, a) ==
  /\ pc[r] = "off"
  /\ args' = [args EXCEPT ![r] = a]
  /\ pc' = [pc EXCEPT ![r] = IF StaffParses /\ ~Exists(a) THEN "checked" ELSE "refused"]
  /\ raced' = (raced \/ \E s \in Runs : Busy(s) /\ args[s].id = a.id)
  /\ UNCHANGED <<files, services>>

AppendStaff(r) ==
  /\ pc[r] = "checked"
  /\ staffLines' = staffLines \cup {r}
  /\ pc' = [pc EXCEPT ![r] = "half"]
  /\ UNCHANGED <<args, credentialLines, torn, raced, services>>

AppendCredential(r) ==
  /\ pc[r] = "half"
  /\ credentialLines' = credentialLines \cup {r}
  /\ pc' = [pc EXCEPT ![r] = "added"]
  /\ UNCHANGED <<args, staffLines, torn, raced, services>>

\* Mutant: the error of the first append is not returned.
GoesOnAfterFailure(r) ==
  /\ Busy(r)
  /\ pc' = [pc EXCEPT ![r] = IF pc[r] = "checked" THEN "half" ELSE "failed"]
  /\ UNCHANGED <<args, files, raced, services>>

\* The run ends: no password, a signal, a file that cannot be opened, or a
\* write that fails. Of the line nothing is then in the file, or a part that
\* does not parse, or one that does.
Fails(r) ==
  /\ Busy(r)
  /\ pc' = [pc EXCEPT ![r] = "failed"]
  /\ \/ UNCHANGED files
     \/ /\ torn' = torn \cup {IF pc[r] = "checked" THEN "staff" ELSE "credentials"}
        /\ UNCHANGED <<staffLines, credentialLines>>
     \/ /\ IF pc[r] = "checked"
           THEN staffLines' = staffLines \cup {r} /\ UNCHANGED credentialLines
           ELSE credentialLines' = credentialLines \cup {r} /\ UNCHANGED staffLines
        /\ UNCHANGED torn
  /\ UNCHANGED <<args, raced, services>>

-----------------------------------------------------------------------------
(* The services. One that cannot start exits, and compose starts it again. *)

StartMiddleware ==
  /\ middleware = "down" /\ StaffParses
  /\ middleware' = "up"
  /\ mwStaff' = IdsIn(staffLines)
  /\ UNCHANGED <<pc, args, files, raced, bff, bffStaff, bffHashes>>

LoadStaff ==
  /\ bff = "down" /\ StaffParses
  /\ bff' = "loading"
  /\ bffStaff' = IdsIn(staffLines)
  /\ UNCHANGED <<pc, args, files, raced, middleware, mwStaff, bffHashes>>

LoadCredentials ==
  /\ bff = "loading"
  /\ IF FixtureAuthAccepts(bffStaff)
     THEN bff' = "up" /\ bffHashes' = IdsIn(credentialLines) /\ UNCHANGED bffStaff
     ELSE bff' = "down" /\ bffStaff' = {} /\ UNCHANGED bffHashes
  /\ UNCHANGED <<pc, args, files, raced, middleware, mwStaff>>

StopMiddleware ==
  /\ middleware = "up"
  /\ middleware' = "down" /\ mwStaff' = {}
  /\ UNCHANGED <<pc, args, files, raced, bff, bffStaff, bffHashes>>

StopBFF ==
  /\ bff = "up"
  /\ bff' = "down" /\ bffStaff' = {} /\ bffHashes' = {}
  /\ UNCHANGED <<pc, args, files, raced, middleware, mwStaff>>

FixturesNext ==
  \/ \E r \in Runs :
       \/ \E a \in Arguments : Check(r, a)
       \/ AppendStaff(r) \/ AppendCredential(r) \/ Fails(r)
  \/ StartMiddleware \/ StopMiddleware
  \/ LoadStaff \/ LoadCredentials \/ StopBFF

(* "restart: unless-stopped" (deploy/compose.yaml): a service that is down   *)
(* is started again, and a start that has begun ends. Nothing else is fair.  *)
FixturesSpec ==
  /\ FixturesInit /\ [][FixturesNext]_fvars
  /\ WF_fvars(StartMiddleware) /\ WF_fvars(LoadStaff) /\ WF_fvars(LoadCredentials)

-----------------------------------------------------------------------------
(* "A credential without an identity must never authenticate"                *)
(* (auth.go:85-86), although devstaff may write both files between the two   *)
(* reads of a start.                                                         *)
NoCredentialWithoutIdentity == bff = "up" => bffHashes \subseteq bffStaff

(* On disk there is none either, after any crash, failed or short write, or  *)
(* runs side by side: devstaff writes who a person is before how they sign   *)
(* in, so nothing it leaves behind is refused as an orphan (auth.go:64-68).  *)
NoOrphanCredential == IdsIn(credentialLines) \subseteq IdsIn(staffLines)

\* The files would be accepted by a start that nothing writes beside.
Startable ==
  /\ StaffParses /\ CredentialsParse
  /\ IdsIn(credentialLines) \subseteq IdsIn(staffLines)

\* What can go wrong with a line that run() does not guard against.
Mishap ==
  \/ torn # {} \/ raced
  \/ \E r \in staffLines : args[r].padded \/ args[r].shape = "broken"

(* The services can start from what devstaff leaves behind, a person with no *)
(* credential included, unless a line was cut short, two runs had the same   *)
(* id in hand, or something was typed that breaks its own line.              *)
StartableUnlessMishap == Startable \/ Mishap

(* A start that met a run of devstaff half way fails, but not for good: if   *)
(* the files stay acceptable the BFF comes up whenever it was stopped.       *)
ComesUp == <>[]Startable => []<>(bff = "up")

(* "Read the directory first, so a duplicate is refused before anything is   *)
(* written" (cmd/devstaff/main.go:57-58).                                    *)
DuplicateRefused == Distinct(staffLines)
=============================================================================
