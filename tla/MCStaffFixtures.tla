--------------------------- MODULE MCStaffFixtures ---------------------------
(* StaffFixtures on small instances. *)
EXTENDS StaffFixtures

CONSTANTS committed, first, second, ann, bob
=============================================================================
