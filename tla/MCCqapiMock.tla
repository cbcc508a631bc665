---------------------------- MODULE MCCqapiMock -----------------------------
(* CqapiMock on a small instance.                                          *)
EXTENDS CqapiMock

CONSTANTS r1, r2, r3
=============================================================================
