---------------------------- MODULE MCEnrollment ----------------------------
(***************************************************************************)
(* Two users at a browser each and one machine; the target tables stay     *)
(* empty.  Two enrollments: an abandoned one, a dead device and its        *)
(* successor.  One of the users may be disabled and enabled again.         *)
(***************************************************************************)
EXTENDS Enrollment

CONSTANTS w1, u1

MCOwner     == [w \in {w1} |-> u1]
MCFirstName == [w \in {} |-> None]
=============================================================================
