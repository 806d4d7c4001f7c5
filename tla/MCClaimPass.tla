---- MODULE MCClaimPass ----
(***************************************************************************)
(* Two TFJobs and two objects for TLC.  UIDs are numbers, which a          *)
(* configuration cannot put in a set of its own with model values.         *)
(***************************************************************************)
EXTENDS ClaimPass, TLC

TwoJobs == {1, 2}

\* No definition prefers an object to another.
Symmetric == Permutations(Objs)
====
