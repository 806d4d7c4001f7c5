---- MODULE RefManager ----
(***************************************************************************)
(* What the controller-ref managers decide for one listed object:          *)
(* claimObject of pkg/controller/ref/base.go for services, ClaimObject of  *)
(* the vendored controller_ref_manager.go for pods (the two are the same). *)
(* An owner is the UID in the controller reference, 0 when there is none.  *)
(***************************************************************************)
EXTENDS Integers

Verdicts == {"claim", "ignore", "release", "adopt"}

\* uid, deleting: of the TFJob the manager works for; owner, objDeleting: of the
\* object; matches: the selector accepts the object's labels.
ClaimObject(uid, deleting, owner, objDeleting, matches) ==
    IF owner # 0
    THEN IF owner # uid THEN "ignore"
         ELSE IF matches THEN "claim"
         ELSE IF deleting THEN "ignore" ELSE "release"
    ELSE IF deleting \/ ~matches \/ objDeleting THEN "ignore" ELSE "adopt"
====
