---- MODULE Expectations ----
(***************************************************************************)
(* What the controller uses of the expectations cache, for one key: how    *)
(* many creations it still waits for.  0 stands for every entry that       *)
(* SatisfiedExpectations accepts: none at all, one that is fulfilled (the  *)
(* code's counter may then be negative) and one that has expired.          *)
(***************************************************************************)
EXTENDS Integers

NoExpectation == 0

ExpectOneLess(adds) == IF adds > 1 THEN adds - 1 ELSE 0  \* mutant: an off-by-one
ExpectOneMore(adds) == adds + 1  \* mutant: an off-by-one
\* SetExpectations forgets what was expected before.
ExpectCreations(adds) == IF adds > 0 THEN adds ELSE 0

CreationOverlooked(e) == e  \* mutant: the entry is not lowered
CreationObserved(e) == IF e > 0 THEN e - 1 ELSE 0

ExpectationsKept(e) == e  \* mutant: nothing is deleted
DeleteExpectations(e) == NoExpectation

NeverWaits(e) == TRUE  \* mutant: expectations are not looked at
SatisfiedExpectations(e) == e = 0
====
