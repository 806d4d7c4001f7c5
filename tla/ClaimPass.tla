---- MODULE ClaimPass ----
(***************************************************************************)
(* The passes of ClaimPods and ClaimServices, one object and one call at a *)
(* time.  Several TFJobs make passes at once, each in its own worker, over *)
(* the objects of one namespace; users relabel and delete objects and      *)
(* TFJobs in between.  A TFJob is its UID; two of them may be incarnations *)
(* of one name with the same RuntimeID, and so have the same selector.     *)
(***************************************************************************)
EXTENDS Integers, FiniteSets, RefManager

CONSTANTS Jobs,        \* UIDs of TFJobs
          Objs,        \* pods or services
          Labels,      \* what a selector tells apart
          MaxPasses,   \* bound: passes begun
          MaxChanges,  \* bound: changes made by others
          MaxErrors    \* bound: calls that fail

ASSUME JobsAssumption == Jobs \subseteq Nat \ {0} /\ Labels # {}
ASSUME BoundsAssumption == MaxPasses \in Nat /\ MaxChanges \in Nat /\ MaxErrors \in Nat

VARIABLES
    object,   \* API server: the objects
    cache,    \* what the lister returns
    job,      \* API server: the TFJobs
    pass,     \* of each TFJob, its manager and the loop of its pass
    listed,   \* what the lister returned to the pass
    owned,    \* history: who ever controlled an object
    passes, changes, errors  \* what the bounds leave

budgets == <<passes, changes, errors>>
vars == <<object, cache, job, pass, listed, owned, budgets>>

Owners == Jobs \cup {0}
Object == [st : {"live", "gone"}, owner : Owners, label : Labels, deleting : BOOLEAN]

\* left is what the loop has not dealt with, at the object
\* whose adoption waits for canAdopt.  wasAlive is history: the TFJob existed at Begin.
NoPass == [pc |-> "none", deleting |-> FALSE, label |-> CHOOSE l \in Labels : TRUE,
           left |-> {}, at |-> {}, canAdopt |-> "unknown", claimed |-> {}, failed |-> {},
           wasAlive |-> FALSE]

NotListed == [o \in Objs |-> CHOOSE r \in Object : r.st = "gone"]

Init ==
    /\ object \in [Objs -> {r \in Object : r.st = "live" /\ ~r.deleting}]
    /\ cache = object
    /\ job = [u \in Jobs |-> "live"]
    /\ pass = [u \in Jobs |-> NoPass]
    /\ listed = [u \in Jobs |-> NotListed]
    /\ owned = [o \in Objs |-> {object[o].owner} \ {0}]
    /\ passes = MaxPasses
    /\ changes = MaxChanges
    /\ errors = MaxErrors

-----------------------------------------------------------------------------
(***************************************************************************)
(* A pass                                                                  *)
(***************************************************************************)
\* A new manager has not asked yet.  mutant: the manager is used again
AnswerKept(u) == pass[u].canAdopt
FirstAnswer(u) == "unknown"

\* The lister may return a TFJob that is being deleted, or is gone, in its old shape.
Begin(u) ==
    /\ pass[u].pc = "none"
    /\ passes > 0
    /\ passes' = passes - 1
    /\ \E l \in Labels, d \in IF job[u] = "live" THEN {FALSE} ELSE BOOLEAN :
         pass' = [pass EXCEPT ![u] =
                    [NoPass EXCEPT !.pc = "claiming", !.deleting = d, !.label = l,
                                   !.left = {o \in Objs : cache[o].st = "live"},
                                   !.canAdopt = FirstAnswer(u),
                                   !.wasAlive = (job[u] = "live")]]
    /\ listed' = [listed EXCEPT ![u] = cache]
    /\ UNCHANGED <<object, cache, job, owned, changes, errors>>

Verdict(u, o) ==
    ClaimObject(u, pass[u].deleting, listed[u][o].owner, listed[u][o].deleting,
                listed[u][o].label = pass[u].label)

\* The loop has come to o.
At(u, o) == /\ pass[u].pc = "claiming"
            /\ o \in pass[u].left
            /\ pass[u].at \subseteq {o}

\* claimObject returned for o: an owned object, one to leave alone, or an error.
Owned(u, o) == [pass[u] EXCEPT !.left = @ \ {o}, !.at = {}, !.claimed = @ \cup {o}]
Skipped(u, o) == [pass[u] EXCEPT !.left = @ \ {o}, !.at = {}]
\* The mutants claim what could not be adopted, and break out of the loop.
FailedAndClaimed(u, o) == [pass[u] EXCEPT !.left = @ \ {o}, !.at = {}, !.failed = @ \cup {o},
                                          !.claimed = @ \cup {o}]
FailedAndBroken(u, o) == [pass[u] EXCEPT !.left = {}, !.at = {}, !.failed = @ \cup {o}]
Failed(u, o) == [pass[u] EXCEPT !.left = @ \ {o}, !.at = {}, !.failed = @ \cup {o}]

\* Without a call to the API server.
Look(u, o) ==
    /\ At(u, o)
    /\ Verdict(u, o) \in {"claim", "ignore"}
    /\ pass' = [pass EXCEPT ![u] = IF Verdict(u, o) = "claim" THEN Owned(u, o)
                                                              ELSE Skipped(u, o)]
    /\ UNCHANGED <<object, cache, job, listed, owned, budgets>>

CallFails == errors > 0 /\ errors' = errors - 1
CallSucceeds == UNCHANGED errors

\* canAdopt, once in a pass: an uncached read of the TFJob.  An error is remembered too.
RecheckedState(u) == job[u]  \* mutant
Rechecked(u) == IF job[u] = "live" THEN "yes" ELSE "no"

Recheck(u, o) ==
    /\ At(u, o)
    /\ Verdict(u, o) = "adopt"
    /\ pass[u].canAdopt = "unknown"
    /\ \E answer \in {Rechecked(u), "no"} :
         /\ IF answer = Rechecked(u) THEN CallSucceeds ELSE CallFails
         /\ pass' = [pass EXCEPT ![u].canAdopt = answer, ![u].at = {o}]
    /\ UNCHANGED <<object, cache, job, listed, owned, passes, changes>>

Refuse(u, o) ==
    /\ At(u, o)
    /\ Verdict(u, o) = "adopt"
    /\ pass[u].canAdopt = "no"
    /\ pass' = [pass EXCEPT ![u] = Failed(u, o)]
    /\ UNCHANGED <<object, cache, job, listed, owned, budgets>>

SetOwner(o, u) == /\ object' = [object EXCEPT ![o].owner = u]
                  /\ owned' = [owned EXCEPT ![o] = @ \cup ({u} \ {0})]
NoEffect == UNCHANGED <<object, owned>>

\* The server refuses a second controller; an object that is gone is not claimed, and
\* that is no error.  A call that fails may have had its effect.
Adopt(u, o) ==
    /\ At(u, o)
    /\ Verdict(u, o) = "adopt"
    /\ pass[u].canAdopt = "yes"
    /\ LET possible == object[o].st = "live" /\ object[o].owner \in {0, u}
           answer == CASE possible -> Owned(u, o)
                       [] object[o].st = "gone" -> Skipped(u, o)
                       [] OTHER -> Failed(u, o)
       IN \/ /\ CallSucceeds
             /\ IF possible THEN SetOwner(o, u) ELSE NoEffect
             /\ pass' = [pass EXCEPT ![u] = answer]
          \/ /\ CallFails
             /\ NoEffect \/ (possible /\ SetOwner(o, u))
             /\ pass' = [pass EXCEPT ![u] = Failed(u, o)]
    /\ UNCHANGED <<cache, job, listed, passes, changes>>

\* The patch deletes the reference with this TFJob's UID only; 404 and 422 are ignored.
Release(u, o) ==
    /\ At(u, o)
    /\ Verdict(u, o) = "release"
    /\ LET possible == object[o].st = "live" /\ object[o].owner = u
       IN \/ /\ CallSucceeds
             /\ IF possible THEN SetOwner(o, 0) ELSE NoEffect
             /\ pass' = [pass EXCEPT ![u] = Skipped(u, o)]
          \/ /\ CallFails
             /\ NoEffect \/ (possible /\ SetOwner(o, 0))
             /\ pass' = [pass EXCEPT ![u] = Failed(u, o)]
    /\ UNCHANGED <<cache, job, listed, passes, changes>>

\* The list of claimed objects, or an error if there was one, goes to syncHandler.
Return(u) ==
    /\ pass[u].pc = "claiming"
    /\ pass[u].left = {}
    /\ pass' = [pass EXCEPT ![u].pc = "returned"]
    /\ UNCHANGED <<object, cache, job, listed, owned, budgets>>

\* syncHandler is done with it.
Forget(u) ==
    /\ pass[u].pc = "returned"
    /\ pass' = [pass EXCEPT ![u] = [NoPass EXCEPT !.canAdopt = pass[u].canAdopt]]
    /\ listed' = [listed EXCEPT ![u] = NotListed]
    /\ UNCHANGED <<object, cache, job, owned, budgets>>

ManagerStep(u) == \/ Begin(u) \/ Return(u) \/ Forget(u)
                  \/ \E o \in Objs : \/ Look(u, o) \/ Recheck(u, o) \/ Refuse(u, o)
                                     \/ Adopt(u, o) \/ Release(u, o)

-----------------------------------------------------------------------------
(***************************************************************************)
(* Everybody else                                                          *)
(***************************************************************************)
CatchUp(o) ==
    /\ cache[o] # object[o]
    /\ cache' = [cache EXCEPT ![o] = object[o]]
    /\ UNCHANGED <<object, job, pass, listed, owned, budgets>>

Change == changes > 0 /\ changes' = changes - 1

\* A user, the kubelet or the garbage collector.
ObjectChanges(o) ==
    /\ Change
    /\ object[o].st = "live"
    /\ \/ \E l \in Labels \ {object[o].label} : object' = [object EXCEPT ![o].label = l]
       \/ ~object[o].deleting /\ object' = [object EXCEPT ![o].deleting = TRUE]
       \/ object' = [object EXCEPT ![o].st = "gone"]
    /\ UNCHANGED <<cache, job, pass, listed, owned, passes, errors>>

JobDeleted(u) ==
    /\ Change
    /\ \/ job[u] = "live" /\ job' = [job EXCEPT ![u] = "deleting"]
       \/ job[u] # "gone" /\ job' = [job EXCEPT ![u] = "gone"]
    /\ UNCHANGED <<object, cache, pass, listed, owned, passes, errors>>

\* The controller dies and comes back with a fresh cache.
Crash ==
    /\ Change
    /\ pass' = [u \in Jobs |-> NoPass]
    /\ listed' = [u \in Jobs |-> NotListed]
    /\ cache' = object
    /\ UNCHANGED <<object, job, owned, passes, errors>>

Next == \/ \E u \in Jobs : ManagerStep(u) \/ JobDeleted(u)
        \/ \E o \in Objs : CatchUp(o) \/ ObjectChanges(o)
        \/ Crash

Spec == Init /\ [][Next]_vars

-----------------------------------------------------------------------------
Pass == [pc : {"none", "claiming", "returned"}, deleting : BOOLEAN, label : Labels,
         left : SUBSET Objs, at : SUBSET Objs, canAdopt : {"unknown", "yes", "no"},
         claimed : SUBSET Objs, failed : SUBSET Objs, wasAlive : BOOLEAN]

\* The variables have the types of the managers' fields and of the API objects.
TypeOK ==
    /\ object \in [Objs -> Object]
    /\ cache \in [Objs -> Object]
    /\ job \in [Jobs -> {"live", "deleting", "gone"}]
    /\ pass \in [Jobs -> Pass]
    /\ listed \in [Jobs -> [Objs -> Object]]
    /\ owned \in [Objs -> SUBSET Jobs]
    /\ passes \in Nat /\ changes \in Nat /\ errors \in Nat

\* Every object a pass returns to syncHandler has been under the TFJob's control: claimed
\* objects that the TFJob never owned would be counted as its pods.
ClaimedWereOwned == \A u \in Jobs : \A o \in pass[u].claimed : u \in owned[o]

Dealt(u) == {o \in Objs : listed[u][o].st = "live"} \ (pass[u].left \cup pass[u].failed)

\* One failed call does not keep the loop from the rest of the list: of all that was
\* listed and is not among the errors, what the TFJob should not own it does not own, and
\* what it may own it has claimed, unless it is gone.
PassReconciles ==
    \A u \in Jobs : pass[u].pc = "returned" =>
        /\ pass[u].left = {}
        /\ \A o \in Dealt(u) :
             /\ Verdict(u, o) = "release" =>
                   object[o].st = "gone" \/ object[o].owner # u
             /\ Verdict(u, o) \in {"claim", "adopt"} =>
                   object[o].st = "gone" \/ o \in pass[u].claimed

\* The passes together keep what they promise about control.
Abstract == INSTANCE Ownership WITH
              owner <- [o \in Objs |-> object[o].owner],
              alive <- {u \in Jobs : job[u] = "live"},
              entitled <- {u \in Jobs : pass[u].pc = "claiming" /\ pass[u].wasAlive}
ImplementsOwnership == Abstract!Spec
====
