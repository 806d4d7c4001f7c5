---- MODULE ClaimPassProofs ----
(***************************************************************************)
(* Proofs about ClaimPass, for any TFJobs, objects and selectors: what a   *)
(* pass claims its TFJob has owned, an error spares no object the rest of  *)
(* the loop, and all passes together implement Ownership.                  *)
(***************************************************************************)
EXTENDS ClaimPass, TLAPS

\* What the server, the cache and the lists show as controller did control the object.
ShownOwned ==
    \A o \in Objs :
        /\ object[o].owner # 0 => object[o].owner \in owned[o]
        /\ cache[o].owner # 0 => cache[o].owner \in owned[o]
        /\ \A u \in Jobs : listed[u][o].st = "live" /\ listed[u][o].owner # 0
                              => listed[u][o].owner \in owned[o]

\* What is left to deal with is on the list.
LeftIsListed ==
    \A u \in Jobs : \A o \in pass[u].left : listed[u][o].st = "live"

\* canAdopt says yes only in a pass that began when the TFJob existed.
PermissionEarned ==
    \A u \in Jobs : pass[u].pc = "claiming" /\ (pass[u].canAdopt = "yes" \/ job[u] = "live")
                        => pass[u].wasAlive

\* PassReconciles, while the loop runs.
Settled(u, o) ==
    /\ Verdict(u, o) = "release" => object[o].st = "gone" \/ object[o].owner # u
    /\ Verdict(u, o) \in {"claim", "adopt"} => object[o].st = "gone" \/ o \in pass[u].claimed
Reconciling ==
    \A u \in Jobs :
        /\ pass[u].pc = "returned" => pass[u].left = {}
        /\ pass[u].pc # "none" => \A o \in Dealt(u) : Settled(u, o)

Inv == /\ TypeOK
       /\ ShownOwned
       /\ LeftIsListed
       /\ ClaimedWereOwned
       /\ PermissionEarned
       /\ Reconciling

-----------------------------------------------------------------------------
LEMMA NotListedType ==
    NotListed \in [Objs -> Object] /\ \A o \in Objs : NotListed[o].st = "gone"
<1>1. PICK l \in Labels : TRUE
  BY JobsAssumption
<1>2. [st |-> "gone", owner |-> 0, label |-> l, deleting |-> FALSE] \in Object
  BY DEF Object, Owners
<1>3. \E r \in Object : r.st = "gone"
  BY <1>2
<1> QED
  BY <1>3 DEF NotListed

LEMMA NoPassType == NoPass \in Pass
<1>1. (CHOOSE l \in Labels : TRUE) \in Labels
  BY JobsAssumption
<1> QED
  BY <1>1 DEF NoPass, Pass

\* The outcomes of claimObject keep the types, and touch the loop's sets only.
LEMMA OutcomeTypes ==
    ASSUME TypeOK, NEW u \in Jobs, NEW o \in Objs
    PROVE  Owned(u, o) \in Pass /\ Skipped(u, o) \in Pass /\ Failed(u, o) \in Pass
<1>1. pass[u] \in Pass
  BY DEF TypeOK
<1> QED
  BY <1>1 DEF Owned, Skipped, Failed, Pass

LEMMA SetOwnerType ==
    ASSUME TypeOK, NEW o \in Objs, NEW u \in Owners, SetOwner(o, u)
    PROVE  object' \in [Objs -> Object] /\ owned' \in [Objs -> SUBSET Jobs]
<1>1. object \in [Objs -> Object] /\ owned \in [Objs -> SUBSET Jobs]
  BY DEF TypeOK
<1>2. [object[o] EXCEPT !.owner = u] \in Object
  BY <1>1 DEF Object
<1>3. owned[o] \cup ({u} \ {0}) \in SUBSET Jobs
  BY <1>1 DEF Owners
<1> QED
  BY <1>1, <1>2, <1>3 DEF SetOwner

LEMMA CallTypes ==
    ASSUME errors \in Nat, CallFails \/ CallSucceeds
    PROVE  errors' \in Nat
BY DEF CallFails, CallSucceeds

LEMMA InitTypes == Init => TypeOK
<1> SUFFICES ASSUME Init
             PROVE  TypeOK
  OBVIOUS
<1>1. object \in [Objs -> Object]
  BY DEF Init
<1>2. \A o \in Objs : {object[o].owner} \ {0} \in SUBSET Jobs
  BY <1>1 DEF Object, Owners
<1>3. MaxPasses \in Nat /\ MaxChanges \in Nat /\ MaxErrors \in Nat
  BY BoundsAssumption
<1> QED
  BY <1>1, <1>2, <1>3, NoPassType, NotListedType DEF Init, TypeOK

LEMMA BeginTypes == ASSUME TypeOK, NEW u \in Jobs, Begin(u) PROVE TypeOK'
<1>1. passes' \in Nat
  BY DEF Begin, TypeOK
<1>2. listed' \in [Jobs -> [Objs -> Object]]
  BY DEF Begin, TypeOK
<1>3. pass' \in [Jobs -> Pass]
  <2>1. PICK l \in Labels, d \in BOOLEAN :
           pass' = [pass EXCEPT ![u] =
                      [NoPass EXCEPT !.pc = "claiming", !.deleting = d, !.label = l,
                                     !.left = {o \in Objs : cache[o].st = "live"},
                                     !.canAdopt = FirstAnswer(u),
                                     !.wasAlive = (job[u] = "live")]]
    BY DEF Begin
  <2>2. [NoPass EXCEPT !.pc = "claiming", !.deleting = d, !.label = l,
                       !.left = {o \in Objs : cache[o].st = "live"},
                       !.canAdopt = FirstAnswer(u),
                       !.wasAlive = (job[u] = "live")] \in Pass
    BY NoPassType DEF Pass, FirstAnswer
  <2> QED
    BY <2>1, <2>2 DEF TypeOK
<1> QED
  BY <1>1, <1>2, <1>3 DEF Begin, TypeOK

LEMMA LoopTypes ==
    ASSUME TypeOK, NEW u \in Jobs, NEW o \in Objs,
           Look(u, o) \/ Recheck(u, o) \/ Refuse(u, o) \/ Adopt(u, o) \/ Release(u, o)
    PROVE  TypeOK'
<1> USE OutcomeTypes
<1>1. CASE Look(u, o) \/ Refuse(u, o)
  BY <1>1 DEF Look, Refuse, TypeOK, budgets
<1>2. CASE Recheck(u, o)
  <2>1. PICK answer \in {"yes", "no"} : pass' = [pass EXCEPT ![u].canAdopt = answer,
                                                           ![u].at = {o}]
    BY <1>2 DEF Recheck, Rechecked
  <2>2. pass' \in [Jobs -> Pass]
    <3>1. pass[u] \in Pass
      BY DEF TypeOK
    <3>2. [pass[u] EXCEPT !.canAdopt = answer, !.at = {o}] \in Pass
      BY <3>1 DEF Pass
    <3> QED
      BY <2>1, <3>2 DEF TypeOK
  <2>3. errors' \in Nat
    BY <1>2, CallTypes DEF Recheck, TypeOK
  <2> QED
    BY <1>2, <2>2, <2>3 DEF Recheck, TypeOK
<1>3. CASE Adopt(u, o)
  <2>1. object' \in [Objs -> Object] /\ owned' \in [Objs -> SUBSET Jobs]
    <3>1. NoEffect \/ SetOwner(o, u)
      BY <1>3 DEF Adopt
    <3> QED
      BY <3>1, SetOwnerType DEF NoEffect, Owners, TypeOK
  <2>2. pass' \in [Jobs -> Pass]
    BY <1>3 DEF Adopt, TypeOK
  <2>3. errors' \in Nat
    BY <1>3, CallTypes DEF Adopt, TypeOK
  <2> QED
    BY <1>3, <2>1, <2>2, <2>3 DEF Adopt, TypeOK
<1>4. CASE Release(u, o)
  <2>1. object' \in [Objs -> Object] /\ owned' \in [Objs -> SUBSET Jobs]
    <3>1. NoEffect \/ SetOwner(o, 0)
      BY <1>4 DEF Release
    <3> QED
      BY <3>1, SetOwnerType DEF NoEffect, Owners, TypeOK
  <2>2. pass' \in [Jobs -> Pass]
    <3>1. \/ pass' = [pass EXCEPT ![u] = Skipped(u, o)]
          \/ pass' = [pass EXCEPT ![u] = Failed(u, o)]
      BY <1>4 DEF Release
    <3> QED
      BY <3>1 DEF TypeOK
  <2>3. errors' \in Nat
    BY <1>4, CallTypes DEF Release, TypeOK
  <2> QED
    BY <1>4, <2>1, <2>2, <2>3 DEF Release, TypeOK
<1> QED
  BY <1>1, <1>2, <1>3, <1>4

LEMMA NextTypes == TypeOK /\ [Next]_vars => TypeOK'
<1> SUFFICES ASSUME TypeOK, [Next]_vars
             PROVE  TypeOK'
  OBVIOUS
<1>1. ASSUME NEW u \in Jobs, ManagerStep(u) \/ JobDeleted(u)
      PROVE  TypeOK'
  <2>1. CASE Begin(u)
    BY <2>1, BeginTypes
  <2>2. CASE Return(u)
    <3>1. pass[u] \in Pass
      BY DEF TypeOK
    <3>2. [pass[u] EXCEPT !.pc = "returned"] \in Pass
      BY <3>1 DEF Pass
    <3> QED
      BY <2>2, <3>2 DEF Return, TypeOK, budgets
  <2>3. CASE Forget(u)
    <3>1. [NoPass EXCEPT !.canAdopt = pass[u].canAdopt] \in Pass
      BY NoPassType DEF TypeOK, Pass
    <3> QED
      BY <2>3, <3>1, NotListedType DEF Forget, TypeOK, budgets
  <2>4. CASE JobDeleted(u)
    BY <2>4 DEF JobDeleted, Change, TypeOK
  <2>5. CASE \E o \in Objs : \/ Look(u, o) \/ Recheck(u, o) \/ Refuse(u, o)
                             \/ Adopt(u, o) \/ Release(u, o)
    BY <2>5, LoopTypes
  <2> QED
    BY <1>1, <2>1, <2>2, <2>3, <2>4, <2>5 DEF ManagerStep
<1>2. ASSUME NEW o \in Objs, CatchUp(o) \/ ObjectChanges(o)
      PROVE  TypeOK'
  <2>1. CASE CatchUp(o)
    BY <2>1 DEF CatchUp, TypeOK, budgets
  <2>2. CASE ObjectChanges(o)
    <3>1. object' \in [Objs -> Object]
      <4>1. object[o] \in Object
        BY DEF TypeOK
      <4>2. /\ \A l \in Labels : [object[o] EXCEPT !.label = l] \in Object
            /\ [object[o] EXCEPT !.deleting = TRUE] \in Object
            /\ [object[o] EXCEPT !.st = "gone"] \in Object
        BY <4>1 DEF Object
      <4> QED
        BY <2>2, <4>2 DEF ObjectChanges, TypeOK
    <3> QED
      BY <2>2, <3>1 DEF ObjectChanges, Change, TypeOK
  <2> QED
    BY <1>2, <2>1, <2>2
<1>3. CASE Crash
  <2>1. listed' \in [Jobs -> [Objs -> Object]]
    BY <1>3, NotListedType DEF Crash
  <2> QED
    BY <1>3, <2>1, NoPassType DEF Crash, Change, TypeOK
<1>4. CASE UNCHANGED vars
  BY <1>4 DEF vars, TypeOK, budgets
<1> QED
  BY <1>1, <1>2, <1>3, <1>4 DEF Next

-----------------------------------------------------------------------------
\* A call to the API server leaves alone, sets or clears the owner of one object.
LEMMA CallsSet ==
    ASSUME NEW u \in Jobs, NEW o \in Objs, Adopt(u, o) \/ Release(u, o)
    PROVE  \/ NoEffect
           \/ Adopt(u, o) /\ object[o].owner \in {0, u} /\ SetOwner(o, u)
           \/ Release(u, o) /\ object[o].owner = u /\ SetOwner(o, 0)
<1>1. CASE Adopt(u, o)
  BY <1>1 DEF Adopt
<1>2. CASE Release(u, o)
  BY <1>2 DEF Release
<1> QED
  BY <1>1, <1>2

LEMMA SetOwnerShown ==
    ASSUME TypeOK, ShownOwned, NEW o \in Objs, NEW u \in Owners, SetOwner(o, u),
           UNCHANGED <<cache, listed>>
    PROVE  ShownOwned'
<1>1. \A p \in Objs : owned[p] \subseteq owned'[p]
  BY DEF SetOwner, TypeOK
<1>2. u # 0 => u \in owned'[o]
  BY DEF SetOwner, TypeOK
<1>3. \A p \in Objs : object'[p].owner = IF p = o THEN u ELSE object[p].owner
  BY DEF SetOwner, TypeOK, Object
<1> QED
  BY <1>1, <1>2, <1>3 DEF ShownOwned

\* Nobody but the managers changes an owner, and what is gone stays gone.
LEMMA Untouched ==
    ASSUME TypeOK, NEW o \in Objs, ObjectChanges(o)
    PROVE  \A p \in Objs : /\ object'[p].owner = object[p].owner
                           /\ object[p].st = "gone" => object'[p].st = "gone"
<1>1. object[o] \in Object /\ object \in [Objs -> Object] /\ object[o].st = "live"
  BY DEF TypeOK, ObjectChanges
<1>2. \/ \E l \in Labels : object' = [object EXCEPT ![o] = [@ EXCEPT !.label = l]]
      \/ object' = [object EXCEPT ![o] = [@ EXCEPT !.deleting = TRUE]]
      \/ object' = [object EXCEPT ![o] = [@ EXCEPT !.st = "gone"]]
  BY DEF ObjectChanges
<1> QED
  BY <1>1, <1>2 DEF Object

LEMMA NextShown == TypeOK /\ ShownOwned /\ [Next]_vars => ShownOwned'
<1> SUFFICES ASSUME TypeOK, ShownOwned, [Next]_vars
             PROVE  ShownOwned'
  OBVIOUS
<1>1. ASSUME NEW u \in Jobs, Begin(u)
      PROVE  ShownOwned'
  BY <1>1 DEF Begin, ShownOwned, TypeOK
<1>2. ASSUME NEW u \in Jobs, Return(u) \/ JobDeleted(u)
      PROVE  ShownOwned'
  BY <1>2 DEF Return, JobDeleted, ShownOwned
<1>3. ASSUME NEW u \in Jobs, Forget(u)
      PROVE  ShownOwned'
  BY <1>3, NotListedType DEF Forget, ShownOwned, TypeOK
<1>4. ASSUME NEW u \in Jobs, NEW o \in Objs, Look(u, o) \/ Recheck(u, o) \/ Refuse(u, o)
      PROVE  ShownOwned'
  BY <1>4 DEF Look, Recheck, Refuse, ShownOwned
<1>5. ASSUME NEW u \in Jobs, NEW o \in Objs, Adopt(u, o) \/ Release(u, o)
      PROVE  ShownOwned'
  <2>1. UNCHANGED <<cache, listed>>
    BY <1>5 DEF Adopt, Release
  <2>2. NoEffect \/ SetOwner(o, u) \/ SetOwner(o, 0)
    BY <1>5, CallsSet
  <2> QED
    <3>1. CASE NoEffect
      BY <2>1, <3>1 DEF NoEffect, ShownOwned
    <3>2. CASE SetOwner(o, u)
      BY <2>1, <3>2, SetOwnerShown DEF Owners
    <3>3. CASE SetOwner(o, 0)
      BY <2>1, <3>3, SetOwnerShown DEF Owners
    <3> QED
      BY <2>2, <3>1, <3>2, <3>3
<1>6. ASSUME NEW o \in Objs, CatchUp(o)
      PROVE  ShownOwned'
  BY <1>6 DEF CatchUp, ShownOwned, TypeOK
<1>7. ASSUME NEW o \in Objs, ObjectChanges(o)
      PROVE  ShownOwned'
  <2>1. \A p \in Objs : object'[p].owner = object[p].owner
    BY <1>7, Untouched
  <2> QED
    BY <1>7, <2>1 DEF ObjectChanges, ShownOwned
<1>8. CASE Crash
  BY <1>8, NotListedType DEF Crash, ShownOwned
<1>9. CASE UNCHANGED vars
  BY <1>9 DEF vars, ShownOwned
<1> QED
  BY <1>1, <1>2, <1>3, <1>4, <1>5, <1>6, <1>7, <1>8, <1>9 DEF Next, ManagerStep

-----------------------------------------------------------------------------
\* What one step makes of the pass it belongs to; all other passes stay as they are.
LEMMA OneLoop ==
    ASSUME TypeOK, NEW u \in Jobs, NEW o \in Objs,
           Look(u, o) \/ Recheck(u, o) \/ Refuse(u, o) \/ Adopt(u, o) \/ Release(u, o)
    PROVE  /\ listed' = listed
           /\ \A v \in Jobs \ {u} : pass'[v] = pass[v]
           /\ pass'[u].pc = pass[u].pc /\ pass[u].pc = "claiming"
           /\ pass'[u].deleting = pass[u].deleting /\ pass'[u].label = pass[u].label
           /\ pass'[u].wasAlive = pass[u].wasAlive
           /\ o \in pass[u].left
<1>1. pass[u] \in Pass
  BY DEF TypeOK
<1>2. listed' = listed /\ pass[u].pc = "claiming" /\ o \in pass[u].left
  BY DEF Look, Recheck, Refuse, Adopt, Release, At
<1>3. \/ pass' = [pass EXCEPT ![u] = Owned(u, o)]
      \/ pass' = [pass EXCEPT ![u] = Skipped(u, o)]
      \/ pass' = [pass EXCEPT ![u] = Failed(u, o)]
      \/ \E answer \in {"yes", "no"} : pass' = [pass EXCEPT ![u].canAdopt = answer,
                                                          ![u].at = {o}]
  <2>1. CASE Look(u, o)
    BY <2>1 DEF Look
  <2>2. CASE Recheck(u, o)
    BY <2>2 DEF Recheck, Rechecked
  <2>3. CASE Refuse(u, o)
    BY <2>3 DEF Refuse
  <2>4. CASE Adopt(u, o)
    BY <2>4 DEF Adopt
  <2>5. CASE Release(u, o)
    BY <2>5 DEF Release
  <2> QED
    BY <2>1, <2>2, <2>3, <2>4, <2>5
<1>4. \A v \in Jobs \ {u} : pass'[v] = pass[v]
  BY <1>3 DEF TypeOK
<1>5. \/ pass'[u] = Owned(u, o) \/ pass'[u] = Skipped(u, o) \/ pass'[u] = Failed(u, o)
      \/ \E answer \in {"yes", "no"} : pass'[u] = [pass[u] EXCEPT !.canAdopt = answer,
                                                               !.at = {o}]
  BY <1>3 DEF TypeOK
<1>6. /\ pass'[u].pc = pass[u].pc /\ pass'[u].deleting = pass[u].deleting
      /\ pass'[u].label = pass[u].label /\ pass'[u].wasAlive = pass[u].wasAlive
  BY <1>1, <1>5 DEF Pass, Owned, Skipped, Failed
<1> QED
  BY <1>2, <1>4, <1>6

\* The loop deals with o, if only to ask for permission, and claims nothing but o.
LEMMA LoopShrinks ==
    ASSUME TypeOK, NEW u \in Jobs, NEW o \in Objs,
           Look(u, o) \/ Recheck(u, o) \/ Refuse(u, o) \/ Adopt(u, o) \/ Release(u, o)
    PROVE  /\ pass'[u].left \subseteq pass[u].left
           /\ pass[u].left \ {o} \subseteq pass'[u].left
           /\ pass[u].failed \subseteq pass'[u].failed
           /\ pass[u].claimed \subseteq pass'[u].claimed
           /\ pass'[u].claimed # pass[u].claimed =>
                 /\ pass'[u].claimed = pass[u].claimed \cup {o}
                 /\ \/ Look(u, o) /\ Verdict(u, o) = "claim"
                    \/ Adopt(u, o) /\ SetOwner(o, u)
<1>1. pass[u] \in Pass
  BY DEF TypeOK
<1>2. CASE \/ pass'[u] = Skipped(u, o) \/ pass'[u] = Failed(u, o)
           \/ \E answer \in {"yes", "no"} : pass'[u] = [pass[u] EXCEPT !.canAdopt = answer,
                                                                    !.at = {o}]
  <2>1. /\ pass'[u].left \in {pass[u].left, pass[u].left \ {o}}
        /\ pass'[u].claimed = pass[u].claimed
    BY <1>1, <1>2 DEF Pass, Skipped, Failed
  <2>2. pass'[u].failed \in {pass[u].failed, pass[u].failed \cup {o}}
    BY <1>1, <1>2 DEF Pass, Skipped, Failed
  <2> QED
    BY <2>1, <2>2
<1>3. CASE /\ pass'[u] = Owned(u, o)
           /\ \/ Look(u, o) /\ Verdict(u, o) = "claim"
              \/ Adopt(u, o) /\ SetOwner(o, u)
  BY <1>1, <1>3 DEF Pass, Owned
<1>4. CASE Look(u, o)
  BY <1>2, <1>3, <1>4 DEF Look, TypeOK
<1>5. CASE Recheck(u, o)
  BY <1>2, <1>5 DEF Recheck, Rechecked, TypeOK
<1>6. CASE Refuse(u, o)
  BY <1>2, <1>6 DEF Refuse, TypeOK
<1>7. CASE Adopt(u, o)
  BY <1>2, <1>3, <1>7 DEF Adopt, TypeOK
<1>8. CASE Release(u, o)
  BY <1>2, <1>8 DEF Release, TypeOK
<1> QED
  BY <1>4, <1>5, <1>6, <1>7, <1>8

\* canAdopt comes to say yes only when the TFJob is alive.
LEMMA Answers ==
    ASSUME TypeOK, NEW u \in Jobs, NEW o \in Objs,
           Look(u, o) \/ Recheck(u, o) \/ Refuse(u, o) \/ Adopt(u, o) \/ Release(u, o)
    PROVE  \/ pass'[u].canAdopt = pass[u].canAdopt
           \/ pass'[u].canAdopt = "no"
           \/ job[u] = "live"
<1>1. pass[u] \in Pass
  BY DEF TypeOK
<1>2. CASE pass'[u] \in {Owned(u, o), Skipped(u, o), Failed(u, o)}
  BY <1>1, <1>2 DEF Pass, Owned, Skipped, Failed
<1>3. CASE Recheck(u, o)
  BY <1>1, <1>3 DEF Recheck, Rechecked, TypeOK, Pass
<1>4. ~Recheck(u, o) => pass'[u] \in {Owned(u, o), Skipped(u, o), Failed(u, o)}
  <2>1. CASE Look(u, o)
    BY <2>1 DEF Look, TypeOK
  <2>2. CASE Refuse(u, o)
    BY <2>2 DEF Refuse, TypeOK
  <2>3. CASE Adopt(u, o)
    BY <2>3 DEF Adopt, TypeOK
  <2>4. CASE Release(u, o)
    BY <2>4 DEF Release, TypeOK
  <2> QED
    BY <2>1, <2>2, <2>3, <2>4
<1> QED
  BY <1>2, <1>3, <1>4

LEMMA BegunPass ==
    ASSUME TypeOK, NEW u \in Jobs, Begin(u)
    PROVE  /\ listed' = [listed EXCEPT ![u] = cache]
           /\ \A v \in Jobs \ {u} : pass'[v] = pass[v]
           /\ pass'[u].pc = "claiming" /\ pass'[u].canAdopt = "unknown"
           /\ pass'[u].left = {o \in Objs : cache[o].st = "live"}
           /\ pass'[u].claimed = {}
           /\ pass'[u].wasAlive = (job[u] = "live")
BY DEF Begin, TypeOK, NoPass, FirstAnswer

LEMMA NextLeft == TypeOK /\ LeftIsListed /\ [Next]_vars => LeftIsListed'
<1> SUFFICES ASSUME TypeOK, LeftIsListed, [Next]_vars
             PROVE  LeftIsListed'
  OBVIOUS
<1>1. ASSUME NEW u \in Jobs, Begin(u)
      PROVE  LeftIsListed'
  BY <1>1, BegunPass DEF LeftIsListed, TypeOK
<1>2. ASSUME NEW u \in Jobs, Return(u)
      PROVE  LeftIsListed'
  <2>1. pass'[u].left = pass[u].left
    BY <1>2 DEF Return, TypeOK, Pass
  <2> QED
    BY <1>2, <2>1 DEF Return, LeftIsListed, TypeOK
<1>3. ASSUME NEW u \in Jobs, Forget(u)
      PROVE  LeftIsListed'
  BY <1>3 DEF Forget, LeftIsListed, TypeOK, NoPass
<1>4. ASSUME NEW u \in Jobs, NEW o \in Objs,
             Look(u, o) \/ Recheck(u, o) \/ Refuse(u, o) \/ Adopt(u, o) \/ Release(u, o)
      PROVE  LeftIsListed'
  <2>1. pass'[u].left \subseteq pass[u].left
    BY <1>4, LoopShrinks
  <2> QED
    BY <1>4, <2>1, OneLoop DEF LeftIsListed
<1>5. CASE \/ \E u \in Jobs : JobDeleted(u)
           \/ \E o \in Objs : CatchUp(o) \/ ObjectChanges(o)
  BY <1>5 DEF JobDeleted, CatchUp, ObjectChanges, LeftIsListed
<1>6. CASE Crash
  BY <1>6 DEF Crash, LeftIsListed, NoPass
<1>7. CASE UNCHANGED vars
  BY <1>7 DEF vars, LeftIsListed
<1> QED
  BY <1>1, <1>2, <1>3, <1>4, <1>5, <1>6, <1>7 DEF Next, ManagerStep

\* A pass claims what the list shows as its TFJob's, and what it has just adopted.
LEMMA NextClaimed ==
    TypeOK /\ ShownOwned /\ LeftIsListed /\ ClaimedWereOwned /\ [Next]_vars
        => ClaimedWereOwned'
<1> SUFFICES ASSUME TypeOK, ShownOwned, LeftIsListed, ClaimedWereOwned, [Next]_vars
             PROVE  ClaimedWereOwned'
  OBVIOUS
<1>1. ASSUME NEW u \in Jobs, Begin(u)
      PROVE  ClaimedWereOwned'
  <2>1. owned' = owned
    BY <1>1 DEF Begin
  <2> QED
    BY <1>1, <2>1, BegunPass DEF ClaimedWereOwned
<1>2. ASSUME NEW u \in Jobs, Return(u)
      PROVE  ClaimedWereOwned'
  <2>1. pass'[u].claimed = pass[u].claimed
    BY <1>2 DEF Return, TypeOK, Pass
  <2> QED
    BY <1>2, <2>1 DEF Return, ClaimedWereOwned, TypeOK
<1>3. ASSUME NEW u \in Jobs, Forget(u)
      PROVE  ClaimedWereOwned'
  BY <1>3 DEF Forget, ClaimedWereOwned, TypeOK, NoPass
<1>4. ASSUME NEW u \in Jobs, NEW o \in Objs,
             Look(u, o) \/ Recheck(u, o) \/ Refuse(u, o) \/ Adopt(u, o) \/ Release(u, o)
      PROVE  ClaimedWereOwned'
  <2>1. \A p \in Objs : owned[p] \subseteq owned'[p]
    BY <1>4 DEF Look, Recheck, Refuse, Adopt, Release, SetOwner, NoEffect, TypeOK
  <2>2. CASE pass'[u].claimed = pass[u].claimed
    BY <1>4, <2>1, <2>2, OneLoop DEF ClaimedWereOwned, TypeOK, Pass
  <2>3. CASE pass'[u].claimed # pass[u].claimed
    <3>1. /\ pass'[u].claimed = pass[u].claimed \cup {o}
          /\ \/ Look(u, o) /\ Verdict(u, o) = "claim"
             \/ Adopt(u, o) /\ SetOwner(o, u)
      BY <1>4, <2>3, LoopShrinks
    <3>2. u \in owned'[o]
      <4>1. CASE Look(u, o) /\ Verdict(u, o) = "claim"
        <5>1. listed[u][o].owner = u /\ u # 0
          BY <4>1, JobsAssumption DEF Verdict, ClaimObject
        <5>2. listed[u][o].st = "live"
          BY <1>4, OneLoop DEF LeftIsListed
        <5> QED
          BY <2>1, <5>1, <5>2 DEF ShownOwned
      <4>2. CASE SetOwner(o, u)
        BY <4>2, JobsAssumption DEF SetOwner, TypeOK
      <4> QED
        BY <3>1, <4>1, <4>2
    <3>3. \A p \in pass'[u].claimed : u \in owned'[p]
      <4>1. pass[u].claimed \subseteq Objs
        BY DEF TypeOK, Pass
      <4> QED
        BY <2>1, <3>1, <3>2, <4>1 DEF ClaimedWereOwned
    <3>4. \A v \in Jobs \ {u} : \A p \in pass'[v].claimed : v \in owned'[p]
      <4>1. \A v \in Jobs \ {u} : pass'[v] = pass[v] /\ pass[v].claimed \subseteq Objs
        BY <1>4, OneLoop DEF TypeOK, Pass
      <4> QED
        BY <2>1, <4>1 DEF ClaimedWereOwned
    <3> QED
      BY <3>3, <3>4 DEF ClaimedWereOwned
  <2> QED
    BY <2>2, <2>3
<1>5. CASE \/ \E u \in Jobs : JobDeleted(u)
           \/ \E o \in Objs : CatchUp(o) \/ ObjectChanges(o)
  BY <1>5 DEF JobDeleted, CatchUp, ObjectChanges, ClaimedWereOwned
<1>6. CASE Crash
  BY <1>6 DEF Crash, ClaimedWereOwned, NoPass
<1>7. CASE UNCHANGED vars
  BY <1>7 DEF vars, ClaimedWereOwned
<1> QED
  BY <1>1, <1>2, <1>3, <1>4, <1>5, <1>6, <1>7 DEF Next, ManagerStep

-----------------------------------------------------------------------------
\* A TFJob that is alive when canAdopt asks was alive when the pass began.
LEMMA NextPermission == TypeOK /\ PermissionEarned /\ [Next]_vars => PermissionEarned'
<1> SUFFICES ASSUME TypeOK, PermissionEarned, [Next]_vars
             PROVE  PermissionEarned'
  OBVIOUS
<1>1. ASSUME NEW u \in Jobs, Begin(u)
      PROVE  PermissionEarned'
  <2>1. job' = job
    BY <1>1 DEF Begin
  <2> QED
    BY <1>1, <2>1, BegunPass DEF PermissionEarned
<1>2. ASSUME NEW u \in Jobs, Return(u)
      PROVE  PermissionEarned'
  <2>1. pass'[u].pc = "returned"
    BY <1>2 DEF Return, TypeOK, Pass
  <2> QED
    BY <1>2, <2>1 DEF Return, PermissionEarned, TypeOK
<1>3. ASSUME NEW u \in Jobs, Forget(u)
      PROVE  PermissionEarned'
  BY <1>3 DEF Forget, PermissionEarned, TypeOK, NoPass
<1>4. ASSUME NEW u \in Jobs, NEW o \in Objs,
             Look(u, o) \/ Recheck(u, o) \/ Refuse(u, o) \/ Adopt(u, o) \/ Release(u, o)
      PROVE  PermissionEarned'
  <2>1. job' = job
    BY <1>4 DEF Look, Recheck, Refuse, Adopt, Release
  <2>2. pass'[u].canAdopt = pass[u].canAdopt \/ pass'[u].canAdopt = "no" \/ job[u] = "live"
    BY <1>4, Answers
  <2> QED
    BY <1>4, <2>1, <2>2, OneLoop DEF PermissionEarned
<1>5. ASSUME NEW u \in Jobs, JobDeleted(u)
      PROVE  PermissionEarned'
  <2>1. job'[u] # "live" /\ \A v \in Jobs \ {u} : job'[v] = job[v]
    BY <1>5 DEF JobDeleted, TypeOK
  <2> QED
    BY <1>5, <2>1 DEF JobDeleted, PermissionEarned
<1>6. CASE \E o \in Objs : CatchUp(o) \/ ObjectChanges(o)
  BY <1>6 DEF CatchUp, ObjectChanges, PermissionEarned
<1>7. CASE Crash
  BY <1>7 DEF Crash, PermissionEarned, NoPass
<1>8. CASE UNCHANGED vars
  BY <1>8 DEF vars, PermissionEarned
<1> QED
  BY <1>1, <1>2, <1>3, <1>4, <1>5, <1>6, <1>7, <1>8 DEF Next, ManagerStep

-----------------------------------------------------------------------------
\* The object the loop has just dealt with is as the verdict wants it.
LEMMA Settles ==
    ASSUME TypeOK, NEW u \in Jobs, NEW o \in Objs,
           Look(u, o) \/ Recheck(u, o) \/ Refuse(u, o) \/ Adopt(u, o) \/ Release(u, o),
           o \notin pass'[u].left, o \notin pass'[u].failed
    PROVE  /\ Verdict(u, o) = "release" => object'[o].st = "gone" \/ object'[o].owner # u
           /\ Verdict(u, o) \in {"claim", "adopt"} =>
                 object'[o].st = "gone" \/ o \in pass'[u].claimed
<1>1. pass[u] \in Pass /\ object[o] \in Object
  BY DEF TypeOK
<1>2. CASE Look(u, o)
  <2>1. Verdict(u, o) = "claim" => pass'[u].claimed = pass[u].claimed \cup {o}
    BY <1>1, <1>2 DEF Look, Owned, TypeOK, Pass
  <2> QED
    BY <1>2, <2>1 DEF Look
<1>3. CASE Recheck(u, o)
  <2>1. pass'[u].left = pass[u].left
    BY <1>1, <1>3 DEF Recheck, TypeOK, Pass
  <2> QED
    BY <1>3, <2>1, OneLoop
<1>4. ~(pass' = [pass EXCEPT ![u] = Failed(u, o)])
  <2>1. o \in Failed(u, o).failed
    BY <1>1 DEF Failed, Pass
  <2> QED
    BY <2>1 DEF TypeOK
<1>5. CASE Adopt(u, o)
  <2>1. CASE object[o].st = "gone"
    <3>1. object'[o].st = "gone"
      BY <1>1, <1>4, <1>5, <2>1 DEF Adopt, NoEffect
    <3> QED
      BY <1>5, <3>1 DEF Adopt
  <2>2. CASE object[o].st = "live"
    <3>1. pass' = [pass EXCEPT ![u] = Owned(u, o)]
      BY <1>4, <1>5, <2>2 DEF Adopt
    <3>2. o \in pass'[u].claimed
      BY <1>1, <3>1 DEF Owned, TypeOK, Pass
    <3> QED
      BY <1>5, <3>2 DEF Adopt
  <2> QED
    BY <1>1, <2>1, <2>2 DEF Object
<1>6. CASE Release(u, o)
  <2>1. CASE object[o].st = "live" /\ object[o].owner = u
    <3>1. SetOwner(o, 0)
      BY <1>4, <1>6, <2>1 DEF Release
    <3>2. object'[o].owner = 0
      BY <1>1, <3>1 DEF SetOwner, TypeOK, Object
    <3> QED
      BY <1>6, <3>2, JobsAssumption DEF Release
  <2>2. CASE ~(object[o].st = "live" /\ object[o].owner = u)
    <3>1. object' = object
      BY <1>4, <1>6, <2>2 DEF Release, NoEffect
    <3> QED
      BY <1>1, <1>6, <2>2, <3>1 DEF Release, Object
  <2> QED
    BY <2>1, <2>2
<1> QED
  BY <1>2, <1>3, <1>4, <1>5, <1>6 DEF Refuse

\* Calls change nobody's share of an object but that of the TFJob that makes them.
LEMMA CallEffects ==
    ASSUME TypeOK, NEW u \in Jobs, NEW o \in Objs,
           Look(u, o) \/ Recheck(u, o) \/ Refuse(u, o) \/ Adopt(u, o) \/ Release(u, o)
    PROVE  /\ \A p \in Objs : object'[p].st = object[p].st
           /\ \A p \in Objs \ {o} : object'[p] = object[p]
           /\ object'[o].owner \in {object[o].owner, u, 0}
<1>1. object \in [Objs -> Object]
  BY DEF TypeOK
<1>2. object' = object \/ SetOwner(o, u) \/ SetOwner(o, 0)
  <2>1. CASE Adopt(u, o) \/ Release(u, o)
    BY <2>1, CallsSet DEF NoEffect
  <2>2. CASE Look(u, o) \/ Recheck(u, o) \/ Refuse(u, o)
    BY <2>2 DEF Look, Recheck, Refuse
  <2> QED
    BY <2>1, <2>2
<1> QED
  BY <1>1, <1>2 DEF SetOwner, Object

LEMMA LoopReconciles ==
    ASSUME TypeOK, Reconciling, NEW u \in Jobs, NEW o \in Objs,
           Look(u, o) \/ Recheck(u, o) \/ Refuse(u, o) \/ Adopt(u, o) \/ Release(u, o)
    PROVE  Reconciling'
<1>1. ASSUME NEW v \in Jobs \ {u}, pass'[v].pc # "none", NEW p \in Dealt(v)'
      PROVE  Settled(v, p)'
  <2>1. pass'[v] = pass[v] /\ listed' = listed
    BY OneLoop
  <2>2. p \in Dealt(v) /\ Verdict(v, p)' = Verdict(v, p)
    BY <2>1 DEF Dealt, Verdict
  <2>3. Settled(v, p)
    BY <1>1, <2>1, <2>2 DEF Reconciling
  <2>4. object'[p].st = object[p].st /\ (object[p].owner # v => object'[p].owner # v)
    BY <2>2, CallEffects, JobsAssumption DEF Dealt
  <2> QED
    BY <2>1, <2>2, <2>3, <2>4 DEF Settled
<1>2. ASSUME NEW p \in Dealt(u)'
      PROVE  Settled(u, p)'
  <2>1. Verdict(u, p)' = Verdict(u, p)
    BY OneLoop DEF Verdict
  <2>2. CASE p = o
    <3>1. o \notin pass'[u].left /\ o \notin pass'[u].failed
      BY <2>2 DEF Dealt
    <3> QED
      BY <2>1, <2>2, <3>1, Settles DEF Settled
  <2>3. CASE p # o
    <3>1. p \in Dealt(u)
      BY <2>3, OneLoop, LoopShrinks DEF Dealt
    <3>2. Settled(u, p)
      BY <3>1, OneLoop DEF Reconciling
    <3>3. object'[p] = object[p] /\ pass[u].claimed \subseteq pass'[u].claimed
      BY <2>3, <3>1, CallEffects, LoopShrinks DEF Dealt
    <3> QED
      BY <2>1, <3>2, <3>3 DEF Settled
  <2> QED
    BY <2>2, <2>3
<1>3. \A v \in Jobs : pass'[v].pc = "returned" => pass'[v].left = {}
  BY OneLoop DEF Reconciling
<1> QED
  BY <1>1, <1>2, <1>3 DEF Reconciling

LEMMA NextReconciles == TypeOK /\ Reconciling /\ [Next]_vars => Reconciling'
<1> SUFFICES ASSUME TypeOK, Reconciling, [Next]_vars
             PROVE  Reconciling'
  OBVIOUS
<1>1. ASSUME NEW u \in Jobs, Begin(u)
      PROVE  Reconciling'
  <2>1. Dealt(u)' = {}
    BY <1>1, BegunPass DEF Dealt, TypeOK
  <2>2. ASSUME NEW v \in Jobs \ {u}
        PROVE  /\ pass'[v] = pass[v] /\ Dealt(v)' = Dealt(v)
               /\ \A p \in Objs : Settled(v, p)' = Settled(v, p)
    <3>1. pass'[v] = pass[v] /\ listed'[v] = listed[v] /\ object' = object
      BY <1>1, <2>2, BegunPass DEF TypeOK, Begin
    <3> QED
      BY <3>1 DEF Dealt, Settled, Verdict
  <2> QED
    BY <1>1, <2>1, <2>2, BegunPass DEF Reconciling, Dealt
<1>2. ASSUME NEW u \in Jobs, Return(u)
      PROVE  Reconciling'
  <2>1. UNCHANGED <<object, listed>> /\ pass[u].pc = "claiming" /\ pass[u].left = {}
    BY <1>2 DEF Return
  <2>2. ASSUME NEW v \in Jobs
        PROVE  /\ pass'[v].left = pass[v].left /\ pass'[v].failed = pass[v].failed
               /\ pass'[v].claimed = pass[v].claimed /\ pass'[v].label = pass[v].label
               /\ pass'[v].deleting = pass[v].deleting
               /\ v # u => pass'[v].pc = pass[v].pc
    <3>1. pass[v] \in Pass
      BY DEF TypeOK
    <3> QED
      BY <1>2, <3>1 DEF Return, TypeOK, Pass
  <2>3. \A v \in Jobs : Dealt(v)' = Dealt(v) /\ \A p \in Objs : Settled(v, p)' = Settled(v, p)
    BY <2>1, <2>2 DEF Dealt, Settled, Verdict
  <2> QED
    BY <2>1, <2>2, <2>3 DEF Reconciling, Dealt
<1>3. ASSUME NEW u \in Jobs, Forget(u)
      PROVE  Reconciling'
  <2>1. pass'[u].pc = "none"
    BY <1>3 DEF Forget, TypeOK, NoPass
  <2>2. ASSUME NEW v \in Jobs \ {u}
        PROVE  /\ pass'[v] = pass[v] /\ Dealt(v)' = Dealt(v)
               /\ \A p \in Objs : Settled(v, p)' = Settled(v, p)
    <3>1. pass'[v] = pass[v] /\ listed'[v] = listed[v] /\ object' = object
      BY <1>3, <2>2 DEF Forget, TypeOK
    <3> QED
      BY <3>1 DEF Dealt, Settled, Verdict
  <2> QED
    BY <2>1, <2>2 DEF Reconciling, Dealt
<1>4. ASSUME NEW u \in Jobs, NEW o \in Objs,
             Look(u, o) \/ Recheck(u, o) \/ Refuse(u, o) \/ Adopt(u, o) \/ Release(u, o)
      PROVE  Reconciling'
  BY <1>4, LoopReconciles
<1>5. CASE (\E u \in Jobs : JobDeleted(u)) \/ (\E o \in Objs : CatchUp(o))
  BY <1>5 DEF JobDeleted, CatchUp, Reconciling, Dealt, Settled, Verdict
<1>6. ASSUME NEW o \in Objs, ObjectChanges(o)
      PROVE  Reconciling'
  <2>1. \A p \in Objs : /\ object'[p].owner = object[p].owner
                        /\ object[p].st = "gone" => object'[p].st = "gone"
    BY <1>6, Untouched
  <2>2. UNCHANGED <<pass, listed>>
    BY <1>6 DEF ObjectChanges
  <2>3. \A u \in Jobs : Dealt(u)' = Dealt(u) /\ Dealt(u) \subseteq Objs
    BY <2>2 DEF Dealt
  <2>4. \A u \in Jobs, p \in Objs : Settled(u, p) => Settled(u, p)'
    BY <2>1, <2>2 DEF Settled, Verdict
  <2> QED
    BY <2>2, <2>3, <2>4 DEF Reconciling
<1>7. CASE Crash
  BY <1>7 DEF Crash, Reconciling, NoPass
<1>8. CASE UNCHANGED vars
  BY <1>8 DEF vars, Reconciling, Dealt, Settled, Verdict
<1> QED
  BY <1>1, <1>2, <1>3, <1>4, <1>5, <1>6, <1>7, <1>8 DEF Next, ManagerStep

-----------------------------------------------------------------------------
LEMMA InitInv == Init => Inv
<1> SUFFICES ASSUME Init
             PROVE  Inv
  OBVIOUS
<1>1. TypeOK
  BY InitTypes
<1>2. ShownOwned
  BY <1>1, NotListedType DEF Init, ShownOwned
<1>3. LeftIsListed /\ ClaimedWereOwned /\ PermissionEarned /\ Reconciling
  BY DEF Init, NoPass, LeftIsListed, ClaimedWereOwned, PermissionEarned, Reconciling
<1> QED
  BY <1>1, <1>2, <1>3 DEF Inv

THEOREM Invariance == Spec => []Inv
<1>1. Inv /\ [Next]_vars => Inv'
  BY NextTypes, NextShown, NextLeft, NextClaimed, NextPermission, NextReconciles DEF Inv
<1> QED
  BY <1>1, InitInv, PTL DEF Spec

\* The managers and the objects keep their types.
THEOREM TypeCorrect == Spec => []TypeOK
<1>1. Inv => TypeOK
  BY DEF Inv
<1> QED
  BY <1>1, Invariance, PTL

\* ClaimPods and ClaimServices return only what the TFJob has controlled.
THEOREM ClaimsOwned == Spec => []ClaimedWereOwned
<1>1. Inv => ClaimedWereOwned
  BY DEF Inv
<1> QED
  BY <1>1, Invariance, PTL

\* One error in a pass spares no other object.
THEOREM PassesReconcile == Spec => []PassReconciles
<1>1. Inv => PassReconciles
  BY DEF Inv, Reconciling, Settled, PassReconciles
<1> QED
  BY <1>1, Invariance, PTL

-----------------------------------------------------------------------------
LEMMA InitRefines == Init => Abstract!Init
<1> SUFFICES ASSUME Init
             PROVE  Abstract!Init
  OBVIOUS
<1>1. \A o \in Objs : object[o].owner \in Jobs \cup {0}
  BY DEF Init, Object, Owners
<1>2. {u \in Jobs : job[u] = "live"} = Jobs
  BY DEF Init
<1>3. {u \in Jobs : pass[u].pc = "claiming" /\ pass[u].wasAlive} = {}
  BY DEF Init, NoPass
<1> QED
  BY <1>1, <1>2, <1>3 DEF Abstract!Init

Entitled == {u \in Jobs : pass[u].pc = "claiming" /\ pass[u].wasAlive}
Alive == {u \in Jobs : job[u] = "live"}
Owner == [o \in Objs |-> object[o].owner]

LEMMA OwnerSet ==
    ASSUME TypeOK, NEW o \in Objs, NEW u \in Owners, SetOwner(o, u)
    PROVE  Owner' = [Owner EXCEPT ![o] = u]
<1>1. \A p \in Objs : object'[p].owner = IF p = o THEN u ELSE object[p].owner
  BY DEF SetOwner, TypeOK, Object
<1> QED
  BY <1>1 DEF Owner

LEMMA StepRefines == Inv /\ [Next]_vars => [Abstract!Next]_(Abstract!vars)
<1> SUFFICES ASSUME Inv, [Next]_vars
             PROVE  [Abstract!Next]_(Abstract!vars)
  OBVIOUS
<1> TypeOK
  BY DEF Inv
<1>1. ASSUME NEW u \in Jobs, Begin(u)
      PROVE  [Abstract!Next]_(Abstract!vars)
  <2>1. Alive' = Alive /\ Owner' = Owner
    BY <1>1 DEF Begin, Alive, Owner
  <2>2. u \notin Entitled
    BY <1>1 DEF Begin, Entitled
  <2>3. Entitled' = IF u \in Alive THEN Entitled \cup {u} ELSE Entitled
    <3>1. \A v \in Jobs \ {u} : pass'[v] = pass[v]
      BY <1>1, BegunPass
    <3>2. pass'[u].pc = "claiming" /\ (pass'[u].wasAlive <=> u \in Alive)
      BY <1>1, BegunPass DEF Alive
    <3>3. \A v \in Jobs \ {u} : v \in Entitled' <=> v \in Entitled
      BY <3>1 DEF Entitled
    <3>4. u \in Entitled' <=> u \in Alive
      BY <3>2 DEF Entitled
    <3>5. Entitled \subseteq Jobs /\ Entitled' \subseteq Jobs
      BY DEF Entitled
    <3> QED
      BY <2>2, <3>3, <3>4, <3>5
  <2> QED
    BY <1>1, <2>1, <2>3 DEF Alive, Owner, Entitled, Abstract!Next, Abstract!Begin, Abstract!vars
<1>2. ASSUME NEW u \in Jobs, Return(u) \/ Forget(u)
      PROVE  [Abstract!Next]_(Abstract!vars)
  <2>1. Alive' = Alive /\ Owner' = Owner
    BY <1>2 DEF Return, Forget, Alive, Owner
  <2>2. pass'[u].pc # "claiming" /\ \A v \in Jobs \ {u} : pass'[v] = pass[v]
    <3>1. CASE Return(u)
      BY <3>1 DEF Return, TypeOK, Pass
    <3>2. CASE Forget(u)
      BY <3>2 DEF Forget, TypeOK, NoPass
    <3> QED
      BY <1>2, <3>1, <3>2
  <2>3. Entitled' \in SUBSET Entitled
    BY <2>2 DEF Entitled
  <2> QED
    BY <2>1, <2>3 DEF Alive, Owner, Entitled, Abstract!Next, Abstract!End
<1>3. ASSUME NEW u \in Jobs, NEW o \in Objs,
             Look(u, o) \/ Recheck(u, o) \/ Refuse(u, o) \/ Adopt(u, o) \/ Release(u, o)
      PROVE  [Abstract!Next]_(Abstract!vars)
  <2>1. Alive' = Alive
    BY <1>3 DEF Look, Recheck, Refuse, Adopt, Release, Alive
  <2>2. Entitled' = Entitled
    BY <1>3, OneLoop DEF Entitled
  <2>3. CASE Look(u, o) \/ Recheck(u, o) \/ Refuse(u, o) \/ NoEffect
    <3>1. Owner' = Owner
      BY <2>3 DEF Look, Recheck, Refuse, NoEffect, Owner
    <3> QED
      BY <2>1, <2>2, <3>1 DEF Alive, Owner, Entitled, Abstract!vars
  <2>4. CASE Adopt(u, o) /\ object[o].owner \in {0, u} /\ SetOwner(o, u)
    <3>1. Owner' = [Owner EXCEPT ![o] = u]
      BY <2>4, OwnerSet DEF Owners
    <3>2. u \in Entitled
      BY <2>4 DEF Adopt, At, Inv, PermissionEarned, Entitled
    <3>3. CASE object[o].owner = 0
      BY <2>1, <2>2, <3>1, <3>2, <3>3
         DEF Alive, Owner, Entitled, Abstract!Next, Abstract!Adopt
    <3>4. CASE object[o].owner = u
      <4>1. Owner' = Owner
        BY <3>1, <3>4 DEF Owner
      <4> QED
        BY <2>1, <2>2, <4>1 DEF Alive, Owner, Entitled, Abstract!vars
    <3> QED
      BY <2>4, <3>3, <3>4
  <2>5. CASE Release(u, o) /\ object[o].owner = u /\ SetOwner(o, 0)
    <3>1. Owner' = [Owner EXCEPT ![o] = 0]
      BY <2>5, OwnerSet DEF Owners
    <3> QED
      BY <2>1, <2>2, <2>5, <3>1 DEF Alive, Owner, Entitled, Abstract!Next, Abstract!Release
  <2> QED
    BY <1>3, <2>3, <2>4, <2>5, CallsSet
<1>4. ASSUME NEW u \in Jobs, JobDeleted(u)
      PROVE  [Abstract!Next]_(Abstract!vars)
  <2>1. Owner' = Owner /\ Entitled' = Entitled
    BY <1>4 DEF JobDeleted, Owner, Entitled
  <2>2. Alive' = Alive \ {u}
    BY <1>4 DEF JobDeleted, Alive, TypeOK
  <2> QED
    BY <2>1, <2>2 DEF Alive, Owner, Entitled, Abstract!Next, Abstract!Delete
<1>5. ASSUME NEW o \in Objs, CatchUp(o) \/ ObjectChanges(o)
      PROVE  [Abstract!Next]_(Abstract!vars)
  <2>1. Alive' = Alive /\ Entitled' = Entitled
    BY <1>5 DEF CatchUp, ObjectChanges, Alive, Entitled
  <2>2. Owner' = Owner
    BY <1>5, Untouched DEF CatchUp, Owner
  <2> QED
    BY <2>1, <2>2 DEF Alive, Owner, Entitled, Abstract!vars
<1>6. CASE Crash
  <2>1. Owner' = Owner /\ Alive' = Alive /\ Entitled' \in SUBSET Entitled
    BY <1>6 DEF Crash, Owner, Alive, Entitled, NoPass
  <2> QED
    BY <2>1 DEF Alive, Owner, Entitled, Abstract!Next, Abstract!End
<1>7. CASE UNCHANGED vars
  BY <1>7 DEF vars, Abstract!vars
<1> QED
  BY <1>1, <1>2, <1>3, <1>4, <1>5, <1>6, <1>7 DEF Next, ManagerStep

\* Nobody takes an object from its controller, only its controller gives it up, and only in
\* a pass begun when it existed does a TFJob take one: whatever passes run at once.
THEOREM OwnershipKept == Spec => ImplementsOwnership
BY InitRefines, StepRefines, Invariance, PTL DEF Spec, ImplementsOwnership, Abstract!Spec
====
