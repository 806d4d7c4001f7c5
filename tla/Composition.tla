---- MODULE Composition ----
(***************************************************************************)
(* What the controller writes into the objects it creates: the parts of a  *)
(* TFJob as users write them, the labels compose puts on their templates,  *)
(* the services' names in the arguments of the pods, and the list of       *)
(* replica statuses.  A sync is one step here.  It reads three listers,    *)
(* each fed by an informer of its own: the TFJob, which it writes in       *)
(* place, the pods and the services, which come late.                      *)
(*                                                                         *)
(* RuntimeIDs are numbered in the order in which they are drawn, 0 is the  *)
(* empty one.  The names GetService draws in one sync carry the same       *)
(* number; 0 stands for the name that is missing from serviceNames.        *)
(***************************************************************************)
EXTENDS Integers, Sequences, FiniteSets

CONSTANTS PartLists,   \* what users write into tfReplicaSpec
          MaxReplicas, \* bound: replicas users ask for
          MaxPods,     \* bound: pods ever created
          MaxRid,      \* bound: RuntimeIDs ever drawn
          MaxErrors,   \* bound: syncs in which API calls fail
          MaxEnds,     \* bound: pods that end or are deleted
          MaxEdits,    \* bound: writes of users to the TFJob
          MaxTroubles, \* bound: all of these together
          MaxLag       \* bound: what the listers lack when a sync begins (one less at MaxTroubles)

Unset == -1                  \* a nil pointer, a nil map
Tasks == {"Worker", "PS"}    \* the types of a distributed TFJob
Types == Tasks \cup {"Local"}
Part == [type : Types, replicas : Nat \cup {Unset}, labels : Nat \cup {Unset}]
Job == [rid : Nat, parts : Seq(Part), phase : {"", "Running", "Succeeded"},
        statuses : Seq(Types)]

Unlabelled(parts) == \A i \in DOMAIN parts : parts[i].labels = Unset

ASSUME PartsAssumption ==
    PartLists \subseteq Seq(Part) /\ \A parts \in PartLists : Unlabelled(parts)
ASSUME BoundsAssumption ==
    {MaxReplicas, MaxPods, MaxRid, MaxErrors, MaxEnds, MaxEdits, MaxTroubles, MaxLag} \subseteq Nat

VARIABLES
    server,    \* API server: the TFJob
    cached,    \* the object the lister returns
    stale,     \* the server's TFJob is newer than the lister's
    relisted,  \* somebody wrote the list of parts anew
    lastRid,   \* the last RuntimeID drawn
    draws,     \* syncs that drew names for services
    services,  \* API server: the services
    pods,      \* API server: the pods, in the order of their creation
    listedPods,     \* the phases the pod lister shows, of the pods that have reached it
    listedServices, \* the services the service lister shows
    panicked,  \* the controller died of a nil pointer or an index out of range
    errors, ends, edits

spent == <<errors, ends, edits>>
Calm == errors + ends + edits < MaxTroubles
listers == <<listedPods, listedServices>>
vars == <<server, cached, stale, relisted, lastRid, draws, services, pods, listers, panicked,
          spent>>

Init ==
    /\ \E parts \in PartLists :
          server = [rid |-> 0, parts |-> parts, phase |-> "", statuses |-> <<>>]
    /\ cached = server
    /\ stale = FALSE
    /\ relisted = FALSE
    /\ lastRid = 0
    /\ draws = 0
    /\ services = {}
    /\ pods = <<>>
    /\ listedPods = <<>>
    /\ listedServices = {}
    /\ panicked = FALSE
    /\ errors = 0 /\ ends = 0 /\ edits = 0

-----------------------------------------------------------------------------
(***************************************************************************)
(* Reading the parts                                                       *)
(***************************************************************************)
\* mutant: only the first part is looked at.
FirstPartIndex(parts, t) == IF Len(parts) > 0 /\ parts[1].type = t THEN 1 ELSE 0

\* 0 where the code answers -1 or reads beyond the end.
TemplateIndex(parts, t) ==
    IF Len(parts) > 0 /\ parts[1].type = t THEN 1
    ELSE IF Len(parts) > 1 /\ parts[2].type = t THEN 2 ELSE 0

IsLocalJob(parts) == parts[1].type = "Local"

\* There is a part of the type, and it says how many replicas it has.
Readable(parts, t) == /\ TemplateIndex(parts, t) # 0
                      /\ parts[TemplateIndex(parts, t)].replicas # Unset

Replicas(t) == cached.parts[TemplateIndex(cached.parts, t)].replicas
Labels(parts, t) == parts[TemplateIndex(parts, t)].labels

\* GetPodsForTFJob, GetServicesForTFJob: of what the listers show, the selector finds the
\* type and the RuntimeID.
Claimed(t) == {k \in DOMAIN listedPods : /\ pods[k].type = t /\ pods[k].rid = cached.rid
                                         /\ listedPods[k] # "Deleted"}
ClaimedServices(t) == {s \in listedServices : s.type = t /\ s.rid = cached.rid}
InPhase(t, phase) == {k \in Claimed(t) : listedPods[k] = phase}
Active(t) == Cardinality(InPhase(t, "Running"))
Succeeded(t) == Cardinality(InPhase(t, "Succeeded"))

-----------------------------------------------------------------------------
(***************************************************************************)
(* Action                                                                  *)
(***************************************************************************)
Expected(t) == IF t = "Worker" THEN Replicas(t) - Succeeded(t) ELSE Replicas(t)
\* mutant: what is missing is created, from index 0 on
ServicesMissing(t) == Expected(t) - Cardinality(ClaimedServices(t))

ServicesDue(t) == IF ClaimedServices(t) = {} /\ Expected(t) > 0 THEN Expected(t) ELSE 0
PodsDue(t) == IF Active(t) < Expected(t) THEN Expected(t) - Active(t) ELSE 0
LocalDue == IF Succeeded("Local") > 0 \/ Active("Local") = 1 THEN 0 ELSE 1

\* A new RuntimeID, in the TFJob and in the labels of the templates of these types.
Composed(types) ==
    [cached EXCEPT
        !.rid = lastRid + 1,
        !.parts = [i \in DOMAIN cached.parts |->
            IF \E t \in types : i = TemplateIndex(cached.parts, t)
            THEN [cached.parts[i] EXCEPT !.labels = lastRid + 1] ELSE cached.parts[i]]]

-----------------------------------------------------------------------------
(***************************************************************************)
(* updateTFJob and the status updaters                                     *)
(***************************************************************************)
\* getReplicaStatusesIndex; 0 where the code answers -1.
StatusIndex(statuses, t) ==
    IF Len(statuses) > 0 /\ statuses[1] = t THEN 1
    ELSE IF Len(statuses) > 1 /\ statuses[2] = t THEN 2 ELSE 0

\* mutant: the length of the list is not checked.
ReportsAlways(statuses, t) == Claimed(t) # {}

Reports(statuses, t) == Claimed(t) # {} /\ Len(statuses) <= 2

Reported(statuses, t) ==
    IF Reports(statuses, t) /\ StatusIndex(statuses, t) = 0
    THEN Append(statuses, t) ELSE statuses

Phase(succeeded) == IF succeeded THEN "Succeeded" ELSE "Running"

\* What the updater makes of j, and whether it asks for a write.  A RuntimeID of a local
\* TFJob has at most one pod, so that NewLocal never refuses.
Updated(j) ==
    IF IsLocalJob(j.parts)
    THEN [j EXCEPT !.phase = Phase(Succeeded("Local") = 1),
                   !.statuses = IF Claimed("Local") = {} THEN @ ELSE <<"Local">>]
    ELSE [j EXCEPT !.phase = Phase(Succeeded("Worker") = Replicas("Worker")),
                   !.statuses = Reported(Reported(@, "Worker"), "PS")]

ShouldUpdate(j) ==
    \/ Updated(j).phase = "Succeeded"
    \/ j.phase # "Running"
    \/ IF IsLocalJob(j.parts) THEN Claimed("Local") # {}
       ELSE \E t \in Tasks : Reports(IF t = "PS" THEN Reported(j.statuses, "Worker")
                                     ELSE j.statuses, t)

\* The server refuses a write that starts from an old version.
UpdateTFJob(j) ==
    /\ cached' = Updated(j)
    /\ IF ShouldUpdate(j) /\ ~stale
       THEN server' = Updated(j) /\ stale' = TRUE ELSE UNCHANGED <<server, stale>>

-----------------------------------------------------------------------------
(***************************************************************************)
(* syncHandler                                                             *)
(***************************************************************************)
Err(fails) == /\ fails => errors < MaxErrors /\ Calm
              /\ errors' = IF fails THEN errors + 1 ELSE errors
              /\ UNCHANGED <<ends, edits>>

\* Expectations are fulfilled or not; there are none before the first compose.
Fulfilled == IF lastRid = 0 THEN {TRUE} ELSE BOOLEAN

\* mutant: services are labelled before compose draws the RuntimeID.
CreateServicesEarly(due, rid, failing) ==
    /\ services' = services \cup
           {[type |-> s[1], index |-> s[2], rid |-> cached.rid, draw |-> draws + 1]
               : s \in due \ failing}
    /\ draws' = IF due = {} THEN draws ELSE draws + 1

\* GetService draws the names of the services of one sync.
CreateServices(due, rid, failing) ==
    /\ services' = services \cup
           {[type |-> s[1], index |-> s[2], rid |-> rid, draw |-> draws + 1] : s \in due \ failing}
    /\ draws' = IF due = {} THEN draws ELSE draws + 1

\* generateTFClusterSpec: a host per replica; its name is known only when GetService was
\* called for its index in the same sync.
Hosts(named) ==
    [t \in Tasks |-> [i \in 1..Replicas(t) |->
        IF <<t, i - 1>> \in named THEN draws + 1 ELSE 0]]

\* mutant: the index is counted from the slot before.
NewPodBefore(t, index, rid, hosts) ==
    [type |-> t, index |-> index - 1, rid |-> rid, phase |-> "Running", hosts |-> hosts]

NewPod(t, index, rid, hosts) ==
    [type |-> t, index |-> index, rid |-> rid, phase |-> "Running", hosts |-> hosts]

\* GetSpec and CreatePod for the first n pods of the plan.  GetSpec writes the index into
\* the template's labels: a nil map is the end of the process.  A creation that fails ends
\* the sync, also when it timed out and the n-th pod is there; only a complete sync
\* reaches the status.
CreatePods(j, plan, n, failed, hosts) ==
    /\ Len(pods) + Len(plan) <= MaxPods
    /\ \A k \in 1..n : Labels(j.parts, plan[k][1]) # Unset
    /\ pods' = pods \o [k \in 1..n |->
                   NewPod(plan[k][1], plan[k][2], Labels(j.parts, plan[k][1]), hosts)]
    /\ \/ /\ n = Len(plan) /\ ~failed
          /\ UpdateTFJob(j)
          /\ UNCHANGED panicked
       \/ /\ failed /\ plan # <<>>
          /\ n > 0 \/ Labels(j.parts, plan[1][1]) # Unset
          /\ cached' = j
          /\ UNCHANGED <<server, stale, panicked>>
       \/ /\ n < Len(plan) /\ ~failed
          /\ Labels(j.parts, plan[n + 1][1]) = Unset
          /\ panicked' = TRUE
          /\ cached' = j
          /\ UNCHANGED <<server, stale>>

SyncLocal ==
    /\ cached.parts # <<>> /\ IsLocalJob(cached.parts)
    /\ \E manages \in Fulfilled, n \in 0..1, failed \in BOOLEAN :
          LET plan == IF manages /\ LocalDue = 1 THEN <<<<"Local", 0>>>> ELSE <<>>
              j == IF plan # <<>> THEN Composed({"Local"}) ELSE cached
          IN /\ Err(failed)
             /\ n <= Len(plan)
             /\ j.rid <= MaxRid
             /\ lastRid' = IF plan # <<>> THEN j.rid ELSE lastRid
             /\ CreatePods(j, plan, n, failed, [t \in Tasks |-> <<>>])
    /\ UNCHANGED <<services, draws, listers, relisted>>

SyncDistributed ==
    /\ cached.parts # <<>> /\ ~IsLocalJob(cached.parts)
    /\ Readable(cached.parts, "Worker")
    /\ \E manages \in Fulfilled :
          /\ manages => Readable(cached.parts, "PS")
          /\ LET count(t) == IF manages THEN PodsDue(t) ELSE 0
                 due == IF manages THEN UNION {{t} \X (0..ServicesDue(t) - 1) : t \in Tasks}
                        ELSE {}
                 workers == count("Worker")
                 plan == [k \in 1..workers + count("PS") |->
                             IF k <= workers THEN <<"Worker", k - 1>>
                             ELSE <<"PS", k - workers - 1>>]
                 j == IF workers > 0 THEN Composed(Tasks) ELSE cached
             IN \E failing \in SUBSET due, n \in 0..Len(plan), failed \in BOOLEAN :
                   /\ Err(failed \/ failing # {})
                   /\ j.rid <= MaxRid
                   /\ lastRid' = IF workers > 0 THEN j.rid ELSE lastRid
                   /\ CreateServices(due, j.rid, failing)
                   /\ CreatePods(j, plan, n, failed,
                                 IF manages THEN Hosts(due) ELSE [t \in Tasks |-> <<>>])
    /\ UNCHANGED <<listers, relisted>>

\* A part the code reads is missing, or does not say how many replicas it has.
SyncPanics ==
    /\ \/ cached.parts = <<>>
       \/ /\ cached.parts # <<>> /\ ~IsLocalJob(cached.parts)
          /\ \E t \in Tasks : ~Readable(cached.parts, t)
    /\ panicked' = TRUE
    /\ UNCHANGED <<server, cached, stale, relisted, lastRid, draws, services, pods, listers, spent>>

\* What the listers of pods and services do not show as it is.
Late == {k \in DOMAIN pods : k > Len(listedPods) \/ listedPods[k] # pods[k].phase}
LateServices == services \ listedServices

Sync == /\ Cardinality(Late) + Cardinality(LateServices) <= IF Calm THEN MaxLag ELSE MaxLag - 1
        /\ (SyncLocal \/ SyncDistributed \/ SyncPanics)

-----------------------------------------------------------------------------
(***************************************************************************)
(* The cluster around the controller                                       *)
(***************************************************************************)
\* The lister's object is replaced: a watch event or a relist.  What was written in place
\* and not on the server is gone.
Refresh ==
    /\ cached # server \/ stale
    /\ cached' = server
    /\ stale' = FALSE
    /\ UNCHANGED <<server, relisted, lastRid, draws, services, pods, listers, panicked, spent>>

\* The informers of pods and of services run on their own, each in the order of creation.
Before(o, s) ==
    \/ o.draw < s.draw
    \/ o.draw = s.draw /\ \/ o.type = "Worker" /\ s.type = "PS"
                          \/ o.type = s.type /\ o.index < s.index

PodListed ==
    /\ Len(listedPods) < Len(pods)
    /\ listedPods' = Append(listedPods, pods[Len(listedPods) + 1].phase)
    /\ UNCHANGED <<server, cached, stale, relisted, lastRid, draws, services, pods,
                   listedServices, panicked, spent>>

PodUpdated(k) ==
    /\ listedPods' = [listedPods EXCEPT ![k] = pods[k].phase]
    /\ UNCHANGED <<server, cached, stale, relisted, lastRid, draws, services, pods,
                   listedServices, panicked, spent>>

ServiceListed(s) ==
    /\ \A o \in LateServices : ~Before(o, s)
    /\ listedServices' = listedServices \cup {s}
    /\ UNCHANGED <<server, cached, stale, relisted, lastRid, draws, services, pods, listedPods,
                   panicked, spent>>

\* The process is started again, with empty listers of pods and services: Run waits for the
\* TFJobs only.
Restart ==
    /\ Err(TRUE)
    /\ cached' = server
    /\ stale' = FALSE
    /\ listedPods' = <<>>
    /\ listedServices' = {}
    /\ UNCHANGED <<server, relisted, lastRid, draws, services, pods, panicked>>

\* Parameter servers do not come to an end by themselves.
PodEnds(k, phase) ==
    /\ pods[k].phase = "Running"
    /\ phase = "Succeeded" => pods[k].type # "PS"
    /\ ends < MaxEnds /\ Calm
    /\ pods' = [pods EXCEPT ![k].phase = phase]
    /\ ends' = ends + 1
    /\ UNCHANGED <<server, cached, stale, relisted, lastRid, draws, services, listers, panicked,
                   errors, edits>>

UserWrites(j) ==
    /\ edits < MaxEdits /\ Calm
    /\ server' = j
    /\ stale' = TRUE
    /\ edits' = edits + 1
    /\ UNCHANGED <<cached, lastRid, draws, services, pods, listers, panicked, errors, ends>>

\* The number of replicas is patched.
Scale(i, n) ==
    /\ UserWrites([server EXCEPT !.parts[i].replicas = n])
    /\ UNCHANGED relisted

\* The list of parts is written anew, without the labels of compose.
Relist(parts) ==
    /\ UserWrites([server EXCEPT !.parts = parts])
    /\ relisted' = TRUE

Next ==
    /\ ~panicked
    /\ \/ Sync
       \/ Refresh \/ Restart
       \/ PodListed
       \/ \E k \in DOMAIN listedPods \cap Late : PodUpdated(k)
       \/ \E s \in LateServices : ServiceListed(s)
       \/ \E k \in DOMAIN pods, phase \in {"Succeeded", "Failed", "Deleted"} : PodEnds(k, phase)
       \/ \E i \in DOMAIN server.parts, n \in 0..MaxReplicas : Scale(i, n)
       \/ \E parts \in PartLists : Relist(parts)

Spec == Init /\ [][Next]_vars

-----------------------------------------------------------------------------
(***************************************************************************)
(* Properties                                                              *)
(***************************************************************************)
Status == {"Running", "Succeeded", "Failed", "Deleted"}
Service == [type : Tasks, index : Nat, rid : Nat, draw : Nat]
Pod == [type : Types, index : Nat, rid : Nat, phase : Status, hosts : [Tasks -> Seq(Nat)]]

TypeOK ==
    /\ server \in Job /\ cached \in Job
    /\ stale \in BOOLEAN /\ relisted \in BOOLEAN /\ panicked \in BOOLEAN
    /\ lastRid \in Nat /\ draws \in Nat
    /\ services \in SUBSET Service
    /\ pods \in Seq(Pod)
    /\ listedPods \in Seq(Status) /\ Len(listedPods) <= Len(pods)
    /\ listedServices \subseteq services
    /\ errors \in Nat /\ ends \in Nat /\ edits \in Nat

\* What the code foresees: a local first part, or a part for workers, at least one, and a
\* part for parameter servers, as the first two.
Foreseen(parts) ==
    /\ parts # <<>>
    /\ \/ IsLocalJob(parts)
       \/ \A t \in Tasks : \E i \in DOMAIN parts \cap {1, 2} :
              /\ parts[i].type = t
              /\ parts[i].replicas # Unset
              /\ t = "Worker" => parts[i].replicas > 0

\* A TFJob the code foresees never brings the controller down, whatever write is refused
\* and whatever RuntimeID is lost: GetSpec (distributed.go:121) meets a template without
\* labels only when somebody wrote the list of parts anew.
ForeseenNeverPanics == panicked => ~Foreseen(cached.parts) \/ relisted

\* The host a pod was told is a service for its RuntimeID: names given in a sync go with
\* labels composed in the same sync (distributed.go:91-99, 165-173).
HostsOfOneLife ==
    \A k \in DOMAIN pods, s \in services :
        LET hosts == pods[k].hosts[s.type]
        IN s.index + 1 \in DOMAIN hosts /\ hosts[s.index + 1] = s.draw => s.rid = pods[k].rid

\* A service that the lister shows is not created a second time under its RuntimeID,
\* whatever creation failed in the middle and whichever RuntimeID was lost: services are
\* created when the selector finds none, or under a new RuntimeID (distributed.go:69-78).
\* While the lister is late they are created twice.
ListedServicesOnce ==
    [][\A s \in services' \ services, o \in listedServices :
          ~(s.type = o.type /\ s.index = o.index /\ s.rid = o.rid)]_vars

\* No type has two replica statuses, also when users change the types of the parts: the
\* updater looks at the first two only and writes nothing when there are more (util.go:72-86).
StatusTypesDistinct ==
    \A i, k \in DOMAIN cached.statuses :
        cached.statuses[i] = cached.statuses[k] => i = k

\* A lost worker is replaced once: no more worker pods are created than there are replicas,
\* pods that ended, and syncs in which a call failed.
ReplacementsConverge ==
    Cardinality({k \in DOMAIN pods : pods[k].type = "Worker"}) <=
        MaxReplicas + Cardinality({k \in DOMAIN pods : pods[k].phase # "Running"})
====
