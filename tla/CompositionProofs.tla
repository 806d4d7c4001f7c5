---- MODULE CompositionProofs ----
(***************************************************************************)
(* Proofs about Composition, for any lists of parts and any bounds: labels *)
(* in a TFJob are those of its RuntimeID, wherever a write was lost, and   *)
(* with that the services and hosts of one RuntimeID belong together and a *)
(* TFJob the code foresees does not bring the controller down.             *)
(***************************************************************************)
EXTENDS Composition, FiniteSetTheorems, TLAPS

\* The types whose parts compose labels.
Named(parts) == IF IsLocalJob(parts) THEN {"Local"} ELSE Tasks

\* A label is the RuntimeID of the TFJob it is in, and only compose puts it there.
LabelsCurrent(j) ==
    \A i \in DOMAIN j.parts : j.parts[i].labels # Unset =>
        /\ j.parts[i].labels = j.rid
        /\ j.rid # 0
        /\ \E t \in Named(j.parts) : i = TemplateIndex(j.parts, t)

\* A TFJob with a RuntimeID has its labels.
LabelsThere(j) ==
    j.rid # 0 => \A t \in Named(j.parts) :
                    TemplateIndex(j.parts, t) # 0 => Labels(j.parts, t) = j.rid

Distinct(statuses) ==
    \A i, k \in DOMAIN statuses : statuses[i] = statuses[k] => i = k

JobInv(j, last, anew) ==
    /\ j \in Job
    /\ j.rid <= last
    /\ LabelsCurrent(j)
    /\ ~anew => LabelsThere(j)
    /\ Distinct(j.statuses)

PodInv(pod, last, drawn) ==
    /\ pod.rid \in 1..last
    /\ \A t \in Tasks : \A i \in DOMAIN pod.hosts[t] : pod.hosts[t][i] <= drawn

ServiceInv(s, last, drawn) == s.rid <= last /\ s.draw \in 1..drawn

JobsInv == JobInv(server, lastRid, relisted) /\ JobInv(cached, lastRid, relisted)
PodsInv == \A k \in DOMAIN pods : PodInv(pods[k], lastRid, draws)
ServicesInv == \A s \in services : ServiceInv(s, lastRid, draws)

Inv == /\ TypeOK
       /\ JobsInv
       /\ PodsInv
       /\ ServicesInv
       /\ HostsOfOneLife
       /\ ForeseenNeverPanics

-----------------------------------------------------------------------------
(***************************************************************************)
(* Lists of parts                                                          *)
(***************************************************************************)
\* A part that is found is one of the first two, of the type that was looked for.
LEMMA IndexFound ==
    ASSUME NEW parts \in Seq(Part), NEW t \in Types
    PROVE  /\ TemplateIndex(parts, t) \in {0, 1, 2}
           /\ TemplateIndex(parts, t) # 0 =>
                 /\ TemplateIndex(parts, t) \in DOMAIN parts
                 /\ parts[TemplateIndex(parts, t)] \in Part
                 /\ parts[TemplateIndex(parts, t)].type = t
BY DEF TemplateIndex

\* Two lists in which the same parts stand in the same places.
SameTypes(p, q) == DOMAIN p = DOMAIN q /\ \A i \in DOMAIN p : p[i].type = q[i].type

LEMMA IndexOfTypes ==
    ASSUME NEW p \in Seq(Part), NEW q \in Seq(Part), SameTypes(p, q), NEW t \in Types
    PROVE  TemplateIndex(p, t) = TemplateIndex(q, t)
<1>1. Len(p) = Len(q)
  BY DEF SameTypes
<1> QED
  BY <1>1 DEF SameTypes, TemplateIndex

LEMMA LocalOfTypes ==
    ASSUME NEW p \in Seq(Part), NEW q \in Seq(Part), SameTypes(p, q), p # <<>>
    PROVE  q # <<>> /\ (IsLocalJob(p) <=> IsLocalJob(q)) /\ Named(p) = Named(q)
<1>1. Len(p) = Len(q) /\ 1 \in DOMAIN p
  BY DEF SameTypes
<1> QED
  BY <1>1 DEF SameTypes, IsLocalJob, Named

LEMMA NamedTypes == \A parts : Named(parts) \subseteq Types
BY DEF Named, Types, Tasks

\* Labels of no part stay behind with an older RuntimeID.
LEMMA ComposedInv ==
    ASSUME TypeOK, JobsInv, cached.parts # <<>>
    PROVE  LET j == Composed(Named(cached.parts))
           IN /\ JobInv(j, lastRid + 1, relisted)
              /\ j.rid = lastRid + 1
              /\ SameTypes(cached.parts, j.parts)
              /\ \A i \in DOMAIN j.parts : j.parts[i].replicas = cached.parts[i].replicas
              /\ LabelsThere(j)
<1> DEFINE types == Named(cached.parts)
           j == Composed(types)
           label(i) == IF \E t \in types : i = TemplateIndex(cached.parts, t)
                       THEN [cached.parts[i] EXCEPT !.labels = lastRid + 1] ELSE cached.parts[i]
<1>1. cached \in Job /\ cached.parts \in Seq(Part) /\ lastRid \in Nat
  BY DEF TypeOK, Job
<1>2. j = [cached EXCEPT !.rid = lastRid + 1,
                         !.parts = [i \in DOMAIN cached.parts |-> label(i)]]
  BY DEF Composed
<1>3. j.rid = lastRid + 1 /\ j.parts = [i \in DOMAIN cached.parts |-> label(i)]
      /\ j.phase = cached.phase /\ j.statuses = cached.statuses
  BY <1>1, <1>2 DEF Job
<1>4. \A i \in DOMAIN cached.parts :
         /\ label(i) \in Part
         /\ label(i).type = cached.parts[i].type
         /\ label(i).replicas = cached.parts[i].replicas
         /\ label(i).labels = IF \E t \in types : i = TemplateIndex(cached.parts, t)
                              THEN lastRid + 1 ELSE cached.parts[i].labels
  <2> TAKE i \in DOMAIN cached.parts
  <2>1. cached.parts[i] \in Part
    BY <1>1
  <2> QED
    BY <1>1, <2>1 DEF Part
<1> HIDE DEF label
<1>5. j.parts \in Seq(Part)
  <2>1. DOMAIN cached.parts = 1..Len(cached.parts) /\ Len(cached.parts) \in Nat
    BY <1>1
  <2>2. j.parts = [i \in 1..Len(cached.parts) |-> label(i)]
    BY <1>3, <2>1
  <2>3. \A i \in 1..Len(cached.parts) : label(i) \in Part
    BY <1>4, <2>1
  <2> HIDE DEF j
  <2> QED
    BY <2>1, <2>2, <2>3
<1>6. SameTypes(cached.parts, j.parts)
  BY <1>3, <1>4 DEF SameTypes
<1>7. Named(j.parts) = types /\ \A t \in Types : TemplateIndex(j.parts, t) = TemplateIndex(cached.parts, t)
  <2> HIDE DEF j
  <2> QED
    BY <1>1, <1>5, <1>6, IndexOfTypes, LocalOfTypes
<1>8. LabelsCurrent(j)
  <2>0. j.rid = lastRid + 1 /\ j.rid # 0
    BY <1>1, <1>3
  <2> SUFFICES ASSUME NEW i \in DOMAIN j.parts, j.parts[i].labels # Unset
               PROVE  /\ j.parts[i].labels = lastRid + 1
                      /\ \E t \in types : i = TemplateIndex(j.parts, t)
    <3> HIDE DEF j
    <3> QED
      BY <2>0, <1>7 DEF LabelsCurrent
  <2>1. i \in DOMAIN cached.parts /\ j.parts[i] = label(i)
    BY <1>3
  <2>2. \E t \in types : i = TemplateIndex(cached.parts, t)
    <3> SUFFICES ASSUME ~(\E t \in types : i = TemplateIndex(cached.parts, t)) PROVE FALSE
      OBVIOUS
    <3>1. cached.parts[i].labels # Unset
      BY <2>1, <1>4
    <3>2. LabelsCurrent(cached)
      BY DEF JobsInv, JobInv
    <3> QED
      BY <2>1, <3>1, <3>2 DEF LabelsCurrent
  <2> QED
    BY <2>1, <2>2, <1>4, <1>7, NamedTypes
<1>9. LabelsThere(j)
  <2> SUFFICES ASSUME NEW t \in types, TemplateIndex(j.parts, t) # 0
               PROVE  Labels(j.parts, t) = lastRid + 1
    BY <1>3, <1>7 DEF LabelsThere
  <2>1. t \in Types
    BY NamedTypes
  <2> DEFINE i == TemplateIndex(cached.parts, t)
  <2>2. i = TemplateIndex(j.parts, t) /\ i # 0 /\ i \in DOMAIN cached.parts
    BY <2>1, <1>1, <1>7, IndexFound
  <2>3. label(i).labels = lastRid + 1
    BY <2>2, <1>4
  <2> QED
    BY <2>2, <2>3, <1>3 DEF Labels
<1>10. j \in Job
  <2>1. lastRid + 1 \in Nat
    BY <1>1
  <2> QED
    BY <1>1, <1>2, <1>3, <1>5, <2>1 DEF Job
<1>11. Distinct(j.statuses)
  BY <1>3 DEF JobsInv, JobInv
<1>12. \A i \in DOMAIN j.parts : j.parts[i].replicas = cached.parts[i].replicas
  BY <1>3, <1>4
<1>13. j.rid <= lastRid + 1
  BY <1>1, <1>3
<1> QED
  BY <1>3, <1>6, <1>8, <1>9, <1>10, <1>11, <1>12, <1>13 DEF JobInv

\* Users scale: labels stay where they are.
LEMMA ScaledInv ==
    ASSUME TypeOK, JobsInv, NEW i \in DOMAIN server.parts, NEW n \in Nat
    PROVE  JobInv([server EXCEPT !.parts[i].replicas = n], lastRid, relisted)
<1> DEFINE j == [server EXCEPT !.parts[i].replicas = n]
           part(k) == IF k = i THEN [server.parts[k] EXCEPT !.replicas = n] ELSE server.parts[k]
<1>1. server \in Job /\ server.parts \in Seq(Part) /\ JobInv(server, lastRid, relisted)
  BY DEF TypeOK, JobsInv, Job
<1>2. \A k \in DOMAIN server.parts :
         part(k) \in Part /\ part(k).type = server.parts[k].type
         /\ part(k).labels = server.parts[k].labels
  <2> TAKE k \in DOMAIN server.parts
  <2>1. server.parts[k] \in Part
    BY <1>1
  <2> QED
    BY <2>1 DEF Part
<1>3. j = [server EXCEPT !.parts = [k \in DOMAIN server.parts |-> part(k)]]
  <2>1. [server.parts EXCEPT ![i] = [server.parts[i] EXCEPT !.replicas = n]]
          = [k \in DOMAIN server.parts |-> part(k)]
    BY <1>1
  <2>2. j = [server EXCEPT !.parts =
                [server.parts EXCEPT ![i] = [server.parts[i] EXCEPT !.replicas = n]]]
    BY <1>1 DEF Job
  <2> QED
    BY <2>1, <2>2
<1> HIDE DEF part, j
<1>4. j.rid = server.rid /\ j.phase = server.phase /\ j.statuses = server.statuses
      /\ j.parts = [k \in DOMAIN server.parts |-> part(k)]
  BY <1>1, <1>3 DEF Job
<1>5. j.parts \in Seq(Part)
  <2>1. DOMAIN server.parts = 1..Len(server.parts) /\ Len(server.parts) \in Nat
    BY <1>1
  <2> QED
    BY <2>1, <1>2, <1>4
<1>6. SameTypes(server.parts, j.parts) /\ server.parts # <<>>
  BY <1>1, <1>2, <1>4 DEF SameTypes
<1>7. Named(j.parts) = Named(server.parts)
      /\ \A t \in Types : TemplateIndex(j.parts, t) = TemplateIndex(server.parts, t)
  BY <1>1, <1>5, <1>6, IndexOfTypes, LocalOfTypes
<1>8. j \in Job
  BY <1>1, <1>3, <1>4, <1>5 DEF Job
<1>9. LabelsCurrent(j)
  <2> SUFFICES ASSUME NEW k \in DOMAIN server.parts, j.parts[k].labels # Unset
               PROVE  /\ j.parts[k].labels = j.rid
                      /\ j.rid # 0
                      /\ \E t \in Named(j.parts) : k = TemplateIndex(j.parts, t)
    BY <1>4 DEF LabelsCurrent
  <2>1. j.parts[k].labels = server.parts[k].labels
    BY <1>2, <1>4
  <2>2. /\ server.parts[k].labels = server.rid
        /\ server.rid # 0
        /\ \E t \in Named(server.parts) : k = TemplateIndex(server.parts, t)
    BY <1>1, <2>1 DEF LabelsCurrent, JobInv
  <2> QED
    BY <1>4, <1>7, <2>1, <2>2, NamedTypes
<1>10. ~relisted => LabelsThere(j)
  <2> SUFFICES ASSUME ~relisted, j.rid # 0, NEW t \in Named(server.parts),
                      TemplateIndex(server.parts, t) # 0
               PROVE  Labels(j.parts, t) = j.rid
    BY <1>7, NamedTypes DEF LabelsThere
  <2>1. t \in Types /\ TemplateIndex(server.parts, t) \in DOMAIN server.parts
    BY <1>1, IndexFound, NamedTypes
  <2>2. Labels(server.parts, t) = server.rid
    BY <1>1, <1>4 DEF JobInv, LabelsThere
  <2> QED
    BY <1>2, <1>4, <1>7, <2>1, <2>2 DEF Labels
<1>11. Distinct(j.statuses) /\ j.rid <= lastRid
  BY <1>1, <1>4 DEF JobInv
<1>12. JobInv(j, lastRid, relisted)
  BY <1>8, <1>9, <1>10, <1>11 DEF JobInv
<1> QED
  BY <1>12 DEF j

\* A list that users write has no labels.
LEMMA RelistedInv ==
    ASSUME TypeOK, JobsInv, NEW parts \in PartLists
    PROVE  JobInv([server EXCEPT !.parts = parts], lastRid, TRUE)
<1> DEFINE j == [server EXCEPT !.parts = parts]
<1>1. server \in Job /\ JobInv(server, lastRid, relisted)
  BY DEF TypeOK, JobsInv
<1>2. parts \in Seq(Part) /\ Unlabelled(parts)
  BY PartsAssumption
<1>3. j.rid = server.rid /\ j.parts = parts /\ j.statuses = server.statuses /\ j \in Job
  BY <1>1, <1>2 DEF Job
<1>4. LabelsCurrent(j)
  BY <1>2, <1>3 DEF LabelsCurrent, Unlabelled
<1> QED
  BY <1>1, <1>3, <1>4 DEF JobInv

-----------------------------------------------------------------------------
(***************************************************************************)
(* The list of statuses                                                    *)
(***************************************************************************)
LEMMA ReportedDistinct ==
    ASSUME NEW statuses \in Seq(Types), Distinct(statuses), NEW t \in Types
    PROVE  Reported(statuses, t) \in Seq(Types) /\ Distinct(Reported(statuses, t))
<1>1. CASE Reports(statuses, t) /\ StatusIndex(statuses, t) = 0
  <2>1. Reported(statuses, t) = Append(statuses, t)
    BY <1>1 DEF Reported
  <2>2. Len(statuses) \in Nat /\ Len(statuses) <= 2
    BY <1>1 DEF Reports
  <2>3. \A i \in DOMAIN statuses : statuses[i] # t
    BY <1>1, <2>2 DEF StatusIndex
  <2> QED
    BY <2>1, <2>2, <2>3 DEF Distinct
<1>2. CASE ~(Reports(statuses, t) /\ StatusIndex(statuses, t) = 0)
  BY <1>2 DEF Reported
<1> QED
  BY <1>1, <1>2

\* The updaters change the phase and the statuses only.
LEMMA UpdatedInv ==
    ASSUME NEW j, NEW last \in Nat, JobInv(j, last, relisted)
    PROVE  /\ JobInv(Updated(j), last, relisted)
           /\ Updated(j).parts = j.parts
           /\ Updated(j).rid = j.rid
<1>1. j \in Job /\ j.statuses \in Seq(Types) /\ Distinct(j.statuses)
  BY DEF JobInv, Job
<1>2. \A b : Phase(b) \in {"", "Running", "Succeeded"}
  BY DEF Phase
<1>3. "Local" \in Types /\ "Worker" \in Types /\ "PS" \in Types
  BY DEF Types, Tasks
<1>4. PICK phase \in {"", "Running", "Succeeded"}, statuses \in Seq(Types) :
         Updated(j) = [j EXCEPT !.phase = phase, !.statuses = statuses] /\ Distinct(statuses)
  <2>1. CASE IsLocalJob(j.parts)
    <3> DEFINE s == IF Claimed("Local") = {} THEN j.statuses ELSE <<"Local">>
               p == Phase(Succeeded("Local") = 1)
    <3>1. Updated(j) = [j EXCEPT !.phase = p, !.statuses = s]
      BY <2>1, <1>1 DEF Updated, Job
    <3> HIDE DEF p
    <3>2. s \in Seq(Types) /\ Distinct(s)
      BY <1>1, <1>3 DEF Distinct
    <3>3. p \in {"", "Running", "Succeeded"}
      BY <1>2 DEF p
    <3> HIDE DEF s
    <3> QED
      BY <3>1, <3>2, <3>3
  <2>2. CASE ~IsLocalJob(j.parts)
    <3> DEFINE s1 == Reported(j.statuses, "Worker")
               s2 == Reported(s1, "PS")
               p == Phase(Succeeded("Worker") = Replicas("Worker"))
    <3>1. Updated(j) = [j EXCEPT !.phase = p, !.statuses = s2]
      BY <2>2, <1>1 DEF Updated, Job
    <3>2. s1 \in Seq(Types) /\ Distinct(s1)
      BY <1>1, <1>3, ReportedDistinct
    <3>3. s2 \in Seq(Types) /\ Distinct(s2)
      <4> HIDE DEF s1
      <4> QED
        BY <3>2, <1>3, ReportedDistinct
    <3>4. p \in {"", "Running", "Succeeded"}
      BY <1>2
    <3> HIDE DEF p, s2
    <3> QED
      BY <3>1, <3>3, <3>4
  <2> QED
    BY <2>1, <2>2
<1> DEFINE u == [j EXCEPT !.phase = phase, !.statuses = statuses]
<1>5. u \in Job /\ u.parts = j.parts /\ u.rid = j.rid /\ u.statuses = statuses
  BY <1>1 DEF Job
<1>6. LabelsCurrent(u) /\ (~relisted => LabelsThere(u))
  BY <1>5 DEF JobInv, LabelsCurrent, LabelsThere
<1>7. JobInv(u, last, relisted)
  BY <1>4, <1>5, <1>6 DEF JobInv
<1> QED
  BY <1>4, <1>5, <1>7

LEMMA LaterInv ==
    ASSUME NEW j, NEW last \in Nat, NEW later \in Nat, last <= later, NEW anew,
           JobInv(j, last, anew)
    PROVE  JobInv(j, later, anew)
<1>1. j \in Job /\ j.rid <= last
  BY Zenon DEF JobInv
<1>2. j.rid <= later
  <2>1. j.rid \in Nat
    BY <1>1 DEF Job
  <2> QED
    BY <1>1, <2>1
<1> QED
  BY <1>2, Zenon DEF JobInv

-----------------------------------------------------------------------------
(***************************************************************************)
(* What a sync creates                                                     *)
(***************************************************************************)
\* Each pod was there before the sync, or carries the RuntimeID and the hosts of the sync.
PodsOfSync(rid, hosts) ==
    /\ pods' \in Seq(Pod) /\ Len(pods) <= Len(pods')
    /\ \A k \in DOMAIN pods' :
          \/ k \in DOMAIN pods /\ pods'[k] = pods[k]
          \/ pods'[k].rid = rid /\ rid # 0 /\ pods'[k].hosts = hosts

\* The pods of a sync carry the RuntimeID of the TFJob it ends with.
LEMMA CreatedPods ==
    ASSUME TypeOK, NEW j \in Job, LabelsCurrent(j),
           NEW plan \in Seq(Types \X Nat), NEW n \in 0..Len(plan), NEW failed,
           NEW hosts \in [Tasks -> Seq(Nat)],
           \A m \in DOMAIN plan : TemplateIndex(j.parts, plan[m][1]) # 0,
           CreatePods(j, plan, n, failed, hosts)
    PROVE  PodsOfSync(j.rid, hosts)
<1> DEFINE new(k) == NewPod(plan[k][1], plan[k][2], Labels(j.parts, plan[k][1]), hosts)
           added == [k \in 1..n |-> new(k)]
<1>1. pods' = pods \o added /\ \A k \in 1..n : Labels(j.parts, plan[k][1]) # Unset
  BY DEF CreatePods
<1>2. \A k \in 1..n : new(k) \in Pod /\ new(k).rid = j.rid /\ j.rid # 0 /\ new(k).hosts = hosts
  <2> TAKE k \in 1..n
  <2>1. k \in DOMAIN plan /\ plan[k] \in Types \X Nat
    OBVIOUS
  <2>2. plan[k][1] \in Types /\ plan[k][2] \in Nat
    BY <2>1
  <2>3. j.parts \in Seq(Part) /\ j.rid \in Nat
    BY DEF Job
  <2>4. TemplateIndex(j.parts, plan[k][1]) \in DOMAIN j.parts
    BY <2>1, <2>2, <2>3, IndexFound
  <2>5. Labels(j.parts, plan[k][1]) = j.rid /\ j.rid # 0
    BY <1>1, <2>4 DEF LabelsCurrent, Labels
  <2> QED
    BY <2>2, <2>3, <2>5 DEF NewPod, Pod, Status
<1> HIDE DEF new
<1>3. pods \in Seq(Pod) /\ n \in Nat
  BY DEF TypeOK
<1>4. added \in Seq(Pod) /\ Len(added) = n
  BY <1>2, <1>3
<1>5. pods' \in Seq(Pod) /\ Len(pods') = Len(pods) + n
  BY <1>1, <1>3, <1>4
<1>6. Len(pods) <= Len(pods')
  BY <1>3, <1>5
<1>7. ASSUME NEW k \in DOMAIN pods', k \notin DOMAIN pods
      PROVE  k - Len(pods) \in 1..n /\ pods'[k] = new(k - Len(pods))
  BY <1>1, <1>3, <1>4, <1>5, <1>7
<1>8. ASSUME NEW k \in DOMAIN pods', k \in DOMAIN pods
      PROVE  pods'[k] = pods[k]
  BY <1>1, <1>3, <1>4, <1>5, <1>8
<1> QED
  BY <1>2, <1>5, <1>6, <1>7, <1>8 DEF PodsOfSync

\* The TFJob of the lister keeps its parts; a panic needs a part without labels.
LEMMA CreatedJob ==
    ASSUME TypeOK, JobsInv, relisted' = relisted, lastRid' \in Nat, lastRid <= lastRid',
           NEW j, JobInv(j, lastRid', relisted), NEW plan, NEW n \in 0..Len(plan), plan \in Seq(Types \X Nat),
           NEW failed, NEW hosts, CreatePods(j, plan, n, failed, hosts)
    PROVE  /\ JobsInv'
           /\ cached'.parts = j.parts
           /\ stale' \in BOOLEAN /\ panicked' \in BOOLEAN
           /\ panicked' => panicked \/ \E m \in DOMAIN plan : Labels(j.parts, plan[m][1]) = Unset
<1>1. JobInv(server, lastRid', relisted)
  BY LaterInv DEF JobsInv, TypeOK
<1>2. /\ JobInv(Updated(j), lastRid', relisted)
      /\ Updated(j).parts = j.parts
  BY UpdatedInv
<1>3. CASE UpdateTFJob(j) /\ UNCHANGED panicked
  BY <1>1, <1>2, <1>3 DEF UpdateTFJob, JobsInv, TypeOK
<1>4. CASE cached' = j /\ UNCHANGED <<server, stale, panicked>>
  BY <1>1, <1>4 DEF JobsInv, TypeOK
<1>5. CASE /\ n < Len(plan) /\ Labels(j.parts, plan[n + 1][1]) = Unset
           /\ panicked' = TRUE /\ cached' = j /\ UNCHANGED <<server, stale>>
  <2>1. n + 1 \in DOMAIN plan
    BY <1>5
  <2> QED
    BY <1>1, <1>5, <2>1 DEF JobsInv, TypeOK
<1> QED
  BY <1>3, <1>4, <1>5 DEF CreatePods

\* Whom the pods of a sync may be told: the services it names, or nobody.
HostsOfSync(hosts, due) ==
    \A t \in Tasks : \A i \in DOMAIN hosts[t] :
        \/ hosts[t][i] = 0
        \/ hosts[t][i] = draws + 1 /\ due # {}

LEMMA CreatedServices ==
    ASSUME Inv, lastRid' \in Nat, lastRid <= lastRid', NEW rid \in 0..lastRid',
           NEW due \in SUBSET (Tasks \X Nat), NEW failing, NEW hosts,
           CreateServices(due, rid, failing),
           HostsOfSync(hosts, due), PodsOfSync(rid, hosts)
    PROVE  /\ services' \in SUBSET Service /\ draws' \in Nat
           /\ services \subseteq services'
           /\ PodsInv' /\ ServicesInv' /\ HostsOfOneLife'
<1> DEFINE new(d) == [type |-> d[1], index |-> d[2], rid |-> rid, draw |-> draws + 1]
           added == {new(d) : d \in due \ failing}
<1>1. services' = services \cup added /\ draws' = IF due = {} THEN draws ELSE draws + 1
  BY DEF CreateServices
<1>2. services \in SUBSET Service /\ draws \in Nat /\ lastRid \in Nat /\ pods \in Seq(Pod)
  BY DEF Inv, TypeOK
<1>3. \A s \in services : s \in Service /\ s.rid <= lastRid /\ s.draw \in 1..draws
  BY <1>2 DEF Inv, ServicesInv, ServiceInv
<1>4. ASSUME NEW s \in added
      PROVE  /\ s \in Service /\ s.rid = rid /\ s.draw = draws + 1
             /\ due # {} /\ draws' = draws + 1
  <2>1. PICK d \in due : s = new(d)
    BY <1>4
  <2>2. d[1] \in Tasks /\ d[2] \in Nat /\ d = <<d[1], d[2]>>
    OBVIOUS
  <2>3. s.type = d[1] /\ s.index = d[2] /\ s.rid = rid /\ s.draw = draws + 1
    BY <2>1
  <2>4. new(d) \in Service
    BY <1>2, <2>2 DEF Service
  <2> QED
    BY <1>1, <2>1, <2>2, <2>3, <2>4
<1> HIDE DEF added, new
<1>5. \A s \in services' : s \in services \/ s \in added
  BY <1>1
<1>6. /\ draws <= draws' /\ draws' \in Nat
      /\ due # {} => draws' = draws + 1
  BY <1>1, <1>2
<1>7. services' \in SUBSET Service
  BY <1>5, <1>2, <1>4
<1>8. ServicesInv'
  <2> SUFFICES ASSUME NEW s \in services' PROVE s.rid <= lastRid' /\ s.draw \in 1..draws'
    BY DEF ServicesInv, ServiceInv
  <2>1. CASE s \in services
    <3>1. s.rid \in Nat /\ s.draw \in Nat /\ s.rid <= lastRid /\ s.draw \in 1..draws
      BY <1>3, <2>1 DEF Service
    <3> QED
      BY <3>1, <1>2, <1>6
  <2>2. CASE s \in added
    <3>1. s.rid = rid /\ s.draw = draws + 1 /\ draws' = draws + 1
      BY <1>4, <2>2
    <3> QED
      BY <3>1, <1>2
  <2> QED
    BY <1>5, <2>1, <2>2
<1>9. ASSUME NEW k \in DOMAIN pods' PROVE PodInv(pods'[k], lastRid', draws')
  <2>2. CASE k \in DOMAIN pods /\ pods'[k] = pods[k]
    <3>1. PodInv(pods[k], lastRid, draws)
      BY <2>2 DEF Inv, PodsInv
    <3>2. pods[k] \in Pod
      BY <1>2, <2>2
    <3>3. \A t \in Tasks : \A i \in DOMAIN pods[k].hosts[t] : pods[k].hosts[t][i] \in Nat
      <4> TAKE t \in Tasks
      <4>1. pods[k].hosts[t] \in Seq(Nat)
        BY <3>2 DEF Pod
      <4> QED
        BY <4>1
    <3>4. pods[k].rid \in 1..lastRid'
      BY <1>2, <3>1 DEF PodInv
    <3>5. \A t \in Tasks : \A i \in DOMAIN pods[k].hosts[t] : pods[k].hosts[t][i] <= draws'
      BY <1>2, <1>6, <3>1, <3>3 DEF PodInv
    <3> QED
      BY <2>2, <3>4, <3>5 DEF PodInv
  <2>3. CASE pods'[k].rid = rid /\ rid # 0 /\ pods'[k].hosts = hosts
    BY <1>2, <1>6, <2>3 DEF PodInv, HostsOfSync
  <2> QED
    BY <2>2, <2>3 DEF PodsOfSync
<1>10. HostsOfOneLife'
  <2> SUFFICES ASSUME NEW k \in DOMAIN pods', NEW s \in services',
                      s.index + 1 \in DOMAIN pods'[k].hosts[s.type],
                      pods'[k].hosts[s.type][s.index + 1] = s.draw
               PROVE  s.rid = pods'[k].rid
    BY DEF HostsOfOneLife
  <2>1. s.type \in Tasks
    BY <1>7 DEF Service
  <2>2. CASE k \in DOMAIN pods /\ pods'[k] = pods[k]
    <3>1. s.draw <= draws
      BY <2>1, <2>2 DEF Inv, PodsInv, PodInv
    <3>2. s \in services
      <4>1. s \in added => s.draw = draws + 1
        BY <1>4
      <4> QED
        BY <1>5, <1>2, <3>1, <4>1
    <3> QED
      BY <2>2, <3>2 DEF Inv, HostsOfOneLife
  <2>3. CASE pods'[k].rid = rid /\ rid # 0 /\ pods'[k].hosts = hosts
    <3>1. s.draw = 0 \/ s.draw = draws + 1
      BY <2>1, <2>3 DEF HostsOfSync
    <3>2. s \notin services
      BY <1>2, <1>3, <3>1
    <3> QED
      BY <1>5, <1>4, <2>3, <3>2
  <2> QED
    BY <2>2, <2>3 DEF PodsOfSync
<1> QED
  BY <1>1, <1>6, <1>7, <1>8, <1>9, <1>10 DEF PodsInv

\* What all syncs have in common.
LEMMA SyncedInv ==
    ASSUME Inv, ~panicked, UNCHANGED <<relisted, listers>>,
           lastRid' \in Nat, lastRid <= lastRid', NEW j, JobInv(j, lastRid', relisted),
           NEW plan \in Seq(Types \X Nat), NEW n \in 0..Len(plan), NEW failed,
           \A m \in DOMAIN plan : TemplateIndex(j.parts, plan[m][1]) # 0,
           (\E m \in DOMAIN plan : Labels(j.parts, plan[m][1]) = Unset)
               => ~Foreseen(j.parts) \/ relisted,
           NEW due \in SUBSET (Tasks \X Nat), NEW failing,
           NEW hosts \in [Tasks -> Seq(Nat)], HostsOfSync(hosts, due),
           Err(failed \/ failing # {}),
           CreateServices(due, j.rid, failing),
           CreatePods(j, plan, n, failed, hosts)
    PROVE  Inv'
<1>1. TypeOK /\ JobsInv
  BY DEF Inv
<1>2. j \in Job /\ LabelsCurrent(j) /\ j.rid \in 0..lastRid'
  <2>1. j \in Job /\ LabelsCurrent(j) /\ j.rid <= lastRid'
    BY Zenon DEF JobInv
  <2>2. j.rid \in Nat
    BY <2>1 DEF Job
  <2> QED
    BY <2>1, <2>2
<1>3. PodsOfSync(j.rid, hosts)
  BY <1>1, <1>2, CreatedPods
<1>4. /\ services' \in SUBSET Service /\ draws' \in Nat /\ services \subseteq services'
      /\ PodsInv' /\ ServicesInv' /\ HostsOfOneLife'
  BY <1>2, <1>3, CreatedServices
<1>5. /\ JobsInv' /\ cached'.parts = j.parts
      /\ stale' \in BOOLEAN /\ panicked' \in BOOLEAN
      /\ panicked' => \E m \in DOMAIN plan : Labels(j.parts, plan[m][1]) = Unset
  BY <1>1, CreatedJob
<1>6. ForeseenNeverPanics'
  BY <1>5 DEF ForeseenNeverPanics
<1>7. errors' \in Nat /\ ends' \in Nat /\ edits' \in Nat /\ relisted' \in BOOLEAN
  BY <1>1 DEF Err, TypeOK
<1>8. server' \in Job /\ cached' \in Job
  BY <1>5 DEF JobsInv, JobInv
<1>9. pods' \in Seq(Pod) /\ Len(pods) <= Len(pods')
  BY <1>3 DEF PodsOfSync
<1>10. TypeOK'
  <2>1. listedPods' = listedPods /\ listedServices' = listedServices
    BY DEF listers
  <2>2. /\ listedPods \in Seq(Status) /\ Len(listedPods) <= Len(pods)
        /\ listedServices \subseteq services /\ pods \in Seq(Pod)
    BY <1>1 DEF TypeOK
  <2>3. Len(listedPods) \in Nat /\ Len(pods) \in Nat /\ Len(pods') \in Nat
    BY <1>9, <2>2
  <2>4. /\ listedPods' \in Seq(Status) /\ Len(listedPods') <= Len(pods')
        /\ listedServices' \subseteq services'
    BY <1>4, <1>9, <2>1, <2>2, <2>3
  <2> QED
    BY <1>4, <1>5, <1>7, <1>8, <1>9, <2>4 DEF TypeOK
<1> QED
  BY <1>4, <1>5, <1>6, <1>10 DEF Inv

LEMMA LocalSync ==
    ASSUME Inv, ~panicked, SyncLocal
    PROVE  Inv'
<1>1. cached.parts # <<>> /\ IsLocalJob(cached.parts)
      /\ UNCHANGED <<services, draws, listers, relisted>>
  BY DEF SyncLocal
<1>2. PICK manages \in Fulfilled, n \in 0..1, failed \in BOOLEAN :
          LET plan == IF manages /\ LocalDue = 1 THEN <<<<"Local", 0>>>> ELSE <<>>
              j == IF plan # <<>> THEN Composed({"Local"}) ELSE cached
          IN /\ Err(failed)
             /\ n <= Len(plan)
             /\ j.rid <= MaxRid
             /\ lastRid' = IF plan # <<>> THEN j.rid ELSE lastRid
             /\ CreatePods(j, plan, n, failed, [t \in Tasks |-> <<>>])
  BY DEF SyncLocal
<1> DEFINE plan == IF manages /\ LocalDue = 1 THEN <<<<"Local", 0>>>> ELSE <<>>
           j == IF plan # <<>> THEN Composed({"Local"}) ELSE cached
           hosts == [t \in Tasks |-> <<>>]
<1>3. /\ Err(failed) /\ n <= Len(plan)
      /\ lastRid' = IF plan # <<>> THEN j.rid ELSE lastRid
      /\ CreatePods(j, plan, n, failed, hosts)
  BY <1>2
<1>4. TypeOK /\ JobsInv /\ Named(cached.parts) = {"Local"} /\ "Local" \in Types
  BY <1>1 DEF Inv, Named, Types
<1>5. /\ plan \in Seq(Types \X Nat)
      /\ plan # <<>> => DOMAIN plan = {1} /\ plan[1][1] = "Local"
      /\ plan = <<>> => DOMAIN plan = {}
  <2>1. CASE plan = <<<<"Local", 0>>>>
    <3>1. <<"Local", 0>> \in Types \X Nat
      BY <1>4
    <3> QED
      BY <2>1, <3>1
  <2>2. CASE plan = <<>>
    BY <2>2
  <2> QED
    BY <2>1, <2>2
<1>6. hosts \in [Tasks -> Seq(Nat)] /\ HostsOfSync(hosts, {})
  BY DEF HostsOfSync
<1>7. CreateServices({}, j.rid, {})
  BY <1>1 DEF CreateServices
<1> HIDE DEF plan, hosts
<1>8. n \in 0..Len(plan) /\ Err(failed \/ {} # {})
  BY <1>3, <1>5 DEF Err
<1>9. CASE plan # <<>>
  <2> DEFINE c == Composed({"Local"})
  <2>1. /\ JobInv(c, lastRid + 1, relisted) /\ c.rid = lastRid + 1
        /\ SameTypes(cached.parts, c.parts) /\ LabelsThere(c)
    BY <1>1, <1>4, ComposedInv
  <2> HIDE DEF c
  <2>2. j = c /\ lastRid' = lastRid + 1 /\ lastRid \in Nat
    BY <1>3, <1>4, <1>9, <2>1 DEF c, TypeOK
  <2>3. c.parts \in Seq(Part) /\ cached.parts \in Seq(Part) /\ c.rid \in Nat
    BY <1>4, <2>1 DEF JobInv, Job, TypeOK
  <2>4. Named(c.parts) = {"Local"} /\ c.parts # <<>> /\ IsLocalJob(c.parts)
    BY <1>1, <1>4, <2>1, <2>3, LocalOfTypes
  <2>5. TemplateIndex(c.parts, "Local") = 1
    BY <2>3, <2>4 DEF IsLocalJob, TemplateIndex
  <2>6. Labels(c.parts, "Local") = lastRid + 1
    BY <2>1, <2>2, <2>4, <2>5 DEF LabelsThere
  <2>7. lastRid + 1 # Unset
    BY <2>2 DEF Unset
  <2> HIDE DEF j
  <2>8. /\ lastRid' \in Nat /\ lastRid <= lastRid'
        /\ JobInv(j, lastRid', relisted)
        /\ \A m \in DOMAIN plan : TemplateIndex(j.parts, plan[m][1]) # 0
        /\ ~(\E m \in DOMAIN plan : Labels(j.parts, plan[m][1]) = Unset)
    BY <1>5, <1>9, <2>1, <2>2, <2>5, <2>6, <2>7
  <2> QED
    BY <1>1, <1>3, <1>5, <1>6, <1>7, <1>8, <2>8, SyncedInv
<1>10. CASE plan = <<>>
  <2>1. j = cached /\ lastRid' = lastRid /\ lastRid \in Nat
    BY <1>3, <1>4, <1>10 DEF TypeOK
  <2> HIDE DEF j
  <2>2. /\ lastRid' \in Nat /\ lastRid <= lastRid'
        /\ JobInv(j, lastRid', relisted)
        /\ \A m \in DOMAIN plan : TemplateIndex(j.parts, plan[m][1]) # 0
        /\ ~(\E m \in DOMAIN plan : Labels(j.parts, plan[m][1]) = Unset)
    BY <1>4, <1>5, <1>10, <2>1 DEF JobsInv
  <2> QED
    BY <1>1, <1>3, <1>5, <1>6, <1>7, <1>8, <2>2, SyncedInv
<1> QED
  BY <1>9, <1>10

-----------------------------------------------------------------------------
(***************************************************************************)
(* A sync of a distributed TFJob                                           *)
(***************************************************************************)
\* Pods that count have the TFJob's RuntimeID.
LEMMA Counts ==
    ASSUME TypeOK, NEW t
    PROVE  /\ Active(t) \in Nat /\ Succeeded(t) \in Nat
           /\ Active(t) + Succeeded(t) > 0 => \E k \in DOMAIN pods : pods[k].rid = cached.rid
<1>1. DOMAIN pods = 1..Len(pods) /\ Len(pods) \in Nat
  BY DEF TypeOK
<1>2. DOMAIN listedPods \subseteq DOMAIN pods /\ IsFiniteSet(DOMAIN pods)
  <2>1. DOMAIN listedPods = 1..Len(listedPods) /\ Len(listedPods) \in Nat
        /\ Len(listedPods) <= Len(pods)
    BY DEF TypeOK
  <2> QED
    BY <1>1, <2>1, FS_Interval
<1>3. ASSUME NEW phase
      PROVE  /\ InPhase(t, phase) \subseteq Claimed(t) /\ Claimed(t) \subseteq DOMAIN pods
             /\ IsFiniteSet(InPhase(t, phase))
             /\ Cardinality(InPhase(t, phase)) \in Nat
             /\ Cardinality(InPhase(t, phase)) = 0 <=> InPhase(t, phase) = {}
  <2>1. InPhase(t, phase) \subseteq Claimed(t) /\ Claimed(t) \subseteq DOMAIN pods
    BY <1>2 DEF InPhase, Claimed
  <2>2. IsFiniteSet(InPhase(t, phase))
    BY <1>2, <2>1, FS_Subset
  <2> QED
    BY <2>1, <2>2, FS_CardinalityType, FS_EmptySet
<1>4. Active(t) \in Nat /\ Succeeded(t) \in Nat
  BY <1>3 DEF Active, Succeeded
<1>5. ASSUME NEW phase, InPhase(t, phase) # {}
      PROVE  \E k \in DOMAIN pods : pods[k].rid = cached.rid
  BY <1>2, <1>5 DEF InPhase, Claimed
<1>6. Active(t) + Succeeded(t) > 0 => Active(t) # 0 \/ Succeeded(t) # 0
  BY <1>4
<1> QED
  BY <1>3, <1>4, <1>5, <1>6 DEF Active, Succeeded

\* A part the code can read says how many replicas it has.
LEMMA ReadableReplicas ==
    ASSUME TypeOK, NEW t \in Types, Readable(cached.parts, t)
    PROVE  TemplateIndex(cached.parts, t) # 0 /\ Replicas(t) \in Nat
<1>1. cached.parts \in Seq(Part)
  BY DEF TypeOK, Job
<1>2. /\ TemplateIndex(cached.parts, t) # 0
      /\ cached.parts[TemplateIndex(cached.parts, t)] \in Part
  BY <1>1, IndexFound DEF Readable
<1> QED
  BY <1>2 DEF Readable, Replicas, Part

\* A TFJob the code foresees that misses parameter servers only has drawn a RuntimeID.
LEMMA WorkersCounted ==
    ASSUME Inv, ~IsLocalJob(cached.parts), Foreseen(cached.parts), PodsDue("Worker") = 0
    PROVE  cached.rid # 0
<1>1. TypeOK /\ "Worker" \in Types /\ cached.parts \in Seq(Part)
  BY DEF Inv, TypeOK, Types, Tasks, Job
<1>2. \A t \in Tasks : \E i \in DOMAIN cached.parts \cap {1, 2} :
              /\ cached.parts[i].type = t
              /\ cached.parts[i].replicas # Unset
              /\ t = "Worker" => cached.parts[i].replicas > 0
  BY DEF Foreseen
<1>3. PICK w \in DOMAIN cached.parts \cap {1, 2} :
         cached.parts[w].type = "Worker" /\ cached.parts[w].replicas > 0
         /\ cached.parts[w].replicas # Unset
  BY <1>2 DEF Tasks
<1>4. PICK p \in DOMAIN cached.parts \cap {1, 2} : cached.parts[p].type = "PS"
  BY <1>2 DEF Tasks
<1>5. w = TemplateIndex(cached.parts, "Worker")
  BY <1>1, <1>3, <1>4 DEF TemplateIndex
<1>6. Replicas("Worker") > 0 /\ Replicas("Worker") \in Nat
  BY <1>1, <1>3, <1>5, ReadableReplicas DEF Replicas, Readable
<1>7. Active("Worker") \in Nat /\ Succeeded("Worker") \in Nat
  BY <1>1, Counts
<1>8. Active("Worker") + Succeeded("Worker") > 0
  <2>1. Active("Worker") >= Replicas("Worker") - Succeeded("Worker")
    BY <1>6, <1>7 DEF PodsDue, Expected
  <2> QED
    BY <1>6, <1>7, <2>1
<1>9. PICK k \in DOMAIN pods : pods[k].rid = cached.rid
  BY <1>1, <1>8, Counts
<1>10. pods[k].rid \in 1..lastRid
  BY DEF Inv, PodsInv, PodInv
<1> QED
  BY <1>9, <1>10

LEMMA DistributedSync ==
    ASSUME Inv, ~panicked, SyncDistributed
    PROVE  Inv'
<1>1. /\ cached.parts # <<>> /\ ~IsLocalJob(cached.parts) /\ UNCHANGED <<relisted, listers>>
      /\ Readable(cached.parts, "Worker")
  BY DEF SyncDistributed
<1>2. PICK manages \in Fulfilled :
          /\ manages => Readable(cached.parts, "PS")
          /\ LET count(t) == IF manages THEN PodsDue(t) ELSE 0
                 due == IF manages THEN UNION {{t} \X (0..ServicesDue(t) - 1) : t \in Tasks}
                        ELSE {}
                 workers == count("Worker")
                 plan == [k \in 1..workers + count("PS") |->
                             IF k <= workers THEN <<"Worker", k - 1>>
                             ELSE <<"PS", k - workers - 1>>]
                 j == IF workers > 0 THEN Composed(Tasks) ELSE cached
             IN \E failing \in SUBSET due, n \in 0..Len(plan), failed \in BOOLEAN :
                   /\ Err(failed \/ failing # {})
                   /\ j.rid <= MaxRid
                   /\ lastRid' = IF workers > 0 THEN j.rid ELSE lastRid
                   /\ CreateServices(due, j.rid, failing)
                   /\ CreatePods(j, plan, n, failed,
                                 IF manages THEN Hosts(due) ELSE [t \in Tasks |-> <<>>])
  BY DEF SyncDistributed
<1> DEFINE count(t) == IF manages THEN PodsDue(t) ELSE 0
           due == IF manages THEN UNION {{t} \X (0..ServicesDue(t) - 1) : t \in Tasks}
                  ELSE {}
           workers == count("Worker")
           plan == [k \in 1..workers + count("PS") |->
                       IF k <= workers THEN <<"Worker", k - 1>>
                       ELSE <<"PS", k - workers - 1>>]
           j == IF workers > 0 THEN Composed(Tasks) ELSE cached
           hosts == IF manages THEN Hosts(due) ELSE [t \in Tasks |-> <<>>]
<1>3. PICK failing \in SUBSET due, n \in 0..Len(plan), failed \in BOOLEAN :
         /\ Err(failed \/ failing # {})
         /\ lastRid' = IF workers > 0 THEN j.rid ELSE lastRid
         /\ CreateServices(due, j.rid, failing)
         /\ CreatePods(j, plan, n, failed, hosts)
  BY <1>2
<1>4. /\ TypeOK /\ JobsInv /\ Named(cached.parts) = Tasks
      /\ Tasks \subseteq Types /\ "Worker" \in Tasks /\ "PS" \in Tasks
      /\ lastRid \in Nat /\ draws \in Nat /\ cached.parts \in Seq(Part)
  BY <1>1 DEF Inv, Named, Types, Tasks, TypeOK, Job
<1>5. \A t \in Tasks : manages => /\ TemplateIndex(cached.parts, t) # 0
                                  /\ Replicas(t) \in Nat
  BY <1>1, <1>2, <1>4, ReadableReplicas DEF Tasks
<1>6. \A t \in Tasks : manages => Expected(t) \in Int
  BY <1>4, <1>5, Counts DEF Expected
<1>7. \A t \in Tasks : count(t) \in Nat
  <2> SUFFICES ASSUME NEW t \in Tasks, manages PROVE PodsDue(t) \in Nat
    OBVIOUS
  <2>1. Expected(t) \in Int /\ Active(t) \in Nat
    BY <1>4, <1>6, Counts
  <2> QED
    BY <2>1 DEF PodsDue
<1>8. /\ plan \in Seq(Types \X Nat) /\ DOMAIN plan = 1..workers + count("PS")
      /\ \A m \in DOMAIN plan : /\ manages
                                /\ plan[m][1] \in Tasks
                                /\ workers = 0 => plan[m][1] = "PS"
  <2>1. workers \in Nat /\ count("PS") \in Nat
    BY <1>4, <1>7
  <2>2. ~manages => workers = 0 /\ count("PS") = 0
    OBVIOUS
  <2> HIDE DEF count, workers
  <2>3. \A m \in 1..workers + count("PS") : plan[m] \in Tasks \X Nat
    <3> TAKE m \in 1..workers + count("PS")
    <3>1. CASE m <= workers
      BY <1>4, <2>1, <3>1
    <3>2. CASE ~(m <= workers)
      BY <1>4, <2>1, <3>2
    <3> QED
      BY <3>1, <3>2
  <2>4. plan \in Seq(Types \X Nat)
    <3>1. \A m \in 1..workers + count("PS") : plan[m] \in Types \X Nat
      BY <1>4, <2>3
    <3> DEFINE length == workers + count("PS")
    <3>2. DOMAIN plan = 1..length /\ length \in Nat /\ \A m \in 1..length : plan[m] \in Types \X Nat
      BY <2>1, <3>1
    <3>3. plan = [m \in 1..length |-> plan[m]]
      OBVIOUS
    <3> HIDE DEF plan, length
    <3> QED
      BY <3>2, <3>3
  <2>5. \A m \in DOMAIN plan : plan[m][1] \in Tasks
    BY <2>3
  <2>6. \A m \in DOMAIN plan : manages /\ (workers = 0 => plan[m][1] = "PS")
    BY <2>1, <2>2
  <2> QED
    BY <2>4, <2>5, <2>6
<1>9. due \in SUBSET (Tasks \X Nat)
  <2> SUFFICES ASSUME manages, NEW t \in Tasks, NEW d \in {t} \X (0..ServicesDue(t) - 1)
               PROVE  d \in Tasks \X Nat
    OBVIOUS
  <2>1. ServicesDue(t) \in Int
    BY <1>6 DEF ServicesDue
  <2>2. d[1] = t /\ d[2] \in 0..ServicesDue(t) - 1 /\ d = <<d[1], d[2]>>
    OBVIOUS
  <2>3. d[2] \in Nat
    BY <2>1, <2>2
  <2> QED
    BY <2>2, <2>3
<1>10. hosts \in [Tasks -> Seq(Nat)] /\ HostsOfSync(hosts, due)
  <2>1. CASE manages
    <3> HIDE DEF due
    <3> DEFINE host(t, i) == IF <<t, i - 1>> \in due THEN draws + 1 ELSE 0
    <3>1. hosts = [t \in Tasks |-> [i \in 1..Replicas(t) |-> host(t, i)]]
      BY <2>1 DEF Hosts
    <3>2. \A t, i : <<t, i - 1>> \in due => host(t, i) = draws + 1 /\ due # {}
      OBVIOUS
    <3>3. \A t, i : <<t, i - 1>> \notin due => host(t, i) = 0
      OBVIOUS
    <3>4. draws + 1 \in Nat /\ 0 \in Nat
      BY <1>4
    <3>5. \A t, i : host(t, i) \in Nat /\ (host(t, i) = 0 \/ (host(t, i) = draws + 1 /\ due # {}))
      <4> HIDE DEF host
      <4> QED
        BY <3>2, <3>3, <3>4
    <3> HIDE DEF hosts, host
    <3>6. \A t \in Tasks : hosts[t] \in Seq(Nat) /\ hosts[t] = [i \in 1..Replicas(t) |-> host(t, i)]
      BY <1>5, <2>1, <3>1, <3>5
    <3>7. hosts \in [Tasks -> Seq(Nat)]
      BY <3>1, <3>6
    <3>8. \A t \in Tasks : \A i \in DOMAIN hosts[t] : hosts[t][i] = host(t, i)
      BY <3>6
    <3> QED
      BY <3>5, <3>7, <3>8 DEF HostsOfSync
  <2>2. CASE ~manages
    BY <2>2 DEF HostsOfSync
  <2> QED
    BY <2>1, <2>2
<1>11. workers \in Nat
  BY <1>4, <1>7
<1> HIDE DEF plan, hosts, due, workers, count
<1>12. CASE workers > 0
  <2> DEFINE c == Composed(Tasks)
  <2>1. /\ JobInv(c, lastRid + 1, relisted) /\ c.rid = lastRid + 1
        /\ SameTypes(cached.parts, c.parts) /\ LabelsThere(c)
    BY <1>1, <1>4, ComposedInv
  <2> HIDE DEF c
  <2>2. j = c /\ lastRid' = lastRid + 1
    BY <1>3, <1>12, <2>1 DEF c
  <2>3. c.parts \in Seq(Part)
    BY <2>1 DEF JobInv, Job
  <2>4. Named(c.parts) = Tasks
    BY <1>1, <1>4, <2>1, <2>3, LocalOfTypes
  <2>5. \A m \in DOMAIN plan : TemplateIndex(c.parts, plan[m][1]) # 0
    <3> TAKE m \in DOMAIN plan
    <3>1. plan[m][1] \in Tasks /\ plan[m][1] \in Types
          /\ TemplateIndex(cached.parts, plan[m][1]) # 0
      BY <1>4, <1>5, <1>8
    <3> QED
      BY <1>4, <2>1, <2>3, <3>1, IndexOfTypes
  <2>6. \A m \in DOMAIN plan : Labels(c.parts, plan[m][1]) # Unset
    <3> TAKE m \in DOMAIN plan
    <3>1. plan[m][1] \in Tasks
      BY <1>8
    <3>2. Labels(c.parts, plan[m][1]) = lastRid + 1
      BY <1>4, <2>1, <2>4, <2>5, <3>1 DEF LabelsThere
    <3> QED
      BY <1>4, <3>2 DEF Unset
  <2> HIDE DEF j
  <2>7. /\ lastRid' \in Nat /\ lastRid <= lastRid'
        /\ JobInv(j, lastRid', relisted)
        /\ \A m \in DOMAIN plan : TemplateIndex(j.parts, plan[m][1]) # 0
        /\ ~(\E m \in DOMAIN plan : Labels(j.parts, plan[m][1]) = Unset)
    BY <1>4, <2>1, <2>2, <2>5, <2>6
  <2> QED
    BY <1>1, <1>3, <1>8, <1>9, <1>10, <2>7, SyncedInv
<1>13. CASE workers = 0
  <2>1. j = cached /\ lastRid' = lastRid
    BY <1>3, <1>13
  <2>2. JobInv(cached, lastRid, relisted)
    BY <1>4 DEF JobsInv
  <2>3. \A m \in DOMAIN plan : TemplateIndex(cached.parts, plan[m][1]) # 0
    BY <1>5, <1>8
  <2>4. (\E m \in DOMAIN plan : Labels(cached.parts, plan[m][1]) = Unset)
            => ~Foreseen(cached.parts) \/ relisted
    <3> SUFFICES ASSUME NEW m \in DOMAIN plan, Foreseen(cached.parts), ~relisted
                 PROVE  Labels(cached.parts, plan[m][1]) # Unset
      OBVIOUS
    <3>1. manages /\ plan[m][1] = "PS"
      BY <1>8, <1>13
    <3>2. PodsDue("Worker") = 0
      BY <1>13, <3>1 DEF workers, count
    <3>3. cached.rid # 0
      BY <1>1, <3>2, WorkersCounted
    <3>4. LabelsThere(cached)
      BY <2>2 DEF JobInv
    <3>5. Labels(cached.parts, plan[m][1]) = cached.rid
      BY <1>4, <2>3, <3>1, <3>3, <3>4 DEF LabelsThere
    <3>6. cached.rid \in Nat
      BY <1>4 DEF TypeOK, Job
    <3> QED
      BY <3>5, <3>6 DEF Unset
  <2> HIDE DEF j
  <2>5. /\ lastRid' \in Nat /\ lastRid <= lastRid'
        /\ JobInv(j, lastRid', relisted)
        /\ \A m \in DOMAIN plan : TemplateIndex(j.parts, plan[m][1]) # 0
        /\ (\E m \in DOMAIN plan : Labels(j.parts, plan[m][1]) = Unset)
              => ~Foreseen(j.parts) \/ relisted
    BY <1>4, <2>1, <2>2, <2>3, <2>4
  <2> QED
    BY <1>1, <1>3, <1>8, <1>9, <1>10, <2>5, SyncedInv
<1> QED
  BY <1>11, <1>12, <1>13

-----------------------------------------------------------------------------
(***************************************************************************)
(* The invariant                                                           *)
(***************************************************************************)
LEMMA InitInv == Init => Inv
<1> SUFFICES ASSUME Init PROVE Inv
  OBVIOUS
<1>1. PICK parts \in PartLists :
         server = [rid |-> 0, parts |-> parts, phase |-> "", statuses |-> <<>>]
  BY DEF Init
<1>2. parts \in Seq(Part) /\ Unlabelled(parts)
  BY PartsAssumption
<1>3. /\ cached = server /\ lastRid = 0 /\ draws = 0 /\ services = {} /\ pods = <<>>
      /\ listedPods = <<>> /\ listedServices = {}
      /\ stale = FALSE /\ relisted = FALSE /\ panicked = FALSE
      /\ errors = 0 /\ ends = 0 /\ edits = 0
  BY DEF Init
<1>4. server.parts = parts /\ server.rid = 0 /\ server.statuses = <<>> /\ server \in Job
  <2>1. <<>> \in Seq(Types)
    OBVIOUS
  <2> QED
    BY <1>1, <1>2, <2>1 DEF Job
<1>5. JobInv(server, 0, relisted)
  BY <1>2, <1>4 DEF JobInv, LabelsCurrent, LabelsThere, Distinct, Unlabelled
<1>6. JobsInv
  BY <1>3, <1>5 DEF JobsInv
<1>7. TypeOK
  <2>1. pods \in Seq(Pod) /\ listedPods \in Seq(Status) /\ Len(listedPods) <= Len(pods)
    BY <1>3
  <2>2. server \in Job /\ cached \in Job
    BY <1>3, <1>4
  <2> QED
    BY <1>3, <2>1, <2>2 DEF TypeOK
<1>8. PodsInv /\ HostsOfOneLife
  <2>1. DOMAIN pods = {}
    BY <1>3
  <2> QED
    BY <2>1 DEF PodsInv, HostsOfOneLife
<1>9. ServicesInv /\ ForeseenNeverPanics
  BY <1>3 DEF ServicesInv, ForeseenNeverPanics
<1> QED
  BY <1>6, <1>7, <1>8, <1>9 DEF Inv

LEMMA PanicsInv ==
    ASSUME Inv, SyncPanics
    PROVE  Inv'
<1>1. /\ panicked' = TRUE
      /\ UNCHANGED <<server, cached, stale, relisted, lastRid, draws, services, pods, listers,
                     spent>>
      /\ \/ cached.parts = <<>>
         \/ /\ ~IsLocalJob(cached.parts)
            /\ \E t \in Tasks : ~Readable(cached.parts, t)
  BY DEF SyncPanics
<1>2. ~Foreseen(cached.parts)
  <2>1. CASE cached.parts = <<>>
    BY <2>1 DEF Foreseen
  <2>2. CASE ~IsLocalJob(cached.parts) /\ \E t \in Tasks : ~Readable(cached.parts, t)
    <3> SUFFICES ASSUME Foreseen(cached.parts), NEW t \in Tasks PROVE Readable(cached.parts, t)
      BY <2>2
    <3>1. cached.parts \in Seq(Part)
      BY DEF Inv, TypeOK, Job
    <3>2. \A u \in Tasks : \E i \in DOMAIN cached.parts \cap {1, 2} :
              cached.parts[i].type = u /\ cached.parts[i].replicas # Unset
      BY <2>2 DEF Foreseen
    <3>3. PICK w \in DOMAIN cached.parts \cap {1, 2} :
              cached.parts[w].type = "Worker" /\ cached.parts[w].replicas # Unset
      BY <3>2 DEF Tasks
    <3>4. PICK p \in DOMAIN cached.parts \cap {1, 2} :
              cached.parts[p].type = "PS" /\ cached.parts[p].replicas # Unset
      BY <3>2 DEF Tasks
    <3>5. /\ TemplateIndex(cached.parts, "Worker") = w
          /\ TemplateIndex(cached.parts, "PS") = p
      BY <3>1, <3>3, <3>4 DEF TemplateIndex
    <3> QED
      BY <3>3, <3>4, <3>5 DEF Tasks, Readable
  <2> QED
    BY <1>1, <2>1, <2>2
<1>3. TypeOK'
  BY <1>1 DEF Inv, TypeOK, spent, listers
<1> QED
  BY <1>1, <1>2, <1>3 DEF Inv, JobsInv, PodsInv, ServicesInv,
                          HostsOfOneLife, ForeseenNeverPanics

\* The listers show what is on the server, or was.
LEMMA ListersInv ==
    ASSUME Inv, ~panicked,
           UNCHANGED <<server, relisted, lastRid, draws, services, pods, panicked, ends, edits>>,
           cached' = cached \/ cached' = server, stale' \in BOOLEAN, errors' \in Nat,
           listedPods' \in Seq(Status), Len(listedPods') <= Len(pods),
           listedServices' \subseteq services
    PROVE  Inv'
<1>1. TypeOK'
  BY DEF Inv, TypeOK
<1>2. JobsInv'
  BY DEF Inv, JobsInv
<1>3. PodsInv' /\ ServicesInv' /\ HostsOfOneLife' /\ ForeseenNeverPanics'
  BY DEF Inv, PodsInv, ServicesInv, HostsOfOneLife, ForeseenNeverPanics
<1> QED
  BY <1>1, <1>2, <1>3 DEF Inv

LEMMA RefreshInv ==
    ASSUME Inv, ~panicked, Refresh \/ Restart
    PROVE  Inv'
<1>1. CASE Refresh
  BY <1>1, ListersInv DEF Refresh, Inv, TypeOK, spent, listers
<1>2. CASE Restart
  <2>1. /\ listedPods' \in Seq(Status) /\ Len(listedPods') <= Len(pods)
        /\ listedServices' \subseteq services
    <3>1. listedPods' = <<>> /\ listedServices' = {} /\ pods \in Seq(Pod)
      BY <1>2 DEF Restart, Inv, TypeOK
    <3> QED
      BY <3>1
  <2>2. errors' \in Nat /\ UNCHANGED <<ends, edits>>
    BY <1>2 DEF Restart, Err, Inv, TypeOK
  <2> QED
    BY <1>2, <2>1, <2>2, ListersInv DEF Restart
<1> QED
  BY <1>1, <1>2

LEMMA ListedInv ==
    ASSUME Inv, ~panicked,
           \/ PodListed
           \/ \E k \in DOMAIN listedPods \cap Late : PodUpdated(k)
           \/ \E s \in LateServices : ServiceListed(s)
    PROVE  Inv'
<1>1. /\ pods \in Seq(Pod) /\ stale \in BOOLEAN
      /\ listedPods \in Seq(Status) /\ Len(listedPods) <= Len(pods)
      /\ listedServices \subseteq services
      /\ errors \in Nat
  BY DEF Inv, TypeOK
<1>2. \A k \in DOMAIN pods : pods[k].phase \in Status
  <2> TAKE k \in DOMAIN pods
  <2>1. pods[k] \in Pod
    BY <1>1
  <2> QED
    BY <2>1 DEF Pod
<1>3. CASE PodListed
  <2>1. /\ Len(listedPods) < Len(pods)
        /\ listedPods' = Append(listedPods, pods[Len(listedPods) + 1].phase)
    BY <1>3 DEF PodListed
  <2>2. Len(listedPods) + 1 \in DOMAIN pods
    BY <1>1, <2>1
  <2>3. listedPods' \in Seq(Status) /\ Len(listedPods') <= Len(pods)
    BY <1>1, <1>2, <2>1, <2>2
  <2> QED
    BY <1>1, <1>3, <2>3, ListersInv DEF PodListed, spent
<1>4. ASSUME NEW k \in DOMAIN listedPods, PodUpdated(k)
      PROVE  Inv'
  <2>1. k \in DOMAIN pods /\ listedPods' = [listedPods EXCEPT ![k] = pods[k].phase]
    BY <1>1, <1>4 DEF PodUpdated
  <2>2. listedPods' \in Seq(Status) /\ Len(listedPods') <= Len(pods)
    BY <1>1, <1>2, <2>1
  <2> QED
    BY <1>1, <1>4, <2>2, ListersInv DEF PodUpdated, spent
<1>5. ASSUME NEW s \in LateServices, ServiceListed(s)
      PROVE  Inv'
  BY <1>1, <1>5, ListersInv DEF ServiceListed, LateServices, spent
<1> QED
  BY <1>3, <1>4, <1>5

LEMMA PodEndsInv ==
    ASSUME Inv, NEW k \in DOMAIN pods, NEW phase \in {"Succeeded", "Failed", "Deleted"},
           PodEnds(k, phase)
    PROVE  Inv'
<1>1. /\ pods' = [pods EXCEPT ![k].phase = phase] /\ ends' = ends + 1
      /\ UNCHANGED <<server, cached, stale, relisted, lastRid, draws, services, listers,
                     panicked, errors, edits>>
  BY DEF PodEnds
<1>2. pods \in Seq(Pod) /\ pods[k] \in Pod
  BY DEF Inv, TypeOK
<1>3. [pods[k] EXCEPT !.phase = phase] \in Pod
      /\ [pods[k] EXCEPT !.phase = phase].rid = pods[k].rid
      /\ [pods[k] EXCEPT !.phase = phase].hosts = pods[k].hosts
  BY <1>2 DEF Pod, Status
<1>4. /\ pods' \in Seq(Pod) /\ DOMAIN pods' = DOMAIN pods
      /\ \A l \in DOMAIN pods : pods'[l].rid = pods[l].rid /\ pods'[l].hosts = pods[l].hosts
  BY <1>1, <1>2, <1>3
<1>5. PodsInv'
  BY <1>1, <1>4 DEF Inv, PodsInv, PodInv
<1>6. HostsOfOneLife'
  BY <1>1, <1>4 DEF Inv, HostsOfOneLife
<1>7. TypeOK'
  <2>1. Len(pods') = Len(pods)
    BY <1>1, <1>2
  <2> QED
    BY <1>1, <1>4, <2>1 DEF Inv, TypeOK, listers
<1> QED
  BY <1>1, <1>5, <1>6, <1>7 DEF Inv, JobsInv, ServicesInv, ForeseenNeverPanics

\* Users write to the server's TFJob only.
LEMMA UserWritesInv ==
    ASSUME Inv, NEW j, UserWrites(j), JobInv(j, lastRid, relisted'),
           relisted' \in BOOLEAN, relisted => relisted'
    PROVE  Inv'
<1>1. /\ server' = j /\ stale' = TRUE /\ edits' = edits + 1
      /\ UNCHANGED <<cached, lastRid, draws, services, pods, listers, panicked, errors, ends>>
  BY DEF UserWrites
<1>2. j \in Job
  BY Zenon DEF JobInv
<1>3. TypeOK'
  BY <1>1, <1>2 DEF Inv, TypeOK, listers
<1>4. JobInv(cached, lastRid, relisted')
  BY Zenon DEF Inv, JobsInv, JobInv
<1>5. JobsInv'
  BY <1>1, <1>4 DEF JobsInv
<1>6. ForeseenNeverPanics'
  BY <1>1 DEF Inv, ForeseenNeverPanics
<1> QED
  BY <1>1, <1>3, <1>5, <1>6 DEF Inv, PodsInv, ServicesInv, HostsOfOneLife

LEMMA NextInv == Inv /\ [Next]_vars => Inv'
<1> SUFFICES ASSUME Inv, [Next]_vars PROVE Inv'
  OBVIOUS
<1>1. CASE ~panicked /\ Sync
  BY <1>1, LocalSync, DistributedSync, PanicsInv DEF Sync
<1>2. ASSUME ~panicked,
             \/ Refresh \/ Restart
             \/ PodListed
             \/ \E k \in DOMAIN listedPods \cap Late : PodUpdated(k)
             \/ \E s \in LateServices : ServiceListed(s)
      PROVE  Inv'
  BY <1>2, RefreshInv, ListedInv
<1>3. ASSUME NEW k \in DOMAIN pods, NEW phase \in {"Succeeded", "Failed", "Deleted"},
             PodEnds(k, phase)
      PROVE  Inv'
  BY <1>3, PodEndsInv
<1>4. ASSUME NEW i \in DOMAIN server.parts, NEW n \in 0..MaxReplicas, Scale(i, n)
      PROVE  Inv'
  <2>1. n \in Nat
    BY BoundsAssumption
  <2>2. JobInv([server EXCEPT !.parts[i].replicas = n], lastRid, relisted)
    BY <2>1, ScaledInv DEF Inv
  <2>3. relisted' = relisted /\ relisted \in BOOLEAN
    BY <1>4 DEF Scale, Inv, TypeOK
  <2> QED
    BY <1>4, <2>2, <2>3, UserWritesInv DEF Scale
<1>5. ASSUME NEW parts \in PartLists, Relist(parts)
      PROVE  Inv'
  <2>1. JobInv([server EXCEPT !.parts = parts], lastRid, TRUE)
    BY RelistedInv DEF Inv
  <2>2. relisted' = TRUE
    BY <1>5 DEF Relist
  <2> QED
    BY <1>5, <2>1, <2>2, UserWritesInv DEF Relist
<1>6. CASE UNCHANGED vars
  BY <1>6 DEF vars, spent, listers, Inv, TypeOK, JobsInv, PodsInv, ServicesInv,
              HostsOfOneLife, ForeseenNeverPanics
<1> QED
  BY <1>1, <1>2, <1>3, <1>4, <1>5, <1>6 DEF Next

-----------------------------------------------------------------------------
\* The inductive invariant, of any instance: labels are those of the RuntimeID.
THEOREM Invariance == Spec => []Inv
<1>1. Init => Inv
  BY InitInv
<1>2. Inv /\ [Next]_vars => Inv'
  BY NextInv
<1> QED
  BY <1>1, <1>2, PTL DEF Spec

\* TFJobs, pods and services have the types of the API objects, for all part lists.
THEOREM TypeCorrect == Spec => []TypeOK
<1>1. Inv => TypeOK
  BY DEF Inv
<1> QED
  BY <1>1, Invariance, PTL

\* GetSpec and Action never end the process for a TFJob the code foresees, unless its list
\* of parts was written anew: a TFJob that misses parameter servers only has live or
\* succeeded workers, hence a RuntimeID, hence labels.
THEOREM ForeseenSurvives == Spec => []ForeseenNeverPanics
<1>1. Inv => ForeseenNeverPanics
  BY DEF Inv
<1> QED
  BY <1>1, Invariance, PTL

\* A pod is told names of services that have its RuntimeID, or of none.
THEOREM HostsBelong == Spec => []HostsOfOneLife
<1>1. Inv => HostsOfOneLife
  BY DEF Inv
<1> QED
  BY <1>1, Invariance, PTL

\* A sync that finds services of a type creates them under a new RuntimeID only.
LEMMA SyncedServices ==
    ASSUME Inv, SyncDistributed,
           NEW s \in services' \ services, NEW o \in listedServices, s.type = o.type
    PROVE  s.rid # o.rid
<1> DEFINE all == UNION {{t} \X (0..ServicesDue(t) - 1) : t \in Tasks}
<1>1. PICK rid \in {cached.rid, lastRid + 1}, due \in {all, {}} :
         \E failing \in SUBSET due : CreateServices(due, rid, failing)
  <2>1. Composed(Tasks).rid = lastRid + 1
    BY DEF Composed, Inv, TypeOK, Job
  <2> QED
    BY <2>1 DEF SyncDistributed
<1>2. PICK d \in due : s.type = d[1] /\ s.rid = rid
  BY <1>1 DEF CreateServices
<1>3. o \in services /\ o.rid \in Nat /\ o.rid <= lastRid /\ lastRid \in Nat
  BY DEF Inv, TypeOK, ServicesInv, ServiceInv, Service
<1>4. ClaimedServices(d[1]) = {}
  <2>1. PICK t \in Tasks : d \in {t} \X (0..ServicesDue(t) - 1)
    BY <1>1, <1>2
  <2>2. d[1] = t /\ 0..ServicesDue(t) - 1 # {}
    BY <2>1
  <2>3. ServicesDue(t) # 0
    BY <2>2
  <2> QED
    BY <2>2, <2>3 DEF ServicesDue
<1>5. o.rid # cached.rid
  BY <1>2, <1>4 DEF ClaimedServices
<1> QED
  BY <1>1, <1>2, <1>3, <1>5

\* A service the lister shows is not created again under its RuntimeID, for all part lists,
\* numbers of replicas and delays: what a lost write left in the lister is never the
\* RuntimeID of the next compose.
THEOREM ListedOnce == Spec => ListedServicesOnce
<1> DEFINE Once == \A s \in services' \ services, o \in listedServices :
                       ~(s.type = o.type /\ s.index = o.index /\ s.rid = o.rid)
<1>1. Inv /\ [Next]_vars => Once
  <2> SUFFICES ASSUME Inv, [Next]_vars, services' # services PROVE Once
    OBVIOUS
  <2>1. SyncDistributed
    BY DEF Next, Sync, SyncLocal, SyncPanics, Refresh, Restart, PodListed, PodUpdated,
           ServiceListed, PodEnds, Scale, Relist, UserWrites, vars
  <2> QED
    BY <2>1, SyncedServices
<1> QED
  BY <1>1, Invariance, PTL DEF Spec, ListedServicesOnce

\* The updater never reports two statuses of one type.
THEOREM OneStatus == Spec => []StatusTypesDistinct
<1>1. Inv => StatusTypesDistinct
  BY DEF Inv, JobsInv, JobInv, Distinct, StatusTypesDistinct
<1> QED
  BY <1>1, Invariance, PTL
====
