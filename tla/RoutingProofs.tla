---------------------------- MODULE RoutingProofs ----------------------------
(***************************************************************************)
(* Proofs about Routing for any number of domains, categories and          *)
(* regenerations: a device that has a profile has a current one, which is  *)
(* the newest unless regenerations overlapped, and a profile made from     *)
(* settings nobody changed meanwhile is exactly what they ask for.         *)
(***************************************************************************)
EXTENDS Routing, FiniteSetTheorems, TLAPS

JobSteps   == {"none", "create", "mode", "rules", "resolve", "supersede", "mark", "lock", "commit",
               "done"}
JobRecords == [pc : JobSteps, mode : Modes, wanted : SUBSET Domains, routes : SUBSET Domains,
               full : BOOLEAN, version : Nat, old : SUBSET (1 .. MaxGens),
               marked : SUBSET (1 .. MaxGens), creates : BOOLEAN, fresh : BOOLEAN,
               id : 0 .. MaxGens]

Ids == {r.id : r \in rows}

(* Tables, counters and open regenerations. *)
Shape ==
    /\ saved \in BOOLEAN /\ mode \in Modes /\ prefs \subseteq Categories
    /\ rules \in [Catalogue -> Routes] /\ custom \in [Domains -> Routes]
    /\ rows \subseteq Row
    /\ job \in [Jobs -> JobRecords]
    /\ gens \in 0 .. MaxGens /\ edits \in 0 .. MaxEdits /\ failures \in 0 .. MaxFailures
    /\ raced \in BOOLEAN

(* Every regeneration mints an id of its own, which names one row from its *)
(* commit on and none before.                                              *)
IdInv ==
    /\ Ids \subseteq 1 .. gens
    /\ \A r, s \in rows : r.id = s.id => r = s
    /\ \A j \in Running : job[j].id \in 1 .. gens
    /\ \A j, k \in Running : job[j].id = job[k].id => j = k
    /\ \A j \in Jobs : job[j].pc \notin {"none", "done"} => job[j].id \notin Ids

(* A version is at most the number of profiles made so far. *)
VersionInv ==
    /\ IsFiniteSet(Ids)
    /\ \A r \in rows : r.version <= Cardinality(Ids)
    /\ \A j \in Jobs : job[j].version <= Cardinality(Ids) + 1
    /\ \A j \in Jobs : job[j].pc \in {"none", "done"} => job[j].version <= Cardinality(Ids)

(* As long as regenerations did not overlap, the open one knows the newest *)
(* profile and is about to supersede it and nothing else.                  *)
Newest(r) == \A s \in rows : r = s \/ r.version > s.version

CurrentInv ==
    /\ rows # {} => Current # {}
    /\ ~raced =>
         /\ \A r \in Current : Newest(r)
         /\ \A j, k \in Running : j = k
         /\ \A j \in Jobs :
              /\ job[j].pc \in {"mark", "lock", "commit"}
                  => \A r \in rows : r.version < job[j].version
              /\ job[j].pc = "lock" => job[j].old = {r.id : r \in Current}
              /\ job[j].pc = "commit" => job[j].marked = {r.id : r \in Current}

(* What a fresh regeneration has read is still so, and what it has made is *)
(* what the settings ask for.                                              *)
Exact(full, routes) == /\ full <=> (mode = "full_vpn" \/ Effective \subseteq gone)
                       /\ ~full => routes = Effective \ gone

FreshInv ==
    /\ ~saved => mode = "full_vpn"
    /\ \A j \in Jobs : job[j].fresh =>
         /\ job[j].pc \in {"rules", "resolve"} => mode = "smart_vpn"
         /\ job[j].pc = "resolve" => job[j].wanted = Effective
         /\ job[j].pc \in {"supersede", "mark", "lock", "commit"}
                  => Exact(job[j].full, job[j].routes)
         /\ job[j].pc = "done" => \E r \in rows : r.id = job[j].id /\ Exact(r.full, r.routes)

RoutingInv == Shape /\ IdInv /\ VersionInv /\ CurrentInv /\ FreshInv

-----------------------------------------------------------------------------
(* What a step does to the regenerations. *)

Sets(j, r) == /\ r \in JobRecords
              /\ job' \in [Jobs -> JobRecords]
              /\ job'[j] = r
              /\ \A k \in Jobs \ {j} : job'[k] = job[k]

LEMMA Update ==
    ASSUME Shape, NEW j \in Jobs, NEW r \in JobRecords, job' = [job EXCEPT ![j] = r]
    PROVE  Sets(j, r)
  BY DEF Shape, Sets

LEMMA NoJobRecord == NoJob \in JobRecords
  BY RoutingAssumption DEF NoJob, JobRecords, JobSteps, Modes

LEMMA AbortSets == ASSUME Shape, NEW j \in Jobs, Abort(j) PROVE Sets(j, NoJob)
  BY NoJobRecord, Update DEF Abort

LEMMA StartSets ==
    ASSUME Shape, NEW j \in Jobs, Start(j)
    PROVE  /\ gens' \in 1 .. MaxGens
           /\ Sets(j, [NoJob EXCEPT !.pc = IF saved THEN "mode" ELSE "create", !.id = gens',
                                    !.fresh = TRUE])
<1> DEFINE r == [NoJob EXCEPT !.pc = IF saved THEN "mode" ELSE "create",
                          !.id = gens', !.fresh = TRUE]
<1>1. gens' \in 1 .. MaxGens
  BY RoutingAssumption DEF Start, Shape
<1>2. (IF saved THEN "mode" ELSE "create") \in JobSteps /\ gens' \in 0 .. MaxGens
  BY <1>1 DEF JobSteps
<1>3. r \in JobRecords
  BY <1>2, NoJobRecord DEF JobRecords
<1> QED BY <1>1, <1>3, Update DEF Start, Advance

LEMMA CreateSets ==
    ASSUME Shape, NEW j \in Jobs, CreateSettings(j), ~saved
    PROVE  Sets(j, [job[j] EXCEPT !.pc = "supersede", !.creates = TRUE, !.full = TRUE])
<1>1. job[j] \in JobRecords /\ "supersede" \in JobSteps
  BY DEF Shape, JobSteps
<1>2. [job[j] EXCEPT !.pc = "supersede", !.creates = TRUE, !.full = TRUE] \in JobRecords
  BY <1>1 DEF JobRecords
<1> QED BY <1>2, Update DEF CreateSettings, Advance

LEMMA ModeSets ==
    ASSUME Shape, NEW j \in Jobs, ReadMode(j)
    PROVE  Sets(j, [job[j] EXCEPT !.mode = mode, !.full = mode = "full_vpn",
                                  !.pc = IF mode = "full_vpn" THEN "supersede" ELSE "rules"])
<1> DEFINE r == [job[j] EXCEPT !.mode = mode, !.full = mode = "full_vpn",
                               !.pc = IF mode = "full_vpn" THEN "supersede" ELSE "rules"]
<1>1. job[j] \in JobRecords /\ mode \in Modes
  BY DEF Shape
<1>2. (IF mode = "full_vpn" THEN "supersede" ELSE "rules") \in JobSteps
  BY DEF JobSteps
<1>3. r \in JobRecords
  BY <1>1, <1>2 DEF JobRecords
<1> QED BY <1>3, Update DEF ReadMode, Advance

LEMMA RulesSets ==
    ASSUME Shape, NEW j \in Jobs, ReadRules(j)
    PROVE  /\ Effective \subseteq Domains
           /\ Sets(j, [job[j] EXCEPT !.pc = "resolve", !.wanted = Effective])
<1>1. job[j] \in JobRecords /\ "resolve" \in JobSteps
  BY DEF Shape, JobSteps
<1>2. Effective \subseteq Domains
  BY RoutingAssumption DEF Effective
<1>3. [job[j] EXCEPT !.pc = "resolve", !.wanted = Effective] \in JobRecords
  BY <1>1, <1>2 DEF JobRecords
<1> QED BY <1>2, <1>3, Update DEF ReadRules, Advance

LEMMA ResolveSets ==
    ASSUME Shape, NEW j \in Jobs, NEW failed \in SUBSET (job[j].wanted \ gone),
           LET routes == job[j].wanted \ (gone \cup failed) IN
           Advance(j, [job[j] EXCEPT !.pc = "supersede", !.routes = routes,
                                     !.full = FallsBack(routes),
                                     !.fresh = job[j].fresh /\ failed = {}])
    PROVE  LET routes == job[j].wanted \ (gone \cup failed) IN
           Sets(j, [job[j] EXCEPT !.pc = "supersede", !.routes = routes, !.full = routes = {},
                                  !.fresh = job[j].fresh /\ failed = {}])
<1> DEFINE routes == job[j].wanted \ (gone \cup failed)
           r == [job[j] EXCEPT !.pc = "supersede", !.routes = routes, !.full = routes = {},
                               !.fresh = job[j].fresh /\ failed = {}]
<1>1. job[j] \in JobRecords /\ "supersede" \in JobSteps
  BY DEF Shape, JobSteps
<1>2. routes \in SUBSET Domains
  BY <1>1 DEF JobRecords
<1>3. r \in JobRecords
  BY <1>1, <1>2 DEF JobRecords
<1> QED BY <1>3, Update DEF Advance, FallsBack

LEMMA CurrentSets ==
    ASSUME Shape, NEW j \in Jobs, ReadCurrent(j), ~(Cardinality(Current) > 1)
    PROVE  NextVersion \in Nat /\ Sets(j, [job[j] EXCEPT !.pc = "mark", !.version = NextVersion])
<1>1. job[j] \in JobRecords /\ "mark" \in JobSteps
  BY DEF Shape, JobSteps
<1>2. NextVersion \in Nat
  BY DEF NextVersion, Current, Shape, Row
<1>3. [job[j] EXCEPT !.pc = "mark", !.version = NextVersion] \in JobRecords
  BY <1>1, <1>2 DEF JobRecords
<1> QED BY <1>2, <1>3, Update DEF ReadCurrent, Advance

LEMMA MarkSets ==
    ASSUME Shape, NEW j \in Jobs, MarkSuperseded(j)
    PROVE  Sets(j, [job[j] EXCEPT !.pc = "lock", !.old = {r.id : r \in Current}])
<1>1. job[j] \in JobRecords /\ "lock" \in JobSteps
  BY DEF Shape, JobSteps
<1>2. {r.id : r \in Current} \in SUBSET (1 .. MaxGens)
  BY DEF Current, Shape, Row
<1>3. [job[j] EXCEPT !.pc = "lock", !.old = {r.id : r \in Current}] \in JobRecords
  BY <1>1, <1>2 DEF JobRecords
<1> QED BY <1>3, Update DEF MarkSuperseded, Advance, Superseded

LEMMA LockSets ==
    ASSUME Shape, NEW j \in Jobs, LockRows(j)
    PROVE  Sets(j, [job[j] EXCEPT !.pc = "commit",
                                  !.marked = job[j].old \cap {r.id : r \in Current}])
<1>1. job[j] \in JobRecords /\ "commit" \in JobSteps
  BY DEF Shape, JobSteps
<1>2. job[j].old \cap {r.id : r \in Current} \in SUBSET (1 .. MaxGens)
  BY <1>1 DEF JobRecords
<1>3. [job[j] EXCEPT !.pc = "commit", !.marked = job[j].old \cap {r.id : r \in Current}]
        \in JobRecords
  BY <1>1, <1>2 DEF JobRecords
<1> QED BY <1>3, Update DEF LockRows, Advance

LEMMA CommitSets ==
    ASSUME Shape, NEW j \in Jobs, Commit(j)
    PROVE  Sets(j, [job[j] EXCEPT !.pc = "done"])
<1>1. job[j] \in JobRecords /\ "done" \in JobSteps
  BY DEF Shape, JobSteps
<1>2. [job[j] EXCEPT !.pc = "done"] \in JobRecords
  BY <1>1 DEF JobRecords
<1> QED BY <1>2, Update DEF Commit, Advance, Step

-----------------------------------------------------------------------------
(* Steps that leave the profiles alone. *)

(* A regeneration reads on, or ends. *)
LEMMA ReadKeeps ==
    ASSUME Shape, IdInv, VersionInv, CurrentInv, NEW j \in Jobs, NEW r, Sets(j, r),
           UNCHANGED <<rows, gens, raced>>, job[j].pc # "none",
           \/ r = NoJob
           \/ /\ job[j].pc # "done" /\ r.pc \notin {"none", "done"} /\ r.id = job[j].id
              /\ r.version <= Cardinality(Ids) + 1,
           ~raced =>
              /\ r.pc \in {"mark", "lock", "commit"} => \A s \in rows : s.version < r.version
              /\ r.pc = "lock" => r.old = {s.id : s \in Current}
              /\ r.pc = "commit" => r.marked = {s.id : s \in Current}
    PROVE  IdInv' /\ VersionInv' /\ CurrentInv'
<1>1. Ids' = Ids /\ Current' = Current
  BY DEF Ids, Current
<1>2. NoJob.pc = "none" /\ NoJob.version = 0 /\ NoJob.fresh = FALSE
  BY DEF NoJob
<1>3. Running' \subseteq Running /\ \A k \in Running' : job'[k].id = job[k].id
  BY <1>2 DEF Running, Sets
<1>4. IdInv'
  BY <1>1, <1>2, <1>3 DEF IdInv, Sets
<1>5. VersionInv'
  <2>1. Cardinality(Ids) \in Nat
    BY FS_CardinalityType DEF VersionInv
  <2> QED BY <1>1, <1>2, <2>1 DEF VersionInv, Sets
<1>6. CurrentInv'
  BY <1>1, <1>2, <1>3 DEF CurrentInv, Newest, Sets
<1> QED BY <1>4, <1>5, <1>6

LEMMA FreshKeeps ==
    ASSUME FreshInv, NEW j \in Jobs, NEW r, Sets(j, r), UNCHANGED <<settings, rows, gone>>,
           r.fresh =>
             /\ r.pc \in {"rules", "resolve"} => mode = "smart_vpn"
             /\ r.pc = "resolve" => r.wanted = Effective
             /\ r.pc \in {"supersede", "mark", "lock", "commit"} => Exact(r.full, r.routes)
             /\ r.pc # "done"
    PROVE  FreshInv'
<1>1. Effective' = Effective
  BY DEF Effective, settings
<1>2. \A k \in Jobs \ {j} : job'[k] = job[k]
  BY DEF Sets
<1>3. \A k \in Jobs : k = j \/ k \in Jobs \ {j}
  OBVIOUS
<1> QED BY <1>1, <1>2, <1>3 DEF FreshInv, Exact, Sets, settings

(* A change of the settings makes every open regeneration stale. *)
LEMMA EditKeeps ==
    ASSUME RoutingInv, Edit, ~saved' => mode' = "full_vpn"
    PROVE  /\ job' \in [Jobs -> JobRecords] /\ edits' \in 0 .. MaxEdits
           /\ IdInv' /\ VersionInv' /\ CurrentInv' /\ FreshInv'
<1> USE DEF RoutingInv
<1>1. \A j \in Jobs : job[j] \in JobRecords
  BY DEF Shape
<1>2. job' \in [Jobs -> JobRecords]
      /\ \A j \in Jobs : /\ job'[j].pc = job[j].pc /\ job'[j].id = job[j].id
                         /\ job'[j].version = job[j].version /\ job'[j].old = job[j].old
                         /\ job'[j].marked = job[j].marked /\ ~job'[j].fresh
  BY <1>1 DEF Edit, JobRecords
<1>3. Ids' = Ids /\ Current' = Current /\ Running' = Running /\ UNCHANGED <<rows, gens, raced>>
  BY <1>2 DEF Edit, Ids, Current, Running
<1>4. IdInv'
  BY <1>2, <1>3 DEF IdInv, Running
<1>5. VersionInv'
  BY <1>2, <1>3 DEF VersionInv
<1>6. CurrentInv'
  BY <1>2, <1>3 DEF CurrentInv, Newest
<1>7. FreshInv'
  BY <1>2 DEF FreshInv
<1>8. edits' \in 0 .. MaxEdits
  BY RoutingAssumption DEF Edit, Shape
<1> QED BY <1>2, <1>4, <1>5, <1>6, <1>7, <1>8

LEMMA SettingsStep ==
    ASSUME RoutingInv, Settings
    PROVE  RoutingInv'
PROOF
<1> USE DEF RoutingInv
<1>1. Edit /\ (~saved' => mode' = "full_vpn")
  BY DEF Settings, SetMode, SetCategoryPreference, AddCustomDomain, AddRule, Disappear, FreshInv,
         settings
<1>2. /\ job' \in [Jobs -> JobRecords] /\ edits' \in 0 .. MaxEdits
      /\ IdInv' /\ VersionInv' /\ CurrentInv' /\ FreshInv'
  BY <1>1, EditKeeps
<1> DEFINE Typed == /\ saved' \in BOOLEAN /\ mode' \in Modes /\ prefs' \subseteq Categories
                    /\ rules' \in [Catalogue -> Routes] /\ custom' \in [Domains -> Routes]
<1>3. Typed
  <2>1. ASSUME NEW m \in Modes, SetMode(m) PROVE Typed
    BY <2>1 DEF SetMode, Shape
  <2>2. ASSUME NEW c \in Categories, NEW on \in BOOLEAN, SetCategoryPreference(c, on) PROVE Typed
    BY <2>2 DEF SetCategoryPreference, Shape
  <2>3. ASSUME NEW d \in Domains, NEW r \in {"vpn", "direct"}, AddCustomDomain(d, r) PROVE Typed
    BY <2>3 DEF AddCustomDomain, Shape, Routes
  <2>4. ASSUME NEW d \in Catalogue, NEW r \in {"vpn", "direct"}, AddRule(d, r) PROVE Typed
    BY <2>4 DEF AddRule, Shape, Routes
  <2>5. ASSUME NEW d \in Domains, Disappear(d) PROVE Typed
    BY <2>5 DEF Disappear, Shape, settings
  <2> QED BY <2>1, <2>2, <2>3, <2>4, <2>5 DEF Settings
<1> QED BY <1>1, <1>2, <1>3 DEF Shape, Edit

-----------------------------------------------------------------------------
(* The commit. *)

Made(j) == [id |-> job[j].id, version |-> job[j].version, current |-> TRUE,
            full |-> job[j].full, routes |-> job[j].routes]
Kept(r, j) == [r EXCEPT !.current = r.current /\ r.id \notin job[j].marked]

LEMMA CommitRows ==
    ASSUME Shape, IdInv, NEW j \in Jobs, Commit(j)
    PROVE  /\ Made(j) \in Row /\ Made(j) \in rows' /\ rows' \subseteq Row
           /\ \A s \in rows' : s = Made(j) \/ \E r \in rows : s = Kept(r, j)
           /\ \A r \in rows : /\ Kept(r, j) \in rows' /\ Kept(r, j).id = r.id
                              /\ Kept(r, j).version = r.version /\ Kept(r, j).full = r.full
                              /\ Kept(r, j).routes = r.routes
                              /\ Kept(r, j).current <=> r.current /\ r.id \notin job[j].marked
           /\ Ids' = Ids \cup {job[j].id} /\ job[j].id \notin Ids /\ job[j].id \in 1 .. gens
<1>0. job[j] \in JobRecords /\ rows \subseteq Row /\ gens <= MaxGens /\ gens \in Nat
  BY RoutingAssumption DEF Shape
<1>1. job[j].id \in 1 .. gens /\ job[j].id \notin Ids
  BY DEF IdInv, Running, Commit
<1>2. Made(j) \in Row
  BY <1>0, <1>1, RoutingAssumption DEF Made, Row, JobRecords
<1>3. rows' = {Kept(r, j) : r \in rows} \cup {Made(j)}
  BY DEF Commit, Kept, Made
<1>4. \A r \in rows : /\ Kept(r, j) \in Row /\ Kept(r, j).id = r.id
                      /\ Kept(r, j).version = r.version /\ Kept(r, j).full = r.full
                      /\ Kept(r, j).routes = r.routes
                      /\ Kept(r, j).current <=> r.current /\ r.id \notin job[j].marked
  BY <1>0 DEF Kept, Row
<1>5. Ids' = Ids \cup {job[j].id}
  <2>1. Made(j).id = job[j].id
    BY DEF Made
  <2>2. Ids' = {s.id : s \in rows'}
    BY DEF Ids
  <2>3. ASSUME NEW i \in Ids' PROVE i \in Ids \cup {job[j].id}
    <3>1. PICK s \in rows' : i = s.id
      BY <2>2, <2>3
    <3> QED BY <1>3, <1>4, <2>1, <3>1 DEF Ids
  <2>4. ASSUME NEW i \in Ids PROVE i \in Ids'
    <3>1. PICK r \in rows : i = r.id
      BY DEF Ids
    <3> QED BY <1>3, <1>4, <2>2, <3>1
  <2>5. job[j].id \in Ids'
    BY <1>3, <2>1, <2>2
  <2> QED BY <2>3, <2>4, <2>5
<1> QED BY <1>1, <1>2, <1>3, <1>4, <1>5

LEMMA CommitStep ==
    ASSUME RoutingInv, NEW j \in Jobs, Commit(j)
    PROVE  RoutingInv'
PROOF
<1> USE DEF RoutingInv
<1>1. Sets(j, [job[j] EXCEPT !.pc = "done"])
  BY CommitSets
<1>2. /\ \A k \in Jobs \ {j} : job'[k] = job[k]
      /\ job'[j].pc = "done" /\ job'[j].id = job[j].id /\ job'[j].version = job[j].version
      /\ (job'[j].fresh <=> job[j].fresh)
  <2>1. job[j] \in JobRecords
    BY DEF Shape
  <2> QED BY <1>1, <2>1 DEF Sets, JobRecords
<1>3. Running' = Running /\ j \in Running /\ job[j].pc = "commit"
  BY <1>2 DEF Running, Commit
<1>4. UNCHANGED <<mode, prefs, rules, custom, gens, edits, failures, raced, gone>>
  BY DEF Commit
<1>r. Ids' = Ids \cup {job[j].id} /\ job[j].id \notin Ids /\ job[j].id \in 1 .. gens
      /\ Made(j) \in rows' /\ Made(j).current
  BY CommitRows DEF Made
<1>s. Shape'
  <2>1. saved' \in BOOLEAN
    BY DEF Commit, Shape, JobRecords
  <2> QED BY <1>1, <1>4, <2>1, CommitRows DEF Shape, Sets
<1>i. IdInv'
  <2>1. Ids' \subseteq 1 .. gens
    BY <1>r DEF IdInv
  <2>2. \A r, s \in rows' : r.id = s.id => r = s
    <3> SUFFICES ASSUME NEW r \in rows', NEW s \in rows', r.id = s.id PROVE r = s
      OBVIOUS
    <3>1. \A x \in rows : Kept(x, j).id = x.id /\ x.id # Made(j).id
      BY CommitRows DEF Ids, Made
    <3>2. CASE r = Made(j) \/ s = Made(j)
      BY <3>1, <3>2, CommitRows
    <3>3. CASE r # Made(j) /\ s # Made(j)
      <4>1. PICK x \in rows, y \in rows : r = Kept(x, j) /\ s = Kept(y, j)
        BY <3>3, CommitRows
      <4> QED BY <3>1, <4>1 DEF IdInv
    <3> QED BY <3>2, <3>3
  <2>3. \A k \in Running' : job'[k].id = job[k].id
    BY <1>2, <1>3 DEF Running
  <2>4. \A k \in Jobs : job'[k].pc \notin {"none", "done"} => job'[k].id \notin Ids'
    <3>1. \A k \in Jobs : job'[k].pc \notin {"none", "done"} =>
             k # j /\ k \in Running /\ job[k].id \notin Ids /\ job[k].id # job[j].id
      BY <1>2, <1>3 DEF IdInv, Running
    <3> QED BY <1>2, <3>1, CommitRows
  <2> QED BY <1>3, <1>4, <2>1, <2>2, <2>3, <2>4 DEF IdInv
<1>v. VersionInv'
  <2>1. IsFiniteSet(Ids') /\ Cardinality(Ids') = Cardinality(Ids) + 1 /\ Cardinality(Ids) \in Nat
    BY <1>r, FS_AddElement, FS_CardinalityType DEF VersionInv
  <2>2. \A r \in rows' : r.version <= Cardinality(Ids')
    <3> TAKE s \in rows'
    <3>1. CASE s = Made(j)
      BY <2>1, <3>1 DEF VersionInv, Made
    <3>2. CASE \E r \in rows : s = Kept(r, j)
      <4>1. PICK r \in rows : s = Kept(r, j)
        BY <3>2
      <4>2. s.version = r.version /\ r.version \in Nat /\ r.version <= Cardinality(Ids)
        BY <4>1, CommitRows DEF VersionInv, Shape, Row
      <4> QED BY <2>1, <4>2
    <3> QED BY <3>1, <3>2, CommitRows
  <2>3. \A k \in Jobs : job'[k].version <= Cardinality(Ids') /\ job[k].version \in Nat
    <3>1. \A k \in Jobs : job'[k].version = job[k].version /\ job[k].version \in Nat
      BY <1>2 DEF Shape, JobRecords
    <3> QED BY <2>1, <3>1 DEF VersionInv
  <2>4. \A k \in Jobs : job'[k].version \in Nat
    BY <1>s DEF Shape, JobRecords
  <2> QED BY <2>1, <2>2, <2>3, <2>4 DEF VersionInv
<1>c. CurrentInv'
  <2>1. Current' # {}
    BY <1>r DEF Current
  <2>2. ASSUME ~raced
        PROVE  /\ \A r \in Current' : \A s \in rows' : r = s \/ r.version > s.version
               /\ \A k, l \in Running : k = l
               /\ \A k \in Jobs : job'[k].pc \notin {"mark", "lock", "commit"}
    <3>1. \A k, l \in Running : k = l
      BY <2>2 DEF CurrentInv
    <3>2. \A k \in Jobs : job'[k].pc \notin {"mark", "lock", "commit"}
      BY <1>2, <1>3, <3>1 DEF Running
    <3>3. job[j].marked = {s.id : s \in Current} /\ \A s \in rows : s.version < job[j].version
      BY <1>3, <2>2 DEF CurrentInv
    <3>4. \A r \in rows : ~Kept(r, j).current
      BY <3>3, CommitRows DEF Current
    <3>5. \A r \in Current' : r = Made(j)
      BY <3>4, CommitRows DEF Current
    <3>6. \A s \in rows' : s = Made(j) \/ Made(j).version > s.version
      <4> TAKE s \in rows'
      <4>1. CASE \E r \in rows : s = Kept(r, j)
        <5>1. PICK r \in rows : s = Kept(r, j)
          BY <4>1
        <5>2. s.version = r.version /\ r.version \in Nat /\ job[j].version \in Nat
          BY <5>1, CommitRows DEF Shape, Row, JobRecords
        <5> QED BY <3>3, <5>2 DEF Made
      <4> QED BY <4>1, CommitRows
    <3> QED BY <3>1, <3>2, <3>5, <3>6
  <2> QED BY <1>3, <1>4, <2>1, <2>2 DEF CurrentInv, Newest
<1>f. FreshInv'
  <2>1. ~saved' => mode' = "full_vpn"
    BY <1>4 DEF Commit, FreshInv
  <2>2. Effective' = Effective /\ \A f, x : Exact(f, x)' <=> Exact(f, x)
    BY <1>4 DEF Effective, Exact
  <2>3. ASSUME NEW k \in Jobs, k # j, job[k].fresh, job[k].pc = "done"
        PROVE  \E r \in rows' : r.id = job[k].id /\ Exact(r.full, r.routes)
    <3>1. PICK r \in rows : r.id = job[k].id /\ Exact(r.full, r.routes)
      BY <2>3 DEF FreshInv
    <3>2. /\ Kept(r, j) \in rows' /\ Kept(r, j).id = r.id
          /\ Kept(r, j).full = r.full /\ Kept(r, j).routes = r.routes
      BY CommitRows
    <3> QED BY <3>1, <3>2
  <2>4. ASSUME job[j].fresh
        PROVE  \E r \in rows' : r.id = job[j].id /\ Exact(r.full, r.routes)
    <3>1. Exact(job[j].full, job[j].routes)
      BY <1>3, <2>4 DEF FreshInv
    <3> QED BY <3>1, CommitRows DEF Made
  <2>5. ASSUME NEW k \in Jobs, job'[k].fresh
        PROVE  /\ job'[k].pc \in {"rules", "resolve"} => mode' = "smart_vpn"
               /\ job'[k].pc = "resolve" => job'[k].wanted = Effective
               /\ job'[k].pc \in {"supersede", "mark", "lock", "commit"} =>
                    Exact(job'[k].full, job'[k].routes)
               /\ job'[k].pc = "done"
                  => \E r \in rows' : r.id = job'[k].id /\ Exact(r.full, r.routes)
    <3>1. CASE k = j
      BY <1>2, <2>4, <2>5, <3>1
    <3>2. CASE k # j
      BY <1>2, <1>4, <2>3, <2>5, <3>2 DEF FreshInv
    <3> QED BY <3>1, <3>2
  <2> QED BY <2>1, <2>2, <2>5 DEF FreshInv
<1> QED BY <1>s, <1>i, <1>v, <1>c, <1>f

-----------------------------------------------------------------------------
(* Every step. *)

LEMMA RegenerateStep ==
    ASSUME RoutingInv, NEW j \in Jobs, Regenerate(j)
    PROVE  RoutingInv'
PROOF
<1> USE DEF RoutingInv
<1>0. job[j] \in JobRecords /\ job[j].version \in Nat /\ Cardinality(Ids) \in Nat
  BY FS_CardinalityType DEF Shape, JobRecords, VersionInv
<1>a. ASSUME Abort(j), job[j].pc # "none" PROVE RoutingInv'
  <2>1. Sets(j, NoJob) /\ UNCHANGED <<settings, rows, gens, edits, failures, raced, gone>>
    BY <1>a, AbortSets DEF Abort
  <2>2. NoJob.pc = "none" /\ NoJob.fresh = FALSE
    BY DEF NoJob
  <2>3. IdInv' /\ VersionInv' /\ CurrentInv'
    BY <1>a, <2>1, <2>2, ReadKeeps
  <2>4. FreshInv'
    BY <2>1, <2>2, FreshKeeps
  <2> QED BY <2>1, <2>3, <2>4 DEF Shape, Sets, settings
<1>1. CASE Start(j)
  <2> DEFINE r == [NoJob EXCEPT !.pc = IF saved THEN "mode" ELSE "create", !.id = gens',
                                !.fresh = TRUE]
  <2>1. Sets(j, r) /\ gens' \in 1 .. MaxGens /\ gens' = gens + 1 /\ gens \in Nat
    BY <1>1, StartSets DEF Start, Shape
  <2>2. /\ r.pc \in {"mode", "create"} /\ r.id = gens' /\ r.version = 0
        /\ (r.pc = "create" <=> ~saved)
    BY DEF NoJob
  <2> HIDE DEF r
  <2>3. /\ job[j].pc = "none" /\ raced' = (raced \/ Running # {})
        /\ UNCHANGED <<settings, rows, edits, failures, gone>>
    BY <1>1 DEF Start
  <2>4. Ids' = Ids /\ Current' = Current /\ Running' = Running \cup {j} /\ j \notin Running
    BY <2>1, <2>2, <2>3 DEF Ids, Current, Running, Sets
  <2>5. IdInv'
    <3>1. \A k \in Running : job'[k] = job[k] /\ job[k].id \in 1 .. gens
      BY <2>1, <2>4 DEF IdInv, Sets, Running
    <3>2. job'[j].id = gens + 1 /\ job'[j].pc # "done"
      BY <2>1, <2>2 DEF Sets
    <3>3. \A k, l \in Running' : job'[k].id = job'[l].id => k = l
      BY <2>1, <2>4, <3>1, <3>2 DEF IdInv
    <3>4. \A k \in Running' : job'[k].id \in 1 .. gens'
      BY <2>1, <2>4, <3>1, <3>2
    <3>5. Ids \subseteq 1 .. gens' /\ gens + 1 \notin Ids
      BY <2>1 DEF IdInv
    <3>6. \A k \in Jobs : job'[k].pc \notin {"none", "done"} => job'[k].id \notin Ids
      BY <2>1, <3>2, <3>5 DEF IdInv, Sets
    <3> QED BY <2>3, <2>4, <3>3, <3>4, <3>5, <3>6 DEF IdInv
  <2>6. VersionInv'
    BY <1>0, <2>1, <2>2, <2>3, <2>4 DEF VersionInv, Sets
  <2>7. CurrentInv'
    <3>1. ~raced' => ~raced /\ Running = {}
      BY <2>3 DEF Shape
    <3>2. Running = {} => \A k \in Jobs : job'[k].pc \notin {"mark", "lock", "commit"}
      BY <2>1, <2>2 DEF Running, Sets
    <3> QED BY <2>3, <2>4, <3>1, <3>2 DEF CurrentInv, Newest
  <2>8. FreshInv'
    BY <2>1, <2>2, <2>3, FreshKeeps
  <2>9. Shape'
    BY <2>1, <2>3 DEF Shape, Sets, settings
  <2> QED BY <2>5, <2>6, <2>7, <2>8, <2>9
(* A read that goes on with a record of the same id. *)
<1>b. ASSUME NEW r, Sets(j, r), UNCHANGED <<settings, rows, gens, edits, raced, gone>>,
             failures' \in 0 .. MaxFailures, job[j].pc \notin {"none", "done"},
             r.pc \notin {"none", "done"}, r.id = job[j].id, r.version <= Cardinality(Ids) + 1,
             ~raced =>
               /\ r.pc \in {"mark", "lock", "commit"} => \A s \in rows : s.version < r.version
               /\ r.pc = "lock" => r.old = {s.id : s \in Current}
               /\ r.pc = "commit" => r.marked = {s.id : s \in Current},
             r.fresh =>
               /\ r.pc \in {"rules", "resolve"} => mode = "smart_vpn"
               /\ r.pc = "resolve" => r.wanted = Effective
               /\ r.pc \in {"supersede", "mark", "lock", "commit"} => Exact(r.full, r.routes)
      PROVE RoutingInv'
  <2>1. IdInv' /\ VersionInv' /\ CurrentInv'
    BY <1>b, ReadKeeps
  <2>2. FreshInv'
    BY <1>b, FreshKeeps
  <2> QED BY <1>b, <2>1, <2>2 DEF Shape, Sets, settings
<1>f. failures' = failures => failures' \in 0 .. MaxFailures
  BY DEF Shape
<1>2. CASE CreateSettings(j)
  <2> DEFINE r == [job[j] EXCEPT !.pc = "supersede", !.creates = TRUE, !.full = TRUE]
  <2>1. CASE saved
    BY <1>2, <1>a, <2>1 DEF CreateSettings
  <2>2. CASE ~saved
    <3>1. Sets(j, r)
      BY <1>2, <2>2, CreateSets
    <3>2. r.pc = "supersede" /\ r.id = job[j].id /\ r.version = job[j].version /\ r.full
      BY <1>0 DEF JobRecords
    <3>3. mode = "full_vpn"
      BY <2>2 DEF FreshInv
    <3> HIDE DEF r
    <3> QED BY <1>2, <1>b, <1>f, <2>2, <3>1, <3>2, <3>3 DEF CreateSettings, VersionInv, Exact
  <2> QED BY <2>1, <2>2
<1>3. CASE ReadMode(j)
  <2> DEFINE r == [job[j] EXCEPT !.mode = mode, !.full = mode = "full_vpn",
                                 !.pc = IF mode = "full_vpn" THEN "supersede" ELSE "rules"]
  <2>1. Sets(j, r)
    BY <1>3, ModeSets
  <2>2. /\ r.pc = IF mode = "full_vpn" THEN "supersede" ELSE "rules"
        /\ r.id = job[j].id /\ r.version = job[j].version /\ (r.full <=> mode = "full_vpn")
    BY <1>0 DEF JobRecords
  <2>3. mode \in Modes
    BY DEF Shape
  <2> HIDE DEF r
  <2> QED BY <1>3, <1>b, <1>f, <2>1, <2>2, <2>3 DEF ReadMode, VersionInv, Exact, Modes
<1>4. CASE ReadRules(j)
  <2> DEFINE r == [job[j] EXCEPT !.pc = "resolve", !.wanted = Effective]
  <2>1. Sets(j, r)
    BY <1>4, RulesSets
  <2>2. /\ r.pc = "resolve" /\ r.id = job[j].id /\ r.version = job[j].version
        /\ r.wanted = Effective /\ (r.fresh <=> job[j].fresh)
    BY <1>0 DEF JobRecords
  <2>3. job[j].fresh => mode = "smart_vpn"
    BY <1>4 DEF FreshInv, ReadRules
  <2> HIDE DEF r
  <2> QED BY <1>4, <1>b, <1>f, <2>1, <2>2, <2>3 DEF ReadRules, VersionInv
<1>5. CASE Resolve(j)
  <2>1. PICK failed \in SUBSET (job[j].wanted \ gone) :
          LET routes == job[j].wanted \ (gone \cup failed) IN
          /\ failures + Cardinality(failed) <= MaxFailures
          /\ failures' = failures + Cardinality(failed)
          /\ Advance(j, [job[j] EXCEPT !.pc = "supersede", !.routes = routes,
                                       !.full = FallsBack(routes),
                                       !.fresh = job[j].fresh /\ failed = {}])
    BY <1>5 DEF Resolve
  <2> DEFINE routes == job[j].wanted \ (gone \cup failed)
             r == [job[j] EXCEPT !.pc = "supersede", !.routes = routes, !.full = routes = {},
                                 !.fresh = job[j].fresh /\ failed = {}]
  <2>2. Sets(j, r)
    BY <2>1, ResolveSets
  <2>3. /\ r.pc = "supersede" /\ r.id = job[j].id /\ r.version = job[j].version
        /\ r.routes = routes /\ (r.full <=> routes = {})
        /\ (r.fresh <=> job[j].fresh /\ failed = {})
    BY <1>0 DEF JobRecords
  <2>4. failures' \in 0 .. MaxFailures
    <3>1. failed \subseteq Domains
      BY <1>0 DEF JobRecords
    <3>2. Cardinality(failed) \in Nat
      BY <3>1, RoutingAssumption, FS_Subset, FS_CardinalityType
    <3> QED BY <2>1, <3>2 DEF Shape
  <2>5. r.fresh => Exact(r.full, r.routes)
    <3>1. job[j].fresh => mode = "smart_vpn" /\ job[j].wanted = Effective
      BY <1>5 DEF FreshInv, Resolve
    <3> QED BY <2>3, <3>1 DEF Exact
  <2>6. UNCHANGED <<settings, rows, gens, edits, raced, gone>> /\ job[j].pc = "resolve"
    BY <1>5 DEF Resolve
  <2> HIDE DEF r, routes
  <2> QED BY <1>b, <2>2, <2>3, <2>4, <2>5, <2>6 DEF VersionInv
<1>6. CASE ReadCurrent(j)
  <2> DEFINE r == [job[j] EXCEPT !.pc = "mark", !.version = NextVersion]
  <2>1. CASE Cardinality(Current) > 1
    BY <1>6, <1>a, <2>1 DEF ReadCurrent
  <2>2. CASE ~(Cardinality(Current) > 1)
    <3>1. Sets(j, r) /\ NextVersion \in Nat
      BY <1>6, <2>2, CurrentSets
    <3>2. /\ r.pc = "mark" /\ r.id = job[j].id /\ r.version = NextVersion
          /\ (r.fresh <=> job[j].fresh) /\ (r.full <=> job[j].full) /\ r.routes = job[j].routes
      BY <1>0 DEF JobRecords
    <3>3. NextVersion <= Cardinality(Ids) + 1
      BY <1>0 DEF NextVersion, Current, VersionInv, Shape, Row
    <3>4. ~raced => \A s \in rows : s.version < NextVersion
      <4> SUFFICES ASSUME ~raced, NEW s \in rows PROVE s.version < NextVersion
        OBVIOUS
      <4>1. Current # {} /\ \A x \in Current : Newest(x)
        BY DEF CurrentInv
      <4>2. PICK x \in Current : NextVersion = 1 + x.version
        BY <4>1 DEF NextVersion
      <4>3. x.version \in Nat /\ s.version \in Nat
        BY DEF Current, Shape, Row
      <4> QED BY <4>1, <4>2, <4>3 DEF Newest
    <3>5. job[j].fresh => Exact(job[j].full, job[j].routes)
      BY <1>6 DEF FreshInv, ReadCurrent
    <3>6. Exact(r.full, r.routes) <=> Exact(job[j].full, job[j].routes)
      BY <3>2 DEF Exact
    <3> HIDE DEF r
    <3> QED BY <1>6, <1>b, <1>f, <2>2, <3>1, <3>2, <3>3, <3>4, <3>5, <3>6 DEF ReadCurrent
  <2> QED BY <2>1, <2>2
<1>7. CASE MarkSuperseded(j)
  <2> DEFINE r == [job[j] EXCEPT !.pc = "lock", !.old = {s.id : s \in Current}]
  <2>1. Sets(j, r)
    BY <1>7, MarkSets
  <2>2. /\ r.pc = "lock" /\ r.id = job[j].id /\ r.version = job[j].version
        /\ r.old = {s.id : s \in Current}
        /\ (r.fresh <=> job[j].fresh) /\ (r.full <=> job[j].full) /\ r.routes = job[j].routes
    BY <1>0 DEF JobRecords
  <2>3. job[j].fresh => Exact(job[j].full, job[j].routes)
    BY <1>7 DEF FreshInv, MarkSuperseded
  <2>4. Exact(r.full, r.routes) <=> Exact(job[j].full, job[j].routes)
    BY <2>2 DEF Exact
  <2>5. ~raced => \A s \in rows : s.version < job[j].version
    BY <1>7 DEF CurrentInv, MarkSuperseded
  <2> HIDE DEF r
  <2> QED BY <1>7, <1>b, <1>f, <2>1, <2>2, <2>3, <2>4, <2>5 DEF MarkSuperseded, VersionInv
<1>8. CASE LockRows(j)
  <2> DEFINE r == [job[j] EXCEPT !.pc = "commit", !.marked = job[j].old \cap {s.id : s \in Current}]
  <2>1. Sets(j, r)
    BY <1>8, LockSets
  <2>2. /\ r.pc = "commit" /\ r.id = job[j].id /\ r.version = job[j].version
        /\ r.marked = job[j].old \cap {s.id : s \in Current}
        /\ (r.fresh <=> job[j].fresh) /\ (r.full <=> job[j].full) /\ r.routes = job[j].routes
    BY <1>0 DEF JobRecords
  <2>3. job[j].fresh => Exact(job[j].full, job[j].routes)
    BY <1>8 DEF FreshInv, LockRows
  <2>4. Exact(r.full, r.routes) <=> Exact(job[j].full, job[j].routes)
    BY <2>2 DEF Exact
  <2>5. ~raced => /\ \A s \in rows : s.version < job[j].version
                  /\ job[j].old = {s.id : s \in Current}
    BY <1>8 DEF CurrentInv, LockRows
  <2> HIDE DEF r
  <2> QED BY <1>8, <1>b, <1>f, <2>1, <2>2, <2>3, <2>4, <2>5 DEF LockRows, VersionInv
<1>9. CASE Commit(j)
  BY <1>9, CommitStep
<1>10. CASE Fail(j)
  <2>1. job' = [job EXCEPT ![j] = NoJob] /\ UNCHANGED <<settings, rows, gens, edits, raced, gone>>
    BY <1>10 DEF Fail
  <2>2. Sets(j, NoJob) /\ NoJob.pc = "none" /\ NoJob.fresh = FALSE
    BY <2>1, NoJobRecord, Update DEF NoJob
  <2>3. failures' \in 0 .. MaxFailures
    BY <1>10, RoutingAssumption DEF Fail, Shape
  <2>4. IdInv' /\ VersionInv' /\ CurrentInv'
    BY <1>10, <2>1, <2>2, ReadKeeps DEF Fail
  <2>5. FreshInv'
    BY <2>1, <2>2, FreshKeeps
  <2> QED BY <2>1, <2>2, <2>3, <2>4, <2>5 DEF Shape, Sets, settings
<1>11. CASE Finish(j)
  BY <1>11, <1>a DEF Finish
<1> QED
  BY <1>1, <1>2, <1>3, <1>4, <1>5, <1>6, <1>7, <1>8, <1>9, <1>10, <1>11 DEF Regenerate

LEMMA RoutingStep ==
    ASSUME RoutingInv, [RoutingNext]_routingVars
    PROVE  RoutingInv'
PROOF
<1>1. CASE UNCHANGED routingVars
  <2>1. Ids' = Ids /\ Current' = Current /\ Running' = Running /\ Effective' = Effective
    BY <1>1 DEF routingVars, settings, Ids, Current, Running, Effective
  <2>2. Shape'
    BY <1>1 DEF routingVars, settings, RoutingInv, Shape
  <2>3. IdInv' /\ VersionInv' /\ CurrentInv'
    BY <1>1, <2>1 DEF routingVars, RoutingInv, IdInv, VersionInv, CurrentInv, Newest
  <2>4. FreshInv'
    BY <1>1, <2>1 DEF routingVars, settings, RoutingInv, FreshInv, Exact
  <2> QED BY <2>2, <2>3, <2>4 DEF RoutingInv
<1> QED BY <1>1, SettingsStep, RegenerateStep DEF RoutingNext

-----------------------------------------------------------------------------
(* The theorems. *)

LEMMA UntouchedShape ==
    ASSUME UntouchedSettings, saved \in BOOLEAN, rows \subseteq Row, gens \in 0 .. MaxGens
    PROVE  Shape /\ Running = {} /\ \A j \in Jobs : job[j] = NoJob
<1>1. rules \in [Catalogue -> Routes]
  BY DEF UntouchedSettings, Routes
<1>2. job \in [Jobs -> JobRecords]
  BY NoJobRecord DEF UntouchedSettings
<1>3. custom \in [Domains -> Routes]
  BY DEF UntouchedSettings, Routes
<1>4. Running = {}
  BY DEF UntouchedSettings, Running, NoJob
<1>5. mode \in Modes /\ prefs \subseteq Categories /\ edits \in 0 .. MaxEdits
      /\ failures \in 0 .. MaxFailures /\ raced \in BOOLEAN
  <2>1. mode = "full_vpn" /\ prefs = {} /\ edits = 0 /\ failures = 0 /\ raced = FALSE
    BY DEF UntouchedSettings
  <2>2. edits \in 0 .. MaxEdits /\ failures \in 0 .. MaxFailures
    BY <2>1, RoutingAssumption
  <2>3. mode \in Modes /\ raced \in BOOLEAN /\ prefs \subseteq Categories
    BY <2>1, Zenon DEF Modes
  <2> QED BY <2>2, <2>3
<1>6. \A j \in Jobs : job[j] = NoJob
  BY DEF UntouchedSettings
<1>7. Shape
  BY <1>1, <1>2, <1>3, <1>5 DEF Shape
<1> QED BY <1>4, <1>6, <1>7

LEMMA RoutingStart == RoutingInit => RoutingInv
<1> SUFFICES ASSUME RoutingInit PROVE RoutingInv
  OBVIOUS
<1>1. Shape /\ Running = {} /\ \A j \in Jobs : job[j] = NoJob
  BY UntouchedShape, RoutingAssumption DEF RoutingInit
<1>2. NoJob.pc = "none" /\ NoJob.version = 0 /\ NoJob.fresh = FALSE
  BY DEF NoJob
<1>3. Ids = {} /\ Current = {} /\ rows = {} /\ mode = "full_vpn"
  BY DEF RoutingInit, UntouchedSettings, Ids, Current
<1>4. IdInv
  BY <1>1, <1>2, <1>3 DEF IdInv
<1>5. VersionInv
  BY <1>1, <1>2, <1>3, FS_EmptySet DEF VersionInv
<1>6. CurrentInv /\ FreshInv
  BY <1>1, <1>2, <1>3 DEF CurrentInv, FreshInv
<1> QED BY <1>1, <1>4, <1>5, <1>6 DEF RoutingInv

LEMMA Inductive == RoutingSpec => []RoutingInv
PROOF
<1>1. RoutingInv /\ [RoutingNext]_routingVars => RoutingInv'
  BY RoutingStep
<1> QED BY <1>1, RoutingStart, PTL DEF RoutingSpec

(* The types, with the bound on versions, follow from the invariant.       *)
LEMMA RoutingTyped == RoutingInv => RoutingTypeOK
<1> SUFFICES ASSUME RoutingInv PROVE RoutingTypeOK
  OBVIOUS
<1> USE DEF RoutingInv
<1>1. ASSUME NEW j \in Jobs PROVE job[j].version \in 0 .. gens
  <2>1. IsFiniteSet(1 .. gens) /\ Cardinality(1 .. gens) = gens /\ gens \in Nat
    BY FS_Interval DEF Shape
  <2>2. job[j].version \in Nat /\ Cardinality(Ids) \in Nat
    BY FS_CardinalityType DEF Shape, JobRecords, VersionInv
  <2>3. CASE job[j].pc \in {"none", "done"}
    <3>1. Cardinality(Ids) <= gens
      <4>1. Ids \in SUBSET (1 .. gens)
        BY DEF IdInv
      <4> QED BY <2>1, <4>1, FS_Subset
    <3> QED BY <2>1, <2>2, <2>3, <3>1 DEF VersionInv
  <2>4. CASE job[j].pc \notin {"none", "done"}
    <3>1. job[j].id \in 1 .. gens /\ job[j].id \notin Ids
      BY <2>4 DEF IdInv, Running
    <3>2. Cardinality(Ids \cup {job[j].id}) = Cardinality(Ids) + 1
      BY <3>1, FS_AddElement DEF VersionInv
    <3>3. Cardinality(Ids \cup {job[j].id}) <= gens
      <4>1. Ids \cup {job[j].id} \in SUBSET (1 .. gens)
        BY <3>1 DEF IdInv
      <4> QED BY <2>1, <4>1, FS_Subset
    <3> QED BY <2>1, <2>2, <3>2, <3>3 DEF VersionInv
  <2> QED BY <2>3, <2>4
<1>2. \A j \in Jobs : /\ job[j].wanted \subseteq Domains /\ job[j].routes \subseteq Domains
                      /\ job[j].marked \subseteq 1 .. MaxGens
  BY DEF Shape, JobRecords
<1> QED BY <1>1, <1>2, RoutingAssumption DEF RoutingTypeOK, Shape

(* Through failing and overlapping regenerations a device that has a       *)
(* profile keeps a current one; unless they overlapped it is the only one  *)
(* and the newest.                                                         *)
THEOREM OneCurrent == RoutingSpec => []CurrentProfile
PROOF
<1>1. RoutingInv => CurrentProfile
  BY DEF RoutingInv, CurrentInv, CurrentProfile, Newest
<1> QED BY <1>1, Inductive, PTL

(* regenerate_profile commits exactly what the settings ask for if neither *)
(* they nor the answers of the DNS changed while it ran.                   *)
THEOREM FreshExact == RoutingSpec => []FreshProfileIsExact
PROOF
<1> DEFINE asked == {d \in Domains : \/ custom[d] = "vpn"
                                     \/ d \in Catalogue /\ rules[d] = "vpn"
                                                        /\ CategoryOf[d] \in prefs}
           r(j) == CHOOSE x \in rows : x.id = job[j].id
<1>1. ASSUME RoutingInv, NEW j \in Jobs, job[j].pc = "done", job[j].fresh
      PROVE  IF mode = "full_vpn" \/ asked \cap gone = asked THEN r(j).full
             ELSE ~r(j).full /\ asked \ gone \subseteq r(j).routes /\ r(j).routes \subseteq asked
  <2>1. asked = Effective
    BY RoutingAssumption DEF Effective
  <2>2. PICK s \in rows : s.id = job[j].id /\ Exact(s.full, s.routes)
    BY <1>1 DEF RoutingInv, FreshInv
  <2>3. r(j) = s
    BY <1>1, <2>2 DEF RoutingInv, IdInv
  <2> HIDE DEF asked, r
  <2>4. asked \cap gone = asked <=> Effective \subseteq gone
    BY <2>1
  <2> QED BY <2>1, <2>2, <2>3, <2>4 DEF Exact
<1>2. RoutingInv => FreshProfileIsExact
  BY <1>1 DEF FreshProfileIsExact
<1> QED BY <1>2, Inductive, PTL
=============================================================================
