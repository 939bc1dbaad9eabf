-------------------------- MODULE JobCatalogProofs --------------------------
(***************************************************************************)
(* Names, owners and references of the tables jobs, job_dependencies and     *)
(* job_runs, for every number of users, names, jobs and requests in flight.  *)
(*                                                                         *)
(* The properties are about the committed tables, but a commit writes what   *)
(* its request has read earlier.  The invariant therefore also says what      *)
(* every request in flight may rely on: its job has an id that is not handed  *)
(* out again, it does not depend on itself, the rows it deletes belong to     *)
(* its job, and they are all of them unless another save came in between.    *)
(***************************************************************************)
EXTENDS JobCatalog, TLAPS

FreshJobs == \A j \in JobIds : j >= nextJob => jobs[j] = NoRow

RightUpdate(q) ==
    /\ q.job < nextJob
    /\ q.job \notin q.ups
    /\ \A d \in q.cleared : d[1] = q.job
    /\ ~q.given => q.ups = {} /\ q.cleared = {}
    /\ q.given /\ ~q.raced => Cleared(q.job) \subseteq q.cleared

UpdatesInFlight == \A c \in Clients : req[c].op = "update" => RightUpdate(req[c])

CatalogInv ==
    /\ TypeOK
    /\ FreshJobs
    /\ UpdatesInFlight
    /\ NamesUnique
    /\ RowsJoin
    /\ SavedDependencies
    /\ RunsOpenTheirJobs

-----------------------------------------------------------------------------
\* What kind of request it is decides its fields.
LEMMA RequestFields ==
    ASSUME NEW q \in Request
    PROVE  /\ q.op = "create" =>
                  q.user \in Users /\ q.name \in Names /\ q.ups \in SUBSET JobIds
           /\ q.op = "update" =>
                  /\ q \in [op : {"update"}, job : JobIds, name : Names \cup {NULL},
                            given : BOOLEAN, ups : SUBSET JobIds,
                            cleared : SUBSET (JobIds \X JobIds), raced : BOOLEAN]
                  /\ q.job \in JobIds /\ q.name \in Names \cup {NULL}
                  /\ q.ups \in SUBSET JobIds /\ q.cleared \in SUBSET (JobIds \X JobIds)
                  /\ q.given \in BOOLEAN /\ q.raced \in BOOLEAN
           /\ q.op = "delete" =>
                  q.job \in JobIds /\ q.cleared \in SUBSET (JobIds \X JobIds)
  BY JobCatalogAssumption DEF Request, IdleRequest

\* The job ids, and the rows of an existing job.
LEMMA CatalogTypes ==
    ASSUME CatalogInv
    PROVE  /\ nextJob \in Nat /\ JobIds \subseteq Nat /\ 0 \notin JobIds
           /\ \A j \in Existing : /\ j \in JobIds /\ j < nextJob /\ j # nextJob
                                  /\ jobs[j] \in Job /\ jobs[j].name \in Names
                                  /\ jobs[j].owner \in Users \cup {NULL}
           /\ \A c \in Clients : req[c] \in Request
           /\ \A d \in deps : d[1] \in JobIds /\ d[2] \in JobIds /\ d = <<d[1], d[2]>>
           /\ IdleRequest \in Request /\ IdleRequest.op = NULL
<1>1. nextJob \in Nat /\ JobIds \subseteq Nat /\ 0 \notin JobIds
  BY JobCatalogAssumption DEF CatalogInv, TypeOK, JobIds
<1>2. ASSUME NEW j \in Existing
      PROVE  /\ j \in JobIds /\ j < nextJob /\ j # nextJob
             /\ jobs[j] \in Job /\ jobs[j].name \in Names
             /\ jobs[j].owner \in Users \cup {NULL}
  <2>1. j \in JobIds /\ jobs[j] # NoRow /\ jobs[j] \in Job
    BY DEF CatalogInv, TypeOK, Existing
  <2>2. ~(j >= nextJob)
    BY <2>1 DEF CatalogInv, FreshJobs
  <2>3. j < nextJob /\ j # nextJob
    BY <1>1, <2>1, <2>2
  <2>4. QED
    BY <2>1, <2>3 DEF Job
<1>3. \A c \in Clients : req[c] \in Request
  BY DEF CatalogInv, TypeOK
<1>4. \A d \in deps : d[1] \in JobIds /\ d[2] \in JobIds /\ d = <<d[1], d[2]>>
  BY DEF CatalogInv, TypeOK
<1>5. IdleRequest \in Request /\ IdleRequest.op = NULL
  BY DEF Request, IdleRequest
<1>6. QED
  BY <1>1, <1>2, <1>3, <1>4, <1>5

\* The jobs a list of references means exist, and are not the job itself.
LEMMA ResolvedJobs ==
    ASSUME NEW refs, NEW j
    PROVE  /\ Resolved(refs) \in SUBSET JobIds
           /\ Resolvable(refs, j) => j \notin Resolved(refs)
  BY DEF Resolved, Found, Existing, Resolvable

\* A request that has read and not yet written.
LEMMA RequestLoaded ==
    ASSUME CatalogInv, NEW c \in Clients, NEW new \in Request,
           new.op = "update" => RightUpdate(new),
           req' = [req EXCEPT ![c] = new],
           UNCHANGED <<jobs, nextJob, deps, runs, saved>>
    PROVE  CatalogInv'
<1>1. TypeOK'
  BY DEF CatalogInv, TypeOK
<1>2. FreshJobs' /\ NamesUnique' /\ RowsJoin' /\ RunsOpenTheirJobs'
  BY DEF CatalogInv, FreshJobs, NamesUnique, RowsJoin, RunsOpenTheirJobs, Existing,
         Accessible, Listed
<1>3. SavedDependencies'
  BY DEF CatalogInv, SavedDependencies, DependsOn, Existing
<1>4. UpdatesInFlight'
  <2> SUFFICES ASSUME NEW o \in Clients, req'[o].op = "update"
               PROVE  RightUpdate(req'[o])
    BY DEF UpdatesInFlight, RightUpdate, Cleared
  <2>1. CASE o = c
    BY <2>1 DEF CatalogInv, TypeOK
  <2>2. CASE o # c
    BY <2>2 DEF CatalogInv, TypeOK, UpdatesInFlight
  <2>3. QED
    BY <2>1, <2>2
<1>5. QED
  BY <1>1, <1>2, <1>3, <1>4 DEF CatalogInv

\* An inserted run belongs to a job that exists, and to somebody who can open
\* that job.
LEMMA RunInserted ==
    ASSUME CatalogInv, NEW j \in Existing, NEW owner \in Users \cup {NULL},
           \A u \in Users : u \in Admins \/ owner \in {u, NULL} => Accessible(u, jobs[j]),
           InsertRun(j, owner)
    PROVE  CatalogInv'
<1> DEFINE new == [job |-> j, owner |-> owner]
<1>1. runs' = runs \cup {new} /\ UNCHANGED <<jobs, nextJob, deps, req, saved>>
  BY DEF InsertRun
<1>2. new \in Run /\ new.job = j /\ new.owner = owner
  BY CatalogTypes DEF Run
<1>3. TypeOK'
  BY <1>1, <1>2 DEF CatalogInv, TypeOK
<1>4. FreshJobs' /\ NamesUnique' /\ SavedDependencies'
  BY <1>1 DEF CatalogInv, FreshJobs, NamesUnique, SavedDependencies, DependsOn, Existing
<1>5. UpdatesInFlight'
  BY <1>1 DEF CatalogInv, UpdatesInFlight, RightUpdate, Cleared
<1> HIDE DEF new
<1>6. RowsJoin'
  BY <1>1, <1>2 DEF CatalogInv, RowsJoin, Existing
<1>7. RunsOpenTheirJobs'
  <2> SUFFICES ASSUME NEW r \in runs', NEW u \in Users, Accessible(u, r) \/ Listed(u, r)
               PROVE  Accessible(u, jobs[r.job])
    BY <1>1 DEF RunsOpenTheirJobs, Accessible, Listed
  <2>1. CASE r \in runs
    BY <2>1 DEF CatalogInv, RunsOpenTheirJobs
  <2>2. CASE r = new
    BY <1>2, <2>2 DEF Accessible, Listed
  <2>3. QED
    BY <1>1, <2>1, <2>2
<1>8. QED
  BY <1>3, <1>4, <1>5, <1>6, <1>7 DEF CatalogInv

\* The commit of create_job.
LEMMA JobCreated ==
    ASSUME CatalogInv, NEW c \in Clients, CreateCommit(c)
    PROVE  CatalogInv'
<1>a. /\ nextJob \in Nat /\ JobIds \subseteq Nat /\ 0 \notin JobIds
      /\ \A j \in Existing : /\ j \in JobIds /\ j < nextJob /\ j # nextJob
                             /\ jobs[j] \in Job /\ jobs[j].name \in Names
      /\ req \in [Clients -> Request] /\ IdleRequest \in Request
      /\ IdleRequest.op # "update"
      /\ jobs \in [JobIds -> Job \cup {NoRow}] /\ saved \in [JobIds -> Saved]
      /\ \A d \in deps : d[1] \in JobIds /\ d[2] \in JobIds /\ d = <<d[1], d[2]>>
  BY CatalogTypes, JobCatalogAssumption DEF CatalogInv, TypeOK
<1>b. PICK q \in Request : q = req[c]
  BY <1>a
<1>c. req' = [req EXCEPT ![c] = IdleRequest] /\ runs' = runs /\ q.op = "create"
  BY <1>b DEF CreateCommit
<1>1. CASE UNCHANGED <<jobs, nextJob, deps, saved>>
  BY <1>1, <1>a, <1>c, RequestLoaded
<1>2. CASE /\ nextJob \in JobIds
           /\ ~NameTaken(q.name, Own) /\ q.ups \subseteq Existing
           /\ jobs' = [jobs EXCEPT ![nextJob] = [name |-> q.name, owner |-> q.user]]
           /\ nextJob' = nextJob + 1
           /\ deps' = deps \cup CreatedRows(nextJob, q.ups)
           /\ saved' = [saved EXCEPT ![nextJob].ups = q.ups]
  <2>1. PICK row \in Job : row = [name |-> q.name, owner |-> q.user]
    BY <1>c, RequestFields DEF Job
  <2>2. q.ups \in SUBSET JobIds /\ row # NoRow /\ row.name = q.name
    BY <1>c, <2>1, RequestFields, NoRowAssumption
  <2>3. /\ jobs'[nextJob] = row /\ \A j \in JobIds \ {nextJob} : jobs'[j] = jobs[j]
        /\ nextJob \notin Existing
        /\ Existing' = Existing \cup {nextJob}
    BY <1>2, <1>a, <2>1, <2>2 DEF Existing
  <2>4. deps' = deps \cup ({nextJob} \X q.ups)
    BY <1>2 DEF CreatedRows
  <2>5. TypeOK'
    <3>1. jobs' \in [JobIds -> Job \cup {NoRow}]
      BY <1>2, <1>a, <2>1
    <3>2. nextJob' \in 1..(MaxJobs + 1)
      BY <1>2, <1>a, JobCatalogAssumption DEF JobIds
    <3>3. deps' \subseteq JobIds \X JobIds
      BY <1>2, <2>2, <2>4 DEF CatalogInv, TypeOK
    <3>4. saved' \in [JobIds -> Saved]
      BY <1>2, <1>a, <2>2 DEF Saved
    <3>5. runs' \subseteq Run /\ req' \in [Clients -> Request]
      BY <1>a, <1>c DEF CatalogInv, TypeOK
    <3>6. QED
      BY <3>1, <3>2, <3>3, <3>4, <3>5 DEF TypeOK
  <2>6. FreshJobs'
    BY <1>2, <1>a, <2>3 DEF CatalogInv, FreshJobs
  <2>7. UpdatesInFlight'
    <3> SUFFICES ASSUME NEW o \in Clients, req'[o].op = "update"
                 PROVE  RightUpdate(req[o])'
      BY DEF UpdatesInFlight
    <3>1. o # c /\ req'[o] = req[o] /\ RightUpdate(req[o]) /\ req[o].job \in JobIds
      BY <1>a, <1>c, RequestFields DEF CatalogInv, UpdatesInFlight
    <3>2. req[o].job < nextJob' /\ req[o].job # nextJob
      BY <1>2, <1>a, <3>1 DEF RightUpdate
    <3>3. \A d \in deps' : d[1] = req[o].job => d \in deps
      BY <2>4, <3>2
    <3>4. QED
      BY <3>1, <3>2, <3>3 DEF RightUpdate, Cleared
  <2>8. NamesUnique'
    <3>1. \A j \in Existing : jobs'[j] = jobs[j] /\ jobs[j].name # q.name
      BY <1>2, <1>a, <2>3 DEF NameTaken, Own
    <3>2. QED
      BY <2>2, <2>3, <3>1 DEF CatalogInv, NamesUnique
  <2>9. RowsJoin'
    <3>1. \A d \in deps' : {d[1], d[2]} \subseteq Existing \cup {nextJob} /\ d[1] # d[2]
      <4> SUFFICES ASSUME NEW d \in deps'
                   PROVE  {d[1], d[2]} \subseteq Existing \cup {nextJob} /\ d[1] # d[2]
        OBVIOUS
      <4>1. CASE d \in deps
        BY <4>1 DEF CatalogInv, RowsJoin
      <4>2. CASE d \in {nextJob} \X q.ups
        BY <1>2, <2>3, <4>2
      <4>3. QED
        BY <2>4, <4>1, <4>2
    <3>2. QED
      BY <1>c, <2>3, <3>1 DEF CatalogInv, RowsJoin
  <2>10. SavedDependencies'
    <3> SUFFICES ASSUME NEW j \in Existing'
                 PROVE  /\ saved'[j].ups \subseteq DependsOn(j)'
                        /\ ~saved'[j].raced => DependsOn(j)' = saved'[j].ups
      BY DEF SavedDependencies
    <3>1. CASE j = nextJob
      <4>1. \A d \in deps : d[1] # nextJob
        BY <2>3 DEF CatalogInv, RowsJoin
      <4>2. DependsOn(j)' = q.ups
        BY <2>2, <2>4, <3>1, <4>1 DEF DependsOn
      <4>3. saved'[j].ups = q.ups
        BY <1>2, <1>a, <3>1 DEF Saved
      <4>4. QED
        BY <4>2, <4>3
    <3>2. CASE j # nextJob
      <4>1. j \in Existing /\ saved'[j] = saved[j]
        BY <1>2, <1>a, <2>3, <3>2
      <4>2. DependsOn(j)' = DependsOn(j)
        BY <2>4, <3>2 DEF DependsOn
      <4>3. QED
        BY <4>1, <4>2 DEF CatalogInv, SavedDependencies
    <3>3. QED
      BY <3>1, <3>2
  <2>11. RunsOpenTheirJobs'
    <3>1. \A r \in runs : jobs'[r.job] = jobs[r.job]
      BY <2>3, <1>a DEF CatalogInv, RowsJoin
    <3>2. QED
      BY <1>c, <3>1 DEF CatalogInv, RunsOpenTheirJobs, Accessible, Listed
  <2>12. QED
    BY <2>5, <2>6, <2>7, <2>8, <2>9, <2>10, <2>11 DEF CatalogInv
<1>3. QED
  BY <1>1, <1>2, <1>b DEF CreateCommit

\* The commit of update_job.
LEMMA JobUpdated ==
    ASSUME CatalogInv, NEW c \in Clients, UpdateCommit(c)
    PROVE  CatalogInv'
<1>a. /\ nextJob \in Nat /\ JobIds \subseteq Nat
      /\ \A j \in Existing : /\ j \in JobIds
                             /\ jobs[j] \in Job /\ jobs[j].name \in Names
      /\ req \in [Clients -> Request] /\ IdleRequest \in Request
      /\ IdleRequest.op # "update"
      /\ jobs \in [JobIds -> Job \cup {NoRow}] /\ saved \in [JobIds -> Saved]
      /\ \A d \in deps : d[1] \in JobIds /\ d[2] \in JobIds /\ d = <<d[1], d[2]>>
  BY CatalogTypes, JobCatalogAssumption DEF CatalogInv, TypeOK
<1>b. PICK q \in Request : q = req[c]
  BY <1>a
<1>c. nextJob' = nextJob /\ runs' = runs /\ q.op = "update"
  BY <1>b DEF UpdateCommit
<1>d. /\ q.job \in JobIds /\ q.name \in Names \cup {NULL} /\ q.ups \in SUBSET JobIds
      /\ q.given \in BOOLEAN /\ q.raced \in BOOLEAN /\ RightUpdate(q)
  BY <1>b, <1>c, RequestFields DEF CatalogInv, UpdatesInFlight
<1>1. CASE /\ req' = [req EXCEPT ![c] = IdleRequest]
           /\ UNCHANGED <<jobs, deps, saved>>
  BY <1>1, <1>a, <1>c, RequestLoaded
<1>2. CASE /\ ~UpdateFails(q)
           /\ jobs' = [jobs EXCEPT ![q.job].name = NewName(q)]
           /\ deps' = KeptRows(q) \cup NewRows(q)
           /\ saved' = IF q.given
                       THEN [saved EXCEPT ![q.job] = [ups |-> q.ups, raced |-> q.raced]]
                       ELSE saved
           /\ req' = [o \in Clients |->
                  IF o = c THEN IdleRequest
                  ELSE IF req[o].op = "update" /\ req[o].job = q.job /\ req[o].given /\ q.given
                  THEN [req[o] EXCEPT !.raced = TRUE] ELSE req[o]]
  <2>1. /\ q.job \in Existing /\ q.ups \subseteq Existing
        /\ q.name # NULL => ~NameTaken(q.name, q.job)
    BY <1>2 DEF UpdateFails
  <2>2. PICK name \in Names : name = NewName(q)
    BY <1>a, <1>d, <2>1 DEF NewName
  <2>3. /\ \A i \in JobIds \ {q.job} : jobs'[i] = jobs[i]
        /\ jobs'[q.job] = [jobs[q.job] EXCEPT !.name = name]
    BY <1>2, <1>a, <1>d, <2>2
  <2>4. /\ jobs'[q.job] \in Job /\ jobs'[q.job].name = name
        /\ jobs'[q.job].owner = jobs[q.job].owner
    BY <1>a, <2>1, <2>2, <2>3 DEF Job
  <2>5. Existing' = Existing
    BY <2>1, <2>3, <2>4, NoRowAssumption DEF Existing
  <2>6. deps' = (deps \ q.cleared) \cup ({q.job} \X q.ups)
    BY <1>2 DEF KeptRows, NewRows
  <2>7. \A i \in JobIds \ {q.job} : \A d \in JobIds \X JobIds :
            d[1] = i => (d \in deps' <=> d \in deps)
    BY <1>d, <2>6 DEF RightUpdate
  <2>8. ~q.given => deps' = deps /\ saved' = saved
    BY <1>2, <1>d, <2>6 DEF RightUpdate
  <2>9. TypeOK'
    <3>1. jobs' \in [JobIds -> Job \cup {NoRow}]
      BY <1>2, <1>a, <2>3, <2>4
    <3>2. deps' \subseteq JobIds \X JobIds
      BY <1>d, <2>6 DEF CatalogInv, TypeOK
    <3>3. saved' \in [JobIds -> Saved]
      BY <1>2, <1>a, <1>d DEF Saved
    <3>4. ASSUME NEW o \in Clients, req[o].op = "update"
          PROVE  [req[o] EXCEPT !.raced = TRUE] \in Request
      <4>1. req[o] \in [op : {"update"}, job : JobIds, name : Names \cup {NULL},
                        given : BOOLEAN, ups : SUBSET JobIds,
                        cleared : SUBSET (JobIds \X JobIds), raced : BOOLEAN]
        BY <1>a, <3>4, RequestFields
      <4>2. [req[o] EXCEPT !.raced = TRUE] \in
                       [op : {"update"}, job : JobIds, name : Names \cup {NULL},
                        given : BOOLEAN, ups : SUBSET JobIds,
                        cleared : SUBSET (JobIds \X JobIds), raced : BOOLEAN]
        BY <4>1
      <4>3. QED
        BY <4>2 DEF Request
    <3>5. req' \in [Clients -> Request]
      BY <1>2, <1>a, <3>4
    <3>6. QED
      BY <1>c, <3>1, <3>2, <3>3, <3>5 DEF CatalogInv, TypeOK
  <2>10. FreshJobs'
    BY <1>c, <2>1, <2>3 DEF CatalogInv, FreshJobs, Existing
  <2>11. UpdatesInFlight'
    <3> SUFFICES ASSUME NEW o \in Clients, req'[o].op = "update"
                 PROVE  RightUpdate(req[o])'
      BY DEF UpdatesInFlight
    <3>1. o # c
      BY <1>2, <1>a
    <3>2. /\ req[o].op = "update" /\ RightUpdate(req[o]) /\ req[o].job \in JobIds
          /\ req[o].given \in BOOLEAN /\ req[o].raced \in BOOLEAN
          /\ req'[o].job = req[o].job /\ req'[o].ups = req[o].ups
          /\ req'[o].cleared = req[o].cleared /\ req'[o].given = req[o].given
          /\ \/ req'[o].raced
             \/ req'[o].raced = req[o].raced /\ (req[o].job # q.job \/ ~req[o].given \/ ~q.given)
      <4>1. CASE req[o].op = "update" /\ req[o].job = q.job /\ req[o].given /\ q.given
        <5>1. req[o] \in [op : {"update"}, job : JobIds, name : Names \cup {NULL},
                          given : BOOLEAN, ups : SUBSET JobIds,
                          cleared : SUBSET (JobIds \X JobIds), raced : BOOLEAN]
          BY <1>a, <4>1, RequestFields
        <5>2. req'[o] = [req[o] EXCEPT !.raced = TRUE]
          BY <1>2, <3>1, <4>1
        <5>3. RightUpdate(req[o])
          BY <4>1 DEF CatalogInv, UpdatesInFlight
        <5>4. QED
          BY <4>1, <5>1, <5>2, <5>3
      <4>2. CASE ~(req[o].op = "update" /\ req[o].job = q.job /\ req[o].given /\ q.given)
        <5>1. req'[o] = req[o] /\ req[o].op = "update"
          BY <1>2, <3>1, <4>2
        <5>2. RightUpdate(req[o])
          BY <5>1 DEF CatalogInv, UpdatesInFlight
        <5>3. QED
          BY <1>a, <4>2, <5>1, <5>2, RequestFields
      <4>3. QED
        BY <4>1, <4>2
    <3>3. ASSUME req[o].given, ~req'[o].raced
          PROVE  \A d \in deps' : d[1] = req[o].job => d \in req[o].cleared
      <4>1. \A d \in deps : d[1] = req[o].job => d \in req[o].cleared
        BY <3>2, <3>3 DEF RightUpdate, Cleared
      <4>2. \A d \in deps' : d[1] = req[o].job => d \in deps
        <5>1. CASE req[o].job # q.job
          <6>1. deps' \subseteq JobIds \X JobIds
            BY <2>9 DEF TypeOK
          <6>2. QED
            BY <2>7, <3>2, <5>1, <6>1
        <5>2. CASE ~q.given
          BY <2>8, <5>2
        <5>3. QED
          BY <3>2, <3>3, <5>1, <5>2
      <4>3. QED
        BY <4>1, <4>2
    <3>4. QED
      BY <1>c, <3>2, <3>3 DEF RightUpdate, Cleared
  <2>12. NamesUnique'
    <3>1. \A i \in Existing : i # q.job => jobs'[i] = jobs[i] /\ jobs[i].name # name
      <4>1. CASE q.name = NULL
        BY <2>1, <2>2, <2>3, <4>1, <1>a DEF CatalogInv, NamesUnique, NewName
      <4>2. CASE q.name # NULL
        BY <2>1, <2>2, <2>3, <4>2, <1>a DEF NameTaken, NewName
      <4>3. QED
        BY <4>1, <4>2
    <3>2. QED
      BY <2>4, <2>5, <3>1 DEF CatalogInv, NamesUnique
  <2>13. RowsJoin'
    <3>1. ASSUME NEW d \in deps' PROVE {d[1], d[2]} \subseteq Existing /\ d[1] # d[2]
      <4>1. CASE d \in deps
        BY <4>1 DEF CatalogInv, RowsJoin
      <4>2. CASE d \in {q.job} \X q.ups
        BY <1>d, <2>1, <4>2 DEF RightUpdate
      <4>3. QED
        BY <2>6, <4>1, <4>2
    <3>2. QED
      BY <1>c, <2>5, <3>1 DEF CatalogInv, RowsJoin
  <2>14. SavedDependencies'
    <3> SUFFICES ASSUME NEW j \in Existing
                 PROVE  /\ saved'[j].ups \subseteq DependsOn(j)'
                        /\ ~saved'[j].raced => DependsOn(j)' = saved'[j].ups
      BY <2>5 DEF SavedDependencies
    <3>1. CASE ~q.given
      BY <2>8, <3>1 DEF CatalogInv, SavedDependencies, DependsOn
    <3>2. CASE q.given /\ j # q.job
      <4>1. saved'[j] = saved[j] /\ j \in JobIds
        BY <1>2, <1>a, <3>2
      <4>2. DependsOn(j)' = DependsOn(j)
        <5>1. \A up \in JobIds : <<j, up>> \in deps' <=> <<j, up>> \in deps
          BY <2>7, <3>2, <4>1
        <5>2. QED
          BY <5>1 DEF DependsOn
      <4>3. QED
        BY <4>1, <4>2 DEF CatalogInv, SavedDependencies
    <3>3. CASE q.given /\ j = q.job
      <4>1. saved'[j].ups = q.ups /\ saved'[j].raced = q.raced
        BY <1>2, <1>a, <1>d, <3>3
      <4>2. \A up \in q.ups : <<j, up>> \in deps'
        BY <2>6, <3>3
      <4>3. ~q.raced => \A up \in JobIds : <<j, up>> \in deps' => up \in q.ups
        BY <1>d, <2>6, <3>3 DEF RightUpdate, Cleared
      <4>4. QED
        BY <1>d, <4>1, <4>2, <4>3 DEF DependsOn
    <3>4. QED
      BY <1>d, <3>1, <3>2, <3>3
  <2>15. RunsOpenTheirJobs'
    <3>1. \A r \in runs : jobs'[r.job].owner = jobs[r.job].owner
      BY <1>a, <2>3, <2>4 DEF CatalogInv, RowsJoin
    <3>2. QED
      BY <1>c, <3>1 DEF CatalogInv, RunsOpenTheirJobs, Accessible, Listed
  <2>16. QED
    BY <2>9, <2>10, <2>11, <2>12, <2>13, <2>14, <2>15 DEF CatalogInv
<1>3. QED
  BY <1>1, <1>2, <1>b DEF UpdateCommit

\* The commit of delete_job.
LEMMA JobDeleted ==
    ASSUME CatalogInv, NEW c \in Clients, DeleteCommit(c)
    PROVE  CatalogInv'
<1>a. /\ req \in [Clients -> Request] /\ IdleRequest \in Request
      /\ IdleRequest.op # "update"
      /\ jobs \in [JobIds -> Job \cup {NoRow}] /\ saved \in [JobIds -> Saved]
      /\ \A d \in deps : d[1] \in JobIds /\ d[2] \in JobIds /\ d = <<d[1], d[2]>>
  BY CatalogTypes, JobCatalogAssumption DEF CatalogInv, TypeOK
<1>b. PICK j \in JobIds : j = req[c].job
  BY <1>a, RequestFields DEF DeleteCommit
<1>c. req' = [req EXCEPT ![c] = IdleRequest] /\ nextJob' = nextJob
  BY DEF DeleteCommit
<1>1. CASE UNCHANGED <<jobs, deps, runs, saved>>
  BY <1>1, <1>a, <1>c, RequestLoaded
<1>2. CASE /\ j \in Existing
           /\ jobs' = [jobs EXCEPT ![j] = NoRow]
           /\ deps' = deps \ Touching(j)
           /\ runs' = runs \ RunsOf(j)
           /\ saved' = [i \in JobIds |->
                  IF i = j THEN NotSaved ELSE [saved[i] EXCEPT !.ups = @ \ {j}]]
  <2>1. /\ \A i \in JobIds \ {j} : jobs'[i] = jobs[i]
        /\ jobs'[j] = NoRow
        /\ Existing' = Existing \ {j}
    BY <1>2, <1>a DEF Existing
  <2>2. \A d \in deps' : d \in deps /\ d[1] # j /\ d[2] # j
    BY <1>2 DEF Touching
  <2>3. \A d \in deps : d[1] # j /\ d[2] # j => d \in deps'
    BY <1>2 DEF Touching
  <2>4. \A r \in runs' : r \in runs /\ r.job # j
    BY <1>2 DEF RunsOf
  <2>5. TypeOK'
    <3>1. jobs' \in [JobIds -> Job \cup {NoRow}]
      BY <1>2, <1>a
    <3>2. saved' \in [JobIds -> Saved]
      BY <1>2, <1>a DEF Saved, NotSaved
    <3>3. QED
      BY <1>a, <1>c, <2>2, <2>4, <3>1, <3>2 DEF CatalogInv, TypeOK
  <2>6. FreshJobs'
    BY <1>c, <2>1 DEF CatalogInv, FreshJobs
  <2>7. UpdatesInFlight'
    <3> SUFFICES ASSUME NEW o \in Clients, req'[o].op = "update"
                 PROVE  RightUpdate(req[o])'
      BY DEF UpdatesInFlight
    <3>1. req'[o] = req[o] /\ RightUpdate(req[o])
      BY <1>a, <1>c DEF CatalogInv, UpdatesInFlight
    <3>2. QED
      BY <1>c, <2>2, <3>1 DEF RightUpdate, Cleared
  <2>8. NamesUnique'
    <3>1. \A i \in Existing' : i \in Existing /\ jobs'[i] = jobs[i]
      BY <2>1 DEF Existing
    <3>2. QED
      BY <3>1 DEF CatalogInv, NamesUnique
  <2>9. RowsJoin'
    BY <2>1, <2>2, <2>4 DEF CatalogInv, RowsJoin
  <2>10. SavedDependencies'
    <3> SUFFICES ASSUME NEW i \in Existing'
                 PROVE  /\ saved'[i].ups \subseteq DependsOn(i)'
                        /\ ~saved'[i].raced => DependsOn(i)' = saved'[i].ups
      BY DEF SavedDependencies
    <3>1. i \in Existing /\ i # j /\ i \in JobIds
      BY <2>1 DEF Existing
    <3>2. saved'[i].ups = saved[i].ups \ {j} /\ saved'[i].raced = saved[i].raced
      BY <1>2, <1>a, <3>1 DEF Saved
    <3>3. DependsOn(i)' = DependsOn(i) \ {j}
      BY <2>2, <2>3, <3>1 DEF DependsOn
    <3>4. /\ saved[i].ups \subseteq DependsOn(i)
          /\ ~saved[i].raced => DependsOn(i) = saved[i].ups
      BY <3>1 DEF CatalogInv, SavedDependencies
    <3>5. QED
      BY <3>2, <3>3, <3>4
  <2>11. RunsOpenTheirJobs'
    <3>1. \A r \in runs' : r \in runs /\ jobs'[r.job] = jobs[r.job]
      BY <2>1, <2>4 DEF CatalogInv, RowsJoin, Existing
    <3>2. QED
      BY <3>1 DEF CatalogInv, RunsOpenTheirJobs, Accessible, Listed
  <2>12. QED
    BY <2>5, <2>6, <2>7, <2>8, <2>9, <2>10, <2>11 DEF CatalogInv
<1>3. QED
  BY <1>1, <1>2, <1>b DEF DeleteCommit

\* The database at the start has no dependencies, no runs and no requests.
LEMMA CatalogInit == Init => CatalogInv
<1> SUFFICES ASSUME Init PROVE CatalogInv
  OBVIOUS
<1>1. PICK first \in {NoRow} \cup [name : Names, owner : {NULL}] :
          /\ jobs = [j \in JobIds |-> IF j = 1 THEN first ELSE NoRow]
          /\ nextJob = IF first = NoRow THEN 1 ELSE 2
  BY DEF Init
<1>2. first \in Job \cup {NoRow}
  BY DEF Job
<1>3. /\ deps = {} /\ runs = {} /\ saved = [j \in JobIds |-> NotSaved]
      /\ req = [c \in Clients |-> IdleRequest]
  BY DEF Init
<1>4. TypeOK
  <2>1. IdleRequest \in Request /\ NotSaved \in Saved
    BY DEF Request, NotSaved, Saved
  <2>2. nextJob \in 1..(MaxJobs + 1)
    BY <1>1, JobCatalogAssumption
  <2>3. QED
    BY <1>1, <1>2, <1>3, <2>1, <2>2 DEF TypeOK
<1>5. FreshJobs
  BY <1>1 DEF FreshJobs, JobIds
<1>6. UpdatesInFlight
  BY <1>3, JobCatalogAssumption DEF UpdatesInFlight, IdleRequest
<1>7. NamesUnique
  BY <1>1 DEF NamesUnique, Existing
<1>8. RowsJoin /\ RunsOpenTheirJobs
  BY <1>3 DEF RowsJoin, RunsOpenTheirJobs
<1>9. SavedDependencies
  BY <1>3 DEF SavedDependencies, DependsOn, NotSaved, Existing
<1>10. QED
  BY <1>4, <1>5, <1>6, <1>7, <1>8, <1>9 DEF CatalogInv

\* Every step keeps the invariant.
LEMMA CatalogStep == CatalogInv /\ [Next]_vars => CatalogInv'
<1> SUFFICES ASSUME CatalogInv, [Next]_vars PROVE CatalogInv'
  OBVIOUS
<1>a. /\ \A j \in Existing : j < nextJob /\ jobs[j].owner \in Users \cup {NULL}
      /\ deps \subseteq JobIds \X JobIds
      /\ \A r \in runs : r.job \in Existing /\ r.owner \in Users \cup {NULL}
  BY CatalogTypes DEF CatalogInv, TypeOK, RowsJoin, Run
<1>1. ASSUME NEW c \in Clients, NEW u \in Users, NEW name \in Names, NEW refs \in RefSets,
             CreateLoad(c, u, name, refs)
      PROVE  CatalogInv'
  <2>1. PICK new : new = [op |-> "create", user |-> u, name |-> name, ups |-> Resolved(refs)]
    OBVIOUS
  <2>2. Resolved(refs) \in SUBSET JobIds
    BY ResolvedJobs
  <2>3. new \in Request /\ new.op = "create"
    BY <2>1, <2>2 DEF Request
  <2>4. req' = [req EXCEPT ![c] = new] /\ UNCHANGED <<jobs, nextJob, deps, runs, saved>>
    BY <1>1, <2>1 DEF CreateLoad
  <2>5. QED
    BY <2>3, <2>4, RequestLoaded
<1>2. ASSUME NEW c \in Clients, NEW u \in Users, NEW name \in Names, NEW j \in JobIds,
             NEW refs \in RefSets \cup {Unset}, UpdateLoad(c, u, j, name, refs)
      PROVE  CatalogInv'
  <2>1. PICK new : new = [op |-> "update", job |-> j,
                          name    |-> IF name = jobs[j].name THEN NULL ELSE name,
                          given   |-> refs # Unset,
                          ups     |-> IF refs = Unset THEN {} ELSE Resolved(refs),
                          cleared |-> IF refs = Unset THEN {} ELSE Cleared(j),
                          raced   |-> FALSE]
    OBVIOUS
  <2>2. j < nextJob /\ (refs # Unset => Resolvable(refs, j))
    BY <1>2, <1>a DEF UpdateLoad
  <2>3. Resolved(refs) \in SUBSET JobIds /\ (refs # Unset => j \notin Resolved(refs))
    BY <2>2, ResolvedJobs
  <2>4. Cleared(j) \in SUBSET (JobIds \X JobIds)
    BY <1>a DEF Cleared
  <2>5. new \in Request
    BY <2>1, <2>3, <2>4 DEF Request
  <2>6. /\ new.job = j /\ new.given = (refs # Unset) /\ new.raced = FALSE
        /\ refs = Unset => new.ups = {} /\ new.cleared = {}
        /\ refs # Unset => new.ups = Resolved(refs) /\ new.cleared = Cleared(j)
    BY <2>1
  <2>7. RightUpdate(new)
    BY <2>2, <2>3, <2>6 DEF RightUpdate, Cleared
  <2>8. req' = [req EXCEPT ![c] = new] /\ UNCHANGED <<jobs, nextJob, deps, runs, saved>>
    BY <1>2, <2>1 DEF UpdateLoad
  <2>9. QED
    BY <2>5, <2>7, <2>8, RequestLoaded
<1>3. ASSUME NEW c \in Clients, NEW u \in Users, NEW j \in JobIds, DeleteLoad(c, u, j)
      PROVE  CatalogInv'
  <2>1. PICK new : new = [op |-> "delete", job |-> j, cleared |-> Touching(j)]
    OBVIOUS
  <2>2. Touching(j) \in SUBSET (JobIds \X JobIds)
    BY <1>a DEF Touching
  <2>3. new \in Request /\ new.op = "delete"
    BY <2>1, <2>2 DEF Request
  <2>4. req' = [req EXCEPT ![c] = new] /\ UNCHANGED <<jobs, nextJob, deps, runs, saved>>
    BY <1>3, <2>1 DEF DeleteLoad
  <2>5. QED
    BY <2>3, <2>4, RequestLoaded
<1>4. ASSUME NEW c \in Clients, CreateCommit(c) \/ UpdateCommit(c) \/ DeleteCommit(c)
      PROVE  CatalogInv'
  BY <1>4, JobCreated, JobUpdated, JobDeleted
<1>5. ASSUME NEW u \in Users, NEW j \in JobIds, TriggerJob(u, j) PROVE CatalogInv'
  <2>1. j \in Existing /\ Accessible(u, jobs[j]) /\ InsertRun(j, u)
    BY <1>5 DEF TriggerJob
  <2>2. \A v \in Users : v \in Admins \/ u \in {v, NULL} => Accessible(v, jobs[j])
    BY <2>1, JobCatalogAssumption DEF Accessible
  <2>3. QED
    BY <2>1, <2>2, RunInserted
<1>6. ASSUME NEW u \in Users, NEW r \in runs, RetryRun(u, r) PROVE CatalogInv'
  <2>1. Accessible(u, jobs[r.job]) /\ InsertRun(r.job, u)
    BY <1>6 DEF RetryRun, CatalogInv, RunsOpenTheirJobs
  <2>2. \A v \in Users : v \in Admins \/ u \in {v, NULL} => Accessible(v, jobs[r.job])
    BY <2>1, JobCatalogAssumption DEF Accessible
  <2>3. QED
    BY <1>a, <2>1, <2>2, RunInserted
<1>7. ASSUME NEW j \in JobIds, ScheduleJob(j) PROVE CatalogInv'
  <2>1. j \in Existing /\ InsertRun(j, jobs[j].owner)
    BY <1>7 DEF ScheduleJob
  <2>2. \A v \in Users : v \in Admins \/ jobs[j].owner \in {v, NULL} => Accessible(v, jobs[j])
    BY DEF Accessible
  <2>3. QED
    BY <1>a, <2>1, <2>2, RunInserted
<1>8. ASSUME NEW r \in runs, AutoRetry(r) PROVE CatalogInv'
  <2>1. InsertRun(r.job, r.owner)
    BY <1>8 DEF AutoRetry
  <2>2. \A v \in Users : v \in Admins \/ r.owner \in {v, NULL} => Accessible(v, jobs[r.job])
    BY DEF CatalogInv, RunsOpenTheirJobs, Accessible
  <2>3. QED
    BY <1>a, <2>1, <2>2, RunInserted
<1>9. ASSUME runs' \in SUBSET runs, UNCHANGED <<jobs, nextJob, deps, req, saved>> PROVE CatalogInv'
  <2>1. TypeOK'
    BY <1>9 DEF CatalogInv, TypeOK
  <2>2. FreshJobs' /\ NamesUnique' /\ SavedDependencies'
    BY <1>9 DEF CatalogInv, FreshJobs, NamesUnique, SavedDependencies, DependsOn, Existing
  <2>3. UpdatesInFlight'
    BY <1>9 DEF CatalogInv, UpdatesInFlight, RightUpdate, Cleared
  <2>4. RowsJoin' /\ RunsOpenTheirJobs'
    BY <1>9 DEF CatalogInv, RowsJoin, RunsOpenTheirJobs, Existing, Accessible, Listed
  <2>5. QED
    BY <2>1, <2>2, <2>3, <2>4 DEF CatalogInv
<1>10. ASSUME UNCHANGED vars PROVE CatalogInv'
  <2>1. TypeOK' /\ FreshJobs' /\ NamesUnique' /\ SavedDependencies'
    BY <1>10 DEF CatalogInv, TypeOK, FreshJobs, NamesUnique, SavedDependencies, DependsOn,
                 Existing, vars
  <2>2. UpdatesInFlight' /\ RowsJoin' /\ RunsOpenTheirJobs'
    BY <1>10 DEF CatalogInv, UpdatesInFlight, RightUpdate, Cleared, RowsJoin,
                 RunsOpenTheirJobs, Accessible, Listed, Existing, vars
  <2>3. QED
    BY <2>1, <2>2 DEF CatalogInv
<1>11. QED
  BY <1>1, <1>2, <1>3, <1>4, <1>5, <1>6, <1>7, <1>8, <1>9, <1>10 DEF Next, ClearAllRuns

\* So it holds in every state.
LEMMA CatalogInvariant == Spec => []CatalogInv
  BY CatalogInit, CatalogStep, PTL DEF Spec

-----------------------------------------------------------------------------
\* The tables and the requests in flight keep their types.
THEOREM CatalogTypeCorrect == Spec => []TypeOK
<1>1. CatalogInv => TypeOK
  BY DEF CatalogInv
<1>2. QED
  BY <1>1, CatalogInvariant, PTL

\* No two jobs ever have the same name, however many creations and renames
\* are in flight at once.
THEOREM UniqueNames == Spec => []NamesUnique
<1>1. CatalogInv => NamesUnique
  BY DEF CatalogInv
<1>2. QED
  BY <1>1, CatalogInvariant, PTL

\* Dependencies join two different jobs that exist, and runs belong to a job
\* that exists.
THEOREM ReferencesHold == Spec => []RowsJoin
<1>1. CatalogInv => RowsJoin
  BY DEF CatalogInv
<1>2. QED
  BY <1>1, CatalogInvariant, PTL

\* What the last save of a job asked for is in force, and nothing else unless
\* another save of the job was committed while it was in flight.
THEOREM SavesInForce == Spec => []SavedDependencies
<1>1. CatalogInv => SavedDependencies
  BY DEF CatalogInv
<1>2. QED
  BY <1>1, CatalogInvariant, PTL

\* Who can open a run, or is listed it, can open its job.
THEOREM RunsBelongToJobs == Spec => []RunsOpenTheirJobs
<1>1. CatalogInv => RunsOpenTheirJobs
  BY DEF CatalogInv
<1>2. QED
  BY <1>1, CatalogInvariant, PTL
=============================================================================
