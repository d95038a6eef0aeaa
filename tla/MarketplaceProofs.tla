------------------------- MODULE MarketplaceProofs -------------------------
(***************************************************************************)
(* Theorems about Marketplace for every set of users, handles, models,     *)
(* registrations and submissions, every start and every number of builds.  *)
(***************************************************************************)
EXTENDS Marketplace, FiniteSetTheorems, TLAPS

-----------------------------------------------------------------------------
(* Types                                                                   *)

\* The types at the start.
LEMMA TypeInit == Init => TypeOK
BY MarketplaceConstants DEF Init, TypeOK, RowAtStart, NoRow, Row, Keys, Workspaces

\* The types of the tables of the review change in List alone.
LEMMA ListTypes ==
  ASSUME TypeOK, NEW s \in Submissions, List(s)
  PROVE  models' \in [Models -> Row] /\ certs' \subseteq Submissions
<1>1. ModelOf[s] \in Models /\ AuthorOf[s] \in Users
  BY MarketplaceConstants
<1>2. models[ModelOf[s]] \in Row
  BY <1>1 DEF TypeOK
<1>3. [models[ModelOf[s]] EXCEPT !.cert = s, !.listed = TRUE] \in Row
  BY <1>2 DEF Row
<1>4. [exists |-> TRUE, owner |-> AuthorOf[s], cert |-> s, listed |-> TRUE] \in Row
  BY <1>1 DEF Row
<1>5. QED
  BY <1>1, <1>3, <1>4 DEF List, TypeOK

\* Every step keeps the types.
LEMMA TypeStep == TypeOK /\ [Next]_vars => TypeOK'
<1> SUFFICES ASSUME TypeOK, [Next]_vars PROVE TypeOK'
  OBVIOUS
<1> USE MarketplaceConstants
<1>1. CASE UNCHANGED vars
  BY <1>1 DEF TypeOK, vars, clientVars, apiVars
<1>2. CASE \E r \in Registrations : Registration(r)
  <2> PICK r \in Registrations : Registration(r)
    BY <1>2
  <2>1. UNCHANGED <<clientVars, apiVars>>
    BY DEF Registration, CheckUser, CheckHandle, Insert
  <2>2. profiles' \subseteq Registrations
    BY DEF TypeOK, Registration, CheckUser, CheckHandle, Insert
  <2>3. reg' \in [Registrations -> {"new", "noProfile", "free", "registered", "refused", "error"}]
    BY DEF TypeOK, Registration, CheckUser, CheckHandle, Insert
  <2>4. QED
    BY <2>1, <2>2, <2>3 DEF TypeOK, clientVars, apiVars
<1>3. CASE \E w \in Workspaces : Package(w)
  <2> PICK w \in Workspaces : Package(w)
    BY <1>3
  <2> DEFINE build == dist[w].artifact + 1
             both == [artifact |-> build, manifest |-> build]
             one == [dist[w] EXCEPT !.artifact = build]
  <2>1. dist[w] \in [artifact : Nat, manifest : Nat] /\ dist[w].manifest <= dist[w].artifact
    BY DEF TypeOK
  <2>2. /\ both \in [artifact : Nat, manifest : Nat] /\ both.artifact = build /\ both.manifest = build
        /\ one \in [artifact : Nat, manifest : Nat] /\ one.artifact = build
        /\ one.manifest = dist[w].manifest
    BY <2>1
  <2>3. build \in Nat /\ build <= MaxBuilds[w] /\ dist[w].manifest <= build
    BY <2>1 DEF Package
  <2>4. PICK n \in {both, one} : dist' = [dist EXCEPT ![w] = n]
    BY DEF Package, NewManifest
  <2>5. n \in [artifact : Nat, manifest : Nat] /\ n.manifest <= n.artifact /\ n.artifact <= MaxBuilds[w]
    <3> HIDE DEF build, both, one
    <3>1. CASE n = both
      BY <3>1, <2>2, <2>3
    <3>2. CASE n = one
      BY <3>2, <2>2, <2>3
    <3>3. QED
      BY <3>1, <3>2
  <2> HIDE DEF build, both, one
  <2>6. dist' \in [Workspaces -> [artifact : Nat, manifest : Nat]]
    BY <2>4, <2>5 DEF TypeOK
  <2>7. \A v \in Workspaces : dist'[v].manifest <= dist'[v].artifact /\ dist'[v].artifact <= MaxBuilds[v]
    BY <2>4, <2>5 DEF TypeOK
  <2>8. torn' \subseteq Workspaces
    BY DEF TypeOK, Package
  <2>9. UNCHANGED <<profiles, reg, bucket, writers, client, declared, uploaded, hurried, apiVars>>
    BY DEF Package
  <2>10. QED
    BY <2>6, <2>7, <2>8, <2>9 DEF TypeOK, apiVars
<1>4. CASE \E s \in Submissions : Cli(s)
  <2> PICK s \in Submissions : Cli(s)
    BY <1>4
  <2>1. CASE GetUrls(s)
    <3>1. Workspace(s) \in Workspaces
      BY DEF Workspace, Workspaces
    <3>2. QED
      BY <2>1, <3>1 DEF TypeOK, GetUrls, apiVars
  <2>2. CASE Put(s)
    <3>1. Workspace(s) \in Workspaces
      BY DEF Workspace, Workspaces
    <3>2. PICK key :
            /\ bucket' = [bucket EXCEPT ![key] = dist[Workspace(s)].artifact]
            /\ writers' = [writers EXCEPT ![key] = @ \cup {AuthorOf[s]}]
      BY <2>2 DEF Put
    <3>3. dist[Workspace(s)].artifact \in Nat
      BY <3>1 DEF TypeOK
    <3>4. bucket' \in [Keys -> Nat] /\ writers' \in [Keys -> SUBSET Users]
      <4>1. bucket \in [Keys -> Nat] /\ writers \in [Keys -> SUBSET Users] /\ AuthorOf[s] \in Users
        BY DEF TypeOK
      <4>2. bucket' \in [Keys -> Nat]
        BY <3>2, <3>3, <4>1
      <4>3. \A k \in Keys : writers[k] \cup {AuthorOf[s]} \in SUBSET Users
        BY <4>1
      <4>4. writers' \in [Keys -> SUBSET Users]
        BY <3>2, <4>1, <4>3
      <4>5. QED
        BY <4>2, <4>4
    <3>5. /\ client' \in [Submissions -> {"new", "urls", "put", "submitted", "failed"}]
          /\ uploaded' \in [Submissions -> Nat]
          /\ hurried' \subseteq Submissions
      BY <2>2, <3>3 DEF TypeOK, Put
    <3>6. UNCHANGED <<profiles, reg, dist, torn, declared, apiVars>>
      BY <2>2 DEF Put
    <3>7. QED
      BY <3>4, <3>5, <3>6 DEF TypeOK, apiVars
  <2>3. CASE Submit(s)
    BY <2>3 DEF TypeOK, Submit
  <2>4. CASE GiveUp(s)
    BY <2>4 DEF TypeOK, GiveUp, apiVars
  <2>5. QED
    BY <2>1, <2>2, <2>3, <2>4 DEF Cli
<1>5. CASE \E s \in Submissions : Review(s) \/ Die(s)
  <2> PICK s \in Submissions : Review(s) \/ Die(s)
    BY <1>5
  <2>1. CASE Verify(s)
    <3>1. PICK object \in Nat : seen' = [seen EXCEPT ![s] = object]
      BY <2>1 DEF Verify
    <3>2. UNCHANGED <<profiles, reg, clientVars, status, certs, models, misses>>
      BY <2>1 DEF Verify
    <3>3. /\ task' \in [Submissions ->
               {"none", "queued", "verified", "scored", "certified", "decided", "over"}]
          /\ outcome' \in [Submissions -> {"none", "approved", "rejected", "pending_human"}]
      <4>1. CASE Goto(s, "queued", "verified") /\ UNCHANGED outcome
        BY <4>1 DEF TypeOK, Goto
      <4>2. CASE Decide(s, "queued", "rejected")
        BY <4>2 DEF TypeOK, Goto, Decide
      <4>3. QED
        BY <2>1, <4>1, <4>2 DEF Verify
    <3>4. QED
      BY <3>1, <3>2, <3>3 DEF TypeOK, clientVars
  <2>2. CASE Unanswered(s)
    BY <2>2 DEF TypeOK, Unanswered, Goto, Decide, clientVars
  <2>3. CASE Score(s)
    <3>1. PICK missed \in SUBSET Thresholds :
            \/ Goto(s, "verified", "scored") /\ misses' = [misses EXCEPT ![s] = missed] /\ UNCHANGED outcome
            \/ Decide(s, "verified", "rejected") /\ UNCHANGED misses
      BY <2>3 DEF Score
    <3>2. misses' \in [Submissions -> SUBSET Thresholds]
      BY <3>1 DEF TypeOK
    <3>3. /\ task' \in [Submissions ->
               {"none", "queued", "verified", "scored", "certified", "decided", "over"}]
          /\ outcome' \in [Submissions -> {"none", "approved", "rejected", "pending_human"}]
      <4>1. CASE Goto(s, "verified", "scored") /\ UNCHANGED outcome
        BY <4>1 DEF TypeOK, Goto
      <4>2. CASE Decide(s, "verified", "rejected")
        BY <4>2 DEF TypeOK, Goto, Decide
      <4>3. QED
        BY <3>1, <4>1, <4>2
    <3>4. UNCHANGED <<profiles, reg, clientVars, status, certs, models, seen>>
      BY <2>3 DEF Score
    <3>5. QED
      BY <3>2, <3>3, <3>4 DEF TypeOK, clientVars
  <2>4. CASE FlushCert(s)
    BY <2>4 DEF TypeOK, FlushCert, Goto, clientVars
  <2>5. CASE List(s)
    <3>1. models' \in [Models -> Row] /\ certs' \subseteq Submissions
      BY <2>5, ListTypes
    <3>2. /\ task' = [task EXCEPT ![s] = "decided"]
          /\ outcome' = [outcome EXCEPT ![s] = "approved"]
          /\ UNCHANGED <<profiles, reg, clientVars, status, seen, misses>>
      BY <2>5 DEF List, Decide, Goto
    <3>3. QED
      BY <3>1, <3>2 DEF TypeOK, clientVars
  <2>6. CASE Save(s)
    <3>1. outcome[s] # "none" => status' \in [Submissions ->
            {"none", "verifying", "approved", "rejected", "pending_human"}]
      BY <2>6 DEF TypeOK, Save
    <3>2. QED
      BY <2>6 DEF TypeOK, Save, Goto, clientVars
  <2>7. CASE Die(s)
    BY <2>7 DEF TypeOK, Die, clientVars
  <2>8. QED
    BY <2>1, <2>2, <2>3, <2>4, <2>5, <2>6, <2>7 DEF Review, Raise
<1>6. QED
  BY <1>1, <1>2, <1>3, <1>4, <1>5 DEF Next

\* The types of every variable; a manifest is never ahead of its artifact.
THEOREM TypesCorrect == Spec => []TypeOK
<1>1. QED
  BY TypeInit, TypeStep, PTL DEF Spec

-----------------------------------------------------------------------------
(* Uploads: a handle has one owner, who alone writes under it              *)

Uploads ==
  /\ \A p, q \in profiles : HandleOf[p] = HandleOf[q] => p = q
  /\ \A h \in Handles, m \in Models : \A u \in writers[<<h, m>>] :
       \E p \in profiles : UserOf[p] = u /\ HandleOf[p] = h

\* At the start nobody has a profile and no key has been written.
LEMMA UploadsInit == Init => Uploads
<1>1. \A h \in Handles, m \in Models : <<h, m>> \in Keys
  BY DEF Keys
<1>2. QED
  BY <1>1 DEF Init, Uploads

\* Only Insert adds a profile, and only Put a writer.
LEMMA UploadsFrame ==
  ASSUME [Next]_vars,
         ~ \E r \in Registrations : Insert(r),
         ~ \E s \in Submissions : Put(s)
  PROVE  UNCHANGED <<profiles, writers>>
BY DEF Next, vars, clientVars, Registration, CheckUser, CheckHandle, Package, Cli, GetUrls, Submit,
       GiveUp, Review, Verify, Unanswered, Score, FlushCert, List, Save, Raise, Die

\* Every step keeps handles apart and keys with the profile of their handle.
LEMMA UploadsStep == TypeOK /\ Uploads /\ [Next]_vars => Uploads'
<1> SUFFICES ASSUME TypeOK, Uploads, [Next]_vars PROVE Uploads'
  OBVIOUS
<1>1. CASE \E r \in Registrations : Insert(r)
  <2> PICK r \in Registrations : Insert(r)
    BY <1>1
  <2>1. UNCHANGED writers
    BY DEF Insert, clientVars
  <2>2. profiles' = profiles \/ (Unique(r) /\ profiles' = profiles \cup {r})
    BY DEF Insert
  <2>3. QED
    BY <2>1, <2>2 DEF Uploads, Unique
<1>2. CASE \E s \in Submissions : Put(s)
  <2> PICK s \in Submissions : Put(s)
    BY <1>2
  <2>1. UNCHANGED profiles
    BY DEF Put
  <2>2. PICK p \in profiles :
          /\ UserOf[p] = AuthorOf[s]
          /\ writers' = [writers EXCEPT ![<<HandleOf[p], ModelOf[s]>>] = @ \cup {AuthorOf[s]}]
    BY DEF Put, ProfilesOf
  <2>3. ASSUME NEW h \in Handles, NEW m \in Models, NEW u \in writers'[<<h, m>>]
        PROVE  \E q \in profiles : UserOf[q] = u /\ HandleOf[q] = h
    <3>1. <<h, m>> \in Keys /\ writers \in [Keys -> SUBSET Users]
      BY DEF Keys, TypeOK
    <3>2. CASE u \in writers[<<h, m>>]
      BY <3>2 DEF Uploads
    <3>3. CASE u \notin writers[<<h, m>>]
      <4>1. <<h, m>> = <<HandleOf[p], ModelOf[s]>> /\ u = AuthorOf[s]
        BY <3>1, <3>3, <2>2, <2>3
      <4>2. QED
        BY <4>1, <2>2
    <3>4. QED
      BY <3>2, <3>3
  <2>4. QED
    BY <2>1, <2>3 DEF Uploads
<1>3. CASE /\ ~ \E r \in Registrations : Insert(r)
           /\ ~ \E s \in Submissions : Put(s)
  BY <1>3, UploadsFrame DEF Uploads
<1>4. QED
  BY <1>1, <1>2, <1>3

\* Two writers under one handle would be two profiles with it.
LEMMA UploadsApart == TypeOK /\ Uploads => UploadsKeptApart
<1> SUFFICES ASSUME TypeOK, Uploads, NEW k \in Keys PROVE Cardinality(writers[k]) <= 1
  BY DEF UploadsKeptApart
<1>1. PICK h \in Handles, m \in Models : k = <<h, m>>
  BY DEF Keys
<1>2. \A u, v \in writers[k] : u = v
  BY <1>1 DEF Uploads
<1>3. CASE writers[k] = {}
  BY <1>3, FS_EmptySet
<1>4. CASE writers[k] # {}
  <2>1. PICK u \in writers[k] : writers[k] = {u}
    BY <1>2, <1>4
  <2>2. Cardinality({u}) = 1
    BY FS_Singleton
  <2>3. QED
    BY <2>1, <2>2
<1>5. QED
  BY <1>3, <1>4

\* No key of the bucket is ever written by two users, however many register at
\* once (quant.py:96-112, 131).
THEOREM UploadsSafe == Spec => []UploadsKeptApart
<1>1. Spec => []TypeOK
  BY TypesCorrect
<1>2. QED
  BY <1>1, UploadsInit, UploadsStep, UploadsApart, PTL DEF Spec

-----------------------------------------------------------------------------
(* Packages: outside torn workspaces manifest and artifact are of one run  *)

Packaged ==
  /\ \A w \in Workspaces : w \notin torn => dist[w].manifest = dist[w].artifact
  /\ \A s \in Submissions : client[s] = "urls" /\ Workspace(s) \notin torn =>
       declared[s] = dist[Workspace(s)].artifact
  /\ DeclaredIsUploaded

\* At the start no folder has been packaged.
LEMMA PackagedInit == Init => Packaged
<1>1. \A s \in Submissions : Workspace(s) \in Workspaces
  BY MarketplaceConstants DEF Workspace, Workspaces
<1>2. QED
  BY <1>1 DEF Init, Packaged, DeclaredIsUploaded

\* Package tears the workspace of a submit that waits for its URLs.
LEMMA PackagedPackage ==
  ASSUME TypeOK, Packaged, NEW w \in Workspaces, Package(w)
  PROVE  Packaged'
<1> USE MarketplaceConstants
<1> DEFINE build == dist[w].artifact + 1
           both == [artifact |-> build, manifest |-> build]
           one == [dist[w] EXCEPT !.artifact = build]
<1>1. both.artifact = both.manifest
  OBVIOUS
<1>2. \/ dist' = [dist EXCEPT ![w] = both] /\ torn' = IF Submitting(w) THEN torn \cup {w} ELSE torn \ {w}
      \/ dist' = [dist EXCEPT ![w] = one] /\ torn' = torn \cup {w}
  BY DEF Package, NewManifest
<1>3. UNCHANGED <<client, declared, uploaded, hurried>>
  BY DEF Package
<1> HIDE DEF build, both, one
<1>4. PICK n : dist' = [dist EXCEPT ![w] = n] /\ (w \notin torn' => n.manifest = n.artifact)
  <2>1. CASE dist' = [dist EXCEPT ![w] = both]
    BY <2>1, <1>1
  <2>2. CASE dist' = [dist EXCEPT ![w] = one] /\ torn' = torn \cup {w}
    BY <2>2
  <2>3. QED
    BY <1>2, <2>1, <2>2
<1>5. /\ \A v \in Workspaces \ {w} : dist'[v] = dist[v] /\ (v \in torn' <=> v \in torn)
      /\ dist'[w] = n
  <2>1. dist \in [Workspaces -> [artifact : Nat, manifest : Nat]]
    BY DEF TypeOK
  <2>2. QED
    BY <1>2, <1>4, <2>1
<1>6. w \notin torn' => ~Submitting(w)
  BY <1>2
<1>7. \A v \in Workspaces : v \notin torn' => dist'[v].manifest = dist'[v].artifact
  BY <1>4, <1>5 DEF Packaged
<1>8. ASSUME NEW s \in Submissions, client'[s] = "urls", (Workspace(s) \notin torn)'
      PROVE  declared'[s] = (dist[Workspace(s)].artifact)'
  <2>1. Workspace(s) \in Workspaces /\ Workspace(s)' = Workspace(s)
    BY DEF Workspace, Workspaces
  <2>2. Workspace(s) # w
    BY <1>3, <1>6, <1>8, <2>1 DEF Submitting
  <2>3. QED
    BY <1>3, <1>5, <1>8, <2>1, <2>2 DEF Packaged
<1>9. DeclaredIsUploaded'
  BY <1>3 DEF Packaged, DeclaredIsUploaded
<1>10. QED
  BY <1>7, <1>8, <1>9 DEF Packaged

\* The submit command reads the manifest, then the artifact.
LEMMA PackagedCli ==
  ASSUME TypeOK, Packaged, NEW s \in Submissions, Cli(s)
  PROVE  Packaged'
<1> USE MarketplaceConstants
<1>1. \A q \in Submissions : Workspace(q) \in Workspaces
  BY DEF Workspace, Workspaces
<1>2. UNCHANGED <<dist, torn>>
  BY DEF Cli, GetUrls, Put, Submit, GiveUp
<1>3. CASE GetUrls(s)
  <2>1. /\ client' = [client EXCEPT ![s] = "urls"]
        /\ declared' = [declared EXCEPT ![s] = dist[Workspace(s)].manifest]
        /\ UNCHANGED <<uploaded, hurried>>
    BY <1>3 DEF GetUrls
  <2>2. QED
    BY <1>1, <1>2, <2>1 DEF Packaged, DeclaredIsUploaded, TypeOK, Workspace
<1>4. CASE Put(s)
  <2>1. /\ client[s] = "urls" /\ client' = [client EXCEPT ![s] = "put"]
        /\ uploaded' = [uploaded EXCEPT ![s] = dist[Workspace(s)].artifact]
        /\ hurried' = IF Workspace(s) \in torn THEN hurried \cup {s} ELSE hurried
        /\ UNCHANGED declared
    BY <1>4 DEF Put
  <2>2. QED
    BY <1>1, <1>2, <2>1 DEF Packaged, DeclaredIsUploaded, TypeOK, Workspace
<1>5. CASE Submit(s) \/ GiveUp(s)
  BY <1>2, <1>5 DEF Packaged, DeclaredIsUploaded, TypeOK, Workspace, Submit, GiveUp
<1>6. QED
  BY <1>3, <1>4, <1>5 DEF Cli

\* Every step keeps folders that are not torn consistent.
LEMMA PackagedStep == TypeOK /\ Packaged /\ [Next]_vars => Packaged'
<1> SUFFICES ASSUME TypeOK, Packaged, [Next]_vars PROVE Packaged'
  OBVIOUS
<1>1. CASE \E w \in Workspaces : Package(w)
  BY <1>1, PackagedPackage
<1>2. CASE \E s \in Submissions : Cli(s)
  BY <1>2, PackagedCli
<1>3. CASE UNCHANGED clientVars
  BY <1>3 DEF Packaged, DeclaredIsUploaded, Workspace, clientVars
<1>4. CASE \E s \in Submissions : Review(s) \/ Die(s)
  BY <1>3, <1>4 DEF Review, Verify, Unanswered, Score, FlushCert, List, Save, Raise, Die
<1>5. CASE (\E r \in Registrations : Registration(r)) \/ UNCHANGED vars
  BY <1>3, <1>5 DEF Registration, CheckUser, CheckHandle, Insert, vars
<1>6. QED
  BY <1>1, <1>2, <1>4, <1>5 DEF Next

\* A submit that met no half written package and no later build declares the
\* artifact it uploads (package.py:41-57, submit.py:42-69).
THEOREM DeclarationsTrue == Spec => []DeclaredIsUploaded
<1>1. Packaged => DeclaredIsUploaded
  BY DEF Packaged
<1>2. Spec => []TypeOK
  BY TypesCorrect
<1>3. QED
  BY <1>1, <1>2, PackagedInit, PackagedStep, PTL DEF Spec

-----------------------------------------------------------------------------
(* Reviews: the models there are stay the models there were, so a review   *)
(* that issues a certificate is one that submit_model let in               *)

OwnerOf(m) == IF m \in DOMAIN OwnerAtStart THEN OwnerAtStart[m] ELSE None

Rows ==
  \A m \in Models :
    /\ models[m].exists <=> m \in DOMAIN OwnerAtStart
    /\ models[m].owner = OwnerOf(m)

\* A task belongs to a submission that the owner, if there is one, sent.
LetIn ==
  \A s \in Submissions : task[s] # "none" =>
    client[s] = "submitted" /\ OwnerOf(ModelOf[s]) \in {None, AuthorOf[s]}

\* What a task has found so far.
Verified ==
  \A s \in Submissions :
    /\ misses[s] \subseteq {"dataset"}
    /\ task[s] \in {"verified", "scored", "certified"} => seen[s] = declared[s]
    /\ task[s] = "certified" => models[ModelOf[s]].exists

\* The certificate on sale, and the task that issued it.
OnSale ==
  \A m \in Models : models[m].cert # None =>
    LET s == models[m].cert IN
    /\ s \in certs /\ ModelOf[s] = m
    /\ seen[s] = declared[s] /\ task[s] \in {"decided", "over"}

Told ==
  \A s \in Submissions : "approved" \in {outcome[s], status[s]} =>
    s \in certs /\ models[ModelOf[s]].listed /\ models[ModelOf[s]].cert # None

Reviews == Rows /\ LetIn /\ Verified /\ OnSale /\ Told

\* At the start no review has begun, and no certificate is on sale.
LEMMA ReviewsInit == Init => Reviews
<1> SUFFICES ASSUME Init PROVE Reviews
  OBVIOUS
<1>1. \A m \in Models : models[m] = IF m \in DOMAIN OwnerAtStart THEN RowAtStart(m) ELSE NoRow
  BY DEF Init
<1>2. \A m \in Models :
        /\ models[m].cert = None
        /\ models[m].exists <=> m \in DOMAIN OwnerAtStart
        /\ models[m].owner = OwnerOf(m)
  <2> TAKE m \in Models
  <2>1. CASE m \in DOMAIN OwnerAtStart
    <3>1. models[m] = [exists |-> TRUE, owner |-> OwnerAtStart[m], cert |-> None, listed |-> TRUE]
      BY <1>1, <2>1 DEF RowAtStart
    <3>2. QED
      BY <2>1, <3>1 DEF OwnerOf
  <2>2. CASE m \notin DOMAIN OwnerAtStart
    <3>1. models[m] = [exists |-> FALSE, owner |-> None, cert |-> None, listed |-> FALSE]
      BY <1>1, <2>2 DEF NoRow
    <3>2. QED
      BY <2>2, <3>1 DEF OwnerOf
  <2>3. QED
    BY <2>1, <2>2
<1>3. \A s \in Submissions :
        task[s] = "none" /\ outcome[s] = "none" /\ status[s] = "none" /\ misses[s] = {}
  BY DEF Init
<1>4. QED
  BY <1>2, <1>3 DEF Reviews, Rows, LetIn, Verified, OnSale, Told

\* The certificate was flushed, so List finds the model and updates it.
LEMMA ListUpdates ==
  ASSUME TypeOK, NEW s \in Submissions, List(s), models[ModelOf[s]].exists
  PROVE  /\ \A m \in Models \ {ModelOf[s]} : models'[m] = models[m]
         /\ models'[ModelOf[s]].exists
         /\ models'[ModelOf[s]].owner = models[ModelOf[s]].owner
         /\ models'[ModelOf[s]].cert = s /\ models'[ModelOf[s]].listed
<1> DEFINE row == [models[ModelOf[s]] EXCEPT !.cert = s, !.listed = TRUE]
<1>1. ModelOf[s] \in Models /\ models[ModelOf[s]] \in Row
  BY MarketplaceConstants DEF TypeOK
<1>2. row.exists /\ row.owner = models[ModelOf[s]].owner /\ row.cert = s /\ row.listed
  BY <1>1 DEF Row
<1>3. models' = [models EXCEPT ![ModelOf[s]] = row]
  BY DEF List
<1> HIDE DEF row
<1>4. QED
  BY <1>1, <1>2, <1>3 DEF TypeOK

\* A submission is under review only after its submit command is through.
LEMMA ReviewsCli ==
  ASSUME TypeOK, Reviews, NEW s \in Submissions, Cli(s)
  PROVE  Reviews'
<1> USE MarketplaceConstants
<1>1. task[s] = "none"
  <2>1. client[s] # "submitted"
    BY DEF Cli, GetUrls, Put, Submit, GiveUp
  <2>2. QED
    BY <2>1 DEF Reviews, LetIn
<1>2. UNCHANGED <<outcome, certs, models, seen, misses>>
  BY DEF Cli, GetUrls, Put, Submit, GiveUp, apiVars
<1>3. \A q \in Submissions \ {s} :
        client'[q] = client[q] /\ declared'[q] = declared[q] /\ task'[q] = task[q]
  BY DEF TypeOK, Cli, GetUrls, Put, Submit, GiveUp, apiVars
<1>4. task' = task \/ (Submit(s) /\ task'[s] = "queued")
  BY DEF TypeOK, Cli, GetUrls, Put, Submit, GiveUp, apiVars
<1>5. Rows'
  BY <1>2 DEF Reviews, Rows, OwnerOf
<1>6. LetIn'
  <2>1. CASE Submit(s)
    <3>1. OwnerOf(ModelOf[s]) \in {None, AuthorOf[s]}
      BY <2>1 DEF Submit, Taken, Reviews, Rows, OwnerOf
    <3>2. client'[s] = "submitted"
      BY <2>1 DEF Submit, TypeOK
    <3>3. QED
      BY <1>3, <3>1, <3>2 DEF Reviews, LetIn, OwnerOf
  <2>2. CASE task' = task
    BY <1>1, <1>3, <2>2 DEF Reviews, LetIn, OwnerOf
  <2>3. QED
    BY <1>4, <2>1, <2>2
<1>7. Verified'
  BY <1>1, <1>2, <1>3, <1>4 DEF Reviews, Verified
<1>8. OnSale'
  BY <1>1, <1>2, <1>3, TypeOK DEF Reviews, OnSale, TypeOK, Row
<1>9. Told'
  <2>1. \A q \in Submissions : status'[q] = "approved" => status[q] = "approved"
    BY DEF TypeOK, Cli, GetUrls, Put, Submit, GiveUp, apiVars
  <2>2. QED
    BY <1>2, <2>1 DEF Reviews, Told
<1>10. QED
  BY <1>5, <1>6, <1>7, <1>8, <1>9 DEF Reviews

\* List sells the certificate of the review that found the model.
LEMMA ReviewsList ==
  ASSUME TypeOK, Reviews, NEW s \in Submissions, List(s)
  PROVE  Reviews'
<1> USE MarketplaceConstants
<1> DEFINE m0 == ModelOf[s]
<1>1. /\ task[s] = "certified" /\ task' = [task EXCEPT ![s] = "decided"]
      /\ outcome' = [outcome EXCEPT ![s] = "approved"]
      /\ certs' = certs \cup {s}
      /\ UNCHANGED <<client, declared, status, seen, misses>>
  BY DEF List, Decide, Goto, clientVars
<1>2. m0 \in Models /\ models[m0].exists
  BY <1>1 DEF Reviews, Verified
<1>3. /\ \A m \in Models \ {m0} : models'[m] = models[m]
      /\ models'[m0].exists /\ models'[m0].owner = models[m0].owner
      /\ models'[m0].cert = s /\ models'[m0].listed
  BY <1>2, ListUpdates
<1> HIDE DEF m0
<1>4. \A q \in Submissions : task'[q] = IF q = s THEN "decided" ELSE task[q]
  BY <1>1 DEF TypeOK
<1>5. \A m \in Models : models'[m].exists <=> models[m].exists
  BY <1>2, <1>3
<1>6. Rows'
  BY <1>2, <1>3 DEF Reviews, Rows, OwnerOf
<1>7. LetIn'
  BY <1>1, <1>4 DEF Reviews, LetIn, OwnerOf
<1>8. Verified'
  BY <1>1, <1>4, <1>5 DEF Reviews, Verified
<1>9. OnSale'
  <2> SUFFICES ASSUME NEW m \in Models, models'[m].cert # None
               PROVE  /\ models'[m].cert \in certs' /\ ModelOf[models'[m].cert] = m
                      /\ seen'[models'[m].cert] = declared'[models'[m].cert]
                      /\ task'[models'[m].cert] \in {"decided", "over"}
    BY DEF OnSale
  <2>1. CASE m = m0
    <3>1. seen[s] = declared[s]
      BY <1>1 DEF Reviews, Verified
    <3>2. QED
      BY <1>1, <1>3, <1>4, <2>1, <3>1 DEF m0
  <2>2. CASE m # m0
    <3>1. models'[m] = models[m] /\ models[m].cert # None
      BY <1>3, <2>2
    <3>2. models[m].cert \in Submissions
      BY <3>1 DEF TypeOK, Row
    <3>3. QED
      BY <1>1, <1>4, <3>1, <3>2 DEF Reviews, OnSale
  <2>3. QED
    BY <2>1, <2>2
<1>10. Told'
  <2> SUFFICES ASSUME NEW q \in Submissions, "approved" \in {outcome'[q], status'[q]}
               PROVE  q \in certs' /\ models'[ModelOf[q]].listed /\ models'[ModelOf[q]].cert # None
    BY DEF Told
  <2>1. CASE ModelOf[q] = m0 /\ (q = s \/ "approved" \in {outcome[q], status[q]})
    BY <1>1, <1>3, <2>1 DEF Reviews, Told
  <2>2. CASE ModelOf[q] # m0
    <3>1. q # s /\ models'[ModelOf[q]] = models[ModelOf[q]]
      BY <1>3, <2>2 DEF m0
    <3>2. "approved" \in {outcome[q], status[q]}
      BY <1>1, <3>1 DEF TypeOK
    <3>3. QED
      BY <1>1, <3>1, <3>2 DEF Reviews, Told
  <2>3. q = s \/ "approved" \in {outcome[q], status[q]}
    BY <1>1 DEF TypeOK
  <2>4. QED
    BY <2>1, <2>2, <2>3
<1>11. QED
  BY <1>6, <1>7, <1>8, <1>9, <1>10 DEF Reviews

\* The other steps of a task issue nothing: it goes on, or gives up.
LEMMA ReviewsTask ==
  ASSUME TypeOK, Reviews, NEW s \in Submissions,
         (Review(s) \/ Die(s)) /\ ~List(s)
  PROVE  Reviews'
<1> USE MarketplaceConstants
<1>1. UNCHANGED <<client, declared, certs, models>>
  BY DEF Review, Raise, Verify, Unanswered, Score, FlushCert, Save, Die, clientVars
<1>2. task[s] # "none"
  BY DEF Review, Raise, Verify, Unanswered, Score, FlushCert, Save, Die, Goto, Decide
<1>3. \A q \in Submissions \ {s} :
        /\ task'[q] = task[q] /\ seen'[q] = seen[q] /\ misses'[q] = misses[q]
        /\ outcome'[q] = outcome[q] /\ status'[q] = status[q]
  <2>1. CASE Verify(s) \/ Unanswered(s)
    BY <2>1 DEF TypeOK, Verify, Unanswered, Goto, Decide
  <2>2. CASE Score(s)
    <3>1. /\ UNCHANGED <<seen, status>>
          /\ task' = [task EXCEPT ![s] = "scored"] \/ task' = [task EXCEPT ![s] = "decided"]
          /\ UNCHANGED misses \/ \E missed : misses' = [misses EXCEPT ![s] = missed]
          /\ UNCHANGED outcome \/ outcome' = [outcome EXCEPT ![s] = "rejected"]
      BY <2>2 DEF Score, Goto, Decide
    <3>2. QED
      BY <3>1 DEF TypeOK
  <2>3. CASE FlushCert(s) \/ Save(s) \/ Die(s)
    BY <2>3 DEF TypeOK, FlushCert, Save, Die, Goto
  <2>4. QED
    BY <2>1, <2>2, <2>3 DEF Review, Raise
<1>4. task'[s] # "none" /\ (task[s] \in {"decided", "over"} => task'[s] \in {"decided", "over"} /\ seen' = seen)
  <2>1. CASE Verify(s) \/ Unanswered(s)
    BY <2>1 DEF TypeOK, Verify, Unanswered, Goto, Decide
  <2>2. CASE Score(s)
    BY <2>2 DEF TypeOK, Score, Goto, Decide
  <2>3. CASE FlushCert(s) \/ Save(s) \/ Die(s)
    BY <2>3 DEF TypeOK, FlushCert, Save, Die, Goto
  <2>4. QED
    BY <2>1, <2>2, <2>3 DEF Review, Raise
<1>5. /\ misses'[s] \subseteq {"dataset"}
      /\ task'[s] \in {"verified", "scored", "certified"} => seen'[s] = declared[s]
      /\ task'[s] = "certified" => models[ModelOf[s]].exists
  <2>1. CASE Verify(s)
    BY <2>1 DEF TypeOK, Reviews, Verified, Verify, Matches, Goto, Decide
  <2>2. CASE Unanswered(s)
    BY <2>2 DEF TypeOK, Reviews, Verified, Unanswered, Goto, Decide
  <2>3. CASE Score(s)
    <3>1. task[s] = "verified" /\ UNCHANGED seen
      BY <2>3 DEF Score, Goto, Decide
    <3>2. PICK missed \in SUBSET Thresholds :
            \/ missed \subseteq {"dataset"} /\ task' = [task EXCEPT ![s] = "scored"] /\ misses' = [misses EXCEPT ![s] = missed]
            \/ task' = [task EXCEPT ![s] = "decided"] /\ UNCHANGED misses
      BY <2>3 DEF Score, Passes, Goto, Decide
    <3>3. QED
      BY <3>1, <3>2 DEF TypeOK, Reviews, Verified
  <2>4. CASE FlushCert(s)
    BY <2>4 DEF TypeOK, Reviews, Verified, FlushCert, CertFlushes, Goto
  <2>5. CASE Save(s) \/ Die(s)
    BY <2>5 DEF TypeOK, Reviews, Verified, Save, Die, Goto
  <2>6. QED
    BY <2>1, <2>2, <2>3, <2>4, <2>5 DEF Review, Raise
<1>6. "approved" \in {outcome'[s], status'[s]} => "approved" \in {outcome[s], status[s]}
  <2>1. CASE Verify(s) \/ Unanswered(s)
    BY <2>1 DEF TypeOK, Verify, Unanswered, Goto, Decide
  <2>2. CASE Score(s)
    BY <2>2 DEF TypeOK, Score, Goto, Decide
  <2>3. CASE FlushCert(s) \/ Die(s)
    BY <2>3 DEF TypeOK, FlushCert, Die, Goto
  <2>4. CASE Save(s)
    BY <2>4 DEF TypeOK, Save, Goto
  <2>5. QED
    BY <2>1, <2>2, <2>3, <2>4 DEF Review, Raise
<1>7. Rows'
  BY <1>1 DEF Reviews, Rows, OwnerOf
<1>8. LetIn'
  BY <1>1, <1>2, <1>3 DEF Reviews, LetIn, OwnerOf
<1>9. Verified'
  BY <1>1, <1>3, <1>5 DEF Reviews, Verified
<1>10. OnSale'
  <2> SUFFICES ASSUME NEW m \in Models, models[m].cert # None
               PROVE  /\ models[m].cert \in certs /\ ModelOf[models[m].cert] = m
                      /\ seen'[models[m].cert] = declared[models[m].cert]
                      /\ task'[models[m].cert] \in {"decided", "over"}
    BY <1>1 DEF OnSale
  <2>1. models[m].cert \in Submissions
    BY DEF TypeOK, Row
  <2>2. QED
    BY <1>3, <1>4, <2>1 DEF Reviews, OnSale
<1>11. Told'
  BY <1>1, <1>3, <1>6 DEF Reviews, Told
<1>12. QED
  BY <1>7, <1>8, <1>9, <1>10, <1>11 DEF Reviews

\* Every step of a client or a review keeps what reviews have found.
LEMMA ReviewsStep == TypeOK /\ Reviews /\ [Next]_vars => Reviews'
<1> SUFFICES ASSUME TypeOK, Reviews, [Next]_vars PROVE Reviews'
  OBVIOUS
<1>1. CASE \E s \in Submissions : Cli(s)
  BY <1>1, ReviewsCli
<1>2. CASE \E s \in Submissions : List(s)
  BY <1>2, ReviewsList
<1>3. CASE \E s \in Submissions : (Review(s) \/ Die(s)) /\ ~List(s)
  BY <1>3, ReviewsTask
<1>4. CASE UNCHANGED <<client, declared, apiVars>>
  BY <1>4 DEF Reviews, Rows, LetIn, Verified, OnSale, Told, OwnerOf, apiVars
<1>5. CASE (\E r \in Registrations : Registration(r)) \/ UNCHANGED vars
  BY <1>4, <1>5 DEF Registration, CheckUser, CheckHandle, Insert, vars, clientVars
<1>6. CASE \E w \in Workspaces : Package(w)
  BY <1>4, <1>6 DEF Package
<1>7. QED
  BY <1>1, <1>2, <1>3, <1>5, <1>6 DEF Next

\* Types and reviews hold in every state.
LEMMA ReviewsSafe == Spec => [](TypeOK /\ Reviews)
<1>1. Spec => []TypeOK
  BY TypesCorrect
<1>2. QED
  BY <1>1, ReviewsInit, ReviewsStep, PTL DEF Spec

\* However many first submissions of a model are under review at once, a model
\* with an owner sells certificates issued to that owner alone (quant.py:151-153,
\* model_review.py:97-113).
THEOREM OwnersKeep == Spec => []OwnerKeepsModel
<1>1. ASSUME TypeOK, Reviews, NEW m \in Models, models[m].owner # None, models[m].cert # None
      PROVE  AuthorOf[models[m].cert] = models[m].owner
  <2>1. models[m].cert \in Submissions
    BY <1>1 DEF TypeOK, Row
  <2>2. ModelOf[models[m].cert] = m /\ task[models[m].cert] # "none"
    BY <1>1 DEF Reviews, OnSale
  <2>3. models[m].owner = OwnerOf(m)
    BY <1>1 DEF Reviews, Rows
  <2>4. QED
    BY <1>1, <2>1, <2>2, <2>3 DEF Reviews, LetIn
<1>2. TypeOK /\ Reviews => OwnerKeepsModel
  BY <1>1 DEF OwnerKeepsModel
<1>3. QED
  BY <1>2, ReviewsSafe, PTL

-----------------------------------------------------------------------------
(* Standing: a submission on sale is in verification until it is approved  *)

Standing ==
  /\ \A s \in Submissions : task[s] \notin {"none", "over"} => status[s] = "verifying"
  /\ \A m \in Models : models[m].cert # None =>
       LET s == models[m].cert IN
       /\ status[s] \in {"verifying", "approved"}
       /\ task[s] = "decided" => outcome[s] = "approved"

\* At the start nothing is on sale.
LEMMA StandingInit == Init => Standing
BY DEF Init, Standing, RowAtStart, NoRow

\* A task that lists gives its submission its standing; no other task and no
\* client touches a submission that is on sale, but the save of its outcome.
LEMMA StandingStep == TypeOK /\ Reviews /\ Standing /\ [Next]_vars => Standing'
<1> SUFFICES ASSUME TypeOK, Reviews, Standing, [Next]_vars PROVE Standing'
  OBVIOUS
<1> USE MarketplaceConstants
<1>1. \A m \in Models : models[m].cert # None =>
        models[m].cert \in Submissions /\ task[models[m].cert] \in {"decided", "over"}
  BY DEF TypeOK, Row, Reviews, OnSale
<1>2. CASE UNCHANGED <<status, task, outcome, models>>
  BY <1>2 DEF Standing
<1>3. CASE \E s \in Submissions : Submit(s)
  <2> PICK s \in Submissions : Submit(s)
    BY <1>3
  <2>1. /\ status' = [status EXCEPT ![s] = "verifying"] /\ task' = [task EXCEPT ![s] = "queued"]
        /\ UNCHANGED <<outcome, models>>
    BY DEF Submit
  <2>2. QED
    BY <1>1, <2>1 DEF TypeOK, Standing
<1>4. CASE \E s \in Submissions : List(s)
  <2> PICK s \in Submissions : List(s)
    BY <1>4
  <2>1. /\ task[s] = "certified" /\ task' = [task EXCEPT ![s] = "decided"]
        /\ outcome' = [outcome EXCEPT ![s] = "approved"]
        /\ UNCHANGED status
    BY DEF List, Decide, Goto
  <2>2. models[ModelOf[s]].exists
    BY <2>1 DEF Reviews, Verified
  <2>3. \A m \in Models : models'[m].cert = s \/ models'[m].cert = models[m].cert
    BY <2>2, ListUpdates
  <2>4. status[s] = "verifying"
    BY <2>1 DEF Standing
  <2>5. \A m \in Models : models'[m].cert = s =>
          status'[s] = "verifying" /\ outcome'[s] = "approved"
    BY <2>1, <2>4 DEF TypeOK
  <2>6. ASSUME NEW m \in Models, models'[m].cert # s, models'[m].cert # None
        PROVE  /\ status'[models'[m].cert] \in {"verifying", "approved"}
               /\ task'[models'[m].cert] = "decided" => outcome'[models'[m].cert] = "approved"
    BY <1>1, <2>1, <2>3, <2>6 DEF TypeOK, Standing
  <2>7. \A q \in Submissions : task'[q] \notin {"none", "over"} => status'[q] = "verifying"
    BY <2>1, <2>4 DEF TypeOK, Standing
  <2>8. QED
    BY <2>5, <2>6, <2>7 DEF Standing
<1>5. CASE \E s \in Submissions : Save(s)
  <2> PICK s \in Submissions : Save(s)
    BY <1>5
  <2>1. /\ task[s] = "decided" /\ task' = [task EXCEPT ![s] = "over"]
        /\ status' = [status EXCEPT ![s] = outcome[s]]
        /\ outcome' = [outcome EXCEPT ![s] = "none"]
        /\ UNCHANGED models
    BY DEF Save, Goto
  <2>2. QED
    BY <1>1, <2>1 DEF TypeOK, Standing
<1>6. CASE \E s \in Submissions : Die(s)
  <2> PICK s \in Submissions : Die(s)
    BY <1>6
  <2>1. /\ task' = [task EXCEPT ![s] = "over"]
        /\ outcome' = [outcome EXCEPT ![s] = "none"]
        /\ UNCHANGED <<status, models>>
    BY DEF Die
  <2>2. QED
    BY <1>1, <2>1 DEF TypeOK, Standing
<1>7. CASE \E s \in Submissions : Verify(s) \/ Unanswered(s) \/ Score(s) \/ FlushCert(s)
  <2> PICK s \in Submissions : Verify(s) \/ Unanswered(s) \/ Score(s) \/ FlushCert(s)
    BY <1>7
  <2>1. /\ task[s] \notin {"none", "over", "decided"}
        /\ UNCHANGED <<status, models>>
        /\ \E to : task' = [task EXCEPT ![s] = to]
        /\ outcome' = outcome \/ \E result : outcome' = [outcome EXCEPT ![s] = result]
    BY DEF Verify, Unanswered, Score, FlushCert, Goto, Decide
  <2>2. QED
    BY <1>1, <2>1 DEF TypeOK, Standing
<1>8. CASE (\E r \in Registrations : Registration(r)) \/ (\E w \in Workspaces : Package(w))
           \/ (\E s \in Submissions : GetUrls(s) \/ Put(s) \/ GiveUp(s)) \/ UNCHANGED vars
  BY <1>2, <1>8 DEF Registration, CheckUser, CheckHandle, Insert, Package, GetUrls, Put, GiveUp,
     vars, apiVars
<1>9. QED
  BY <1>3, <1>4, <1>5, <1>6, <1>7, <1>8 DEF Next, Cli, Review, Raise

\* What is on sale was issued for its model by a review that found the declared
\* artifact and the three thresholds kept, and no quant is told otherwise,
\* wherever tasks died (model_review.py:53-146, quant.py:181-195).
THEOREM ListingsJustified == Spec => []ListedOnEvidence
<1>1. TypeOK /\ Reviews /\ Standing => ListedOnEvidence
  <2>1. TypeOK => \A m \in Models : models[m].cert \in Submissions \cup {None}
    BY DEF TypeOK, Row
  <2>2. QED
    BY <2>1 DEF ListedOnEvidence, Reviews, OnSale, Verified, Standing
<1>2. Spec => []Standing
  BY StandingInit, StandingStep, ReviewsSafe, PTL DEF Spec
<1>3. QED
  BY <1>1, <1>2, ReviewsSafe, PTL

\* An approved submission has its certificate and a model listed with one,
\* wherever tasks died (model_review.py:146, quant.py:190-195).
THEOREM ApprovalsTrue == Spec => []ApprovedIsListed
<1>1. Reviews => ApprovedIsListed
  BY DEF ApprovedIsListed, Reviews, Told
<1>2. QED
  BY <1>1, ReviewsSafe, PTL
=============================================================================
