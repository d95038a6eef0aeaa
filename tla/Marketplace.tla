---------------------------- MODULE Marketplace ----------------------------
(***************************************************************************)
(* The way of a model into the marketplace: a quant registers              *)
(* (routers/quant.py), packages a model (packaging/packager.py), uploads   *)
(* and submits it (cli/commands/submit.py), and a background task of the   *)
(* API reviews and lists it (services/model_review.py).                    *)
(*                                                                         *)
(* A submission s is one run of the submit command and, once the API has   *)
(* inserted its row, that row and its review task.  Its id is also the id  *)
(* of the certificate its review issues.  An artifact is its SHA-256.  The *)
(* reproducibility kit goes where the artifact goes and is read by nobody  *)
(* in the repository, so it is left out, as are names and descriptions.    *)
(* The tables are those of the migrations 001, 002 and 004.                *)
(***************************************************************************)
EXTENDS Integers, FiniteSets

CONSTANTS
  Users, Handles, Models,
  Registrations,  \* calls of register_quant
  UserOf,         \* UserOf[r]: the authenticated user of registration r
  HandleOf,       \* HandleOf[r]: the handle it asks for
  Submissions,    \* runs of echo-cli submit
  AuthorOf,       \* AuthorOf[s]: who runs it
  ModelOf,        \* ModelOf[s]: its proposed_model_id
  OwnerAtStart,   \* the models there are: those of 002_seed have no owner, those
                  \* entered by hand may have one
  MaxBuilds,      \* bound: MaxBuilds[u, m], how often u packages m
  RootArtifacts,  \* external: what may lie in the bucket under artifact.bin, 0 for
                  \* nothing
  None

ASSUME MarketplaceConstants ==
  /\ UserOf \in [Registrations -> Users]
  /\ HandleOf \in [Registrations -> Handles]
  /\ AuthorOf \in [Submissions -> Users]
  /\ ModelOf \in [Submissions -> Models]
  /\ DOMAIN OwnerAtStart \subseteq Models
  /\ \A m \in DOMAIN OwnerAtStart : OwnerAtStart[m] \in Users \cup {None}
  /\ MaxBuilds \in [Users \X Models -> Nat]
  /\ RootArtifacts \subseteq Nat
  /\ None \notin Users \cup Submissions

VARIABLES
  profiles,  \* quant_profiles: the registrations that inserted a row
  reg,       \* reg[r]: the await registration r is suspended at
  dist,      \* dist[u, m]: artifact in ./dist, and the one its manifest names
  torn,      \* history: where package failed, or met a submit half way
  bucket,    \* bucket[h, m]: the object under submissions/{h}/{m}/, 0 for none
  writers,   \* history: writers[h, m]: the users that put it there
  client,    \* client[s]: where the submit command is
  declared,  \* declared[s]: artifact_sha256
  uploaded,  \* history: uploaded[s]: the artifact s put
  hurried,   \* history: the submissions that put from a torn workspace
  status,    \* status[s]: review_status
  task,      \* task[s]: where the review task is
  outcome,   \* outcome[s]: what review_submission returned, until it is saved
  certs,     \* performance_certs: the submissions with a certificate
  models,    \* models[m]: the row of m: owner, active_cert_id and is_listed
  seen,      \* history: seen[s]: the artifact the review verified, 0 for none
  misses     \* history: misses[s]: the thresholds missed when the metrics passed

apiVars    == <<status, task, outcome, certs, models, seen, misses>>
clientVars == <<dist, torn, bucket, writers, client, declared, uploaded, hurried>>
vars == <<profiles, reg, clientVars, apiVars>>

\* dataset: the dataset_hash is that of a known canonical dataset.
Thresholds == {"sharpe", "drawdown", "capacity", "dataset"}
Workspaces == Users \X Models
Keys == Handles \X Models
NoRow == [exists |-> FALSE, owner |-> None, cert |-> None, listed |-> FALSE]
RowAtStart(m) == [exists |-> TRUE, owner |-> OwnerAtStart[m], cert |-> None, listed |-> TRUE]

-----------------------------------------------------------------------------
(* register_quant                                                          *)

CheckUser(r) ==
  /\ reg[r] = "new"
  /\ reg' = [reg EXCEPT ![r] =
       IF \E p \in profiles : UserOf[p] = UserOf[r] THEN "refused" ELSE "noProfile"]
  /\ UNCHANGED <<profiles, clientVars, apiVars>>

CheckHandle(r) ==
  /\ reg[r] = "noProfile"
  /\ reg' = [reg EXCEPT ![r] =
       IF \E p \in profiles : HandleOf[p] = HandleOf[r] THEN "refused" ELSE "free"]
  /\ UNCHANGED <<profiles, clientVars, apiVars>>

\* Mutant of Unique: the handle has an index, but not a unique one.
UniqueUser(r) == \A p \in profiles : UserOf[p] # UserOf[r]

\* The constraints of quant_profiles.
Unique(r) == \A p \in profiles : UserOf[p] # UserOf[r] /\ HandleOf[p] # HandleOf[r]

\* The commit, which raises when another call got there first.
Insert(r) ==
  /\ reg[r] = "free"
  /\ \/ Unique(r) /\ profiles' = profiles \cup {r} /\ reg' = [reg EXCEPT ![r] = "registered"]
     \/ ~Unique(r) /\ reg' = [reg EXCEPT ![r] = "error"] /\ UNCHANGED profiles
  /\ UNCHANGED <<clientVars, apiVars>>

-----------------------------------------------------------------------------
(* echo-cli package and echo-cli submit                                    *)

Workspace(s) == <<AuthorOf[s], ModelOf[s]>>
Submitting(w) == \E s \in Submissions : Workspace(s) = w /\ client[s] = "urls"

\* Mutant of NewManifest: a manifest that is there is not written again.
FirstManifest(w, build) == IF dist[w].manifest = 0 THEN build ELSE dist[w].manifest

NewManifest(w, build) == build

\* package_model writes the artifact, then the kit; the command writes the
\* manifest with their hashes, unless something failed after the artifact.
Package(w) ==
  LET build == dist[w].artifact + 1 IN
  /\ build <= MaxBuilds[w]
  /\ \/ /\ dist' = [dist EXCEPT ![w] = [artifact |-> build, manifest |-> NewManifest(w, build)]]
        /\ torn' = IF Submitting(w) THEN torn \cup {w} ELSE torn \ {w}
     \/ /\ dist' = [dist EXCEPT ![w].artifact = build]
        /\ torn' = torn \cup {w}
  /\ UNCHANGED <<profiles, reg, bucket, writers, client, declared, uploaded, hurried, apiVars>>

ProfilesOf(u) == {r \in profiles : UserOf[r] = u}

\* The manifest is read and both upload URLs are fetched, which takes a profile.
GetUrls(s) ==
  /\ client[s] = "new" /\ dist[Workspace(s)].manifest # 0
  /\ ProfilesOf(AuthorOf[s]) # {}
  /\ declared' = [declared EXCEPT ![s] = dist[Workspace(s)].manifest]
  /\ client' = [client EXCEPT ![s] = "urls"]
  /\ UNCHANGED <<profiles, reg, dist, torn, bucket, writers, uploaded, hurried, apiVars>>

\* The artifact is put under the key of the quant's handle and the model.
Put(s) ==
  /\ client[s] = "urls"
  /\ \E r \in ProfilesOf(AuthorOf[s]) :
       LET key == <<HandleOf[r], ModelOf[s]>> IN
       /\ bucket' = [bucket EXCEPT ![key] = dist[Workspace(s)].artifact]
       /\ writers' = [writers EXCEPT ![key] = @ \cup {AuthorOf[s]}]
  /\ client' = [client EXCEPT ![s] = "put"]
  /\ uploaded' = [uploaded EXCEPT ![s] = dist[Workspace(s)].artifact]
  /\ hurried' = IF Workspace(s) \in torn THEN hurried \cup {s} ELSE hurried
  /\ UNCHANGED <<profiles, reg, dist, torn, declared, apiVars>>

Taken(s) ==
  models[ModelOf[s]].exists /\ models[ModelOf[s]].owner \notin {None, AuthorOf[s]}

\* submit_model: the row is committed, then the task is added.  Profiles and
\* owners never change, so it does not matter when they are read.
Submit(s) ==
  /\ client[s] = "put" /\ ~Taken(s)
  /\ client' = [client EXCEPT ![s] = "submitted"]
  /\ status' = [status EXCEPT ![s] = "verifying"]
  /\ task' = [task EXCEPT ![s] = "queued"]
  /\ UNCHANGED <<profiles, reg, dist, torn, bucket, writers, declared, uploaded, hurried,
                 outcome, certs, models, seen, misses>>

\* A request fails, the model is taken, or an upload URL has expired.
GiveUp(s) ==
  /\ client[s] \in {"urls", "put"}
  /\ client' = [client EXCEPT ![s] = "failed"]
  /\ UNCHANGED <<profiles, reg, dist, torn, bucket, writers, declared, uploaded, hurried,
                 apiVars>>

-----------------------------------------------------------------------------
(* The review task.                                                        *)

Goto(s, from, to) == task[s] = from /\ task' = [task EXCEPT ![s] = to]

Decide(s, from, result) ==
  /\ Goto(s, from, "decided")
  /\ outcome' = [outcome EXCEPT ![s] = result]

\* verify_uploaded_sha256
Matches(object, sha256) == object = sha256

\* The object looked up is the last part of the artifact's key, artifact.bin
\* whoever uploaded it; a missing object raises.
Verify(s) ==
  /\ \E object \in RootArtifacts \ {0} :
       /\ seen' = [seen EXCEPT ![s] = object]
       /\ \/ Matches(object, declared[s]) /\ Goto(s, "queued", "verified") /\ UNCHANGED outcome
          \/ ~Matches(object, declared[s]) /\ Decide(s, "queued", "rejected")
  /\ UNCHANGED <<profiles, reg, clientVars, status, certs, models, misses>>

\* Mutant of Unanswered: the try encloses the listing too, and what follows
\* its commit raises.
UnansweredLate(s) ==
  /\ \E from \in {"verified", "decided"} : Decide(s, from, "pending_human")
  /\ UNCHANGED <<profiles, reg, clientVars, status, certs, models, seen, misses>>

\* Mutant of Unanswered: the call of the enclave is not guarded.
NeverUnanswered(s) == FALSE /\ Decide(s, "verified", "pending_human")

\* The enclave fails or takes more than 600 seconds.
Unanswered(s) ==
  /\ Decide(s, "verified", "pending_human")
  /\ UNCHANGED <<profiles, reg, clientVars, status, certs, models, seen, misses>>

\* Nothing compares the dataset_hash with anything.
Passes(missed) == missed \subseteq {"dataset"}

\* The metrics arrive and are compared with the thresholds.
Score(s) ==
  /\ \E missed \in SUBSET Thresholds :
       \/ /\ Passes(missed) /\ Goto(s, "verified", "scored")
          /\ misses' = [misses EXCEPT ![s] = missed]
          /\ UNCHANGED outcome
       \/ ~Passes(missed) /\ Decide(s, "verified", "rejected") /\ UNCHANGED misses
  /\ UNCHANGED <<profiles, reg, clientVars, status, certs, models, seen>>

\* Mutant of CertFlushes: the certificate is flushed after the model is added.
CertAlwaysFlushes(s) == TRUE

\* performance_certs.model_id refers to models.id.
CertFlushes(s) == models[ModelOf[s]].exists

\* The certificate is flushed before the model is looked up, and refused
\* when there is no such model.
FlushCert(s) ==
  /\ CertFlushes(s)
  /\ Goto(s, "scored", "certified")
  /\ UNCHANGED <<profiles, reg, clientVars, status, outcome, certs, models, seen, misses>>

\* Mutant of List: the status goes into the session that is committed first,
\* the certificate and the model into the next one.
ListLast(s) ==
  /\ Decide(s, "certified", "approved")
  /\ status' = [status EXCEPT ![s] = "approved"]
  /\ UNCHANGED <<profiles, reg, clientVars, certs, models, seen, misses>>

\* The model is created or updated, and committed with the certificate.
List(s) ==
  /\ Decide(s, "certified", "approved")
  /\ certs' = certs \cup {s}
  /\ models' = [models EXCEPT ![ModelOf[s]] =
       IF @.exists THEN [@ EXCEPT !.cert = s, !.listed = TRUE]
                   ELSE [exists |-> TRUE, owner |-> AuthorOf[s], cert |-> s, listed |-> TRUE]]
  /\ UNCHANGED <<profiles, reg, clientVars, status, seen, misses>>

\* _run_review_task stores the outcome in a commit of its own.
Save(s) ==
  /\ Goto(s, "decided", "over")
  /\ status' = [status EXCEPT ![s] = outcome[s]]
  /\ outcome' = [outcome EXCEPT ![s] = "none"]
  /\ UNCHANGED <<profiles, reg, clientVars, certs, models, seen, misses>>

\* A statement or a lookup raises, or the process ends: nobody restarts a task.
Die(s) ==
  /\ task[s] \notin {"none", "over"}
  /\ task' = [task EXCEPT ![s] = "over"]
  /\ outcome' = [outcome EXCEPT ![s] = "none"]
  /\ UNCHANGED <<profiles, reg, clientVars, status, certs, models, seen, misses>>

\* What must raise, when it is reached.
Raise(s) ==
  \/ task[s] = "queued" /\ 0 \in RootArtifacts /\ Die(s)
  \/ task[s] = "scored" /\ ~CertFlushes(s) /\ Die(s)

-----------------------------------------------------------------------------

Init ==
  /\ profiles = {}
  /\ reg = [r \in Registrations |-> "new"]
  /\ dist = [w \in Workspaces |-> [artifact |-> 0, manifest |-> 0]]
  /\ torn = {}
  /\ bucket = [k \in Keys |-> 0]
  /\ writers = [k \in Keys |-> {}]
  /\ client = [s \in Submissions |-> "new"]
  /\ declared = [s \in Submissions |-> 0]
  /\ uploaded = [s \in Submissions |-> 0]
  /\ hurried = {}
  /\ status = [s \in Submissions |-> "none"]
  /\ task = [s \in Submissions |-> "none"]
  /\ outcome = [s \in Submissions |-> "none"]
  /\ certs = {}
  /\ models = [m \in Models |-> 
       IF m \in DOMAIN OwnerAtStart THEN RowAtStart(m) ELSE NoRow]
  /\ seen = [s \in Submissions |-> 0]
  /\ misses = [s \in Submissions |-> {}]

Registration(r) == CheckUser(r) \/ CheckHandle(r) \/ Insert(r)
Cli(s) == GetUrls(s) \/ Put(s) \/ Submit(s) \/ GiveUp(s)
Review(s) ==
  Verify(s) \/ Unanswered(s) \/ Score(s) \/ FlushCert(s) \/ List(s) \/ Save(s) \/ Raise(s)

Next ==
  \/ \E r \in Registrations : Registration(r)
  \/ \E w \in Workspaces : Package(w)
  \/ \E s \in Submissions : Cli(s) \/ Review(s) \/ Die(s)

Spec == Init /\ [][Next]_vars

\* The event loop runs a task on, and httpx gives up on the enclave after 600
\* seconds; nothing makes the enclave answer.
Fairness ==
  \A s \in Submissions :
    /\ WF_vars(Verify(s) \/ FlushCert(s) \/ List(s) \/ Save(s) \/ Raise(s))
    /\ WF_vars(Unanswered(s))

FairSpec == Spec /\ Fairness

-----------------------------------------------------------------------------
(* Properties                                                              *)

Row == [exists : BOOLEAN, owner : Users \cup {None}, cert : Submissions \cup {None},
        listed : BOOLEAN]

\* Every variable has its type, and no manifest is ahead of the artifact it
\* describes (packager.py writes it last).
TypeOK ==
  /\ profiles \subseteq Registrations
  /\ reg \in [Registrations -> {"new", "noProfile", "free", "registered", "refused", "error"}]
  /\ dist \in [Workspaces -> [artifact : Nat, manifest : Nat]]
  /\ \A w \in Workspaces : dist[w].manifest <= dist[w].artifact /\ dist[w].artifact <= MaxBuilds[w]
  /\ torn \subseteq Workspaces
  /\ bucket \in [Keys -> Nat]
  /\ writers \in [Keys -> SUBSET Users]
  /\ client \in [Submissions -> {"new", "urls", "put", "submitted", "failed"}]
  /\ declared \in [Submissions -> Nat] /\ uploaded \in [Submissions -> Nat]
  /\ hurried \subseteq Submissions
  /\ status \in [Submissions -> {"none", "verifying", "approved", "rejected", "pending_human"}]
  /\ task \in [Submissions ->
       {"none", "queued", "verified", "scored", "certified", "decided", "over"}]
  /\ outcome \in [Submissions -> {"none", "approved", "rejected", "pending_human"}]
  /\ certs \subseteq Submissions
  /\ models \in [Models -> Row]
  /\ seen \in [Submissions -> Nat]
  /\ misses \in [Submissions -> SUBSET Thresholds]

\* Nobody overwrites what another quant uploaded: a key starts with a handle,
\* and two registrations that both found a handle free do not both get it
\* (quant.py:96-112, 131).
UploadsKeptApart == \A k \in Keys : Cardinality(writers[k]) <= 1

\* A quant whose manifest and artifact come from one run of package declares
\* the artifact that is uploaded (package.py:41-57, submit.py:42-69), so a mismatch found by the
\* review is no false alarm.
DeclaredIsUploaded ==
  \A s \in Submissions : client[s] \in {"put", "submitted"} =>
    declared[s] = uploaded[s] \/ s \in hurried

\* The active certificate of a model with an owner was issued to that owner,
\* though any number of quants may have a first submission of one model under
\* review at once: submit_model saw no owner then (quant.py:151-153).
OwnerKeepsModel ==
  \A m \in Models :
    models[m].owner # None /\ models[m].cert # None => AuthorOf[models[m].cert] = models[m].owner

\* What is on sale was never refused: the certificate of a listing was issued
\* by a review that found the declared artifact and metrics within the three
\* thresholds the code compares, and wherever tasks died between the commit of
\* the listing and that of the status, its quant is not told that the model
\* was rejected or waits for a human (model_review.py:53-146, quant.py:181-195).
ListedOnEvidence ==
  \A m \in Models : models[m].cert # None =>
    LET s == models[m].cert IN
    /\ s \in certs /\ ModelOf[s] = m
    /\ seen[s] = declared[s] /\ misses[s] \subseteq {"dataset"}
    /\ status[s] \notin {"rejected", "pending_human"}

\* What a quant is told is true whatever died in between: an approved
\* submission has its certificate, and its model is listed with one
\* (model_review.py:146, quant.py:190-195).
ApprovedIsListed ==
  \A s \in Submissions : status[s] = "approved" =>
    s \in certs /\ models[ModelOf[s]].listed /\ models[ModelOf[s]].cert # None

\* No review occupies its task for ever, whatever the enclave does.
ReviewsEnd == \A s \in Submissions : task[s] = "queued" ~> task[s] = "over"
=============================================================================
