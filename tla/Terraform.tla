------------------------------ MODULE Terraform ------------------------------
(* The terraform instance plugin (pkg/provider/terraform/instance): an instance is a
   file in a directory, which the managers of a cluster share, and a goroutine of the
   plugin on the leader has terraform make the cloud match the files.

   A new file has the suffix .new, which hides it from terraform until a round of the
   goroutine has dealt with the files of instances that are gone.  The programs that
   terraform runs, its state file and the lock on it, and the cloud are external. *)
EXTENDS Naturals, FiniteSets, FiniteSetsExt, Functions

CONSTANTS
    Nodes,        \* the managers, each with its plugin
    Nobody,       \* not a node
    MaxKeys       \* how many dedicated files there may be

VARIABLES
    files,        \* files[f]: whether the file is new, and which files it is attached to
    tfstate,      \* the files whose resource is in terraform's state
    tflock,       \* the node whose terraform holds the lock on the state
    cloud,        \* the files whose resource exists
    lead,         \* the node whose manager leads
    node,         \* node[p]: the plugin on p
    course,       \* how often what may still happen, and which kind of mishap there is
    asked         \* the files that calls of Destroy have removed

tf == <<files, tfstate, tflock, cloud, lead, node, course, asked>>

Instance(n) == <<"instance", n>>
DedicatedTo(k) == <<"dedicated", k>>
Global == <<"global", 0>>

Present == DOMAIN files
Instances == {f \in Present : f[1] = "instance"}
New == {f \in Present : files[f].new}
Applied == Present \ New         \* what terraform sees

NoCache == {<<>>}                \* unlike any set of files
Nothing == <<>>

Plugin(at, importing) ==
    [at |-> at, initial |-> TRUE, poked |-> FALSE, cache |-> NoCache, importing |-> importing,
     before |-> {}, after |-> {}, look |-> {}, fresh |-> {}, doomed |-> {},
     create |-> {}, destroy |-> {}, half |-> Nothing]

(* Something happens that the course allows for. *)
Spend(what) ==
    /\ course[what] > 0
    /\ course' = [course EXCEPT ![what] = @ - 1]

(* The goroutine holds fsLock, which keeps the calls at the same node out. *)
LockFree(p) == node[p].at \notin {"start", "import", "look", "rename", "down"}

Goes(p, at) == node' = [node EXCEPT ![p].at = at]

(* The round is over, and with it what the goroutine knows. *)
Rests(p, initial, cache) ==
    node' = [node EXCEPT ![p] = [Plugin("sleep", @.importing) EXCEPT
                !.initial = initial, !.poked = node[p].poked, !.cache = cache]]
Abort(p) == Rests(p, node[p].initial, NoCache)
GivesUp(p) == Rests(p, node[p].initial, node[p].cache)

(* terraformApply: the goroutine is running, and is woken up if it is asleep. *)
Poked(p) == [node EXCEPT ![p].poked = TRUE, ![p].cache = NoCache]

-----------------------------------------------------------------------------
(* The calls, which hold fsLock from the first to the last thing they do. *)

Attached(fs) == UNION {files[f].attach : f \in fs}
DedicatedKeys == {f[2] : f \in {g \in Present : g[1] = "dedicated"}}

(* Mutant: instances whose file is still new are overlooked. *)
OrphansOfApplied == {k \in DedicatedKeys : DedicatedTo(k) \notin Attached(Instances \ New)}

(* findDedicatedAttachmentKeys: the dedicated files that no instance is attached to. *)
Orphans == {k \in DedicatedKeys : DedicatedTo(k) \notin Attached(Instances)}

(* decompose, for a scaler: an orphan is adopted, the first that the map yields; or
   the lowest index that is free is taken. *)
Adopted == IF Orphans # {} THEN Orphans ELSE {Min(1 .. MaxKeys \ DedicatedKeys)}

(* Mutant: the files are visible to terraform at once. *)
WrittenAsApplied(f, attach) ==
    LET all == attach \cup {f}
    IN  [g \in Present \cup all |->
            IF g = f THEN [new |-> FALSE, attach |-> attach]
            ELSE IF g \in Present THEN files[g] ELSE [new |-> FALSE, attach |-> {}]]

(* writeTerraformFiles: a file that is there is written over, under its name. *)
Written(f, attach) ==
    LET all == attach \cup {f}
    IN  [g \in Present \cup all |->
            IF g = f THEN [new |-> TRUE, attach |-> attach]
            ELSE IF g \in Present THEN files[g] ELSE [new |-> TRUE, attach |-> {}]]

(* Provision of an instance with or without a dedicated and a global resource.  The
   time of day gives it a name. *)
ProvisionFiles(p) ==
    /\ LockFree(p) /\ lead = p
    /\ Spend("provisions")
    /\ \E k \in Adopted :
          files' = Written(Instance(course.provisions),
                           IF course.attach THEN {DedicatedTo(k), Global} ELSE {})
    /\ node' = Poked(p)
    /\ UNCHANGED <<tfstate, tflock, cloud, lead, asked>>

(* doDestroy: the files that only this instance is attached to go with it, unless it
   is destroyed to be replaced, in a rolling update. *)
DestroyFiles(p, f, rolling) ==
    /\ LockFree(p) /\ lead = p /\ f \in Instances
    /\ Spend("destroys")
    /\ LET gone == {f} \cup IF rolling THEN {} ELSE files[f].attach \ Attached(Instances \ {f})
       IN  /\ files' = Restrict(files, Present \ gone)
           /\ asked' = asked \cup gone
    /\ node' = Poked(p)
    /\ UNCHANGED <<tfstate, tflock, cloud, lead>>

(* DescribeInstances fills the cache: the instances by their files, and those of
   them that terraform has something to show for. *)
DescribeInstances(p) ==
    /\ LockFree(p) /\ node[p].cache = NoCache
    /\ node' = [node EXCEPT ![p].cache = Instances]
    /\ UNCHANGED <<files, tfstate, tflock, cloud, lead, course, asked>>

-----------------------------------------------------------------------------
(* The start of a plugin: importResources, under fsLock.  What terraform already has
   in its state is not imported again; a file is written if it is not there. *)

ImportState(p) ==
    /\ node[p].at = "start"
    /\ LET vms == node[p].importing
       IN  \/ vms = {} /\ Goes(p, "check") /\ UNCHANGED tfstate
           \/ /\ vms # {} /\ vms \subseteq cloud /\ tflock = Nobody
              /\ tfstate' = tfstate \cup vms
              /\ Goes(p, "import")
           \/ /\ ~(vms \subseteq cloud) \/ (vms # {} /\ tflock # Nobody)
              /\ Goes(p, "down")
              /\ UNCHANGED tfstate
    /\ UNCHANGED <<files, tflock, cloud, lead, course, asked>>

(* An error undoes the import, and the plugin does not start. *)
ImportFiles(p) ==
    /\ node[p].at = "import"
    /\ \/ /\ files' = [f \in Present \cup node[p].importing |->
                         IF f \in Present THEN files[f] ELSE [new |-> TRUE, attach |-> {}]]
          /\ node' = [node EXCEPT ![p].at = "check", ![p].poked = TRUE]
          /\ UNCHANGED <<tfstate, course>>
       \/ /\ Spend("faults")
          /\ tfstate' = tfstate \ node[p].importing
          /\ Goes(p, "down")
          /\ UNCHANGED files
    /\ UNCHANGED <<tflock, cloud, lead, asked>>

-----------------------------------------------------------------------------
(* A round of the goroutine.  shouldApply asks the manager on the same node. *)

ShouldApply(p) ==
    /\ node[p].at = "check"
    /\ \/ lead = p /\ Goes(p, "list") /\ UNCHANGED course
       \/ /\ (lead # p /\ UNCHANGED course) \/ (lead = p /\ Spend("faults"))
          /\ Abort(p)
    /\ UNCHANGED <<files, tfstate, tflock, cloud, lead, asked>>

(* handleFiles: what terraform's state has before and after a refresh. *)
ListBefore(p) ==
    /\ node[p].at = "list"
    /\ node' = [node EXCEPT ![p].at = "refresh", ![p].before = tfstate]
    /\ UNCHANGED <<files, tfstate, tflock, cloud, lead, course, asked>>

Refresh(p) ==
    /\ node[p].at = "refresh"
    /\ \/ /\ tflock = Nobody
          /\ tfstate' = tfstate \cap cloud
          /\ Goes(p, "relist")
          /\ UNCHANGED course
       \/ /\ (tflock # Nobody /\ UNCHANGED course) \/ Spend("faults")
          /\ GivesUp(p)
          /\ UNCHANGED tfstate
    /\ UNCHANGED <<files, tflock, cloud, lead, asked>>

ListAfter(p) ==
    /\ node[p].at = "relist"
    /\ node' = [node EXCEPT ![p].at = "walk", ![p].after = tfstate]
    /\ UNCHANGED <<files, tfstate, tflock, cloud, lead, course, asked>>

(* Then, with fsLock: the instances that terraform has seen and does not have in its
   state are to be looked into, and the new files to be renamed. *)
Walk(p) ==
    /\ node[p].at = "walk"
    /\ node' = [node EXCEPT ![p].at = "look", ![p].fresh = New, ![p].after = {},
                            ![p].look = (Instances \cap Applied) \ node[p].after]
    /\ UNCHANGED <<files, tfstate, tflock, cloud, lead, course, asked>>

(* Mutant: an instance that exists is left to terraform. *)
KeepUnimported(p, f) ==
    /\ node[p].at = "look" /\ f \in node[p].look
    /\ LET gone == f \in node[p].before \/ f \notin cloud
       IN  node' = [node EXCEPT ![p].look = @ \ {f},
                                ![p].doomed = IF gone THEN @ \cup {f} ELSE @]
    /\ UNCHANGED <<files, tfstate, tflock, cloud, lead, course, asked>>

(* handleFilePruning: an instance that has left the state was removed behind
   terraform's back, and one that the cloud does not have was never made: their files
   go.  One that the cloud has is imported into the state. *)
HandleFilePruning(p, f) ==
    /\ node[p].at = "look" /\ f \in node[p].look
    /\ LET known == f \in node[p].before
       IN  \/ /\ known \/ f \notin cloud
              /\ node' = [node EXCEPT ![p].look = @ \ {f}, ![p].doomed = @ \cup {f}]
              /\ UNCHANGED <<tfstate, course>>
           \/ /\ ~known /\ f \in cloud /\ tflock = Nobody /\ f \notin tfstate
              /\ tfstate' = tfstate \cup {f}
              /\ node' = [node EXCEPT ![p].look = @ \ {f}]
              /\ UNCHANGED course
           \/ /\ \/ ~known /\ f \in cloud /\ (tflock # Nobody \/ f \in tfstate) /\ UNCHANGED course
                 \/ ~known /\ Spend("faults")
              /\ Abort(p)
              /\ UNCHANGED tfstate
    /\ UNCHANGED <<files, tflock, cloud, lead, asked>>

(* The files are removed, and the new ones renamed; one that is not there any more is
   an error, which leaves the rest as they are. *)
Prune(p) ==
    /\ node[p].at = "look" /\ node[p].look = {}
    /\ LET gone == node[p].doomed
       IN  \/ /\ gone \subseteq Present
              /\ files' = Restrict(files, Present \ gone)
              /\ node' = [node EXCEPT ![p].at = "rename", ![p].before = {}, ![p].doomed = {}]
           \/ /\ ~(gone \subseteq Present)
              /\ \E some \in SUBSET gone : files' = Restrict(files, Present \ some)
              /\ Abort(p)
    /\ UNCHANGED <<tfstate, tflock, cloud, lead, course, asked>>

Renamed(fs) == [f \in Present |-> [files[f] EXCEPT !.new = @ /\ f \notin fs]]

(* Mutant: the cache is kept. *)
RenameKeepingCache(p) ==
    /\ node[p].at = "rename"
    /\ files' = Renamed(node[p].fresh)
    /\ node' = [node EXCEPT ![p].at = "apply", ![p].fresh = {}]
    /\ UNCHANGED <<tfstate, tflock, cloud, lead, course, asked>>

Rename(p) ==
    /\ node[p].at = "rename"
    /\ LET fresh == node[p].fresh
       IN  \/ /\ fresh \subseteq New
              /\ files' = Renamed(fresh)
              /\ node' = [node EXCEPT ![p].at = "apply", ![p].cache = NoCache, ![p].fresh = {}]
           \/ /\ ~(fresh \subseteq New)
              /\ \E some \in SUBSET fresh : files' = Renamed(some)
              /\ Abort(p)
    /\ UNCHANGED <<tfstate, tflock, cloud, lead, course, asked>>

-----------------------------------------------------------------------------
(* terraform apply: it plans from the files and its state, and records in the state
   each resource that it has made or destroyed. *)

ApplyPlans(p) ==
    /\ node[p].at = "apply"
    /\ IF tflock = Nobody
       THEN /\ tflock' = p
            /\ node' = [node EXCEPT ![p].at = "applying", ![p].create = Applied \ tfstate,
                                    ![p].destroy = tfstate \ Applied]
       ELSE GivesUp(p) /\ UNCHANGED tflock
    /\ UNCHANGED <<files, tfstate, cloud, lead, course, asked>>

Acts(p, f) ==
    /\ node[p].at = "applying" /\ node[p].half = Nothing
    /\ f \in node[p].create \cup node[p].destroy
    /\ cloud' = IF f \in node[p].create THEN cloud \cup {f} ELSE cloud \ {f}
    /\ node' = [node EXCEPT ![p].half = f]
    /\ UNCHANGED <<files, tfstate, tflock, lead, course, asked>>

Records(p) ==
    /\ node[p].half # Nothing
    /\ LET f == node[p].half
       IN  /\ tfstate' = IF f \in node[p].create THEN tfstate \cup {f} ELSE tfstate \ {f}
           /\ node' = [node EXCEPT ![p].half = Nothing, ![p].create = @ \ {f},
                                   ![p].destroy = @ \ {f}]
    /\ UNCHANGED <<files, tflock, cloud, lead, course, asked>>

ApplyFails(p) ==
    /\ node[p].at = "applying" /\ node[p].half = Nothing
    /\ node[p].create \cup node[p].destroy # {}
    /\ Spend("faults")
    /\ tflock' = Nobody
    /\ GivesUp(p)
    /\ UNCHANGED <<files, tfstate, cloud, lead, asked>>

(* After the first successful apply since the goroutine was woken up, the cache is
   cleared. *)
ApplyEnds(p) ==
    /\ node[p].at = "applying" /\ node[p].half = Nothing
    /\ node[p].create \cup node[p].destroy = {}
    /\ tflock' = Nobody
    /\ Rests(p, FALSE, IF node[p].initial THEN NoCache ELSE node[p].cache)
    /\ UNCHANGED <<files, tfstate, cloud, lead, course, asked>>

(* The goroutine sleeps until it is woken up or the interval is over. *)
Wakes(p) ==
    /\ node[p].at = "sleep"
    /\ node' = [node EXCEPT ![p].at = "check", ![p].initial = @ \/ node[p].poked,
                            ![p].poked = FALSE]
    /\ UNCHANGED <<files, tfstate, tflock, cloud, lead, course, asked>>

Round(p) ==
    \/ ImportState(p) \/ ImportFiles(p) \/ ShouldApply(p) \/ ListBefore(p) \/ Refresh(p)
    \/ ListAfter(p) \/ Walk(p) \/ (\E f \in node[p].look : HandleFilePruning(p, f))
    \/ Prune(p) \/ Rename(p) \/ ApplyPlans(p)
    \/ (\E f \in node[p].create \cup node[p].destroy : Acts(p, f))
    \/ Records(p) \/ ApplyEnds(p) \/ Wakes(p)

-----------------------------------------------------------------------------
(* Mishaps. *)

(* A resource disappears from the cloud. *)
Vanishes(f) ==
    /\ f \in cloud
    /\ Spend("losses")
    /\ cloud' = cloud \ {f}
    /\ UNCHANGED <<files, tfstate, tflock, lead, node, asked>>

(* Another manager leads, while the goroutine of the former leader is in a round. *)
LeadMoves(p) ==
    /\ lead # p /\ node[p].at # "down"
    /\ Spend("moves")
    /\ lead' = p
    /\ UNCHANGED <<files, tfstate, tflock, cloud, node, asked>>

(* The plugin and its terraform crash, and start again; another manager leads. *)
Crash(p, q) ==
    /\ lead = p /\ "down" \notin {node[p].at, node[q].at}
    /\ Spend("crashes")
    /\ lead' = q
    /\ tflock' = IF tflock = p THEN Nobody ELSE tflock
    /\ node' = [node EXCEPT ![p] = Plugin("start", @.importing)]
    /\ UNCHANGED <<files, tfstate, cloud, asked>>

TerraformInit(limits, leader, up, there) ==
    /\ files = <<>>
    /\ tfstate = {}
    /\ tflock = Nobody
    /\ cloud = there
    /\ lead = leader
    /\ node = [p \in Nodes |-> IF p \in up THEN Plugin("start", there) ELSE Plugin("down", {})]
    /\ course = limits
    /\ asked = {}
-----------------------------------------------------------------------------

(* What Provision and Destroy do with the files of dedicated and global resources is
   sound: the files that an instance is attached to are there, and a dedicated one is
   not shared (decompose, plugin.go:587, and doDestroy, plugin.go:1055), also after
   rolling updates and after files were pruned. *)
AttachmentsSound ==
    \A f \in Instances :
        /\ files[f].attach \subseteq Present
        /\ \A g \in Instances \ {f} : files[f].attach \cap files[g].attach \subseteq {Global}

(* As long as a manager leads until it crashes: a resource that exists is destroyed,
   and a file that is new or whose resource exists is removed, only if a call asks for
   it; and no other file is removed if nothing goes wrong.  It takes the suffix of new
   files, and the look at the state and at the cloud, to tell an instance that is gone
   from one that is about to be made or was made before a crash (handleFiles,
   apply.go:208). *)
KeepsWanted ==
    [][course.mishaps # "handover" /\ course'.losses = course.losses =>
          /\ cloud \ cloud' \subseteq asked
          /\ \A f \in Present \ DOMAIN files' :
                f \in asked' \/ (course.mishaps # "none" /\ f \notin New \cup cloud)]_tf

(* No instance is made that already exists: one that was made before a crash, and
   could not be recorded, is imported before terraform applies anything
   (handleFilePruning, apply.go:375). *)
MadeOnce ==
    [][\A p \in Nodes : LET f == node'[p].half IN
          node[p].half = Nothing /\ f \in node[p].create /\ f[1] = "instance" => f \notin cloud]_tf

(* In the end terraform's state, the cloud and the files agree, and so does the cache
   of a plugin that leads, whatever failed, moved or crashed on the way.  What stays
   in the cloud besides could not be imported, or is an instance that was destroyed by
   a call before or after the apply that made it crashed. *)
CloudMatchesFiles ==
    <>[](node[lead].at # "down" =>
            /\ New = {} /\ tfstate = Present /\ Present \subseteq cloud
            /\ cloud \ Present \subseteq
                  node[lead].importing \cup IF course.mishaps = "restart" THEN asked ELSE {}
            /\ node[lead].cache \in {NoCache, Instances})
=============================================================================
