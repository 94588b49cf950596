------------------------------ MODULE Rollout ------------------------------
(***************************************************************************)
(* A configuration on its way from a Pg2osync resource to the pipelines    *)
(* that run it.                                                            *)
(*                                                                         *)
(* The operator reconciles the resource into a ConfigMap and a Deployment  *)
(* and reports a status.  The cluster replaces the pod when its template   *)
(* changes and refreshes the mounted files in place.  In `restart` mode    *)
(* the template carries a checksum of the files; in `signal` mode a        *)
(* sidecar sends SIGHUP when the mount changes.  The process loads every   *)
(* file, starts a source for each, and on SIGHUP each source reads its own *)
(* file again and applies what a running pipeline can take.                *)
(*                                                                         *)
(* A file is what the steps tell apart: a hot value, the slot it streams   *)
(* (as every option only a restart changes), its sections, whether it      *)
(* loads at all and whether its source can be set up.                      *)
(***************************************************************************)
EXTENDS Naturals, FiniteSets

CONSTANTS
    Created,        \* what the resource is created with
    Specs,          \* what the resource may be set to: mode, files and whether it renders
    MaxEdits,       \* how often the resource is edited
    MaxFaults,      \* how many API errors, operator restarts and killed processes there are
    Reverts,        \* whether files a pod is replaced for may be set back to what they were
    LateSidecar     \* whether the mount may change before the sidecar has looked at it once

\* Every value the resource may have.
AllSpecs == Created \cup Specs

ASSUME RolloutAssumption ==
    /\ AllSpecs \subseteq [mode : {"restart", "signal"}, files : {s.files : s \in AllSpecs},
                          renders : BOOLEAN]
    /\ MaxEdits \in Nat /\ MaxFaults \in Nat
    /\ Reverts \in BOOLEAN /\ LateSidecar \in BOOLEAN

VARIABLES
    cr,             \* the resource: its generation and its spec
    replaced,       \* the specs the resource had before
    operator,       \* the reconcile that runs, and whether another is due
    status,         \* what the resource's status says
    configMap,      \* the files in the ConfigMap
    template,       \* the pod template of the Deployment
    pod,            \* the pod: its template, its mount, when that changed and what the sidecar saw
    process,        \* the process in it
    sources,        \* the sources of the process, by file
    faults          \* the faults there may still be

vars == <<cr, replaced, operator, status, configMap, template, pod, process, sources, faults>>

Absent == [hot |-> 0, slot |-> "", sections |-> {}, loads |-> FALSE, fits |-> FALSE]

\* A section that a stream is built with, which joins or leaves with a restart.
Special == "special"

\* What a pod is replaced for: the mode, and in restart mode the files.
TemplateOf(spec) ==
    [mode |-> spec.mode, checksum |-> IF spec.mode = "restart" THEN spec.files ELSE <<>>]

FileIn(dir, n) == IF n \in DOMAIN dir THEN dir[n] ELSE Absent

Init ==
    \E s \in Created :
       /\ cr = [generation |-> 1, spec |-> s]
       /\ replaced = {}
       /\ operator = [at |-> "idle", due |-> TRUE, timer |-> FALSE, cr |-> cr, ready |-> FALSE]
       /\ status = [generation |-> 0, ready |-> FALSE, refused |-> FALSE]
       /\ configMap = <<>>
       /\ template = [mode |-> "none", checksum |-> <<>>]
       /\ pod = [template |-> template, mount |-> <<>>, changed |-> 1, seen |-> 0]
       /\ process = [state |-> "none", read |-> <<>>]
       /\ sources = <<>>
       /\ faults = MaxFaults

---------------------------------------------------------------------------
(* The resource and its controller.                                        *)

Edits ==
    /\ cr.generation <= MaxEdits
    /\ \E s \in Specs \ {cr.spec} :
         /\ Reverts \/ s.mode = "signal" \/ s \notin replaced
         /\ cr' = [generation |-> cr.generation + 1, spec |-> s]
    /\ replaced' = replaced \cup {s \in {cr.spec} : s.mode = "restart"}
    /\ operator' = [operator EXCEPT !.due = TRUE]
    /\ UNCHANGED <<status, configMap, template, pod, process, sources, faults>>

\* A reconcile works on the resource as it was handed over.
Reconciles ==
    /\ operator.at = "idle" /\ operator.due
    /\ operator' = [operator EXCEPT !.at = IF cr.spec.renders THEN "map" ELSE "refuse",
                                    !.due = FALSE, !.timer = FALSE, !.cr = cr]
    /\ UNCHANGED <<cr, replaced, status, configMap, template, pod, process, sources, faults>>

\* Nothing to retry: only an edit can make this spec renderable.
RefusesSpec ==
    /\ operator.at = "refuse"
    /\ status' = [generation |-> operator.cr.generation, ready |-> FALSE, refused |-> TRUE]
    /\ operator' = [operator EXCEPT !.at = "idle"]
    /\ UNCHANGED <<cr, replaced, configMap, template, pod, process, sources, faults>>

\* The ConfigMap, and the Service after it.
PatchesMap ==
    /\ operator.at = "map"
    /\ configMap' = operator.cr.spec.files
    /\ operator' = [operator EXCEPT !.at = "deploy"]
    /\ UNCHANGED <<cr, replaced, status, template, pod, process, sources, faults>>

\* The Deployment, whose readiness is what the patch returns, and the ServiceMonitor.
PatchesDeployment ==
    /\ operator.at = "deploy"
    /\ template' = TemplateOf(operator.cr.spec)
    /\ operator' = [operator EXCEPT !.at = "status", !.ready = process.state = "up"]
    /\ UNCHANGED <<cr, replaced, status, configMap, pod, process, sources, faults>>

SetsStatusOfNewest ==
    /\ operator.at = "status"
    /\ status' = [generation |-> cr.generation, ready |-> operator.ready, refused |-> FALSE]
    /\ operator' = [operator EXCEPT !.at = "idle", !.due = FALSE]
    /\ UNCHANGED <<cr, replaced, configMap, template, pod, process, sources, faults>>

\* Readiness is refreshed on a timer.
SetsStatus ==
    /\ operator.at = "status"
    /\ status' = [generation |-> operator.cr.generation, ready |-> operator.ready, refused |-> FALSE]
    /\ operator' = [operator EXCEPT !.at = "idle", !.timer = TRUE]
    /\ UNCHANGED <<cr, replaced, configMap, template, pod, process, sources, faults>>

ApiFailsForGood ==
    /\ operator.at # "idle" /\ faults > 0
    /\ operator' = [operator EXCEPT !.at = "idle"]
    /\ faults' = faults - 1
    /\ UNCHANGED <<cr, replaced, status, configMap, template, pod, process, sources>>

\* Any request to the API server may fail, and the reconcile is tried again.
ApiFails ==
    /\ operator.at # "idle" /\ faults > 0
    /\ operator' = [operator EXCEPT !.at = "idle", !.timer = TRUE]
    /\ faults' = faults - 1
    /\ UNCHANGED <<cr, replaced, status, configMap, template, pod, process, sources>>

TimerFires ==
    /\ operator.at = "idle" /\ operator.timer
    /\ operator' = [operator EXCEPT !.due = TRUE, !.timer = FALSE]
    /\ UNCHANGED <<cr, replaced, status, configMap, template, pod, process, sources, faults>>

\* An operator that starts reconciles every resource it finds.
OperatorRestarts ==
    /\ faults > 0
    /\ operator' = [operator EXCEPT !.at = "idle", !.due = TRUE, !.timer = FALSE]
    /\ faults' = faults - 1
    /\ UNCHANGED <<cr, replaced, status, configMap, template, pod, process, sources>>

---------------------------------------------------------------------------
(* The cluster.                                                            *)

\* Recreate: the old pod is gone before the new one mounts the ConfigMap.
ReplacesPod ==
    /\ pod.template # template
    /\ pod' = [template |-> template, mount |-> configMap, changed |-> 1, seen |-> 0]
    /\ process' = [state |-> "down", read |-> <<>>]
    /\ sources' = <<>>
    /\ UNCHANGED <<cr, replaced, operator, status, configMap, template, faults>>

RefreshesMount ==
    /\ process.state # "none" /\ pod.mount # configMap
    /\ LateSidecar \/ pod.seen # 0 \/ pod.template.mode = "restart"
    /\ pod' = [pod EXCEPT !.mount = configMap, !.changed = @ + 1]
    /\ UNCHANGED <<cr, replaced, operator, status, configMap, template, process, sources, faults>>

\* A signal reaches every source that has a handler; before that it kills.
Signalled ==
    IF process.state = "up"
    THEN sources' = [n \in DOMAIN sources |-> [sources[n] EXCEPT !.pending = TRUE]] /\ UNCHANGED process
    ELSE process' = [state |-> "down", read |-> <<>>] /\ UNCHANGED sources

LooksWithoutSignal ==
    /\ pod.template.mode = "signal" /\ pod.seen # pod.changed
    /\ pod' = [pod EXCEPT !.seen = pod.changed]
    /\ UNCHANGED <<cr, replaced, operator, status, configMap, template, process, sources, faults>>

\* The sidecar compares the time of the mount with the one it saw before.
Looks ==
    /\ pod.template.mode = "signal" /\ pod.seen # pod.changed
    /\ pod' = [pod EXCEPT !.seen = pod.changed]
    /\ IF pod.seen = 0 THEN UNCHANGED <<process, sources>> ELSE Signalled
    /\ UNCHANGED <<cr, replaced, operator, status, configMap, template, faults>>

---------------------------------------------------------------------------
(* The process.                                                            *)

\* Every file loads, and no two of them are one stream.
WorkspaceLoads(dir) ==
    /\ \A n \in DOMAIN dir : dir[n].loads
    /\ \A n, o \in DOMAIN dir : n # o => dir[n].slot # dir[o].slot

\* The container starts and reads the directory; a process that cannot exits.
Boots ==
    /\ process.state = "down"
    /\ WorkspaceLoads(pod.mount)
    /\ process' = [state |-> "booting", read |-> pod.mount]
    /\ UNCHANGED <<cr, replaced, operator, status, configMap, template, pod, sources, faults>>

SourceOf(file) ==
    [state |-> "setup", current |-> file, pending |-> FALSE, found |-> Absent, outcome |-> "none"]

StartsBeforeHandler ==
    /\ process.state = "booting" /\ sources = <<>>
    /\ sources' = [n \in DOMAIN process.read |-> SourceOf(process.read[n])]
    /\ UNCHANGED <<cr, replaced, operator, status, configMap, template, pod, process, faults>>

\* The handler is installed before any source is started.
StartsSources ==
    /\ process.state = "booting"
    /\ process' = [state |-> "up", read |-> <<>>]
    /\ sources' = [n \in DOMAIN process.read |-> SourceOf(process.read[n])]
    /\ UNCHANGED <<cr, replaced, operator, status, configMap, template, pod, faults>>

\* A source is set up and streams, or it halts and the others do not.
SetsUp(n) ==
    /\ sources[n].state = "setup"
    /\ sources' = [sources EXCEPT ![n].state =
                     IF sources[n].current.fits THEN "streaming" ELSE "halted"]
    /\ UNCHANGED <<cr, replaced, operator, status, configMap, template, pod, process, faults>>

\* A process with nothing left to do exits, and its container is started again.
Exits ==
    /\ process.state = "up"
    /\ \A n \in DOMAIN sources : sources[n].state = "halted"
    /\ process' = [state |-> "down", read |-> <<>>]
    /\ sources' = <<>>
    /\ UNCHANGED <<cr, replaced, operator, status, configMap, template, pod, faults>>

\* The process is killed under its sources.
Dies ==
    /\ process.state \in {"booting", "up"} /\ faults > 0
    /\ process' = [state |-> "down", read |-> <<>>]
    /\ sources' = <<>>
    /\ faults' = faults - 1
    /\ UNCHANGED <<cr, replaced, operator, status, configMap, template, pod>>

\* A hangup is taken by a source that streams, and the ones in between are one.
ReadsFile(n) ==
    /\ sources[n].state = "streaming" /\ sources[n].pending
    /\ sources' = [sources EXCEPT ![n].pending = FALSE, ![n].state = "reloading",
                                  ![n].found = FileIn(pod.mount, n)]
    /\ UNCHANGED <<cr, replaced, operator, status, configMap, template, pod, process, faults>>

\* What the running pipeline takes of a file: the hot values, and the sections
\* that could join or leave.
Taken(current, file, moved) ==
    [current EXCEPT !.hot = file.hot,
                    !.sections = (@ \ (moved \ file.sections)) \cup (moved \cap file.sections)]

\* The sections a file removes, and the plain ones it adds.
Moves(current, file) ==
    (current.sections \ file.sections) \cup (file.sections \ (current.sections \cup {Special}))

\* Applies the file that was read, or nothing of it where it does not load.
Applies(n, moved) ==
    LET s == sources[n]
        running == Taken(s.current, s.found, moved)
    IN  /\ s.state = "reloading"
        /\ moved \subseteq Moves(s.current, s.found)
        /\ sources' = [sources EXCEPT ![n] =
              IF ~s.found.loads
              THEN [s EXCEPT !.state = "streaming", !.found = Absent, !.outcome = "invalid"]
              ELSE [s EXCEPT !.state = "streaming", !.found = Absent, !.current = running,
                             !.outcome = IF running = s.found THEN "applied" ELSE "refused"]]
        /\ UNCHANGED <<cr, replaced, operator, status, configMap, template, pod, process, faults>>

Reloads(n) == \E moved \in SUBSET Moves(sources[n].current, sources[n].found) : Applies(n, moved)

Next ==
    \/ Edits \/ Reconciles \/ RefusesSpec \/ PatchesMap \/ PatchesDeployment \/ SetsStatus
    \/ ApiFails \/ TimerFires \/ OperatorRestarts
    \/ ReplacesPod \/ RefreshesMount \/ Looks
    \/ Boots \/ StartsSources \/ Exits \/ Dies
    \/ \E n \in DOMAIN sources : SetsUp(n) \/ ReadsFile(n) \/ Reloads(n)

Fairness ==
    /\ WF_vars(Reconciles) /\ WF_vars(RefusesSpec) /\ WF_vars(PatchesMap)
    /\ WF_vars(PatchesDeployment) /\ WF_vars(SetsStatus) /\ WF_vars(TimerFires)
    /\ WF_vars(ReplacesPod) /\ WF_vars(RefreshesMount) /\ WF_vars(Looks)
    /\ WF_vars(Boots) /\ WF_vars(StartsSources) /\ WF_vars(Exits)
    /\ WF_vars(\E n \in DOMAIN sources : SetsUp(n))
    /\ WF_vars(\E n \in DOMAIN sources : ReadsFile(n))
    /\ WF_vars(\E n \in DOMAIN sources : Reloads(n))

Spec == Init /\ [][Next]_vars /\ Fairness

---------------------------------------------------------------------------
(* Properties.                                                             *)

\* Nothing is on its way from the resource to the sources any more.
Arrived ==
    /\ status.generation = cr.generation /\ cr.spec.renders
    /\ pod.template = template /\ pod.mount = configMap
    /\ pod.template.mode = "signal" => pod.seen = pod.changed
    /\ process.state = "up"
    /\ \A n \in DOMAIN sources :
         \/ sources[n].state = "halted"
         \/ sources[n].state = "streaming" /\ ~sources[n].pending

\* Once everything has arrived, every source runs its file as the resource has
\* it, or says that it does not: its last reload was refused or invalid, or it
\* halted.  A pod that is replaced for its files runs all of them; one that is
\* signalled runs those it was started with (controller.rs reconcile,
\* resources.rs deployment and reload_sidecar, supervisor.rs run_all, reload.rs apply).
AppliedOrRefused ==
    Arrived =>
      /\ cr.spec.mode = "restart" => DOMAIN sources = DOMAIN cr.spec.files
      /\ \A n \in DOMAIN sources :
           \/ sources[n].current = FileIn(cr.spec.files, n)
           \/ sources[n].outcome \in {"refused", "invalid"}
           \/ sources[n].state = "halted"

\* A status describes the generation it names: the objects are that spec's, or
\* that spec was refused (controller.rs set_status).
StatusIsOfItsSpec ==
    status.generation = cr.generation =>
      IF cr.spec.renders
      THEN ~status.refused /\ configMap = cr.spec.files /\ template = TemplateOf(cr.spec)
      ELSE status.refused

\* An edit that is signalled never ends a process that has started its
\* sources: that takes a new pod, a fault, or every source halting
\* (supervisor.rs run_all, the handler before the pipelines).
HangupNeverKills ==
    [][sources # <<>> /\ process'.state = "down" =>
         \/ pod'.template # pod.template \/ faults' < faults
         \/ \A n \in DOMAIN sources : sources[n].state = "halted"]_vars

\* Once the edits end, the resource reaches the pod and every reload is over,
\* whatever failed on the way, and the status says which generation it is.
RolloutSettles ==
    <>[](/\ status.generation = cr.generation
         /\ pod.template = template
         /\ process.state # "none" => pod.mount = configMap
         /\ \A n \in DOMAIN sources : sources[n].state = "streaming" => ~sources[n].pending)
=============================================================================
