--------------------------- MODULE RolloutProofs ---------------------------
(***************************************************************************)
(* Proofs about the rollout of a configuration, for every set of specs and *)
(* every number of edits and faults.                                       *)
(*                                                                         *)
(* A reconcile works on the resource as it was handed over, so what it     *)
(* writes may be out of date.  The invariant says how old it can be: never *)
(* older than the generation the status names.  For the sources it follows *)
(* the files from the ConfigMap over the mount and the signal that is due  *)
(* to the file each of them runs.                                          *)
(***************************************************************************)
EXTENDS Rollout, TLAPS

-----------------------------------------------------------------------------
(* The invariant.                                                          *)

Stages == {"idle", "refuse", "map", "deploy", "status"}

IsPod(p) ==
    /\ p = [template |-> p.template, mount |-> p.mount, changed |-> p.changed, seen |-> p.seen]
    /\ p.changed \in Nat \ {0} /\ p.seen \in Nat /\ p.seen <= p.changed

IsSource(s) ==
    /\ s = [state |-> s.state, current |-> s.current, pending |-> s.pending,
            found |-> s.found, outcome |-> s.outcome]
    /\ s.state \in {"setup", "streaming", "halted", "reloading"}
    /\ s.pending \in BOOLEAN

RolloutTypeOK ==
    /\ cr \in [generation : Nat, spec : AllSpecs]
    /\ replaced \subseteq AllSpecs
    /\ operator \in [at : Stages, due : BOOLEAN, timer : BOOLEAN,
                     cr : [generation : Nat, spec : AllSpecs], ready : BOOLEAN]
    /\ status \in [generation : Nat, ready : BOOLEAN, refused : BOOLEAN]
    /\ IsPod(pod)
    /\ process = [state |-> process.state, read |-> process.read]
    /\ process.state \in {"none", "down", "booting", "up"}
    /\ \A n \in DOMAIN sources : IsSource(sources[n])
    /\ faults \in Nat

\* What a reconcile under way has done so far, for the spec it was handed.
ReconcileOK ==
    /\ operator.at = "refuse" => ~operator.cr.spec.renders
    /\ operator.at \in {"map", "deploy", "status"} => operator.cr.spec.renders
    /\ operator.at \in {"deploy", "status"} => configMap = operator.cr.spec.files
    /\ operator.at = "status" => template = TemplateOf(operator.cr.spec)

\* A reconcile is never older than the status and never newer than the resource.
GenerationsOK ==
    /\ status.generation <= cr.generation
    /\ operator.cr.generation <= cr.generation
    /\ operator.cr.generation = cr.generation => operator.cr = cr
    /\ operator.at # "idle" => status.generation <= operator.cr.generation

\* Sources exist only in a process that is up, and therefore has its handler.
SourcesAreUp == process.state # "up" => sources = <<>>

StatusInv ==
    /\ RolloutTypeOK /\ ReconcileOK /\ GenerationsOK /\ StatusIsOfItsSpec /\ SourcesAreUp

\* A spec that a pod is replaced for does not come back, and a reconcile that
\* has one at hand has the resource's or one that is gone.
NoReturn ==
    /\ cr.spec.mode = "restart" => cr.spec \notin replaced
    /\ operator.cr # cr /\ operator.cr.spec.mode = "restart" => operator.cr.spec \in replaced

\* A template that carries a checksum is the template of a spec there has been.
IsKnown(t) ==
    t.mode = "restart" => \E s \in replaced \cup {cr.spec} : s.renders /\ t = TemplateOf(s)

\* Restart mode: once the template, or the pod, is that of the resource's spec,
\* no reconcile of an older one is left, and a pod runs its files.
RestartOK ==
    cr.spec.mode = "restart" /\ cr.spec.renders =>
      /\ TemplateOf(cr.spec) \in {template, pod.template} =>
           /\ configMap = cr.spec.files
           /\ operator.at # "idle" => operator.cr = cr
      /\ pod.template = TemplateOf(cr.spec) =>
           /\ pod.mount = cr.spec.files
           /\ process.state = "booting" => process.read = cr.spec.files
           /\ process.state = "up" =>
                /\ DOMAIN sources = DOMAIN cr.spec.files
                /\ \A n \in DOMAIN sources : sources[n].current = cr.spec.files[n]

\* Only a sidecar signals.
Unsignalled ==
    pod.template.mode # "signal" =>
      \A n \in DOMAIN sources : ~sources[n].pending /\ sources[n].state # "reloading"

\* Signal mode: unless a signal is due, what a source has read is the mount.
InStep(n) ==
    IF sources[n].state = "reloading"
    THEN sources[n].found = FileIn(pod.mount, n)
    ELSE \/ sources[n].current = FileIn(pod.mount, n)
         \/ sources[n].outcome \in {"refused", "invalid"}
         \/ sources[n].state = "halted"

SignalOK ==
    pod.template.mode = "signal" =>
      /\ pod.seen = 0 => pod.changed = 1
      /\ pod.seen \in {0, pod.changed} =>
           /\ process.state = "booting" => process.read = pod.mount
           /\ \A n \in DOMAIN sources : ~sources[n].pending => InStep(n)

FilesInv ==
    /\ NoReturn /\ IsKnown(template) /\ IsKnown(pod.template)
    /\ RestartOK /\ Unsignalled /\ SignalOK

-----------------------------------------------------------------------------
(* The status: StatusInv is inductive.                                     *)

\* What is known of a spec.
LEMMA SpecType ==
  ASSUME NEW s \in AllSpecs
  PROVE  /\ s = [mode |-> s.mode, files |-> s.files, renders |-> s.renders]
         /\ s.mode \in {"restart", "signal"} /\ s.renders \in BOOLEAN
         /\ TemplateOf(s).mode = s.mode
BY RolloutAssumption DEF TemplateOf

\* The resource has just been created.
LEMMA StatusInitInv == ASSUME Init PROVE StatusInv
<1>1. PICK s \in Created : /\ cr = [generation |-> 1, spec |-> s]
                           /\ replaced = {}
  BY DEF Init
<1>2. cr \in [generation : Nat, spec : AllSpecs]
  BY <1>1 DEF AllSpecs
<1>3. RolloutTypeOK
  <2>1. IsPod(pod)
    BY DEF Init, IsPod
  <2>2. operator \in [at : Stages, due : BOOLEAN, timer : BOOLEAN,
                     cr : [generation : Nat, spec : AllSpecs], ready : BOOLEAN]
    BY <1>2 DEF Init, Stages
  <2>3. process = [state |-> process.state, read |-> process.read] /\ process.state = "none"
    BY DEF Init
  <2> QED
    BY <1>1, <1>2, <2>1, <2>2, <2>3, RolloutAssumption DEF Init, RolloutTypeOK
<1> QED
  BY <1>1, <1>2, <1>3
     DEF Init, StatusInv, ReconcileOK, GenerationsOK, StatusIsOfItsSpec, SourcesAreUp

\* The resource and its controller leave the pod and the process alone.
ControllerStep ==
    \/ Edits \/ Reconciles \/ RefusesSpec \/ PatchesMap \/ PatchesDeployment \/ SetsStatus
    \/ ApiFails \/ TimerFires \/ OperatorRestarts

\* The operator acts through the ConfigMap and the template only.
LEMMA ControllerKeepsPod ==
  ASSUME ControllerStep PROVE UNCHANGED <<pod, process, sources>>
BY DEF ControllerStep, Edits, Reconciles, RefusesSpec, PatchesMap, PatchesDeployment,
       SetsStatus, ApiFails, TimerFires, OperatorRestarts

\* A reconcile reports the resource it fetched, which may be older than the one
\* there is by then.
LEMMA ControllerStatusInv ==
  ASSUME StatusInv, ControllerStep PROVE StatusInv'
<1> USE DEF StatusInv
<1>1. UNCHANGED <<pod, process, sources>>
  BY ControllerKeepsPod
<1>2. SourcesAreUp'
  BY <1>1 DEF SourcesAreUp
<1>3. /\ IsPod(pod)'
      /\ (process = [state |-> process.state, read |-> process.read])'
      /\ (process.state \in {"none", "down", "booting", "up"})'
      /\ (\A n \in DOMAIN sources : IsSource(sources[n]))'
  BY <1>1 DEF RolloutTypeOK, IsPod, IsSource
<1>4. CASE Edits
  <2>1. PICK s \in Specs : cr' = [generation |-> cr.generation + 1, spec |-> s]
    BY <1>4 DEF Edits
  <2>2. s \in AllSpecs
    BY DEF AllSpecs
  <2>3. cr' \in [generation : Nat, spec : AllSpecs] /\ cr'.generation = cr.generation + 1
    BY <2>1, <2>2 DEF RolloutTypeOK
  <2>4. replaced' \subseteq AllSpecs
    BY <1>4 DEF Edits, RolloutTypeOK
  <2>5. /\ UNCHANGED <<status, configMap, template, faults>>
        /\ operator' = [operator EXCEPT !.due = TRUE]
    BY <1>4 DEF Edits
  <2>6. RolloutTypeOK'
    BY <1>3, <2>3, <2>4, <2>5 DEF RolloutTypeOK
  <2> QED
    BY <1>2, <2>3, <2>5, <2>6
       DEF RolloutTypeOK, ReconcileOK, GenerationsOK, StatusIsOfItsSpec, Stages
<1>5. CASE Reconciles
  <2>1. RolloutTypeOK'
    BY <1>3, <1>5 DEF Reconciles, RolloutTypeOK, Stages
  <2> QED
    BY <1>2, <1>5, <2>1
       DEF Reconciles, RolloutTypeOK, ReconcileOK, GenerationsOK, StatusIsOfItsSpec, Stages
<1>6. CASE RefusesSpec
  <2>1. RolloutTypeOK'
    BY <1>3, <1>6 DEF RefusesSpec, RolloutTypeOK, Stages
  <2> QED
    BY <1>2, <1>6, <2>1
       DEF RefusesSpec, RolloutTypeOK, ReconcileOK, GenerationsOK, StatusIsOfItsSpec, Stages
<1>7. CASE PatchesMap
  <2>1. RolloutTypeOK'
    BY <1>3, <1>7 DEF PatchesMap, RolloutTypeOK, Stages
  <2> QED
    BY <1>2, <1>7, <2>1
       DEF PatchesMap, RolloutTypeOK, ReconcileOK, GenerationsOK, StatusIsOfItsSpec, Stages
<1>8. CASE PatchesDeployment
  <2>1. RolloutTypeOK'
    BY <1>3, <1>8 DEF PatchesDeployment, RolloutTypeOK, Stages
  <2> QED
    BY <1>2, <1>8, <2>1
       DEF PatchesDeployment, RolloutTypeOK, ReconcileOK, GenerationsOK, StatusIsOfItsSpec, Stages
<1>9. CASE SetsStatus
  <2>1. RolloutTypeOK'
    BY <1>3, <1>9 DEF SetsStatus, RolloutTypeOK, Stages
  <2> QED
    BY <1>2, <1>9, <2>1
       DEF SetsStatus, RolloutTypeOK, ReconcileOK, GenerationsOK, StatusIsOfItsSpec, Stages
<1>10. CASE ApiFails \/ TimerFires \/ OperatorRestarts
  <2>1. /\ UNCHANGED <<cr, replaced, status, configMap, template>>
        /\ faults' \in Nat
    BY <1>10 DEF ApiFails, TimerFires, OperatorRestarts, RolloutTypeOK
  <2>2. /\ operator' \in [at : Stages, due : BOOLEAN, timer : BOOLEAN,
                          cr : [generation : Nat, spec : AllSpecs], ready : BOOLEAN]
        /\ operator'.cr = operator.cr /\ operator'.at = "idle"
    <3>1. CASE ApiFails
      BY <3>1 DEF ApiFails, RolloutTypeOK, Stages
    <3>2. CASE TimerFires
      BY <3>2 DEF TimerFires, RolloutTypeOK, Stages
    <3>3. CASE OperatorRestarts
      BY <3>3 DEF OperatorRestarts, RolloutTypeOK, Stages
    <3> QED
      BY <1>10, <3>1, <3>2, <3>3
  <2>3. RolloutTypeOK'
    BY <1>3, <2>1, <2>2 DEF RolloutTypeOK
  <2> QED
    BY <1>2, <2>1, <2>2, <2>3 DEF ReconcileOK, GenerationsOK, StatusIsOfItsSpec
<1> QED
  BY <1>4, <1>5, <1>6, <1>7, <1>8, <1>9, <1>10 DEF ControllerStep

\* The cluster and the process leave the resource and its controller alone.
ClusterStep == ReplacesPod \/ RefreshesMount \/ Looks

ProcessStep ==
    \/ Boots \/ StartsSources \/ Exits \/ Dies
    \/ \E n \in DOMAIN sources : SetsUp(n) \/ ReadsFile(n) \/ Reloads(n)

\* The pod and the process write nothing back.
LEMMA PodKeepsController ==
  ASSUME ClusterStep \/ ProcessStep
  PROVE  UNCHANGED <<cr, replaced, operator, status, configMap, template>>
BY DEF ClusterStep, ProcessStep, ReplacesPod, RefreshesMount, Looks, Boots, StartsSources,
       Exits, Dies, SetsUp, ReadsFile, Reloads, Applies

\* A step of one source.
LEMMA SourceStepType ==
  ASSUME StatusInv, NEW n \in DOMAIN sources, SetsUp(n) \/ ReadsFile(n) \/ Reloads(n)
  PROVE  /\ UNCHANGED <<pod, process, faults>>
         /\ DOMAIN sources' = DOMAIN sources
         /\ \A m \in DOMAIN sources : m # n => sources'[m] = sources[m]
         /\ IsSource(sources'[n])
<1>1. IsSource(sources[n])
  BY DEF StatusInv, RolloutTypeOK
<1>2. CASE SetsUp(n)
  BY <1>1, <1>2 DEF SetsUp, IsSource
<1>3. CASE ReadsFile(n)
  BY <1>1, <1>3 DEF ReadsFile, IsSource
<1>4. CASE Reloads(n)
  <2>1. PICK moved : Applies(n, moved)
    BY <1>4 DEF Reloads
  <2> QED
    BY <1>1, <2>1 DEF Applies, IsSource
<1> QED
  BY <1>2, <1>3, <1>4

\* A signal marks every source of a process that is up, and ends any other.
LEMMA SignalledType ==
  ASSUME StatusInv, Signalled
  PROVE  /\ process.state = "up" =>
              /\ process' = process /\ DOMAIN sources' = DOMAIN sources
              /\ \A n \in DOMAIN sources : IsSource(sources'[n]) /\ sources'[n].pending
         /\ process.state # "up" =>
              process' = [state |-> "down", read |-> <<>>] /\ sources' = <<>>
<1>1. CASE process.state = "up"
  <2>1. /\ sources' = [n \in DOMAIN sources |-> [sources[n] EXCEPT !.pending = TRUE]]
        /\ process' = process
    BY <1>1 DEF Signalled
  <2>2. ASSUME NEW n \in DOMAIN sources PROVE IsSource(sources'[n]) /\ sources'[n].pending
    <3>1. IsSource(sources[n]) /\ sources'[n] = [sources[n] EXCEPT !.pending = TRUE]
      BY <2>1 DEF StatusInv, RolloutTypeOK
    <3> QED
      BY <3>1 DEF IsSource
  <2> QED
    BY <1>1, <2>1, <2>2
<1>2. CASE process.state # "up"
  BY <1>2 DEF Signalled, StatusInv, SourcesAreUp
<1> QED
  BY <1>1, <1>2

\* The cluster and the process: a source is signalled only when it is up.
LEMMA PodStatusInv ==
  ASSUME StatusInv, ClusterStep \/ ProcessStep PROVE StatusInv'
<1>1. UNCHANGED <<cr, replaced, operator, status, configMap, template>>
  BY PodKeepsController
<1>2. ReconcileOK' /\ GenerationsOK' /\ StatusIsOfItsSpec'
  BY <1>1 DEF StatusInv, ReconcileOK, GenerationsOK, StatusIsOfItsSpec
<1> DEFINE TasksOK ==
      /\ IsPod(pod)
      /\ process = [state |-> process.state, read |-> process.read]
      /\ process.state \in {"none", "down", "booting", "up"}
      /\ \A n \in DOMAIN sources : IsSource(sources[n])
      /\ faults \in Nat
      /\ SourcesAreUp
<1>3. TasksOK
  BY DEF StatusInv, RolloutTypeOK
<1>4. SUFFICES TasksOK'
  BY <1>1, <1>2 DEF StatusInv, RolloutTypeOK
<1>5. CASE ReplacesPod
  BY <1>3, <1>5 DEF ReplacesPod, IsPod, SourcesAreUp
<1>6. CASE RefreshesMount
  <2>1. pod' = [template |-> pod.template, mount |-> configMap, changed |-> pod.changed + 1,
                seen |-> pod.seen]
    BY <1>3, <1>6 DEF RefreshesMount, IsPod
  <2>2. IsPod(pod)'
    BY <1>3, <2>1 DEF IsPod
  <2> QED
    BY <1>3, <1>6, <2>2 DEF RefreshesMount, SourcesAreUp
<1>7. CASE Looks
  <2>1. IsPod(pod)' /\ faults' = faults
    BY <1>3, <1>7 DEF Looks, IsPod
  <2>2. CASE UNCHANGED <<process, sources>>
    BY <1>3, <2>1, <2>2 DEF SourcesAreUp, IsSource
  <2>3. CASE Signalled
    BY <1>3, <2>1, <2>3, SignalledType DEF SourcesAreUp
  <2> QED
    BY <1>7, <2>2, <2>3 DEF Looks
<1>8. CASE Boots
  BY <1>3, <1>8 DEF Boots, SourcesAreUp, IsPod, IsSource
<1>9. CASE StartsSources
  BY <1>3, <1>9 DEF StartsSources, SourceOf, SourcesAreUp, IsPod, IsSource
<1>10. CASE Exits \/ Dies
  BY <1>3, <1>10 DEF Exits, Dies, SourcesAreUp, IsPod
<1>11. ASSUME NEW n \in DOMAIN sources, SetsUp(n) \/ ReadsFile(n) \/ Reloads(n)
       PROVE  TasksOK'
  <2>1. process.state = "up"
    BY <1>3 DEF SourcesAreUp
  <2> QED
    BY <1>3, <1>11, <2>1, SourceStepType DEF SourcesAreUp, IsPod
<1> QED
  BY <1>5, <1>6, <1>7, <1>8, <1>9, <1>10, <1>11 DEF ClusterStep, ProcessStep

\* Every step keeps it.
LEMMA StatusStepInv == StatusInv /\ [Next]_vars => StatusInv'
<1> SUFFICES ASSUME StatusInv, [Next]_vars PROVE StatusInv'
  OBVIOUS
<1>1. CASE UNCHANGED vars
  BY <1>1 DEF vars, StatusInv, RolloutTypeOK, ReconcileOK, GenerationsOK, StatusIsOfItsSpec,
              SourcesAreUp, IsPod, IsSource
<1>2. CASE Next
  BY <1>2, ControllerStatusInv, PodStatusInv DEF Next, ControllerStep, ClusterStep, ProcessStep
<1> QED
  BY <1>1, <1>2

\* A reconcile under way has written what belongs to the spec it was handed, is
\* never older than the status nor newer than the resource (controller.rs
\* reconcile), and sources exist only in a process that has its signal handler
\* (supervisor.rs run_all).
THEOREM StatusInvariant == Spec => []StatusInv
<1>1. Init => StatusInv
  BY StatusInitInv
<1> QED
  BY <1>1, StatusStepInv, PTL DEF Spec

\* However edits, failed calls to the API, restarts of the operator and stale
\* reads of the resource interleave with a reconcile, a status that names the
\* resource's generation is true of it: the ConfigMap and the template are that
\* spec's, or it was refused (controller.rs reconcile and set_status).
THEOREM StatusIsTrue == Spec => []StatusIsOfItsSpec
<1>1. StatusInv => StatusIsOfItsSpec
  BY DEF StatusInv
<1> QED
  BY <1>1, StatusInvariant, PTL

-----------------------------------------------------------------------------
(* The signal.                                                             *)

\* A step that takes a process with sources down is a new pod, a fault or the
\* end of all sources.
LEMMA DownStep ==
  ASSUME StatusInv, [Next]_vars, sources # <<>>, process'.state = "down"
  PROVE  \/ pod'.template # pod.template \/ faults' < faults
         \/ \A n \in DOMAIN sources : sources[n].state = "halted"
<1>1. process.state = "up" /\ IsPod(pod) /\ faults \in Nat
  BY DEF StatusInv, RolloutTypeOK, SourcesAreUp
<1>2. process' # process
  BY <1>1
<1>3. CASE ReplacesPod
  BY <1>1, <1>3 DEF ReplacesPod, IsPod
<1>4. CASE Looks
  <2>1. Signalled
    BY <1>2, <1>4 DEF Looks
  <2> QED
    BY <1>1, <1>2, <2>1 DEF Signalled
<1>5. CASE Exits \/ Dies
  BY <1>1, <1>5 DEF Exits, Dies
<1>6. CASE Boots \/ StartsSources
  BY <1>1, <1>6 DEF Boots, StartsSources
<1>7. CASE ControllerStep \/ RefreshesMount \/ UNCHANGED vars
  BY <1>2, <1>7, ControllerKeepsPod DEF RefreshesMount, vars
<1>8. CASE \E n \in DOMAIN sources : SetsUp(n) \/ ReadsFile(n) \/ Reloads(n)
  BY <1>2, <1>8, SourceStepType
<1> QED
  BY <1>3, <1>4, <1>5, <1>6, <1>7, <1>8 DEF Next, ControllerStep

\* The sidecar's signal, whenever it comes, never ends a process that has started
\* its sources: the handler is installed before them (resources.rs
\* reload_sidecar, supervisor.rs run_all).
THEOREM SignalNeverKills == Spec => HangupNeverKills
<1>1. StatusInv /\ [Next]_vars =>
        [sources # <<>> /\ process'.state = "down" =>
           \/ pod'.template # pod.template \/ faults' < faults
           \/ \A n \in DOMAIN sources : sources[n].state = "halted"]_vars
  BY DownStep
<1> QED
  BY <1>1, StatusInvariant, PTL DEF Spec, HangupNeverKills

-----------------------------------------------------------------------------
(* The files: FilesInv is inductive where specs do not come back and the   *)
(* sidecar has looked once before the mount changes.                       *)

\* A template with a checksum belongs to one spec only.
LEMMA TemplateIsOfOneSpec ==
  ASSUME NEW s \in AllSpecs, NEW t \in AllSpecs, s.mode = "restart", s.renders, t.renders,
         TemplateOf(s) = TemplateOf(t)
  PROVE  s = t
<1>1. t.mode = "restart"
  BY SpecType
<1>2. s.files = t.files
  BY <1>1 DEF TemplateOf
<1>3. s.renders = t.renders
  BY SpecType
<1> QED
  BY <1>1, <1>2, <1>3, SpecType

\* Nothing is deployed yet.
LEMMA FilesInitInv == ASSUME Init PROVE FilesInv
<1>1. PICK s \in Created : cr = [generation |-> 1, spec |-> s] /\ operator.cr = cr
  BY DEF Init
<1>2. s \in AllSpecs
  BY DEF AllSpecs
<1>3. replaced = {} /\ template.mode = "none" /\ pod.template = template /\ sources = <<>>
      /\ process.state = "none"
  BY DEF Init
<1>4. TemplateOf(cr.spec).mode = "restart" \/ TemplateOf(cr.spec).mode = "signal"
  BY <1>1, <1>2, SpecType
<1> QED
  BY <1>1, <1>3, <1>4 DEF FilesInv, NoReturn, IsKnown, RestartOK, Unsignalled, SignalOK

\* What the controller does to NoReturn, to the templates and to RestartOK.
LEMMA EditsFiles ==
  ASSUME ~Reverts, StatusInv, FilesInv, Edits
  PROVE  NoReturn' /\ IsKnown(template)' /\ IsKnown(pod.template)' /\ RestartOK'
<1>1. PICK s \in Specs : /\ s # cr.spec
                         /\ s.mode = "signal" \/ s \notin replaced
                         /\ cr' = [generation |-> cr.generation + 1, spec |-> s]
  BY DEF Edits
<1>2. /\ replaced' = replaced \cup {t \in {cr.spec} : t.mode = "restart"}
      /\ operator'.cr = operator.cr
      /\ UNCHANGED <<template, pod>>
  BY DEF Edits, StatusInv, RolloutTypeOK
<1>3. s \in AllSpecs /\ cr.spec \in AllSpecs /\ cr'.spec = s /\ cr' # cr
  BY <1>1 DEF AllSpecs, StatusInv, RolloutTypeOK
<1>4. s.mode = "restart" => s \notin replaced'
  BY <1>1, <1>2, SpecType, <1>3
<1>5. NoReturn'
  <2>1. operator.cr.spec.mode = "restart" => operator.cr.spec \in replaced'
    BY <1>2, <1>3, SpecType DEF FilesInv, NoReturn
  <2> QED
    BY <1>2, <1>3, <1>4, <2>1 DEF NoReturn
<1>6. ASSUME NEW t, IsKnown(t)
      PROVE  t.mode = "restart" => \E u \in replaced' : u.renders /\ t = TemplateOf(u)
  <2>1. SUFFICES ASSUME t.mode = "restart"
                 PROVE  \E u \in replaced' : u.renders /\ t = TemplateOf(u)
    OBVIOUS
  <2>2. PICK u \in replaced \cup {cr.spec} : u.renders /\ t = TemplateOf(u)
    BY <1>6, <2>1 DEF IsKnown
  <2>3. u.mode = "restart"
    BY <2>1, <2>2, <1>3, SpecType DEF StatusInv, RolloutTypeOK
  <2> QED
    BY <1>2, <2>2, <2>3
<1>7. IsKnown(template)' /\ IsKnown(pod.template)'
  BY <1>2, <1>6 DEF FilesInv, IsKnown
<1>8. RestartOK'
  <2>1. SUFFICES ASSUME s.mode = "restart", s.renders
                 PROVE  TemplateOf(s) \notin {template', pod'.template}
    BY <1>3 DEF RestartOK
  <2>2. ASSUME NEW t, IsKnown(t), t = TemplateOf(s) PROVE FALSE
    <3>1. t.mode = "restart"
      BY <1>3, <2>1, <2>2, SpecType
    <3>2. PICK u \in replaced' : u.renders /\ TemplateOf(s) = TemplateOf(u)
      BY <1>6, <2>2, <3>1
    <3>3. u \in AllSpecs
      BY <1>2, <1>3 DEF StatusInv, RolloutTypeOK
    <3> QED
      BY <1>3, <1>4, <2>1, <3>2, <3>3, TemplateIsOfOneSpec
  <2> QED
    BY <1>2, <2>2 DEF FilesInv
<1> QED
  BY <1>5, <1>7, <1>8

\* The Deployment is patched once the ConfigMap is, for the same spec.
LEMMA DeploysFiles ==
  ASSUME StatusInv, FilesInv, PatchesDeployment
  PROVE  NoReturn' /\ IsKnown(template)' /\ IsKnown(pod.template)' /\ RestartOK'
<1>1. /\ operator.at = "deploy" /\ operator.cr.spec.renders
      /\ configMap = operator.cr.spec.files
      /\ cr \in [generation : Nat, spec : AllSpecs]
      /\ operator.cr \in [generation : Nat, spec : AllSpecs]
      /\ cr.spec \in AllSpecs /\ operator.cr.spec \in AllSpecs
  BY DEF PatchesDeployment, StatusInv, ReconcileOK, RolloutTypeOK
<1>2. /\ template' = TemplateOf(operator.cr.spec)
      /\ operator'.cr = operator.cr
      /\ UNCHANGED <<cr, replaced, configMap, pod, process, sources>>
  BY DEF PatchesDeployment, StatusInv, RolloutTypeOK
<1>3. NoReturn' /\ IsKnown(pod.template)'
  BY <1>2 DEF FilesInv, NoReturn, IsKnown
<1>4. operator.cr.spec.mode = "restart" => operator.cr.spec \in replaced \cup {cr.spec}
  BY DEF FilesInv, NoReturn
<1>5. IsKnown(template)'
  BY <1>1, <1>2, <1>4, SpecType DEF IsKnown
<1>6. ASSUME cr.spec.mode = "restart", cr.spec.renders, template' = TemplateOf(cr.spec)
      PROVE  operator.cr = cr
  <2>1. operator.cr.spec = cr.spec
    BY <1>1, <1>2, <1>6, TemplateIsOfOneSpec
  <2> QED
    BY <1>6, <2>1 DEF FilesInv, NoReturn
<1>7. RestartOK'
  BY <1>1, <1>2, <1>6 DEF FilesInv, RestartOK
<1> QED
  BY <1>3, <1>5, <1>7

\* The other steps leave the template alone, and change the ConfigMap only to
\* what the reconcile under way holds.
LEMMA ReconcilesFiles ==
  ASSUME StatusInv, FilesInv, ControllerStep, ~Edits, ~PatchesDeployment
  PROVE  NoReturn' /\ IsKnown(template)' /\ IsKnown(pod.template)' /\ RestartOK'
<1>1. UNCHANGED <<cr, replaced, template, pod, process, sources>>
  BY DEF ControllerStep, Edits, Reconciles, RefusesSpec, PatchesMap, PatchesDeployment,
         SetsStatus, ApiFails, TimerFires, OperatorRestarts
<1>2. /\ operator'.cr \in {operator.cr, cr}
      /\ operator'.at # "idle" => operator.at # "idle" \/ operator'.cr = cr
      /\ configMap' # configMap => operator.at # "idle" /\ configMap' = operator.cr.spec.files
  <2>1. CASE Reconciles
    BY <2>1 DEF Reconciles, StatusInv, RolloutTypeOK
  <2>2. CASE RefusesSpec
    BY <2>2 DEF RefusesSpec, StatusInv, RolloutTypeOK
  <2>3. CASE PatchesMap
    BY <2>3 DEF PatchesMap, StatusInv, RolloutTypeOK
  <2>4. CASE SetsStatus
    BY <2>4 DEF SetsStatus, StatusInv, RolloutTypeOK
  <2>5. CASE ApiFails
    BY <2>5 DEF ApiFails, StatusInv, RolloutTypeOK
  <2>6. CASE TimerFires
    BY <2>6 DEF TimerFires, StatusInv, RolloutTypeOK
  <2>7. CASE OperatorRestarts
    BY <2>7 DEF OperatorRestarts, StatusInv, RolloutTypeOK
  <2> QED
    BY <2>1, <2>2, <2>3, <2>4, <2>5, <2>6, <2>7 DEF ControllerStep
<1>3. NoReturn' /\ IsKnown(template)' /\ IsKnown(pod.template)'
  BY <1>1, <1>2 DEF FilesInv, NoReturn, IsKnown
<1>4. RestartOK'
  <2>1. CASE operator'.cr = cr
    BY <1>1, <1>2, <2>1 DEF FilesInv, RestartOK
  <2>2. CASE operator'.cr = operator.cr
    BY <1>1, <1>2, <2>2 DEF FilesInv, RestartOK
  <2> QED
    BY <1>2, <2>1, <2>2
<1> QED
  BY <1>3, <1>4

\* The operator's steps, when a spec that was replaced does not come back.
LEMMA ControllerFilesInv ==
  ASSUME ~Reverts, StatusInv, FilesInv, ControllerStep PROVE FilesInv'
<1>1. UNCHANGED <<pod, process, sources>>
  BY ControllerKeepsPod
<1>2. Unsignalled' /\ SignalOK'
  BY <1>1 DEF FilesInv, Unsignalled, SignalOK, InStep
<1> QED
  BY <1>2, EditsFiles, DeploysFiles, ReconcilesFiles DEF FilesInv

\* A new pod, or a new mount.
LEMMA ClusterFilesInv ==
  ASSUME ~LateSidecar, StatusInv, FilesInv, ClusterStep PROVE FilesInv'
<1>1. UNCHANGED <<cr, replaced, operator, status, configMap, template>>
  BY PodKeepsController
<1>2. NoReturn' /\ IsKnown(template)'
  BY <1>1 DEF FilesInv, NoReturn, IsKnown
<1>3. IsPod(pod) /\ cr.spec \in AllSpecs
  BY DEF StatusInv, RolloutTypeOK
<1>4. CASE ReplacesPod
  <2>1. /\ pod'.template = template /\ pod'.mount = configMap
        /\ pod'.seen = 0 /\ pod'.changed = 1
        /\ process'.state = "down" /\ sources' = <<>>
    BY <1>4 DEF ReplacesPod
  <2>2. IsKnown(pod.template)'
    BY <1>1, <2>1 DEF FilesInv, IsKnown
  <2>3. RestartOK'
    BY <1>1, <2>1 DEF FilesInv, RestartOK
  <2> QED
    BY <1>2, <2>1, <2>2, <2>3 DEF FilesInv, Unsignalled, SignalOK
<1>5. CASE RefreshesMount
  <2>1. /\ pod'.template = pod.template /\ pod'.mount = configMap
        /\ pod'.seen = pod.seen /\ pod'.changed = pod.changed + 1
        /\ UNCHANGED <<process, sources>>
        /\ pod.seen # 0 \/ pod.template.mode = "restart"
    BY <1>3, <1>5 DEF RefreshesMount, IsPod
  <2>2. IsKnown(pod.template)' /\ Unsignalled'
    BY <1>1, <2>1 DEF FilesInv, IsKnown, Unsignalled
  <2>3. RestartOK'
    BY <1>1, <2>1 DEF FilesInv, RestartOK
  <2>4. SignalOK'
    BY <1>3, <2>1 DEF FilesInv, SignalOK, IsPod
  <2> QED
    BY <1>2, <2>2, <2>3, <2>4 DEF FilesInv
<1>6. CASE Looks
  <2>1. /\ pod.template.mode = "signal"
        /\ pod'.template = pod.template /\ pod'.mount = pod.mount
        /\ pod'.seen = pod.changed /\ pod'.changed = pod.changed
        /\ IF pod.seen = 0 THEN UNCHANGED <<process, sources>> ELSE Signalled
    BY <1>3, <1>6 DEF Looks, IsPod
  <2>2. IsKnown(pod.template)' /\ Unsignalled'
    BY <1>1, <2>1 DEF FilesInv, IsKnown, Unsignalled
  <2>3. RestartOK'
    <3>1. cr.spec.mode = "restart" => pod'.template # TemplateOf(cr.spec)
      BY <1>3, <2>1, SpecType
    <3> QED
      BY <1>1, <2>1, <3>1 DEF FilesInv, RestartOK
  <2>4. SignalOK'
    <3>1. CASE pod.seen = 0
      BY <1>3, <2>1, <3>1 DEF FilesInv, SignalOK, InStep, IsPod
    <3>2. CASE pod.seen # 0
      BY <1>3, <2>1, <3>2, SignalledType DEF SignalOK, IsPod
    <3> QED
      BY <3>1, <3>2
  <2> QED
    BY <1>2, <2>2, <2>3, <2>4 DEF FilesInv
<1> QED
  BY <1>4, <1>5, <1>6 DEF ClusterStep

\* One source is set up, reads its file, or applies what it read.
LEMMA SourceFilesInv ==
  ASSUME StatusInv, FilesInv, NEW n \in DOMAIN sources, SetsUp(n) \/ ReadsFile(n) \/ Reloads(n)
  PROVE  RestartOK' /\ Unsignalled' /\ SignalOK'
<1>1. UNCHANGED <<cr, replaced, operator, configMap, template, pod, process>>
  BY SourceStepType, PodKeepsController DEF ProcessStep
<1>2. /\ DOMAIN sources' = DOMAIN sources
      /\ \A m \in DOMAIN sources : m # n => sources'[m] = sources[m]
  BY SourceStepType
<1>3. IsSource(sources[n])
  BY DEF StatusInv, RolloutTypeOK
<1>4. CASE SetsUp(n)
  <2>1. /\ sources[n].state = "setup"
        /\ sources'[n].state \in {"streaming", "halted"}
        /\ sources'[n].current = sources[n].current
        /\ sources'[n].pending = sources[n].pending
        /\ sources'[n].outcome = sources[n].outcome
    BY <1>3, <1>4 DEF SetsUp, IsSource
  <2>2. RestartOK' /\ Unsignalled'
    BY <1>1, <1>2, <2>1 DEF FilesInv, RestartOK, Unsignalled
  <2>3. SignalOK'
    BY <1>1, <1>2, <2>1 DEF FilesInv, SignalOK, InStep
  <2> QED
    BY <2>2, <2>3
<1>5. CASE ReadsFile(n)
  <2>1. /\ sources[n].pending
        /\ sources'[n].state = "reloading"
        /\ sources'[n].current = sources[n].current
        /\ sources'[n].found = FileIn(pod.mount, n)
    BY <1>3, <1>5 DEF ReadsFile, IsSource
  <2>2. RestartOK' /\ Unsignalled'
    BY <1>1, <1>2, <2>1 DEF FilesInv, RestartOK, Unsignalled
  <2>3. SignalOK'
    BY <1>1, <1>2, <2>1 DEF FilesInv, SignalOK, InStep
  <2> QED
    BY <2>2, <2>3
<1>6. CASE Reloads(n)
  <2>1. PICK moved : Applies(n, moved)
    BY <1>6 DEF Reloads
  <2>2. /\ sources[n].state = "reloading"
        /\ sources'[n].state = "streaming"
        /\ sources'[n].pending = sources[n].pending
        /\ \/ sources'[n].outcome \in {"refused", "invalid"}
           \/ sources'[n].current = sources[n].found
    BY <1>3, <2>1 DEF Applies, IsSource
  <2>3. pod.template.mode = "signal"
    BY <2>2 DEF FilesInv, Unsignalled
  <2>4. cr.spec.mode = "restart" => pod.template # TemplateOf(cr.spec)
    BY <2>3, SpecType DEF StatusInv, RolloutTypeOK
  <2>5. RestartOK' /\ Unsignalled'
    BY <1>1, <2>3, <2>4 DEF FilesInv, RestartOK, Unsignalled
  <2>6. SignalOK'
    BY <1>1, <1>2, <2>2 DEF FilesInv, SignalOK, InStep
  <2> QED
    BY <2>5, <2>6
<1> QED
  BY <1>4, <1>5, <1>6

\* A process reads the mount it boots with; a reload reads the one of its signal.
LEMMA ProcessFilesInv ==
  ASSUME StatusInv, FilesInv, ProcessStep PROVE FilesInv'
<1>1. UNCHANGED <<cr, replaced, operator, status, configMap, template, pod>>
  BY PodKeepsController, SourceStepType DEF ProcessStep, Boots, StartsSources, Exits, Dies
<1>2. NoReturn' /\ IsKnown(template)' /\ IsKnown(pod.template)'
  BY <1>1 DEF FilesInv, NoReturn, IsKnown
<1>3. CASE Boots
  <2>1. process'.state = "booting" /\ process'.read = pod.mount /\ sources' = <<>>
    BY <1>3 DEF Boots, StatusInv, SourcesAreUp
  <2> QED
    BY <1>1, <1>2, <2>1 DEF FilesInv, RestartOK, Unsignalled, SignalOK
<1>4. CASE StartsSources
  <2>1. /\ process.state = "booting" /\ process'.state = "up"
        /\ DOMAIN sources' = DOMAIN process.read
        /\ \A n \in DOMAIN process.read :
             /\ sources'[n].current = process.read[n]
             /\ sources'[n].state = "setup" /\ ~sources'[n].pending
    BY <1>4 DEF StartsSources, SourceOf
  <2>2. RestartOK' /\ Unsignalled'
    BY <1>1, <2>1 DEF FilesInv, RestartOK, Unsignalled
  <2>3. SignalOK'
    BY <1>1, <2>1 DEF FilesInv, SignalOK, InStep, FileIn
  <2> QED
    BY <1>2, <2>2, <2>3 DEF FilesInv
<1>5. CASE Exits \/ Dies
  <2>1. process'.state = "down" /\ sources' = <<>>
    BY <1>5 DEF Exits, Dies
  <2> QED
    BY <1>1, <1>2, <2>1 DEF FilesInv, RestartOK, Unsignalled, SignalOK
<1>6. CASE \E n \in DOMAIN sources : SetsUp(n) \/ ReadsFile(n) \/ Reloads(n)
  BY <1>2, <1>6, SourceFilesInv DEF FilesInv
<1> QED
  BY <1>3, <1>4, <1>5, <1>6 DEF ProcessStep

\* Every step keeps it.
LEMMA FilesStepInv ==
  ASSUME ~Reverts, ~LateSidecar, StatusInv, FilesInv, [Next]_vars PROVE FilesInv'
<1>1. CASE UNCHANGED vars
  BY <1>1 DEF vars, FilesInv, NoReturn, IsKnown, RestartOK, Unsignalled, SignalOK, InStep
<1>2. CASE Next
  BY <1>2, ControllerFilesInv, ClusterFilesInv, ProcessFilesInv
     DEF Next, ControllerStep, ClusterStep, ProcessStep
<1> QED
  BY <1>1, <1>2

\* Once everything has arrived, what the invariants say is AppliedOrRefused.
LEMMA FilesArrive == ASSUME StatusInv, FilesInv PROVE AppliedOrRefused
<1> SUFFICES ASSUME Arrived
             PROVE  /\ cr.spec.mode = "restart" => DOMAIN sources = DOMAIN cr.spec.files
                    /\ \A n \in DOMAIN sources :
                         \/ sources[n].current = FileIn(cr.spec.files, n)
                         \/ sources[n].outcome \in {"refused", "invalid"}
                         \/ sources[n].state = "halted"
  BY DEF AppliedOrRefused
<1>1. /\ cr.spec \in AllSpecs /\ cr.spec.renders
      /\ configMap = cr.spec.files /\ template = TemplateOf(cr.spec)
      /\ pod.template = template /\ pod.mount = configMap /\ process.state = "up"
      /\ pod.template.mode = cr.spec.mode
  BY SpecType DEF Arrived, StatusInv, RolloutTypeOK, StatusIsOfItsSpec
<1>2. CASE cr.spec.mode = "restart"
  BY <1>1, <1>2 DEF FilesInv, RestartOK, FileIn
<1>3. CASE cr.spec.mode = "signal"
  BY <1>1, <1>3 DEF Arrived, FilesInv, SignalOK, InStep
<1> QED
  BY <1>1, <1>2, <1>3, SpecType

\* Once an edit has arrived, through the ConfigMap, the mount, and the sidecar's
\* signal or a replaced pod, every source runs its file of the resource's spec or
\* has refused it (controller.rs reconcile, resources.rs reload_sidecar,
\* reload.rs apply): for a resource that in restart mode does not return to an
\* earlier spec, and a sidecar that looked once before the mount changed.
THEOREM EditIsAppliedOrRefused == ~Reverts /\ ~LateSidecar => (Spec => []AppliedOrRefused)
<1> SUFFICES ASSUME ~Reverts /\ ~LateSidecar PROVE Spec => []AppliedOrRefused
  OBVIOUS
<1>1. Init => FilesInv
  BY FilesInitInv
<1>2. StatusInv /\ FilesInv /\ [Next]_vars => FilesInv'
  BY FilesStepInv
<1>3. StatusInv /\ FilesInv => AppliedOrRefused
  BY FilesArrive
<1> QED
  BY <1>1, <1>2, <1>3, StatusInvariant, PTL DEF Spec
=============================================================================
