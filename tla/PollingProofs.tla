---------------------------- MODULE PollingProofs ----------------------------
(***************************************************************************)
(* Proofs about Polling: the refresh of an index comes back after a load,  *)
(* whatever earlier attempts left behind.                                  *)
(***************************************************************************)
EXTENDS Polling, TLAPS

\* What the load has set aside is a setting it may put back: once it has begun,
\* nothing in `saved` is the suspension that an interrupted load left, so that
\* restoring it cannot leave an index without a refresh.
SavedIsRestorable ==
  /\ DOMAIN load = {"pc", "at", "upto", "reading", "mark"}
  /\ load.pc # "begin" => \A t \in Table : saved[t] # "suspended"
  /\ RefreshComesBack

\* The steps of the other tasks leave the settings, the saved ones and the load
\* where they are, and with them the invariant.
LEMMA RefreshUntouched ==
  ASSUME SavedIsRestorable, UNCHANGED <<load, saved, refresh>>
  PROVE  SavedIsRestorable'
BY DEF SavedIsRestorable, RefreshComesBack

\* BulkLoadSettings never holds a suspension once begin_bulk_load has read the
\* settings, through every step of the load, the polling task, the engine and
\* the sink and across attempts that end anywhere.
THEOREM RefreshInvariant == Spec => []SavedIsRestorable
<1>1. Init => SavedIsRestorable
  BY DEF Init, IdleLoad, SavedIsRestorable, RefreshComesBack
<1>2. SavedIsRestorable /\ [Next]_vars => SavedIsRestorable'
  <2> SUFFICES ASSUME SavedIsRestorable, [Next]_vars PROVE SavedIsRestorable'
    OBVIOUS
  <2>1. CASE UNCHANGED vars
    BY <2>1, RefreshUntouched DEF vars, storeVars, loadVars
  <2>2. ASSUME NEW r \in Rows, NEW deleted \in BOOLEAN, Change(r, deleted)
        PROVE  SavedIsRestorable'
    BY <2>2, RefreshUntouched DEF Change, storeVars, loadVars
  <2>3. CASE PollStep
    BY <2>3, RefreshUntouched DEF PollStep, ReadWatermark, PollTable, storeVars, loadVars
  <2>4. CASE EngineStep
    BY <2>4, RefreshUntouched DEF EngineStep, TakePolled, TakeCopied, storeVars, loadVars
  <2>5. CASE Execute
    BY <2>5, RefreshUntouched DEF Execute, loadVars
  <2>6. CASE NewAttempt
    BY <2>6 DEF NewAttempt, IdleLoad, SavedIsRestorable, RefreshComesBack
  <2>7. CASE BeginLoad
    <3>1. /\ load' = [load EXCEPT !.pc = "open"]
          /\ DOMAIN load = {"pc", "at", "upto", "reading", "mark"}
      BY <2>7 DEF BeginLoad, SavedIsRestorable
    <3>2. load'.pc = "open" /\ DOMAIN load' = {"pc", "at", "upto", "reading", "mark"}
      BY <3>1
    <3>3. \A t \in Table : saved'[t] # "suspended"
      BY <2>7 DEF BeginLoad, SavedSetting
    <3> QED BY <3>2, <3>3 DEF SavedIsRestorable, RefreshComesBack
  <2>8. CASE OpenTable \/ ReadRange \/ StoreProgress
    <3>1. load.pc \in {"open", "read", "wait"} /\ UNCHANGED <<saved, refresh>>
      BY <2>8 DEF OpenTable, ReadRange, StoreProgress, storeVars
    <3>2. /\ DOMAIN load' = {"pc", "at", "upto", "reading", "mark"}
          /\ load'.pc \in {"open", "read", "wait", "clear"}
      <4>1. DOMAIN load = {"pc", "at", "upto", "reading", "mark"}
        BY DEF SavedIsRestorable
      <4>2. CASE NextTable
        BY <4>1, <4>2 DEF NextTable
      <4>3. ASSUME NEW bounds, NEW done, NextWave(bounds, done)
            PROVE  /\ DOMAIN load' = {"pc", "at", "upto", "reading", "mark"}
                   /\ load'.pc \in {"open", "read", "wait", "clear"}
        BY <4>1, <4>3 DEF NextWave
      <4>4. CASE ReadRange
        BY <4>1, <4>4 DEF ReadRange
      <4> QED
        BY <2>8, <4>2, <4>3, <4>4 DEF OpenTable, StoreProgress
    <3> QED BY <3>1, <3>2 DEF SavedIsRestorable, RefreshComesBack
  <2>9. CASE ClearProgress
    <3>1. /\ load.pc = "clear" /\ UNCHANGED <<saved, refresh>>
          /\ load' = [load EXCEPT !.pc = "restore"]
          /\ DOMAIN load = {"pc", "at", "upto", "reading", "mark"}
      BY <2>9 DEF ClearProgress, SavedIsRestorable
    <3>2. load'.pc = "restore" /\ DOMAIN load' = {"pc", "at", "upto", "reading", "mark"}
      BY <3>1
    <3> QED BY <3>1, <3>2 DEF SavedIsRestorable, RefreshComesBack
  <2>10. CASE Restore
    <3>1. /\ load.pc = "restore" /\ saved' = saved /\ refresh' = saved
          /\ load' = [load EXCEPT !.pc = "finished"]
          /\ DOMAIN load = {"pc", "at", "upto", "reading", "mark"}
      BY <2>10 DEF Restore, SavedIsRestorable
    <3>2. load'.pc = "finished" /\ DOMAIN load' = {"pc", "at", "upto", "reading", "mark"}
      BY <3>1
    <3> QED BY <3>1, <3>2 DEF SavedIsRestorable, RefreshComesBack
  <2> QED
    BY <2>1, <2>2, <2>3, <2>4, <2>5, <2>6, <2>7, <2>8, <2>9, <2>10 DEF Next, LoadStep
<1> QED BY <1>1, <1>2, PTL DEF Spec

\* The suspension of an index's refresh does not outlive the load that did it,
\* for any tables, rows, pages, workers and number of attempts: whatever state
\* an interrupted load left the settings in, the load that ends puts back a
\* refresh interval and never a suspension.
THEOREM RefreshIsPutBack == Spec => []RefreshComesBack
BY RefreshInvariant, PTL DEF SavedIsRestorable

=============================================================================
