-------------------------- MODULE StatePersistence --------------------------
(***************************************************************************)
(* EndpointHealth with its SQLite store (router.go, cooldown_store.go): who *)
(* owes a save, the debounced timer, saves that run one at a time against  *)
(* the snapshot of the last one, crashes, clean shutdowns and restarts.    *)
(*                                                                         *)
(* An expired cooldown row is no row: every reader and every save drops it.*)
(* OpenedAt of an open circuit is not compared (nothing reads it).  The    *)
(* throughput estimates are saved by the same diff; of them the model keeps *)
(* that they trigger saves, and that a save may have only them to write.   *)
(***************************************************************************)
EXTENDS EndpointHealth

VARIABLES
    savedCooldown, savedCircuit,    \* persistedCooldowns, persistedCircuits
    rowCooldown, rowCircuit,        \* the tables cooldowns and circuits
    saver,          \* what each goroutine still has to do for persistence
    captured,       \* the live state the save under way has copied
    armed,          \* cooldownSave.timer is pending
    process,        \* "up", "closing", "closed" (store closed) or "down"
    unsaved,        \* history: the last save to finish failed
    blind           \* history: some start could not read the tables

snapshot == <<savedCooldown, savedCircuit>>
rows == <<rowCooldown, rowCircuit>>
persistence == <<savedCooldown, savedCircuit, rowCooldown, rowCircuit, saver,
                 captured, armed, process, unsaved, blind>>

\* The request goroutines, the timer's callback, an admin request, the sweeper
\* and main.
Saver == Attempt \cup {"timer", "admin", "sweeper", "main"}

NoRows == [e \in Endpoint |-> NoBackoff]
NoCircuits == [e \in Endpoint |-> Closed]

\* The rows that deserve saving: running cooldowns, circuits not closed.
Active(b) == IF b.left > 0 THEN b ELSE NoBackoff
Tripped(cb) == IF cb.state = "closed" THEN Closed ELSE cb

Nothing == [cooldown |-> NoRows, circuit |-> NoCircuits]

PInit ==
    /\ Init
    /\ savedCooldown = NoRows /\ savedCircuit = NoCircuits
    /\ rowCooldown = NoRows /\ rowCircuit = NoCircuits
    /\ saver = [s \in Saver |-> "none"]
    /\ captured = Nothing
    /\ armed = FALSE
    /\ process = "up"
    /\ unsaved = FALSE /\ blind = FALSE

Serving == process # "down"

----------------------------------------------------------------------------
(* Requests.  An outcome is recorded first, persisted after the unlock.     *)

Owes(s, what) ==
    /\ saver' = [saver EXCEPT ![s] = what]
    /\ UNCHANGED <<snapshot, rows, captured, armed, process, unsaved, blind>>

RequestFails(a) ==
    /\ Serving /\ saver[a] = "none"
    /\ \E f \in Failure, retryAfter \in RetryAfters : Fail(a, f, retryAfter)
    /\ Owes(a, "trigger")

\* A success saves at once, and only if it deleted a cooldown.
RequestSucceeds(a) ==
    /\ Serving /\ saver[a] = "none"
    /\ Succeed(a)
    /\ Owes(a, IF cooldown[attempt[a].ep] = NoBackoff THEN "none" ELSE "save")

\* RecordTPS, after RecordSuccess: the estimate rides with the next save.
RecordTPS(a) ==
    /\ Serving /\ saver[a] = "none" /\ attempt[a] = Idle
    /\ Owes(a, "trigger")
    /\ UNCHANGED vars

\* Selections and half-open windows are not persisted when they happen.
RequestMoves(a) ==
    /\ Serving /\ saver[a] = "none"
    /\ Select(a) \/ Abandon(a) \/ PenalizeHost(a)
    /\ UNCHANGED persistence

Check(e) == Serving /\ Inspect(e) /\ UNCHANGED persistence

\* Mutant: a trigger during a save is taken to be covered by it.
TriggerUnlessSaving(s) ==
    /\ saver[s] = "trigger"
    /\ saver' = [saver EXCEPT ![s] = "none"]
    /\ armed' = ~(\E t \in Saver : saver[t] = "writing")
    /\ UNCHANGED <<vars, snapshot, rows, captured, process, unsaved, blind>>

\* cooldownSaveState.trigger: re-arms the timer, however often it was armed.
Trigger(s) ==
    /\ saver[s] = "trigger"
    /\ saver' = [saver EXCEPT ![s] = "none"]
    /\ armed' = TRUE
    /\ UNCHANGED <<vars, snapshot, rows, captured, process, unsaved, blind>>

\* The timer's callback, no newer trigger having replaced it.
Fire ==
    /\ armed /\ saver["timer"] = "none"
    /\ armed' = FALSE
    /\ saver' = [saver EXCEPT !["timer"] = "save"]
    /\ UNCHANGED <<vars, snapshot, rows, captured, process, unsaved, blind>>

\* DELETE /admin/cooldowns saves at once, if it removed anything.
OperatorClears ==
    /\ Serving /\ saver["admin"] = "none"
    /\ \/ \E e \in Endpoint : ClearCooldown(e)
       \/ ClearAllCooldowns /\ <<cooldown, circuit>> # <<NoRows, NoCircuits>>
    /\ Owes("admin", "save")

\* sweepSessions: what it knows of endpoints that a reload removed goes, and
\* with it their rows at the next save; so do expired host backoffs.
Sweep(gone) ==
    /\ process \in {"up", "closing"} /\ saver["sweeper"] = "none"
    /\ cooldown' = [e \in Endpoint |-> IF e \in gone THEN NoBackoff ELSE cooldown[e]]
    /\ circuit' = [e \in Endpoint |-> IF e \in gone THEN Closed ELSE circuit[e]]
    /\ attempt' = [a \in Attempt |-> IF \E e \in gone : a \in Probes(e)
                       THEN [attempt[a] EXCEPT !.probe = FALSE] ELSE attempt[a]]
    /\ host' = [h \in Host |-> IF host[h].left = 0 THEN NoBackoff ELSE host[h]]
    /\ UNCHANGED <<threshold, probeBudget>>
    /\ Owes("sweeper", "trigger")

----------------------------------------------------------------------------
(* saveCooldowns, under stateSaveMu from the first step to the last.        *)

Live == [cooldown |-> [e \in Endpoint |-> Active(cooldown[e])],
         circuit |-> [e \in Endpoint |-> Tripped(circuit[e])]]

AnotherSave == \E s \in Saver : saver[s] = "writing"

\* Copies the live maps; returns at once when they equal the snapshot, and the
\* throughput estimates theirs.
BeginSave(s) ==
    /\ saver[s] = "save"
    /\ ~AnotherSave
    /\ \/ /\ Live = [cooldown |-> savedCooldown, circuit |-> savedCircuit]
          /\ saver' = [saver EXCEPT ![s] = "none"]
          /\ unsaved' = FALSE
          /\ UNCHANGED captured
       \/ /\ saver' = [saver EXCEPT ![s] = "writing"]
          /\ captured' = Live
          /\ UNCHANGED unsaved
    /\ UNCHANGED <<vars, snapshot, rows, armed, process, blind>>

\* Mutant: rows are never deleted.
AppliedWithoutDeletes(row, old, new, absent) ==
    [e \in Endpoint |->
        IF new[e] # absent /\ new[e] # old[e] THEN new[e] ELSE row[e]]

\* A row is written when it differs from the snapshot, and deleted when the
\* snapshot has it and the copy does not; other rows are left alone.
Applied(row, old, new, absent) ==
    [e \in Endpoint |->
        IF new[e] # absent /\ new[e] # old[e] THEN new[e]
        ELSE IF new[e] = absent /\ old[e] # absent THEN absent
        ELSE row[e]]

EndSave(s) ==
    /\ saver' = [saver EXCEPT ![s] = "none"]
    /\ captured' = Nothing
    /\ UNCHANGED <<vars, armed, process, blind>>

\* Mutant: the two tables are written in two transactions.
CommitOneByOne(s) ==
    /\ saver[s] = "writing" /\ process # "closed"
    /\ rowCooldown' = Applied(rowCooldown, savedCooldown, captured.cooldown, NoBackoff)
    /\ \/ /\ rowCircuit' = Applied(rowCircuit, savedCircuit, captured.circuit, Closed)
          /\ savedCooldown' = captured.cooldown
          /\ savedCircuit' = captured.circuit
          /\ unsaved' = FALSE
          /\ EndSave(s)
       \/ /\ rowCooldown' # rowCooldown
          /\ UNCHANGED <<vars, snapshot, rowCircuit, saver, captured, armed,
                         process, unsaved, blind>>

CommitSave(s) ==
    /\ saver[s] = "writing" /\ process # "closed"
    /\ rowCooldown' = Applied(rowCooldown, savedCooldown, captured.cooldown, NoBackoff)
    /\ rowCircuit' = Applied(rowCircuit, savedCircuit, captured.circuit, Closed)
    /\ savedCooldown' = captured.cooldown
    /\ savedCircuit' = captured.circuit
    /\ unsaved' = FALSE
    /\ EndSave(s)

\* The transaction fails, as it always does once the store is closed.
FailSave(s) ==
    /\ saver[s] = "writing"
    /\ unsaved' = TRUE
    /\ UNCHANGED <<snapshot, rows>>
    /\ EndSave(s)

----------------------------------------------------------------------------
(* The process.                                                             *)

\* Router.Close: the timer is stopped, then everything is saved once more.
\* main calls it as soon as the server stops listening: requests may still run.
Close ==
    /\ process = "up"
    /\ process' = "closing"
    /\ armed' = FALSE
    /\ saver' = [saver EXCEPT !["main"] = "save"]
    /\ UNCHANGED <<vars, snapshot, rows, captured, unsaved, blind>>

CloseStore ==
    /\ process = "closing" /\ saver["main"] = "none"
    /\ process' = "closed"
    /\ UNCHANGED <<vars, snapshot, rows, saver, captured, armed, unsaved, blind>>

\* The process ends, at the end of main or anywhere else: only the rows remain.
Stop ==
    /\ Serving
    /\ process' = "down"
    /\ cooldown' = NoRows /\ circuit' = NoCircuits
    /\ host' = [h \in Host |-> NoBackoff]
    /\ attempt' = [a \in Attempt |-> Idle]
    /\ savedCooldown' = NoRows /\ savedCircuit' = NoCircuits
    /\ saver' = [s \in Saver |-> "none"]
    /\ captured' = Nothing
    /\ armed' = FALSE /\ unsaved' = FALSE
    /\ UNCHANGED <<threshold, probeBudget, rows, blind>>

\* loadCooldowns: an open circuit is kept only with a cooldown still running.
Restored(e) ==
    IF rowCircuit[e].state = "open" /\ rowCooldown[e] = NoBackoff
    THEN Closed ELSE rowCircuit[e]

Start ==
    /\ process = "down"
    /\ process' = "up"
    /\ cooldown' = rowCooldown
    /\ circuit' = [e \in Endpoint |-> Restored(e)]
    /\ savedCooldown' = cooldown'
    /\ savedCircuit' = circuit'
    /\ UNCHANGED <<host, attempt, threshold, probeBudget, rows, saver, captured,
                   armed, unsaved, blind>>

\* The tables cannot be read: the router starts with nothing.
StartBlind ==
    /\ process = "down"
    /\ process' = "up"
    /\ blind' = TRUE
    /\ UNCHANGED <<vars, snapshot, rows, saver, captured, armed, unsaved>>

\* Time passes for every copy alike.
TimePasses ==
    /\ Tick
    /\ savedCooldown' = [e \in Endpoint |-> Elapsed(savedCooldown[e])]
    /\ rowCooldown' = [e \in Endpoint |-> Active(Elapsed(rowCooldown[e]))]
    /\ captured' = [cooldown |-> [e \in Endpoint |-> Active(Elapsed(captured.cooldown[e]))],
                    circuit |-> [e \in Endpoint |-> Aged(captured.circuit[e])]]
    /\ savedCircuit' = [e \in Endpoint |-> Aged(savedCircuit[e])]
    /\ rowCircuit' = [e \in Endpoint |-> Aged(rowCircuit[e])]
    /\ UNCHANGED <<saver, armed, process, unsaved, blind>>

Save(s) == Trigger(s) \/ BeginSave(s) \/ CommitSave(s) \/ FailSave(s)

PNext ==
    \/ \E a \in Attempt : RequestFails(a) \/ RequestSucceeds(a) \/ RequestMoves(a) \/ RecordTPS(a)
    \/ \E e \in Endpoint : Check(e)
    \/ Fire
    \/ OperatorClears
    \/ \E gone \in SUBSET Endpoint : Sweep(gone)
    \/ \E s \in Saver : Save(s)
    \/ Close \/ CloseStore \/ Stop \/ Start \/ StartBlind
    \/ TimePasses

\* Goroutines and timers run and time passes; requests and restarts are not owed.
PFairness ==
    /\ WF_<<vars, persistence>>(TimePasses)
    /\ WF_<<vars, persistence>>(Fire)
    /\ \A s \in Saver : WF_<<vars, persistence>>(Save(s))
    /\ WF_<<vars, persistence>>(CloseStore)
    /\ WF_<<vars, persistence>>(process = "closed" /\ Stop)

PSpec == PInit /\ [][PNext]_<<vars, persistence>>

PFairSpec == PSpec /\ PFairness
----------------------------------------------------------------------------

(* No cooldown row is ever out of the router's reach: whatever order saves, *)
(* failed saves, crashes and restarts came in, a row that still counts is   *)
(* in the snapshot, so that the save after its cooldown is withdrawn will   *)
(* delete it (saveCooldowns diffs against the snapshot, never the table).   *)
(* Not so once a start could not read the table (loadCooldowns).            *)
CooldownRowsAreTracked ==
    Serving /\ ~blind =>
        \A e \in Endpoint :
            rowCooldown[e] # NoBackoff => savedCooldown[e] = rowCooldown[e]

(* A restart does not tear a circuit from its cooldown: both come back from *)
(* one transaction of one copy of both maps, so a half-open endpoint is not *)
(* cooling down after a restart either, whichever save the process died in  *)
(* (saveCooldowns, apply, loadCooldowns).                                   *)
RestartKeepsWindows == ~blind => HalfOpenNeverCooling

\* Half-open windows are not saved when they begin, nor is a closed circuit
\* whose row a restart left behind.
InSync ==
    \A e \in Endpoint :
        /\ rowCooldown[e] = Active(cooldown[e])
        /\ circuit[e].state = "open" => rowCircuit[e].state = "open"

(***************************************************************************)
(* Liveness.                                                               *)
(***************************************************************************)

(* What was recorded reaches the tables, and so does a circuit that opened  *)
(* and that nobody has asked since, unless failures or measured answers     *)
(* keep coming faster than the debounce interval, saves keep failing or the *)
(* process keeps ending (cooldownSaveState: every trigger re-arms the timer;*)
(* the sweeper's, once an hour, is no excuse).                              *)
EventuallySaved ==
    \/ []<>InSync
    \/ []<>(\E s \in Saver \ {"sweeper"} : saver[s] = "trigger")
    \/ []<>unsaved
    \/ []<>~Serving

(* Crashes, restarts with or without the tables, lost saves and stale rows  *)
(* never put an endpoint out of service for good: a half-open window found  *)
(* in the tables is begun anew in the end (loadCooldowns,                   *)
(* isAvailableLocked).                                                      *)
NeverDarkAfterRestart ==
    \A e \in Endpoint : []<>(Serving /\ Available(e)) \/ <>[](process = "down")

=============================================================================
