---------------------------- MODULE ConfigReload ----------------------------
(***************************************************************************)
(* The configuration file and what runs by it: the watcher that polls the  *)
(* file, operators that post a new configuration, editors and scripts that *)
(* write the file themselves, and ReloadConfig, which publishes a          *)
(* configuration and then pushes parts of it into collaborators one by     *)
(* one, under no lock of its own.                                          *)
(*                                                                         *)
(* The file is a content and a version; the version stands for the         *)
(* modification time and the size that the watcher compares.               *)
(***************************************************************************)
EXTENDS SequencesExt, FiniteSets, Naturals

CONSTANTS
    Config,         \* configurations that validate
    Broken,         \* a file that does not
    Operator,       \* concurrent requests to the admin endpoint
    Pushed,         \* knobs set from the reload's argument, in order
    LastVersion     \* bounds the writes of the file

ASSUME ReloadAssumption ==
    /\ Broken \notin Config /\ Config # {}
    /\ Pushed \in Seq(STRING \ {"publish", "read", "ready"}) /\ LastVersion \in Nat

VARIABLES
    file,           \* config.yaml
    inForce,        \* the pointer that gateway, router and proxy share
    knob,           \* the configuration each knob was last set from
    watcher,        \* the polling goroutine
    known,          \* lastMod and lastSize: the version loaded last
    operator,       \* where each admin request is
    overlapped      \* history: two reloads of different files at once

parts == <<inForce, knob>>

reload_vars == <<file, inForce, knob, watcher, known, operator, overlapped>>

----------------------------------------------------------------------------

Knobs == ToSet(Pushed) \cup {"ready"}

Away == [phase |-> "away"]

\* What a reload does, step by step.
Steps == <<"publish">> \o Pushed \o <<"read", "ready">>

Reloading(x) == x.phase = "reloading"

NextStep(x) == Steps[x.step]

Reload(f) == [phase |-> "reloading", config |-> f.content, version |-> f.version, step |-> 1]

ReloadInit ==
    /\ \E c \in Config :
          /\ file = [content |-> c, version |-> 1]
          /\ inForce = c
          /\ knob = [k \in Knobs |-> c]
    /\ watcher = Away /\ known = 0
    /\ operator = [o \in Operator |-> Away]
    /\ overlapped = FALSE

----------------------------------------------------------------------------
(* ReloadConfig: the next step of a reload x, and x after it.               *)

\* The proxy derives its requirement from the shared pointer, not from the
\* reload's argument.
Stepped(x) ==
    IF x.step = Len(Steps) THEN Away
    ELSE [x EXCEPT !.step = @ + 1,
                   !.config = IF NextStep(x) = "read" THEN inForce ELSE @]

Publish(x) ==
    /\ NextStep(x) = "publish"
    /\ inForce' = x.config
    /\ UNCHANGED knob

SetKnob(x) ==
    /\ NextStep(x) \in Knobs
    /\ knob' = [knob EXCEPT ![NextStep(x)] = x.config]
    /\ UNCHANGED inForce

ReadPublished(x) == NextStep(x) = "read" /\ UNCHANGED parts

\* Mutant: a knob that is a collaborator's own state is not pushed across.
StepWithoutPushes(x) ==
    \/ Publish(x) \/ ReadPublished(x)
    \/ NextStep(x) \in Knobs /\ UNCHANGED parts

ReloadStep(x) == Publish(x) \/ SetKnob(x) \/ ReadPublished(x)

----------------------------------------------------------------------------
(* watchConfig: every three seconds. *)

\* os.Stat finds nothing new.
Poll == watcher = Away /\ file.version = known /\ UNCHANGED <<file, parts, watcher, known, operator>>

\* os.Stat finds the file changed.
Notice ==
    /\ watcher = Away /\ file.version # known
    /\ watcher' = [phase |-> "noticed", version |-> file.version]
    /\ UNCHANGED <<file, parts, known, operator>>

\* Mutant: nothing is remembered.
RememberNothing == known

\* A file that does not validate is tried again.
Remembered == IF file.content = Broken THEN known ELSE watcher.version

LoadNoticed ==
    /\ watcher.phase = "noticed"
    /\ known' = Remembered
    /\ watcher' = IF file.content = Broken THEN Away ELSE Reload(file)
    /\ UNCHANGED <<file, parts, operator>>

WatcherReloads ==
    /\ Reloading(watcher)
    /\ ReloadStep(watcher)
    /\ watcher' = Stepped(watcher)
    /\ UNCHANGED <<file, known, operator>>

----------------------------------------------------------------------------
(* HandleAdminConfig. *)

\* SaveConfig validates, writes a temporary file and renames it.
Save(o, c) ==
    /\ operator[o] = Away /\ file.version < LastVersion
    /\ file' = [content |-> c, version |-> file.version + 1]
    /\ operator' = [operator EXCEPT ![o] = [phase |-> "saved"]]
    /\ UNCHANGED <<parts, watcher, known>>

\* LoadConfig reads back what is there by now.
LoadSaved(o) ==
    /\ operator[o].phase = "saved"
    /\ operator' = [operator EXCEPT ![o] =
           IF file.content = Broken THEN Away ELSE Reload(file)]
    /\ UNCHANGED <<file, parts, watcher, known>>

OperatorReloads(o) ==
    /\ Reloading(operator[o])
    /\ ReloadStep(operator[o])
    /\ operator' = [operator EXCEPT ![o] = Stepped(@)]
    /\ UNCHANGED <<file, watcher, known>>

\* An editor or a script writes the file, perhaps not in one piece.
Edit(c) ==
    /\ file.version < LastVersion
    /\ file' = [content |-> c, version |-> file.version + 1]
    /\ UNCHANGED <<parts, watcher, known, operator>>

----------------------------------------------------------------------------

Watch == Poll \/ Notice \/ LoadNoticed \/ WatcherReloads

Administer(o) == LoadSaved(o) \/ OperatorReloads(o)

Underway == {x \in {watcher} \cup {operator[o] : o \in Operator} : Reloading(x)}

Overlap == \E x \in Underway, y \in Underway : x.version # y.version

ReloadNext ==
    /\ \/ Watch
       \/ \E o \in Operator : Administer(o) \/ \E c \in Config : Save(o, c)
       \/ \E c \in Config \cup {Broken} : Edit(c)
    /\ overlapped' = (overlapped \/ Overlap')

\* Goroutines run; nobody has to write the file.
ReloadFairness ==
    /\ WF_reload_vars(Watch /\ ReloadNext)
    /\ \A o \in Operator : WF_reload_vars(Administer(o) /\ ReloadNext)

ReloadSpec == ReloadInit /\ [][ReloadNext]_reload_vars /\ ReloadFairness

----------------------------------------------------------------------------
(* Properties. *)

\* The watcher has loaded the file and no reload is under way.
Settled == watcher = Away /\ known = file.version /\ Underway = {}

\* Every part runs by configuration c.
RunsBy(c) == inForce = c /\ \A k \in Knobs : knob[k] = c

(* Once settled, everything runs by the file, however its writers, the      *)
(* watcher's stat and load, and the one by one pushes fell, and though a    *)
(* file did not validate when it was noticed; unless two reloads of         *)
(* different files overlapped, which no lock prevents (watchConfig,         *)
(* ReloadConfig).                                                           *)
SettlesOnTheFile == (Settled /\ ~overlapped) => RunsBy(file.content)

(* "Don't update lastMod/lastSize -- retry on next tick so a transient write*)
(* doesn't get stuck": a file that stays valid is loaded in the end, however*)
(* many broken ones were noticed before it (watchConfig).                   *)
EventuallySettled == []<>(file.content = Broken \/ Settled)

=============================================================================
