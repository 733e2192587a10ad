---------------------------- MODULE DashboardRing ----------------------------
(***************************************************************************)
(* The dashboard's telemetry: a ring with one slot per minute that         *)
(* requests write under the metrics lock, the ticker goroutine that        *)
(* advances it and then, outside the lock, appends the completed minute to *)
(* a journal, the restart that reads the journal back into the ring, and   *)
(* the separate process of -prune-stats, which rewrites the journal while  *)
(* the gateway appends to it.                                              *)
(*                                                                         *)
(* An observation is an attempt that succeeded or failed or a count of     *)
(* tokens; it touches some of the maps of a tick, and only maps that are   *)
(* not empty reach the journal.                                            *)
(***************************************************************************)
EXTENDS SequencesExt, FiniteSets, Integers

CONSTANTS
    NoTick,         \* no tick
    Torn, Spoilt,   \* a line that was cut off, alone and run into by the next
    RingLen,        \* dashboardRingLen, 43 200 in the code
    LastMinute,     \* bounds the clock
    MaxObs,         \* bounds the observations
    MaxLines        \* bounds the journal

ASSUME RingAssumption ==
    /\ RingLen \in Nat /\ RingLen >= 2
    /\ LastMinute \in Nat /\ MaxObs \in Nat /\ MaxLines \in Nat

VARIABLES
    minute,         \* the wall clock
    gateway,        \* "down", "up", or "wedged": a panic kept the lock
    ring, at,       \* attemptRing, attemptRingNow
    keeper,         \* the goroutine of StartDashboardTelemetry
    journal,        \* the file
    pruner,         \* -prune-stats
    count,          \* observations so far
    written,        \* history: lines whose append succeeded
    raced           \* history: those appended while a prune was under way

ring_vars ==
    <<minute, gateway, ring, at, keeper, journal, pruner, count, written, raced>>

----------------------------------------------------------------------------
(* Ticks and lines. *)

Map == {"attempts", "failures", "tokens"}

Kind == {"answered", "failed", "tokens"}

\* The maps an observation writes.
Touches(kind) ==
    IF kind = "answered" THEN {"attempts"}
    ELSE IF kind = "failed" THEN {"attempts", "failures"} ELSE {"tokens"}

\* What a journal records: a minute and what was observed since it began.
Recorded == [start : Nat, obs : SUBSET [n : Nat, kind : Kind, minute : Nat]]

\* A line that was cut off does not parse.
ASSUME LineAssumption == Torn \notin Recorded /\ Spoilt \notin Recorded

\* A journal line: what was observed since the tick's first observation.
Line(t) == [start |-> t.start, obs |-> t.obs]

\* Maps that were empty come back as nil.
Restored(l) ==
    [start |-> l.start, obs |-> l.obs,
     maps |-> UNION {Touches(o.kind) : o \in l.obs}]

NewTick == [start |-> minute, obs |-> {}, maps |-> Map]

Slot == 0 .. RingLen - 1

JournalSlot(m) == m % RingLen

InWindow(m) == m <= minute /\ m > minute - RingLen

\* Mutant: a torn line ends the replay.
UpToTorn ==
    LET torn == {i \in DOMAIN journal : journal[i] \in {Torn, Spoilt}}
    IN {i \in DOMAIN journal : \A j \in torn : i < j}

\* A line that does not parse is skipped.
Parsed == {i \in DOMAIN journal : journal[i] \notin {Torn, Spoilt}}

Readable == {i \in Parsed : InWindow(journal[i].start)}

\* replayDashboardJournal: the last line of each minute.
Replayed ==
    {journal[i] : i \in {k \in Readable :
        \A j \in Readable : journal[j].start = journal[k].start => j <= k}}

----------------------------------------------------------------------------

Off == [state |-> "off"]

NoRing == [s \in Slot |-> NoTick]

RingInit ==
    /\ minute = 0
    /\ gateway = "down" /\ ring = NoRing /\ at = 0 /\ keeper = Off
    /\ journal = <<>> /\ pruner = [state |-> "off"]
    /\ count = 0 /\ written = {} /\ raced = {}

\* A minute passes. The goroutine is never a whole minute late: it waits
\* for the lock only while a request counts, and an append is short.
ClockMoves ==
    /\ minute < LastMinute
    /\ gateway = "up" => /\ keeper.state # "writing" /\ keeper.state # "completed"
                         /\ keeper.state = "running" => ~keeper.due
                         /\ keeper.state = "aligning" => keeper.next > minute
    /\ minute' = minute + 1
    /\ keeper' = IF keeper.state = "running" THEN [keeper EXCEPT !.due = TRUE] ELSE keeper
    /\ UNCHANGED <<gateway, ring, at, journal, pruner, count, written, raced>>

----------------------------------------------------------------------------
(* Requests. *)

Current == IF ring[at] = NoTick THEN NewTick ELSE ring[at]

Observation(kind) == [n |-> count + 1, kind |-> kind, minute |-> minute]

Observe(kind) ==
    /\ gateway = "up" /\ count < MaxObs
    /\ Touches(kind) \subseteq Current.maps
    /\ ring' = [ring EXCEPT ![at] = [Current EXCEPT !.obs = @ \cup {Observation(kind)}]]
    /\ count' = count + 1
    /\ UNCHANGED <<minute, gateway, at, keeper, journal, pruner, written, raced>>

\* A nil map is assigned to: the tick came back from the line of the current
\* minute, which lost its empty maps. RecordDashboardTokens gives the lock back
\* on the way out; Attempt does not, and net/http recovers the panic.
ObservePanics(kind) ==
    /\ gateway = "up"
    /\ ~(Touches(kind) \subseteq Current.maps)
    /\ gateway' = IF kind = "tokens" THEN "up" ELSE "wedged"
    /\ UNCHANGED <<minute, ring, at, keeper, journal, pruner, count, written, raced>>

----------------------------------------------------------------------------
(* The ticker. *)

NextSlot == (at + 1) % RingLen

\* Mutant: the slot of a month ago is written on top of.
RingNotCleared == ring

RingCleared == [ring EXCEPT ![NextSlot] = NoTick]

\* The first boundary only makes the ticker, whose first tick is a minute on.
Align ==
    /\ gateway = "up" /\ keeper.state = "aligning" /\ minute >= keeper.next
    /\ keeper' = [state |-> "running", due |-> FALSE]
    /\ UNCHANGED <<minute, gateway, ring, at, journal, pruner, count, written, raced>>

\* advanceRingTickLocked; the completed tick leaves the lock.
Advance ==
    /\ gateway = "up" /\ keeper.state = "running" /\ keeper.due
    /\ at' = NextSlot
    /\ ring' = RingCleared
    /\ keeper' = IF ring[at] = NoTick THEN [state |-> "running", due |-> FALSE]
                 ELSE [state |-> "completed", line |-> Line(ring[at])]
    /\ UNCHANGED <<minute, gateway, journal, pruner, count, written, raced>>

\* appendDashboardJournal opens the file it finds under the name.
OpenJournal ==
    /\ gateway # "down" /\ keeper.state = "completed"
    /\ keeper' = [state |-> "writing", line |-> keeper.line, gone |-> FALSE]
    /\ UNCHANGED <<minute, gateway, ring, at, journal, pruner, count, written, raced>>

\* A line written after a torn one continues it, and ends it.
Appended(l) ==
    IF journal = <<>> \/ Last(journal) # Torn THEN Append(journal, l)
    ELSE Append(Front(journal), IF l = Torn THEN Torn ELSE Spoilt)

\* The line is written, into the file under the name or one renamed over.
WriteLine ==
    /\ gateway # "down" /\ keeper.state = "writing" /\ Len(journal) < MaxLines
    /\ journal' = IF keeper.gone THEN journal ELSE Appended(keeper.line)
    /\ written' = written \cup {keeper.line}
    /\ raced' = IF keeper.gone \/ pruner.state = "read" \/ Last(journal') = Spoilt
                THEN raced \cup {keeper.line} ELSE raced
    /\ keeper' = [state |-> "running", due |-> FALSE]
    /\ UNCHANGED <<minute, gateway, ring, at, pruner, count>>

\* Nothing, or part of the line, is written; the error is logged.
WriteFails(cut) ==
    /\ gateway # "down" /\ keeper.state = "writing" /\ Len(journal) < MaxLines
    /\ journal' = IF keeper.gone \/ ~cut THEN journal ELSE Appended(Torn)
    /\ keeper' = [state |-> "running", due |-> FALSE]
    /\ UNCHANGED <<minute, gateway, ring, at, pruner, count, written, raced>>

----------------------------------------------------------------------------
(* Restarts. *)

\* A crash in the middle of an append may leave part of the line.
Crash(cut) ==
    /\ gateway # "down"
    /\ cut => keeper.state = "writing" /\ ~keeper.gone /\ Len(journal) < MaxLines
    /\ journal' = IF cut THEN Appended(Torn) ELSE journal
    /\ gateway' = "down" /\ ring' = NoRing /\ at' = 0 /\ keeper' = Off
    /\ UNCHANGED <<minute, pruner, count, written, raced>>

\* No two of the lines are of one minute.
ByStart(lines) ==
    {s \in [1 .. Cardinality(lines) -> lines] :
        \A i, j \in DOMAIN s : i < j => s[i].start < s[j].start}

RingFrom(lines) ==
    [s \in Slot |->
        IF \E l \in lines : JournalSlot(l.start) = s
        THEN Restored(CHOOSE l \in lines : JournalSlot(l.start) = s)
        ELSE NoTick]

\* StartDashboardTelemetry: replay, prune, then the goroutine.
StartTelemetry ==
    /\ gateway = "down"
    /\ gateway' = "up"
    /\ ring' = RingFrom(Replayed) /\ at' = JournalSlot(minute)
    /\ journal' \in ByStart(Replayed)
    /\ keeper' = [state |-> "aligning", next |-> minute + 1]
    /\ UNCHANGED <<minute, pruner, count, written, raced>>

\* The journal cannot be read (or a line is longer than the scanner takes):
\* an empty ring, the first slot, and no prune either.
StartUnread ==
    /\ gateway = "down" /\ journal # <<>>
    /\ gateway' = "up"
    /\ keeper' = [state |-> "aligning", next |-> minute + 1]
    /\ UNCHANGED <<minute, ring, at, journal, pruner, count, written, raced>>

----------------------------------------------------------------------------
(* -prune-stats, in a process of its own. *)

PruneReads ==
    /\ pruner.state = "off" /\ journal # <<>>
    /\ pruner' = [state |-> "read", lines |-> Replayed]
    /\ UNCHANGED <<minute, gateway, ring, at, keeper, journal, count, written, raced>>

\* The copy is renamed over the journal, or nothing is left and it is removed.
PruneRenames ==
    /\ pruner.state = "read"
    /\ journal' \in ByStart(pruner.lines)
    /\ pruner' = [state |-> "off"]
    /\ keeper' = IF keeper.state = "writing" THEN [keeper EXCEPT !.gone = TRUE] ELSE keeper
    /\ UNCHANGED <<minute, gateway, ring, at, count, written, raced>>

PruneDies ==
    /\ pruner.state = "read"
    /\ pruner' = [state |-> "off"]
    /\ UNCHANGED <<minute, gateway, ring, at, keeper, journal, count, written, raced>>

----------------------------------------------------------------------------

RingNext ==
    \/ ClockMoves
    \/ \E k \in Kind : Observe(k) \/ ObservePanics(k)
    \/ Align \/ Advance \/ OpenJournal \/ WriteLine
    \/ \E cut \in BOOLEAN : WriteFails(cut) \/ Crash(cut)
    \/ StartTelemetry \/ StartUnread
    \/ PruneReads \/ PruneRenames \/ PruneDies

RingSpec == RingInit /\ [][RingNext]_ring_vars

----------------------------------------------------------------------------
(* Properties. *)

\* DashboardQuery: the ticks of the last n positions.
Position(i) == ring[(at - i + RingLen) % RingLen]

PositionObs(i) == IF Position(i) = NoTick THEN {} ELSE Position(i).obs

Counted(n) == UNION {PositionObs(i) : i \in 0 .. n - 1}

Age(o) == minute - o.minute

AllObs == Counted(RingLen)

(* A window of n minutes counts what it says, within two minutes: nothing   *)
(* older, and nothing in the ring that is recent is left out, whatever      *)
(* restarts, late ticks and slots reused after a whole turn came between;   *)
(* and nothing is in two slots, though a restored tick goes on counting and *)
(* is appended again (DashboardQuery, restoreDashboardJournalLocked).       *)
WindowIsRecent ==
    gateway = "up" =>
        /\ \A i, j \in Slot : i # j => PositionObs(i) \cap PositionObs(j) = {}
        /\ \A n \in 1 .. RingLen :
            /\ \A o \in Counted(n) : Age(o) <= n + 1
            /\ \A o \in AllObs \ Counted(n) : Age(o) >= n - 2

(* An appended minute within the window is there for the next restart,      *)
(* torn lines, crashes and prunes notwithstanding, unless it was appended   *)
(* while a prune was under way or to a torn line, or gave way to another    *)
(* line of its minute ("neither loses data the ring had already             *)
(* acknowledged"); and no two lines that would be read back count the same  *)
(* (replayDashboardJournal, pruneDashboardJournal).                         *)
KeptUnlessRaced ==
    /\ \A l \in written \ raced :
          InWindow(l.start) =>
              l \in Replayed \/ \E m \in Replayed \cap written : m.start = l.start
    /\ \A k, l \in Replayed : k # l => k.obs \cap l.obs = {}

=============================================================================
