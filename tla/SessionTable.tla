---------------------------- MODULE SessionTable ----------------------------
(***************************************************************************)
(* The sessions map and its SQLite table (router.go, cooldown_store.go).   *)
(* A bind or a use writes its row at once, under r.mu; evictions change    *)
(* the map only.  The sweeper evicts what is stale and rewrites the table  *)
(* from a copy it took earlier, and so does Close, before it stops the     *)
(* sweeper.  A restart restores the rows that have not expired.            *)
(*                                                                         *)
(* Of an entry the model keeps the endpoint and how long ago it was used;  *)
(* SessionRouting has the rest.  Within a tick the order of uses is open.  *)
(***************************************************************************)
EXTENDS FiniteSets, Naturals

CONSTANTS
    Session,        \* conversations
    Endpoint,
    MaxSessions,    \* maxSessionEntries
    TTL,            \* sessionTTL
    None            \* no endpoint

ASSUME TableAssumption ==
    MaxSessions \in Nat \ {0} /\ TTL \in Nat /\ None \notin Endpoint

VARIABLES
    session,        \* the sessions map: an entry's endpoint and its age
    row,            \* the table sessions
    sweeper,        \* what the sweeper is at, and what it found stale
    copy,           \* the copies that the sweeper and Close are about to write
    process,        \* "up", "closing", "stopping", "closed" (store) or "down"
    failing         \* the last write failed

vars == <<session, row, sweeper, copy, process, failing>>

Writer == {"sweeper", "main"}

Absent == [ep |-> None, age |-> 0]
Empty == [s \in Session |-> Absent]

Known(m) == {s \in Session : m[s] # Absent}
Old(m) == {s \in Known(m) : m[s].age > TTL}
Without(m, gone) == [s \in Session |-> IF s \in gone THEN Absent ELSE m[s]]

Waiting == [at |-> "waiting", stale |-> {}]

Init ==
    /\ session = Empty /\ row = Empty
    /\ sweeper = Waiting
    /\ copy = [w \in Writer |-> Empty]
    /\ process = "up"
    /\ failing = FALSE

Serving == process # "down"

----------------------------------------------------------------------------
(* Requests, which may still run while the process shuts down. *)

\* evictOverCapLocked: the least recently used go; newest is not one of them.
Trimmed(m, newest) ==
    {Without(m, gone) : gone \in
        {g \in SUBSET (Known(m) \ newest) :
            /\ Cardinality(Known(m)) - Cardinality(g) =
                   IF Cardinality(Known(m)) > MaxSessions THEN MaxSessions
                   ELSE Cardinality(Known(m))
            /\ \A s \in g, k \in Known(m) \ (g \cup newest) : m[s].age >= m[k].age}}

\* A write to the table, which fails for sure once the store is closed.
Writes(rows) ==
    \/ process # "closed" /\ row' = rows /\ failing' = FALSE
    \/ UNCHANGED row /\ failing' = TRUE

\* The map or the table with s used just now; an upsert touches no other row.
With(m, s, e) == [m EXCEPT ![s] = [ep |-> e, age |-> 0]]

\* bindSessionLocked: the row is written before the map is trimmed.
Bind(s, e) ==
    /\ Serving
    /\ session' \in Trimmed(With(session, s, e), {s})
    /\ Writes(With(row, s, e))
    /\ UNCHANGED <<sweeper, copy, process>>

\* Every selection for a known session refreshes lastUsed.
Use(s) ==
    /\ Serving /\ session[s] # Absent
    /\ session' = With(session, s, session[s].ep)
    /\ Writes(With(row, s, session[s].ep))
    /\ UNCHANGED <<sweeper, copy, process>>

----------------------------------------------------------------------------
(* The sweeper. *)

\* evictStaleSessions, under the read lock: with nothing stale it is done.
Collect ==
    /\ Serving /\ sweeper.at = "waiting"
    /\ sweeper' = [at |-> IF Old(session) = {} THEN "evicted" ELSE "collected",
                   stale |-> Old(session)]
    /\ UNCHANGED <<session, row, copy, process, failing>>

\* Under the write lock: what is still stale goes, and what exceeds the cap.
Evict ==
    /\ sweeper.at = "collected"
    /\ session' \in Trimmed(Without(session, sweeper.stale \cap Old(session)), {})
    /\ sweeper' = [sweeper EXCEPT !.at = "evicted"]
    /\ UNCHANGED <<row, copy, process, failing>>

\* Mutant: a sweep that found nothing stale has nothing to write.
CopyIfEvicted ==
    /\ sweeper.at = "evicted"
    /\ IF sweeper.stale = {}
       THEN sweeper' = Waiting /\ UNCHANGED copy
       ELSE /\ copy' = [copy EXCEPT !["sweeper"] = session]
            /\ sweeper' = [sweeper EXCEPT !.at = "copied"]
    /\ UNCHANGED <<session, row, process, failing>>

\* saveSessions takes its copy under the read lock ...
Copy ==
    /\ sweeper.at = "evicted"
    /\ copy' = [copy EXCEPT !["sweeper"] = session]
    /\ sweeper' = [sweeper EXCEPT !.at = "copied"]
    /\ UNCHANGED <<session, row, process, failing>>

\* ... and makes the table equal to it in one transaction, without the lock.
Flush ==
    /\ sweeper.at = "copied"
    /\ Writes(copy["sweeper"])
    /\ sweeper' = Waiting
    /\ copy' = [copy EXCEPT !["sweeper"] = Empty]
    /\ UNCHANGED <<session, process>>

\* sessionsDone is closed; the select may still take a tick that is due.
Leave ==
    /\ process = "stopping" /\ sweeper.at = "waiting"
    /\ sweeper' = [sweeper EXCEPT !.at = "gone"]
    /\ UNCHANGED <<session, row, copy, process, failing>>

----------------------------------------------------------------------------
(* The process. *)

\* Close saves the sessions first and stops the sweeper afterwards.
Close ==
    /\ process = "up"
    /\ process' = "closing"
    /\ copy' = [copy EXCEPT !["main"] = session]
    /\ UNCHANGED <<session, row, sweeper, failing>>

FlushAtClose ==
    /\ process = "closing"
    /\ Writes(copy["main"])
    /\ process' = "stopping"
    /\ copy' = [copy EXCEPT !["main"] = Empty]
    /\ UNCHANGED <<session, sweeper>>

\* sessionsWG.Wait, and the end of the store.
CloseStore ==
    /\ process = "stopping" /\ sweeper.at = "gone"
    /\ process' = "closed"
    /\ UNCHANGED <<session, row, sweeper, copy, failing>>

\* The process ends, at the end of main or anywhere else.
Stop ==
    /\ Serving
    /\ process' = "down"
    /\ session' = Empty /\ sweeper' = Waiting
    /\ copy' = [w \in Writer |-> Empty]
    /\ failing' = FALSE
    /\ UNCHANGED row

\* loadSessions: rows that expired are left out, and stay in the table; if it
\* cannot be read the router starts without sessions.
Start ==
    /\ process = "down"
    /\ process' = "up"
    /\ session' \in {Without(row, Old(row)), Empty}
    /\ UNCHANGED <<row, sweeper, copy, failing>>

Aged(m) ==
    [s \in Session |-> IF m[s] = Absent \/ m[s].age > TTL THEN m[s]
                       ELSE [m[s] EXCEPT !.age = @ + 1]]

\* Time passes for every copy alike; beyond the TTL it makes no difference.
Tick ==
    /\ session' = Aged(session) /\ row' = Aged(row)
    /\ copy' = [w \in Writer |-> Aged(copy[w])]
    /\ UNCHANGED <<sweeper, process, failing>>

Sweep == Collect \/ Evict \/ Copy \/ Flush

Next ==
    \/ \E s \in Session, e \in Endpoint : Bind(s, e)
    \/ \E s \in Session : Use(s)
    \/ Sweep \/ Leave
    \/ Close \/ FlushAtClose \/ CloseStore \/ Stop \/ Start
    \/ Tick

\* The goroutines run; requests, time and restarts are not owed.
Fairness ==
    /\ WF_vars(Sweep) /\ WF_vars(FlushAtClose) /\ WF_vars(CloseStore)
    /\ WF_vars(process = "closed" /\ Stop)

Spec == Init /\ [][Next]_vars

FairSpec == Spec /\ Fairness

----------------------------------------------------------------------------

(* The table catches up with every session: a bind that an older copy of    *)
(* the map overwrote, a session evicted between a copy and its write or     *)
(* trimmed by a bind of another ("evicted rows must leave the database",    *)
(* sweepSessions), a row that a restart left out.  The endpoint in the      *)
(* table is again and again the one in the map, unless writes keep failing  *)
(* or the process keeps ending.                                             *)
TableCatchesUp ==
    \A s \in Session :
        \/ []<>(row[s].ep = session[s].ep)
        \/ []<>failing
        \/ []<>~Serving

=============================================================================
