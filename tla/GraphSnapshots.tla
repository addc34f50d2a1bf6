--------------------------- MODULE GraphSnapshots ---------------------------
(***************************************************************************)
(* The repository graphs of one organization: each process keeps them in   *)
(* memory (GraphCache) and, 250 ms after a change, writes the changed ones *)
(* behind to the table graph_snapshots (PersistingGraphCache).  The worker *)
(* process indexes; the API process loads rows on demand, purges disabled  *)
(* repositories and indexes too when it is configured to run jobs.  A      *)
(* graph is the number of the change that made it, 0 when there is none.   *)
(***************************************************************************)
EXTENDS Integers

CONSTANTS Procs,        \* processes with a graph cache
          Indexers,     \* those that run index jobs
          Servers,      \* those that answer the graph and organization APIs
          Repos,
          MaxChanges,   \* bound on the changes of graphs
          MaxFaults     \* bound on failed statements and process ends

ASSUME GraphAssumption ==
    /\ Indexers \subseteq Procs
    /\ Servers \subseteq Procs
    /\ {MaxChanges, MaxFaults} \subseteq Nat

VARIABLES stored,   \* graph_snapshots: per repository, the payload
          cached,   \* entries: per process and repository, the graph in memory
          pending,  \* pendingPersist: per process, the repositories to write
          flushes,  \* per process, the flushes awaiting a write of a graph
          loads,    \* the ensureLoaded calls awaiting their row
          purges,   \* the purges, before and after the process forgot the graph
          changes,  \* the changes made so far
          saved,    \* history: the changes some write has stored
          lost,     \* history: the changes given up before they were stored
          purgedAt, \* history: the changes made before a process last purged a repository
          raced,    \* history: the repositories whose purge met an older graph on its
                    \* way, a load of the row before the last DELETE, the failure
                    \* of that DELETE, or a restart
          faults    \* failed statements and process ends so far

vars == <<stored, cached, pending, flushes, loads, purges, changes, saved,
          lost, purgedAt, raced, faults>>

Graphs == 0 .. MaxChanges
Flushes == [rest : SUBSET Repos, repo : Repos, graph : Graphs]
Loads == [proc : Procs, repo : Repos, graph : Graphs \cup {-1}]

TypeOK ==
    /\ stored \in [Repos -> Graphs]
    /\ cached \in [Procs -> [Repos -> Graphs]]
    /\ pending \in [Procs -> SUBSET Repos]
    /\ flushes \in [Procs -> SUBSET Flushes]
    /\ loads \subseteq Loads
    /\ purges \subseteq [proc : Procs, repo : Repos, forgot : BOOLEAN]
    /\ changes \in Graphs /\ faults \in 0 .. MaxFaults
    /\ saved \subseteq Graphs /\ lost \subseteq Graphs
    /\ purgedAt \in [Procs -> [Repos -> Graphs]] /\ raced \subseteq Repos

Init ==
    /\ stored = [r \in Repos |-> 0]
    /\ cached = [p \in Procs |-> [r \in Repos |-> 0]]
    /\ pending = [p \in Procs |-> {}]
    /\ flushes = [p \in Procs |-> {}]
    /\ loads = {} /\ purges = {} /\ saved = {} /\ lost = {} /\ raced = {}
    /\ changes = 0 /\ faults = 0
    /\ purgedAt = [p \in Procs |-> [r \in Repos |-> 0]]

\* Process p still has to store the graph it holds of r.
Unsaved(p, r) == {cached[p][r]} \ (saved \cup {0})
AllUnsaved(p, rs) == UNION {Unsaved(p, r) : r \in rs}

\* setGraph or upsertRepository by an index job, and the write it schedules.
Change(p, r) ==
    /\ p \in Indexers /\ changes < MaxChanges
    /\ changes' = changes + 1
    /\ cached' = [cached EXCEPT ![p][r] = changes']
    /\ pending' = [pending EXCEPT ![p] = @ \cup {r}]
    /\ UNCHANGED <<stored, flushes, loads, purges, saved, lost, purgedAt, raced, faults>>

\* The entry expires, or is the least recently used of more than maxRepos.
Evict(p, r) ==
    /\ cached[p][r] # 0
    /\ cached' = [cached EXCEPT ![p][r] = 0]
    /\ lost' = lost \cup Unsaved(p, r)
    /\ UNCHANGED <<stored, pending, flushes, loads, purges, changes, saved, purgedAt, raced, faults>>

\* The repositories among rest that persistRepo finds in memory.
Live(p, rest) == {r \in rest : cached[p][r] # 0}

\* The writes with which a flush of rest can go on: none when nothing is in
\* memory any more.  The payload is the graph in memory when the write is sent.
Sends(p, rest) ==
    {[rest |-> rest \ {r}, repo |-> r, graph |-> cached[p][r]] : r \in Live(p, rest)}

\* Mutant of GoOn: a graph that left memory ends the flush instead of being skipped.
GoOnStopsAtMissing(p, others, rest) ==
    IF Live(p, rest) # rest \/ rest = {} THEN {others}
    ELSE {others \cup {f} : f \in Sends(p, rest)}

\* The flushes of p when those of others are joined by one that goes on with rest.
GoOn(p, others, rest) ==
    IF Live(p, rest) = {} THEN {others} ELSE {others \cup {f} : f \in Sends(p, rest)}

\* The timer fires: the pending repositories are taken over by a new flush,
\* whether or not an earlier one is still writing.
Flush(p) ==
    /\ pending[p] # {}
    /\ pending' = [pending EXCEPT ![p] = {}]
    /\ \E fs \in GoOn(p, flushes[p], pending[p]) : flushes' = [flushes EXCEPT ![p] = fs]
    /\ UNCHANGED <<stored, cached, loads, purges, changes, saved, lost, purgedAt, raced, faults>>

\* Mutant of Write: the pending entry goes when the write is done.
WriteClearsPending(p, f) ==
    /\ f \in flushes[p]
    /\ stored' = [stored EXCEPT ![f.repo] = f.graph]
    /\ saved' = saved \cup {f.graph}
    /\ pending' = [pending EXCEPT ![p] = @ \ {f.repo}]
    /\ \E fs \in GoOn(p, flushes[p] \ {f}, f.rest) : flushes' = [flushes EXCEPT ![p] = fs]
    /\ UNCHANGED <<cached, loads, purges, changes, lost, purgedAt, raced, faults>>

\* The database stores the graph of a write, in any order on the connections
\* of the pool, and the flush goes on.
Write(p, f) ==
    /\ f \in flushes[p]
    /\ stored' = [stored EXCEPT ![f.repo] = f.graph]
    /\ saved' = saved \cup {f.graph}
    /\ \E fs \in GoOn(p, flushes[p] \ {f}, f.rest) : flushes' = [flushes EXCEPT ![p] = fs]
    /\ UNCHANGED <<cached, pending, loads, purges, changes, lost, purgedAt, raced, faults>>

\* The write fails: the exception leaves flush, the rest of its batch with it.
WriteFails(p, f) ==
    /\ f \in flushes[p] /\ faults < MaxFaults
    /\ faults' = faults + 1
    /\ flushes' = [flushes EXCEPT ![p] = @ \ {f}]
    /\ lost' = lost \cup {f.graph} \cup AllUnsaved(p, f.rest)
    /\ UNCHANGED <<stored, cached, pending, loads, purges, changes, saved, purgedAt, raced>>

\* The process ends, on a signal or a crash, and starts again: no flush at exit.
Restart(p) ==
    /\ faults < MaxFaults
    /\ faults' = faults + 1
    /\ lost' = lost \cup AllUnsaved(p, Repos) \cup {f.graph : f \in flushes[p]}
    /\ cached' = [cached EXCEPT ![p] = [r \in Repos |-> 0]]
    /\ pending' = [pending EXCEPT ![p] = {}]
    /\ flushes' = [flushes EXCEPT ![p] = {}]
    /\ loads' = {l \in loads : l.proc # p}
    /\ purges' = {u \in purges : u.proc # p}
    /\ raced' = raced \cup {u.repo : u \in purges \ purges'}
    /\ UNCHANGED <<stored, changes, saved, purgedAt>>

\* ensureLoaded asks for the row of a graph that is not in memory (one load of
\* a process at a time) ...
AskRow(p, r) ==
    /\ p \in Servers /\ cached[p][r] = 0
    /\ \A l \in loads : l.proc # p
    /\ loads' = loads \cup {[proc |-> p, repo |-> r, graph |-> -1]}
    /\ UNCHANGED <<stored, cached, pending, flushes, purges, changes, saved, lost, purgedAt, raced, faults>>

\* ... the database reads it ...
ReadRow(l) ==
    /\ l \in loads /\ l.graph = -1
    /\ loads' = (loads \ {l}) \cup {[l EXCEPT !.graph = stored[l.repo]]}
    /\ raced' = raced \cup {u.repo : u \in {x \in purges : x.forgot /\ x.repo = l.repo}}
    /\ UNCHANGED <<stored, cached, pending, flushes, purges, changes, saved, lost, purgedAt, faults>>

\* Mutant of Load: the answer is not awaited.
LoadUnawaited(l) ==
    /\ l \in loads
    /\ loads' = loads \ {l}
    /\ cached' = [cached EXCEPT ![l.proc][l.repo] = l.graph]
    /\ UNCHANGED <<stored, pending, flushes, purges, changes, saved, lost, purgedAt, raced, faults>>

\* ... and it goes to memory, over whatever has come there in the meantime.
Load(l) ==
    /\ l \in loads /\ l.graph # -1
    /\ loads' = loads \ {l}
    /\ IF l.graph = 0 THEN UNCHANGED <<cached, lost>>
       ELSE /\ cached' = [cached EXCEPT ![l.proc][l.repo] = l.graph]
            /\ lost' = lost \cup Unsaved(l.proc, l.repo)
    /\ UNCHANGED <<stored, pending, flushes, purges, changes, saved, purgedAt, raced, faults>>

\* purgeOrgRepoIndex deletes the row (one purge at a time, and one
\* after a change) ...
PurgeRow(p, r) ==
    /\ p \in Servers /\ purges = {} /\ purgedAt[p][r] < changes
    /\ stored' = [stored EXCEPT ![r] = 0]
    /\ purges' = purges \cup {[proc |-> p, repo |-> r, forgot |-> FALSE]}
    /\ UNCHANGED <<cached, pending, flushes, loads, changes, saved, lost, purgedAt, raced, faults>>

\* An older graph of r is on its way to the table, or to the memory of a process.
OnTheWay(p, r) ==
    \/ \E f \in flushes[p] : f.repo = r
    \/ \E l \in loads : l.repo = r
    \/ \E q \in Procs \ {p} : r \in pending[q] \/ \E f \in flushes[q] : r \in f.rest \cup {f.repo}

\* Mutant of DeleteGraph: the rows are deleted, the entry in memory is not.
DeleteGraphKeepsEntry(u) ==
    /\ u \in purges /\ ~u.forgot
    /\ purges' = (purges \ {u}) \cup {[u EXCEPT !.forgot = TRUE]}
    /\ pending' = [pending EXCEPT ![u.proc] = @ \ {u.repo}]
    /\ purgedAt' = [purgedAt EXCEPT ![u.proc][u.repo] = changes]
    /\ raced' = IF OnTheWay(u.proc, u.repo) THEN raced \cup {u.repo} ELSE raced
    /\ UNCHANGED <<stored, cached, flushes, loads, changes, saved, lost, faults>>

\* ... deleteGraph forgets the graph and sends a second DELETE ...
DeleteGraph(u) ==
    /\ u \in purges /\ ~u.forgot
    /\ purges' = (purges \ {u}) \cup {[u EXCEPT !.forgot = TRUE]}
    /\ cached' = [cached EXCEPT ![u.proc][u.repo] = 0]
    /\ pending' = [pending EXCEPT ![u.proc] = @ \ {u.repo}]
    /\ lost' = lost \cup Unsaved(u.proc, u.repo)
    /\ purgedAt' = [purgedAt EXCEPT ![u.proc][u.repo] = changes]
    /\ raced' = IF OnTheWay(u.proc, u.repo) THEN raced \cup {u.repo} ELSE raced
    /\ UNCHANGED <<stored, flushes, loads, changes, saved, faults>>

\* ... which the database runs when it gets to it.
DeleteRow(u) ==
    /\ u \in purges /\ u.forgot
    /\ purges' = purges \ {u}
    /\ stored' = [stored EXCEPT ![u.repo] = 0]
    /\ UNCHANGED <<cached, pending, flushes, loads, changes, saved, lost, purgedAt, raced, faults>>

\* It may fail instead: nothing awaits it, and with the handler of Sentry for
\* unhandled rejections the process goes on (without it, Restart follows).
DeleteRowFails(u) ==
    /\ u \in purges /\ u.forgot /\ faults < MaxFaults
    /\ faults' = faults + 1
    /\ purges' = purges \ {u}
    /\ raced' = raced \cup {u.repo}
    /\ UNCHANGED <<stored, cached, pending, flushes, loads, changes, saved, lost, purgedAt>>

Next ==
    \/ \E p \in Procs, r \in Repos : Change(p, r) \/ Evict(p, r) \/ AskRow(p, r) \/ PurgeRow(p, r)
    \/ \E p \in Procs : Flush(p) \/ Restart(p)
    \/ \E p \in Procs : \E f \in flushes[p] : Write(p, f) \/ WriteFails(p, f)
    \/ \E l \in loads : ReadRow(l) \/ Load(l)
    \/ \E u \in purges : DeleteGraph(u) \/ DeleteRow(u) \/ DeleteRowFails(u)

\* The timer fires, and the database goes on running the writes it is sent.
Fairness ==
    /\ \A p \in Procs : WF_vars(Flush(p))
    /\ \A p \in Procs : WF_vars(\E f \in flushes[p] : Write(p, f))

Spec == Init /\ [][Next]_vars /\ Fairness

-----------------------------------------------------------------------------
\* A change in memory that no write has stored is going to be written: it is
\* pending, or a flush has yet to come to it or is writing it.  A change that
\* arrives while a flush is writing may not be dropped with the batch that the
\* flush took over, nor a batch because one of its graphs has left memory
\* (flush, schedulePersist and persistRepo).
ChangesAreKept ==
    \A p \in Procs, r \in Repos :
        Unsaved(p, r) \ lost # {} =>
            \/ r \in pending[p]
            \/ \E f \in flushes[p] : r \in f.rest \/ f.graph = cached[p][r]

\* A repository that a process has purged is in the table or in the memory of
\* that process again only with a later change, whatever was pending or being
\* flushed there, unless an older graph was on its way at that moment: a write
\* already sent, a row being loaded (by any process: one that changes its graph
\* meanwhile writes the row it loads over the change), or a change another
\* process had yet to write; or the row was loaded again, or the process ended,
\* before the second DELETE, or that one failed (purgeOrgRepoIndex, deleteGraph
\* and persistRepo).
PurgedStaysGone ==
    \A p \in Procs, r \in Repos \ raced :
        (\A u \in purges : u.repo # r) =>
            {stored[r], cached[p][r]} \cap 1 .. purgedAt[p][r] = {}

\* A changed graph that stays in memory reaches the table, unless its write
\* failed, its process ended, or a load that had begun before took its place.
ChangesAreStored ==
    \A p \in Procs, r \in Repos, g \in 1 .. MaxChanges :
        (cached[p][r] = g) ~> (cached[p][r] # g \/ g \in saved \cup lost)

=============================================================================
