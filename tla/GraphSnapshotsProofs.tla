------------------------ MODULE GraphSnapshotsProofs ------------------------
(***************************************************************************)
(* Proofs about the write-behind of repository graphs, for any number of   *)
(* processes, repositories, changes and faults: types, and that no changed *)
(* graph is forgotten while it is in memory.                               *)
(***************************************************************************)
EXTENDS GraphSnapshots, TLAPS

LEMMA Bounds == MaxChanges \in Nat /\ MaxFaults \in Nat
BY GraphAssumption DEF GraphAssumption

\* What a process still has to store are graphs.
LEMMA UnsavedType ==
  ASSUME TypeOK, NEW p \in Procs
  PROVE  /\ 0 \in Graphs
         /\ \A r \in Repos : Unsaved(p, r) \subseteq Graphs
         /\ \A rs \in SUBSET Repos : AllUnsaved(p, rs) \subseteq Graphs
<1>1. 0 \in Graphs
  BY Bounds DEF Graphs
<1>2. \A r \in Repos : Unsaved(p, r) \subseteq Graphs
  BY DEF TypeOK, Unsaved
<1>3. \A rs \in SUBSET Repos : AllUnsaved(p, rs) \subseteq Graphs
  BY <1>2, Zenon DEF AllUnsaved
<1> QED
  BY <1>1, <1>2, <1>3

\* A flush that goes on sends a graph that is in memory.
LEMMA SendsType ==
  ASSUME TypeOK, NEW p \in Procs, NEW rest \in SUBSET Repos,
         NEW others \in SUBSET Flushes, NEW fs \in GoOn(p, others, rest)
  PROVE  fs \in SUBSET Flushes
<1>1. \A f \in Sends(p, rest) : f \in Flushes
  BY DEF Sends, Live, Flushes, TypeOK
<1> QED
  BY <1>1 DEF GoOn

LEMMA InitType == Init => TypeOK
BY Bounds DEF Init, TypeOK, Graphs

LEMMA TypeStep == TypeOK /\ [Next]_vars => TypeOK'
<1> SUFFICES ASSUME TypeOK, [Next]_vars PROVE TypeOK'
  OBVIOUS
<1> USE Bounds
<1>1. ASSUME NEW p \in Procs, NEW r \in Repos, Change(p, r) PROVE TypeOK'
  <2>1. changes' \in Graphs
    BY <1>1 DEF Change, TypeOK, Graphs
  <2> QED
    BY <1>1, <2>1 DEF Change, TypeOK
<1>2. ASSUME NEW p \in Procs, NEW r \in Repos, Evict(p, r) PROVE TypeOK'
  <2>1. 0 \in Graphs /\ lost' \subseteq Graphs
    BY <1>2, UnsavedType DEF Evict, TypeOK
  <2> QED
    BY <1>2, <2>1 DEF Evict, TypeOK
<1>3. ASSUME NEW p \in Procs, NEW r \in Repos, AskRow(p, r) PROVE TypeOK'
  <2>1. [proc |-> p, repo |-> r, graph |-> -1] \in Loads
    BY DEF Loads
  <2> QED
    BY <1>3, <2>1 DEF AskRow, TypeOK
<1>4. ASSUME NEW p \in Procs, NEW r \in Repos, PurgeRow(p, r) PROVE TypeOK'
  <2>1. 0 \in Graphs
    BY DEF Graphs
  <2> QED
    BY <1>4, <2>1 DEF PurgeRow, TypeOK
<1>5. ASSUME NEW p \in Procs, Flush(p) PROVE TypeOK'
  <2>1. \A fs \in GoOn(p, flushes[p], pending[p]) : fs \in SUBSET Flushes
    BY SendsType DEF TypeOK
  <2> QED
    BY <1>5, <2>1 DEF Flush, TypeOK
<1>6. ASSUME NEW p \in Procs, NEW f \in flushes[p], Write(p, f) PROVE TypeOK'
  <2>1. f \in Flushes /\ flushes[p] \ {f} \in SUBSET Flushes
    BY DEF TypeOK
  <2>2. f.repo \in Repos /\ f.graph \in Graphs /\ f.rest \in SUBSET Repos
    BY <2>1 DEF Flushes
  <2>3. \A fs \in GoOn(p, flushes[p] \ {f}, f.rest) : fs \in SUBSET Flushes
    BY <2>1, <2>2, SendsType
  <2> QED
    BY <1>6, <2>2, <2>3 DEF Write, TypeOK
<1>7. ASSUME NEW p \in Procs, NEW f \in flushes[p], WriteFails(p, f) PROVE TypeOK'
  <2>1. f.graph \in Graphs /\ f.rest \in SUBSET Repos
    BY DEF TypeOK, Flushes
  <2>2. lost' \subseteq Graphs
    BY <1>7, <2>1, UnsavedType DEF WriteFails, TypeOK
  <2>3. faults' \in 0 .. MaxFaults
    BY <1>7 DEF WriteFails, TypeOK
  <2>4. flushes' \in [Procs -> SUBSET Flushes]
    BY <1>7 DEF WriteFails, TypeOK
  <2> QED
    BY <1>7, <2>2, <2>3, <2>4 DEF WriteFails, TypeOK
<1>8. ASSUME NEW p \in Procs, Restart(p) PROVE TypeOK'
  <2>1. lost' \subseteq Graphs
    <3>1. {f.graph : f \in flushes[p]} \subseteq Graphs
      BY DEF TypeOK, Flushes
    <3> QED
      BY <1>8, <3>1, UnsavedType DEF Restart, TypeOK
  <2>2. raced' \subseteq Repos /\ loads' \subseteq Loads
        /\ purges' \subseteq [proc : Procs, repo : Repos, forgot : BOOLEAN]
    BY <1>8 DEF Restart, TypeOK
  <2>3. cached' \in [Procs -> [Repos -> Graphs]]
    BY <1>8 DEF Restart, TypeOK, Graphs
  <2>4. flushes' \in [Procs -> SUBSET Flushes] /\ pending' \in [Procs -> SUBSET Repos]
    BY <1>8 DEF Restart, TypeOK
  <2>5. faults' \in 0 .. MaxFaults
    BY <1>8 DEF Restart, TypeOK
  <2> QED
    BY <1>8, <2>1, <2>2, <2>3, <2>4, <2>5 DEF Restart, TypeOK
<1>9. ASSUME NEW l \in loads, ReadRow(l) \/ Load(l) PROVE TypeOK'
  <2>1. l.proc \in Procs /\ l.repo \in Repos /\ l.graph \in Graphs \cup {-1}
    BY DEF TypeOK, Loads
  <2>2. [l EXCEPT !.graph = stored[l.repo]] \in Loads
    BY <2>1 DEF TypeOK, Loads
  <2>3. CASE ReadRow(l)
    <3>1. raced' \subseteq Repos
      BY <2>3 DEF ReadRow, TypeOK
    <3> QED
      BY <2>2, <2>3, <3>1 DEF ReadRow, TypeOK
  <2>4. CASE Load(l)
    <3>1. lost' \subseteq Graphs
      BY <2>1, <2>4, UnsavedType DEF Load, TypeOK
    <3>2. l.graph \in Graphs
      BY <2>1, <2>4 DEF Load
    <3>3. cached' = cached \/ cached' = [cached EXCEPT ![l.proc][l.repo] = l.graph]
      BY <2>4 DEF Load
    <3> DEFINE p == l.proc
               r == l.repo
               g == l.graph
    <3>4. p \in Procs /\ r \in Repos /\ g \in Graphs
          /\ cached \in [Procs -> [Repos -> Graphs]]
          /\ (cached' = cached \/ cached' = [cached EXCEPT ![p][r] = g])
      BY <2>1, <3>2, <3>3 DEF TypeOK
    <3> HIDE DEF p, r, g
    <3>5. cached' \in [Procs -> [Repos -> Graphs]]
      BY <3>4
    <3> QED
      BY <2>4, <3>1, <3>5 DEF Load, TypeOK
  <2> QED
    BY <1>9, <2>3, <2>4
<1>10. ASSUME NEW u \in purges, DeleteGraph(u) \/ DeleteRow(u) \/ DeleteRowFails(u)
      PROVE  TypeOK'
  <2>1. u.proc \in Procs /\ u.repo \in Repos /\ 0 \in Graphs
    BY DEF TypeOK, Graphs
  <2>2. [u EXCEPT !.forgot = TRUE] \in [proc : Procs, repo : Repos, forgot : BOOLEAN]
    BY DEF TypeOK
  <2>3. CASE DeleteGraph(u)
    <3>1. lost' \subseteq Graphs
      BY <2>1, <2>3, UnsavedType DEF DeleteGraph, TypeOK
    <3>2. purges' \subseteq [proc : Procs, repo : Repos, forgot : BOOLEAN]
      BY <2>2, <2>3 DEF DeleteGraph, TypeOK
    <3>3. raced' \subseteq Repos
      BY <2>1, <2>3 DEF DeleteGraph, TypeOK
    <3> QED
      BY <2>1, <2>3, <3>1, <3>2, <3>3 DEF DeleteGraph, TypeOK
  <2>4. CASE DeleteRow(u)
    BY <2>1, <2>4 DEF DeleteRow, TypeOK
  <2>5. CASE DeleteRowFails(u)
    <3>1. faults' \in 0 .. MaxFaults
      BY <2>5, Bounds DEF DeleteRowFails, TypeOK
    <3> QED
      BY <2>1, <2>5, <3>1 DEF DeleteRowFails, TypeOK
  <2> QED
    BY <1>10, <2>3, <2>4, <2>5
<1>11. CASE UNCHANGED vars
  BY <1>11 DEF vars, TypeOK
<1> QED
  BY <1>1, <1>2, <1>3, <1>4, <1>5, <1>6, <1>7, <1>8, <1>9, <1>10, <1>11 DEF Next

\* The declared types hold for every value of the constants.
THEOREM GraphTypes == Spec => []TypeOK
BY InitType, TypeStep, PTL DEF Spec

-----------------------------------------------------------------------------
(* Changes are kept *)

\* What the table holds, or a load has read from it, has been stored.
Stored ==
  /\ \A r \in Repos : stored[r] \in saved \cup {0}
  /\ \A l \in loads : l.graph \in saved \cup {-1, 0}

LEMMA StoredStep == TypeOK /\ Stored /\ [Next]_vars => Stored'
<1> SUFFICES ASSUME TypeOK, Stored, [Next]_vars PROVE Stored'
  OBVIOUS
<1>1. ASSUME stored' = stored, saved' = saved, loads' \subseteq loads PROVE Stored'
  BY <1>1 DEF Stored
<1>2. ASSUME NEW p \in Procs, NEW r \in Repos, AskRow(p, r) PROVE Stored'
  BY <1>2 DEF AskRow, Stored
<1>3. ASSUME NEW p \in Procs, NEW r \in Repos, PurgeRow(p, r) PROVE Stored'
  BY <1>3 DEF PurgeRow, Stored, TypeOK
<1>4. ASSUME NEW p \in Procs, NEW f \in flushes[p], Write(p, f) PROVE Stored'
  BY <1>4 DEF Write, Stored, TypeOK
<1>5. ASSUME NEW l \in loads, ReadRow(l) PROVE Stored'
  <2>1. l.repo \in Repos /\ [l EXCEPT !.graph = stored[l.repo]].graph = stored[l.repo]
    BY DEF TypeOK, Loads
  <2> QED
    BY <1>5, <2>1 DEF ReadRow, Stored
<1>6. ASSUME NEW u \in purges, DeleteRow(u) PROVE Stored'
  BY <1>6 DEF DeleteRow, Stored, TypeOK
<1> QED
  BY <1>1, <1>2, <1>3, <1>4, <1>5, <1>6
  DEF Next, vars, Change, Evict, Flush, Restart, WriteFails, Load, DeleteGraph,
      DeleteRowFails

\* When a flush goes on with rest, what is in memory of rest is on its way.
LEMMA GoOnKeeps ==
  ASSUME NEW p \in Procs, NEW rest \in SUBSET Repos, NEW others,
         NEW fs \in GoOn(p, others, rest), NEW r \in Repos, cached[p][r] # 0
  PROVE  /\ others \subseteq fs
         /\ r \in rest => \E f \in fs : r \in f.rest \/ f.graph = cached[p][r]
<1>1. others \subseteq fs
  BY DEF GoOn
<1>2. ASSUME r \in rest
      PROVE  \E f \in fs : r \in f.rest \/ f.graph = cached[p][r]
  <2>1. r \in Live(p, rest)
    BY <1>2 DEF Live
  <2>2. PICK f \in Sends(p, rest) : fs = others \cup {f}
    BY <2>1 DEF GoOn
  <2>3. r \in f.rest \/ f.graph = cached[p][r]
    BY <1>2, <2>2 DEF Sends
  <2> QED
    BY <2>2, <2>3
<1> QED
  BY <1>1, <1>2

LEMMA KeptStep ==
  TypeOK /\ Stored /\ ChangesAreKept /\ [Next]_vars => ChangesAreKept'
<1> SUFFICES ASSUME TypeOK, Stored, ChangesAreKept, [Next]_vars,
                    NEW q \in Procs, NEW x \in Repos,
                    (Unsaved(q, x) \ lost)' # {}
             PROVE  (\/ x \in pending[q]
                     \/ \E f \in flushes[q] : x \in f.rest \/ f.graph = cached[q][x])'
  BY DEF ChangesAreKept
<1> DEFINE Kept == \/ x \in pending[q]
                   \/ \E f \in flushes[q] : x \in f.rest \/ f.graph = cached[q][x]
<1>g. cached'[q][x] \notin saved' \cup lost' \cup {0}
  BY DEF Unsaved
<1>k. ASSUME cached'[q][x] = cached[q][x], saved \subseteq saved', lost \subseteq lost'
      PROVE  Kept
  BY <1>g, <1>k DEF ChangesAreKept, Unsaved
<1>1. ASSUME NEW p \in Procs, NEW r \in Repos, Change(p, r) PROVE Kept'
  <2>1. CASE p = q /\ r = x
    BY <1>1, <2>1 DEF Change, TypeOK
  <2>2. CASE ~(p = q /\ r = x)
    <3>1. cached'[q][x] = cached[q][x]
      BY <1>1, <2>2 DEF Change, TypeOK
    <3> QED
      BY <1>1, <1>k, <3>1 DEF Change, TypeOK
  <2> QED
    BY <2>1, <2>2
<1>2. ASSUME NEW p \in Procs, NEW r \in Repos, Evict(p, r) PROVE Kept'
  <2>1. cached'[q][x] = cached[q][x]
    BY <1>2, <1>g DEF Evict, TypeOK
  <2> QED
    BY <1>2, <1>k, <2>1 DEF Evict
<1>3. ASSUME NEW p \in Procs, NEW r \in Repos, AskRow(p, r) \/ PurgeRow(p, r)
      PROVE  Kept'
  BY <1>3, <1>k DEF AskRow, PurgeRow
<1>4. ASSUME NEW p \in Procs, Flush(p) PROVE Kept'
  <2>1. Kept
    BY <1>4, <1>k DEF Flush
  <2>2. CASE p # q
    BY <1>4, <2>1, <2>2 DEF Flush, TypeOK
  <2>3. CASE p = q
    <3>1. PICK fs \in GoOn(p, flushes[p], pending[p]) :
            flushes' = [flushes EXCEPT ![p] = fs]
      BY <1>4 DEF Flush
    <3>2. flushes'[q] = fs /\ cached' = cached
      BY <1>4, <2>3, <3>1 DEF Flush, TypeOK
    <3>3. cached[q][x] # 0 /\ pending[p] \in SUBSET Repos
      BY <1>g, <3>2 DEF TypeOK
    <3>4. /\ flushes[p] \subseteq fs
          /\ x \in pending[p] => \E f \in fs : x \in f.rest \/ f.graph = cached[p][x]
      BY <2>3, <3>1, <3>3, GoOnKeeps
    <3> QED
      BY <2>1, <2>3, <3>2, <3>4
  <2> QED
    BY <2>2, <2>3
<1>5. ASSUME NEW p \in Procs, NEW f \in flushes[p], Write(p, f) PROVE Kept'
  <2>1. Kept /\ pending' = pending /\ cached' = cached
    BY <1>5, <1>k DEF Write
  <2>2. CASE p # q
    BY <1>5, <2>1, <2>2 DEF Write, TypeOK
  <2>3. CASE p = q
    <3>1. PICK fs \in GoOn(p, flushes[p] \ {f}, f.rest) :
            flushes' = [flushes EXCEPT ![p] = fs]
      BY <1>5 DEF Write
    <3>2. flushes'[q] = fs
      BY <2>3, <3>1 DEF TypeOK
    <3>3. cached[q][x] # 0 /\ f.rest \in SUBSET Repos /\ cached[q][x] # f.graph
      BY <1>5, <1>g, <2>1 DEF Write, TypeOK, Flushes
    <3> DEFINE others == flushes[p] \ {f}
               rest == f.rest
    <3>4. fs \in GoOn(p, others, rest) /\ rest \in SUBSET Repos
      BY <3>1, <3>3
    <3>5. cached[p][x] # 0
      BY <2>3, <3>3
    <3> HIDE DEF others, rest
    <3>6. /\ others \subseteq fs
          /\ x \in rest => \E g \in fs : x \in g.rest \/ g.graph = cached[p][x]
      BY <3>4, <3>5, GoOnKeeps
    <3> QED
      BY <2>1, <2>3, <3>2, <3>3, <3>6 DEF others, rest
  <2> QED
    BY <2>2, <2>3
<1>6. ASSUME NEW p \in Procs, NEW f \in flushes[p], WriteFails(p, f) PROVE Kept'
  <2>1. Kept /\ pending' = pending /\ cached' = cached
    BY <1>6, <1>k DEF WriteFails
  <2>2. CASE p # q
    BY <1>6, <2>1, <2>2 DEF WriteFails, TypeOK
  <2>3. CASE p = q
    <3>1. flushes'[q] = flushes[q] \ {f}
      BY <1>6, <2>3 DEF WriteFails, TypeOK
    <3>2. cached[q][x] # f.graph /\ x \notin f.rest
      BY <1>6, <1>g, <2>1, <2>3 DEF WriteFails, AllUnsaved, Unsaved
    <3> QED
      BY <2>1, <3>1, <3>2
  <2> QED
    BY <2>2, <2>3
<1>7. ASSUME NEW p \in Procs, Restart(p) PROVE Kept'
  <2>1. p # q
    BY <1>7, <1>g DEF Restart, TypeOK
  <2>2. /\ cached'[q] = cached[q] /\ pending'[q] = pending[q]
        /\ flushes'[q] = flushes[q]
    BY <1>7, <2>1 DEF Restart, TypeOK
  <2> QED
    BY <1>7, <1>k, <2>2 DEF Restart
<1>8. ASSUME NEW l \in loads, ReadRow(l) PROVE Kept'
  BY <1>8, <1>k DEF ReadRow
<1>9. ASSUME NEW l \in loads, Load(l) PROVE Kept'
  <2>1. cached'[q][x] = cached[q][x] \/ cached'[q][x] = l.graph
    BY <1>9 DEF Load, TypeOK, Loads
  <2>2. l.graph \in saved' \cup {0}
    BY <1>9 DEF Load, Stored
  <2>3. cached'[q][x] = cached[q][x] /\ lost \subseteq lost' /\ saved' = saved
    BY <1>9, <1>g, <2>1, <2>2 DEF Load
  <2> QED
    BY <1>9, <1>k, <2>3 DEF Load
<1>10. ASSUME NEW u \in purges, DeleteGraph(u) PROVE Kept'
  <2>1. u.proc \in Procs /\ u.repo \in Repos
    BY DEF TypeOK
  <2>2. ~(u.proc = q /\ u.repo = x)
    BY <1>10, <1>g, <2>1 DEF DeleteGraph, TypeOK
  <2>3. cached'[q][x] = cached[q][x] /\ (x \in pending'[q] <=> x \in pending[q])
    BY <1>10, <2>1, <2>2 DEF DeleteGraph, TypeOK
  <2> QED
    BY <1>10, <1>k, <2>3 DEF DeleteGraph
<1>11. ASSUME NEW u \in purges, DeleteRow(u) \/ DeleteRowFails(u) PROVE Kept'
  BY <1>11, <1>k DEF DeleteRow, DeleteRowFails
<1>12. CASE UNCHANGED vars
  BY <1>12, <1>k DEF vars
<1> QED
  BY <1>1, <1>2, <1>3, <1>4, <1>5, <1>6, <1>7, <1>8, <1>9, <1>10, <1>11, <1>12 DEF Next

\* A change of a graph is never forgotten: as long as it is in memory and not
\* stored it is pending or in a flush, for every number of processes, changes,
\* flushes at once, loads, purges and restarts.
THEOREM ChangesStayKept == Spec => []ChangesAreKept
<1>1. Init => Stored /\ ChangesAreKept
  BY DEF Init, Stored, ChangesAreKept, Unsaved
<1>2. TypeOK /\ Stored /\ ChangesAreKept /\ [Next]_vars => Stored' /\ ChangesAreKept'
  BY StoredStep, KeptStep
<1> QED
  BY <1>1, <1>2, GraphTypes, PTL DEF Spec

-----------------------------------------------------------------------------
(* Purged repositories *)

\* The graphs of r made before p last purged it.
Old(p, r) == 1 .. purgedAt[p][r]

\* The last purge of r by p has left no older graph of r where it could come
\* back from: not in the memory of p, nor in that of a process which has yet to
\* write r, nor in a write, nor in a load; in the table only until the second
\* DELETE.
Gone(p, r) ==
  /\ \A q \in Procs : q = p \/ r \in pending[q] \/ (\E f \in flushes[q] : r \in f.rest)
                         => cached[q][r] \notin Old(p, r)
  /\ \A q \in Procs : \A f \in flushes[q] : f.repo = r => f.graph \notin Old(p, r)
  /\ \A l \in loads : l.repo = r => l.graph \notin Old(p, r)
  /\ stored[r] \in Old(p, r) => \E u \in purges : u.proc = p /\ u.repo = r /\ u.forgot

PurgesAreOver ==
  \A p \in Procs, r \in Repos :
    /\ purgedAt[p][r] <= changes
    /\ r \notin raced => Gone(p, r)

\* A purge of p notes the changes made so far, and nothing else moves its mark.
LEMMA MarkStep ==
  ASSUME TypeOK, [Next]_vars, NEW p \in Procs, NEW r \in Repos
  PROVE  /\ raced \subseteq raced'
         /\ changes <= changes' /\ changes \in Nat
         /\ \/ purgedAt'[p][r] = purgedAt[p][r]
            \/ /\ purgedAt'[p][r] = changes /\ changes' = changes
               /\ \E u \in purges : u.proc = p /\ u.repo = r /\ DeleteGraph(u)
<1>1. changes \in Nat
  BY Bounds DEF TypeOK, Graphs
<1>2. ASSUME NEW u \in purges, DeleteGraph(u)
      PROVE  \/ purgedAt'[p][r] = purgedAt[p][r]
             \/ purgedAt'[p][r] = changes /\ u.proc = p /\ u.repo = r
  BY <1>2 DEF DeleteGraph, TypeOK
<1>3. ASSUME NEW u \in purges, DeleteGraph(u)
      PROVE  raced \subseteq raced' /\ changes' = changes
  BY <1>3 DEF DeleteGraph
<1>4. \/ \E u \in purges : DeleteGraph(u)
      \/ raced \subseteq raced' /\ purgedAt' = purgedAt /\ (changes' = changes \/ changes' = changes + 1)
  BY DEF Next, vars, Change, Evict, AskRow, PurgeRow, Flush, Restart, Write,
         WriteFails, ReadRow, Load, DeleteRow, DeleteRowFails
<1> QED
  BY <1>1, <1>2, <1>3, <1>4

\* A flush that goes on sends graphs that are in memory, of what it has left.
LEMMA GoOnSends ==
  ASSUME TypeOK, NEW p \in Procs, NEW rest \in SUBSET Repos, NEW others,
         NEW fs \in GoOn(p, others, rest), NEW f \in fs
  PROVE  \/ f \in others
         \/ f.rest \subseteq rest /\ f.repo \in rest /\ f.graph = cached[p][f.repo]
BY DEF GoOn, Sends, Live

LEMMA GoneStep ==
  ASSUME TypeOK, PurgesAreOver, [Next]_vars, NEW p \in Procs, NEW r \in Repos,
         r \notin raced'
  PROVE  Gone(p, r)'
<1> DEFINE b == purgedAt[p][r]
           Behind(q) == q = p \/ r \in pending[q] \/ (\E f \in flushes[q] : r \in f.rest)
<1>0. /\ b \in Nat /\ changes \in Nat /\ b <= changes /\ Old(p, r) = 1 .. b
      /\ r \notin raced /\ Gone(p, r)
  BY MarkStep, Bounds DEF PurgesAreOver, TypeOK, Graphs, Old
<1>a. ASSUME purgedAt' = purgedAt PROVE Old(p, r)' = Old(p, r)
  BY <1>a DEF Old
<1>1. ASSUME NEW q \in Procs, NEW x \in Repos, Change(q, x) PROVE Gone(p, r)'
  <2>1. changes + 1 \notin Old(p, r)
    BY <1>0
  <2>2. \A z \in Procs : cached'[z][r] = cached[z][r] \/ cached'[z][r] = changes + 1
    BY <1>1 DEF Change, TypeOK
  <2>3. \A z \in Procs : r \in pending'[z] => r \in pending[z] \/ cached'[z][r] = changes + 1
    BY <1>1 DEF Change, TypeOK
  <2> QED
    BY <1>0, <1>a, <1>1, <2>1, <2>2, <2>3 DEF Change, Gone
<1>2. ASSUME NEW q \in Procs, NEW x \in Repos, Evict(q, x) PROVE Gone(p, r)'
  <2>1. \A z \in Procs : cached'[z][r] = cached[z][r] \/ cached'[z][r] = 0
    BY <1>2 DEF Evict, TypeOK
  <2> QED
    BY <1>0, <1>a, <1>2, <2>1 DEF Evict, Gone
<1>3. ASSUME NEW q \in Procs, NEW x \in Repos, AskRow(q, x) PROVE Gone(p, r)'
  BY <1>0, <1>a, <1>3 DEF AskRow, Gone
<1>4. ASSUME NEW q \in Procs, NEW x \in Repos, PurgeRow(q, x) PROVE Gone(p, r)'
  <2>1. stored'[r] = stored[r] \/ stored'[r] = 0
    BY <1>4 DEF PurgeRow, TypeOK
  <2> QED
    BY <1>0, <1>a, <1>4, <2>1 DEF PurgeRow, Gone
<1>5. ASSUME NEW q \in Procs, Flush(q) PROVE Gone(p, r)'
  <2>1. PICK fs \in GoOn(q, flushes[q], pending[q]) : flushes' = [flushes EXCEPT ![q] = fs]
    BY <1>5 DEF Flush
  <2>2. \A f \in fs : \/ f \in flushes[q]
                      \/ /\ f.rest \subseteq pending[q] /\ f.repo \in pending[q]
                         /\ f.graph = cached[q][f.repo]
    BY <2>1, GoOnSends DEF TypeOK
  <2>3. \A z \in Procs : flushes'[z] = IF z = q THEN fs ELSE flushes[z]
    BY <2>1 DEF TypeOK
  <2>4. \A z \in Procs : pending'[z] \subseteq pending[z]
    BY <1>5 DEF Flush, TypeOK
  <2>5. \A z \in Procs : Behind(z)' => Behind(z)
    BY <2>2, <2>3, <2>4
  <2>6. \A z \in Procs : \A f \in flushes'[z] : f.repo = r => f.graph \notin Old(p, r)
    BY <1>0, <2>2, <2>3 DEF Gone
  <2> QED
    BY <1>0, <1>a, <1>5, <2>5, <2>6 DEF Flush, Gone
<1>6. ASSUME NEW q \in Procs, NEW g \in flushes[q], Write(q, g) PROVE Gone(p, r)'
  <2> DEFINE others == flushes[q] \ {g}
             rest == g.rest
  <2>1. PICK fs \in GoOn(q, others, rest) : flushes' = [flushes EXCEPT ![q] = fs]
    BY <1>6 DEF Write
  <2>t. rest \in SUBSET Repos
    BY DEF TypeOK, Flushes
  <2>o. others \subseteq flushes[q] /\ \E h \in flushes[q] : h.rest = rest
    OBVIOUS
  <2> HIDE DEF others, rest
  <2>2. \A f \in fs : \/ f \in flushes[q]
                      \/ f.rest \subseteq rest /\ f.repo \in rest /\ f.graph = cached[q][f.repo]
    BY <2>1, <2>t, <2>o, GoOnSends
  <2>3. \A z \in Procs : flushes'[z] = IF z = q THEN fs ELSE flushes[z]
    BY <2>1 DEF TypeOK
  <2>4. pending' = pending /\ cached' = cached
    BY <1>6 DEF Write
  <2>5. \A z \in Procs : Behind(z)' => Behind(z)
    BY <2>2, <2>3, <2>4, <2>o
  <2>6. \A z \in Procs : \A f \in flushes'[z] : f.repo = r => f.graph \notin Old(p, r)
    BY <1>0, <2>2, <2>3, <2>o DEF Gone
  <2>7. stored'[r] = stored[r] \/ (g.repo = r /\ stored'[r] = g.graph)
    BY <1>6 DEF Write, TypeOK
  <2>8. stored'[r] \in Old(p, r) => stored[r] \in Old(p, r)
    BY <1>0, <2>7 DEF Gone
  <2> QED
    BY <1>0, <1>a, <1>6, <2>4, <2>5, <2>6, <2>8 DEF Write, Gone
<1>7. ASSUME NEW q \in Procs, NEW g \in flushes[q], WriteFails(q, g) PROVE Gone(p, r)'
  <2>1. \A z \in Procs : flushes'[z] \subseteq flushes[z]
    BY <1>7 DEF WriteFails, TypeOK
  <2> QED
    BY <1>0, <1>a, <1>7, <2>1 DEF WriteFails, Gone
<1>8. ASSUME NEW q \in Procs, Restart(q) PROVE Gone(p, r)'
  <2>1. \A z \in Procs : /\ flushes'[z] \subseteq flushes[z] /\ pending'[z] \subseteq pending[z]
                         /\ cached'[z][r] \in {cached[z][r], 0}
    BY <1>8 DEF Restart, TypeOK
  <2>2. \A u \in purges : u.repo = r => u \in purges'
    BY <1>8 DEF Restart
  <2>3. loads' \subseteq loads /\ stored' = stored /\ purgedAt' = purgedAt
    BY <1>8 DEF Restart
  <2> QED
    BY <1>0, <1>a, <2>1, <2>2, <2>3 DEF Gone
<1>9. ASSUME NEW m \in loads, ReadRow(m) PROVE Gone(p, r)'
  <2>1. m.repo = r => ~\E u \in purges : u.repo = r /\ u.forgot
    BY <1>9 DEF ReadRow
  <2>2. [m EXCEPT !.graph = stored[m.repo]].repo = m.repo
        /\ [m EXCEPT !.graph = stored[m.repo]].graph = stored[m.repo]
    BY DEF TypeOK, Loads
  <2>3. \A l \in loads' : l.repo = r => l.graph \notin Old(p, r)
    BY <1>0, <1>9, <2>1, <2>2 DEF ReadRow, Gone
  <2> QED
    BY <1>0, <1>a, <1>9, <2>3 DEF ReadRow, Gone
<1>10. ASSUME NEW m \in loads, Load(m) PROVE Gone(p, r)'
  <2>1. \A z \in Procs : cached'[z][r] = cached[z][r] \/ (m.repo = r /\ cached'[z][r] = m.graph)
    <3> DEFINE mp == m.proc
               mr == m.repo
               mg == m.graph
    <3>1. mp \in Procs /\ mr \in Repos /\ cached \in [Procs -> [Repos -> Graphs]]
          /\ (cached' = cached \/ cached' = [cached EXCEPT ![mp][mr] = mg])
      BY <1>10 DEF Load, TypeOK, Loads
    <3> HIDE DEF mp, mr, mg
    <3>2. \A z \in Procs : cached'[z][r] = cached[z][r] \/ (mr = r /\ cached'[z][r] = mg)
      BY <3>1
    <3> QED
      BY <3>2 DEF mr, mg
  <2>2. \A z \in Procs : cached'[z][r] \in Old(p, r) => cached[z][r] \in Old(p, r)
    BY <1>0, <2>1 DEF Gone
  <2> QED
    BY <1>0, <1>a, <1>10, <2>2 DEF Load, Gone
<1>11. ASSUME NEW u \in purges, DeleteGraph(u), ~(u.proc = p /\ u.repo = r)
       PROVE  Gone(p, r)'
  <2>1. u.proc \in Procs /\ u.repo \in Repos
    BY DEF TypeOK
  <2>2. Old(p, r)' = Old(p, r)
    BY <1>11, <2>1 DEF DeleteGraph, TypeOK, Old
  <2>3. \A z \in Procs : cached'[z][r] \in {cached[z][r], 0} /\ pending'[z] \subseteq pending[z]
    BY <1>11, <2>1 DEF DeleteGraph, TypeOK
  <2>4. \A v \in purges : v.forgot => v \in purges'
    BY <1>11 DEF DeleteGraph
  <2>5. flushes' = flushes /\ loads' = loads /\ stored' = stored
    BY <1>11 DEF DeleteGraph
  <2> QED
    BY <1>0, <2>2, <2>3, <2>4, <2>5 DEF Gone
<1>12. ASSUME NEW u \in purges, DeleteGraph(u), u.proc = p, u.repo = r
       PROVE  Gone(p, r)'
  <2>1. ~OnTheWay(p, r)
    BY <1>12 DEF DeleteGraph
  <2>2. cached'[p][r] = 0
    BY <1>12 DEF DeleteGraph, TypeOK
  <2>3. pending' = [pending EXCEPT ![p] = @ \ {r}] /\ flushes' = flushes /\ loads' = loads
    BY <1>12 DEF DeleteGraph
  <2>4. \A z \in Procs : z # p => ~Behind(z)'
    BY <2>1, <2>3 DEF OnTheWay, TypeOK
  <2>5. \A z \in Procs : \A f \in flushes'[z] : f.repo # r
    BY <2>1, <2>3 DEF OnTheWay
  <2>6. [u EXCEPT !.forgot = TRUE] \in purges'
    BY <1>12 DEF DeleteGraph
  <2>7. \E v \in purges' : v.proc = p /\ v.repo = r /\ v.forgot
    BY <1>12, <2>6 DEF TypeOK
  <2>8. 0 \notin Old(p, r)'
    BY DEF Old
  <2> QED
    BY <2>1, <2>2, <2>3, <2>4, <2>5, <2>7, <2>8 DEF Gone, OnTheWay
<1>13. ASSUME NEW u \in purges, DeleteRow(u) PROVE Gone(p, r)'
  <2>1. u.repo \in Repos /\ stored'[r] = IF u.repo = r THEN 0 ELSE stored[r]
    BY <1>13 DEF DeleteRow, TypeOK
  <2>2. 0 \notin Old(p, r)
    BY <1>0
  <2> QED
    BY <1>0, <1>a, <1>13, <2>1, <2>2 DEF DeleteRow, Gone
<1>14. CASE UNCHANGED vars
  BY <1>0, <1>a, <1>14 DEF vars, Gone
<1>15. ASSUME NEW u \in purges, DeleteRowFails(u) PROVE Gone(p, r)'
  <2>1. \A v \in purges : v.repo = r => v \in purges'
    BY <1>15 DEF DeleteRowFails
  <2> QED
    BY <1>0, <1>a, <1>15, <2>1 DEF DeleteRowFails, Gone
<1> QED
  BY <1>1, <1>2, <1>3, <1>4, <1>5, <1>6, <1>7, <1>8, <1>9, <1>10, <1>11, <1>12,
     <1>13, <1>14, <1>15 DEF Next

LEMMA OverStep == TypeOK /\ PurgesAreOver /\ [Next]_vars => PurgesAreOver'
<1> SUFFICES ASSUME TypeOK, PurgesAreOver, [Next]_vars, NEW p \in Procs, NEW r \in Repos
             PROVE  (purgedAt[p][r] <= changes)' /\ (r \notin raced' => Gone(p, r)')
  BY DEF PurgesAreOver
<1>1. purgedAt[p][r] \in Nat /\ purgedAt[p][r] <= changes /\ changes' \in Nat
  BY TypeStep, Bounds DEF PurgesAreOver, TypeOK, Graphs
<1>2. purgedAt'[p][r] <= changes'
  BY <1>1, MarkStep
<1> QED
  BY <1>2, GoneStep

\* A repository that a process has purged does not come back from a change
\* made before, whatever is pending, flushed, loaded or purged at the same
\* time, unless an older graph was on its way when the process forgot it.
THEOREM PurgedRepositoriesStayGone == Spec => []PurgedStaysGone
<1>1. Init => PurgesAreOver
  BY DEF Init, PurgesAreOver, Gone, Old
<1>2. PurgesAreOver => PurgedStaysGone
  <2> SUFFICES ASSUME PurgesAreOver, NEW p \in Procs, NEW r \in Repos \ raced,
                      \A u \in purges : u.repo # r
               PROVE  {stored[r], cached[p][r]} \cap 1 .. purgedAt[p][r] = {}
    BY DEF PurgedStaysGone
  <2>1. Gone(p, r)
    BY DEF PurgesAreOver
  <2>2. stored[r] \notin Old(p, r) /\ cached[p][r] \notin Old(p, r)
    BY <2>1 DEF Gone
  <2> QED
    BY <2>2 DEF Old
<1> QED
  BY <1>1, <1>2, OverStep, GraphTypes, PTL DEF Spec
=============================================================================
