------------------------ MODULE ConsoleToolsets_proofs ----------------------
(***************************************************************************)
(* Proofs about ConsoleToolsets for any toolsets, processes and threads,   *)
(* any contents of the files and any number of starts, crashes and edits:  *)
(* type correctness, that no tool runs before its toolset was checked,     *)
(* that threads initialise a toolset once between them, and that a start   *)
(* which nothing disturbed trusts the statuses of its own configuration.   *)
(*                                                                         *)
(* The second follows a toolset from the status file to the executor: the  *)
(* file enables only what its writer had enabled, so whatever a start      *)
(* takes from it as enabled is either checked again or left deferred, and  *)
(* what is deferred is initialised under the lock before it runs.          *)
(***************************************************************************)
EXTENDS ConsoleToolsets, TLAPS

CacheSet == [state : {"absent", "torn", "whole"}, basis : Configuration,
             row : [Toolset -> Row \union {NoFile}]]
WorldSet == [Toolset -> {"works", "fails", "raises", "unset"}]
ProcessSet ==
  [pc : Pc, config : Configuration, refresh : BOOLEAN, cached : BOOLEAN,
   todo : SUBSET Toolset, toolset : [Toolset -> Entry],
   hashed : Configuration, basis : Configuration, excused : BOOLEAN]
ThreadSet == [pc : {"idle", "wait", "init", "run", "refused", "raised"}, of : Toolset \union {NoFile}]
CountSet == [starts : 0..MaxStarts, edits : 0..MaxEdits, crashes : 0..MaxCrashes,
             changes : 0..MaxChanges, calls : 0..MaxCalls]

\* The full check of a toolset let it run.
Sure(e, cached) == e.checked = "passed" \/ (e.checked = "raised" /\ ~cached)

\* What holds of a process wherever it is: in a refresh, while it reads the file, and when
\* its tools can be called.
Refreshing(r) ==
  \A t \in Toolset : r.toolset[t].status = "enabled" \/ t \in r.todo => r.toolset[t].enabled

Rechecking(r) ==
  /\ r.cached => r.todo \subseteq Mcp
  /\ \A t \in Toolset \ r.todo :
       r.toolset[t].known /\ r.toolset[t].status = "enabled" =>
         NeedsInitialization(r.toolset[t]) \/ Sure(r.toolset[t], r.cached)

Callable(r) ==
  \A t \in Toolset : r.toolset[t].tools =>
    \/ NeedsInitialization(r.toolset[t])
    \/ r.toolset[t].status = "failed"
    \/ Sure(r.toolset[t], r.cached)

Counted(r) ==
  \A t \in Toolset :
    \/ r.toolset[t].inits = 0
    \/ r.toolset[t].inits = 1 /\ r.toolset[t].initialized /\ r.pc = "ready"

ProcessOK(r) ==
  /\ r.pc \in {"check", "dump"} => Refreshing(r)
  /\ r.pc = "recheck" => Rechecking(r)
  /\ r.pc = "ready" => Callable(r)
  /\ Counted(r)

\* The file enables what its writer had enabled.
CacheOK == \A t \in Toolset : cache.row[t] # NoFile /\ cache.row[t].status = "enabled" => cache.row[t].enabled

\* A thread, and the entry of the toolset it uses.
ThreadOK(i) ==
  thread[i].pc # "idle" =>
    /\ process[i[1]].pc = "ready"
    /\ thread[i].of \in Toolset
    /\ thread[i].pc \in {"wait", "init"} => Entered(i).tools /\ (Entered(i).lazy \/ Entered(i).initialized)
    /\ thread[i].pc = "init" => ~Entered(i).initialized
    /\ thread[i].pc = "run" => ~NeedsInitialization(Entered(i)) /\ Sure(Entered(i), process[i[1]].cached)

Locked ==
  \A i, j \in Thread :
    thread[i].pc = "init" /\ thread[j].pc = "init" /\ i[1] = j[1] /\ thread[i].of = thread[j].of => i = j

IInv ==
  /\ TypeOK
  /\ \A t \in Toolset : world[t] = "raises" => t \in Command
  /\ CacheOK
  /\ \A p \in Process : ProcessOK(process[p])
  /\ \A i \in Thread : ThreadOK(i)
  /\ Locked
-----------------------------------------------------------------------------
LEMMA TypeLemma ==
  TypeOK <=>
    /\ file \in Configuration /\ hashes \in Configuration \union {Torn}
    /\ cache \in CacheSet /\ world \in WorldSet
    /\ process \in [Process -> ProcessSet] /\ thread \in [Thread -> ThreadSet]
    /\ disturbed \in BOOLEAN /\ count \in CountSet
BY DEF TypeOK, CacheSet, WorldSet, ProcessSet, ThreadSet, CountSet

LEMMA EntryLemma ==
  /\ Unlisted \in Entry
  /\ \A r \in ProcessSet : r.toolset \in [Toolset -> Entry]
  /\ Off \in ProcessSet /\ Off.pc = "off" /\ \A t \in Toolset : Off.toolset[t] = Unlisted
  /\ Off.toolset = [t \in Toolset |-> Unlisted]
  /\ Idle \in ThreadSet /\ Idle.pc = "idle"
<1>1. Unlisted \in Entry
  BY DEF Unlisted, Entry, Status
<1>2. Off \in ProcessSet /\ Off.pc = "off" /\ Off.toolset = [t \in Toolset |-> Unlisted]
  BY <1>1 DEF Off, ProcessSet, Pc, Configuration
<1>3. \A r \in ProcessSet : r.toolset \in [Toolset -> Entry]
  BY DEF ProcessSet
<1>4. Idle \in ThreadSet /\ Idle.pc = "idle"
  BY DEF Idle, ThreadSet
<1> QED
  BY <1>1, <1>2, <1>3, <1>4

\* A process that has no toolsets yet, or no longer, is in order.
LEMMA FreshLemma ==
  ASSUME NEW r, r.toolset = Off.toolset, r.pc \notin {"check", "dump", "recheck", "ready"}
  PROVE  ProcessOK(r)
<1>1. \A t \in Toolset : r.toolset[t].inits = 0
  BY EntryLemma DEF Unlisted
<1> QED
  BY <1>1 DEF ProcessOK, Counted

LEMMA ThreadLemma ==
  ASSUME NEW i \in Thread
  PROVE  i[1] \in Process
BY ThreadAssumption

\* A step of process p, whose threads are idle.
LEMMA ProcessStep ==
  ASSUME IInv, NEW p \in Process, process[p].pc # "ready",
         NEW n \in ProcessSet, ProcessOK(n), process' = [process EXCEPT ![p] = n],
         UNCHANGED <<thread, world>>, CacheOK', cache' \in CacheSet,
         file' \in Configuration, hashes' \in Configuration \union {Torn},
         disturbed' \in BOOLEAN, count' \in CountSet
  PROVE  IInv'
<1>1. process \in [Process -> ProcessSet] /\ thread \in [Thread -> ThreadSet] /\ world \in WorldSet
  BY TypeLemma DEF IInv
<1>2. process'[p] = n /\ \A q \in Process \ {p} : process'[q] = process[q]
  BY <1>1
<1>3. process' \in [Process -> ProcessSet]
  BY <1>1
<1>4. TypeOK'
  BY <1>1, <1>3 DEF TypeOK, CacheSet, WorldSet, ProcessSet, ThreadSet, CountSet
<1>5. \A q \in Process : ProcessOK(process'[q])
  BY <1>2 DEF IInv
<1>6. ASSUME NEW i \in Thread PROVE ThreadOK(i)'
  <2>1. CASE i[1] = p
    <3>1. thread[i].pc = "idle"
      BY <2>1 DEF IInv, ThreadOK
    <3> QED
      BY <3>1 DEF ThreadOK
  <2>2. CASE i[1] # p
    <3>1. process'[i[1]] = process[i[1]]
      BY <1>2, <2>2, ThreadLemma
    <3> QED
      BY <3>1 DEF IInv, ThreadOK, Entered
  <2> QED
    BY <2>1, <2>2
<1>7. Locked'
  BY DEF IInv, Locked
<1> QED
  BY <1>4, <1>5, <1>6, <1>7 DEF IInv
-----------------------------------------------------------------------------
LEMMA MoveLemma ==
  ASSUME NEW r, ProcessOK(r), r.pc # "ready", NEW n, n.toolset = r.toolset,
         n.pc \notin {"check", "dump", "recheck", "ready"}
  PROVE  ProcessOK(n)
BY DEF ProcessOK, Counted

LEMMA ListedLemma ==
  ASSUME NEW c, NEW all \in BOOLEAN
  PROVE  /\ Listed(c, all) \in [Toolset -> Entry]
         /\ \A t \in Toolset :
              /\ Listed(c, all)[t].status = "disabled" /\ Listed(c, all)[t].inits = 0
              /\ Listed(c, all)[t].initialized /\ ~Listed(c, all)[t].lazy
              /\ ~Listed(c, all)[t].tools
              /\ Listed(c, all)[t].enabled = Enables(c, t, all)
<1>1. \A t \in Toolset : Known(c, t) \in BOOLEAN /\ Enables(c, t, all) \in BOOLEAN
  BY DEF Known, Enables
<1>2. \A t \in Toolset :
        [Unlisted EXCEPT !.known = Known(c, t), !.enabled = Enables(c, t, all)] \in Entry
  BY <1>1 DEF Unlisted, Entry, Status
<1> QED
  BY <1>2 DEF Listed, Unlisted

LEMMA CheckedLemma ==
  ASSUME NEW e \in Entry, NEW found
  PROVE  /\ Checked(e, found) \in Entry
         /\ Checked(e, found).known = e.known /\ Checked(e, found).enabled = e.enabled
         /\ Checked(e, found).lazy = e.lazy /\ Checked(e, found).initialized = e.initialized
         /\ Checked(e, found).tools = e.tools /\ Checked(e, found).inits = e.inits
         /\ Checked(e, found).status \in {"enabled", "failed"}
         /\ Checked(e, found).status = "enabled" =>
              \/ found = "works" /\ Checked(e, found).checked = "passed"
              \/ found = "raises" /\ Checked(e, found).checked = "raised"
BY DEF Checked, Entry, Status

LEMMA CountLemma ==
  ASSUME count \in CountSet
  PROVE  /\ count.starts < MaxStarts => [count EXCEPT !.starts = @ + 1] \in CountSet
         /\ count.edits < MaxEdits => [count EXCEPT !.edits = @ + 1] \in CountSet
         /\ count.crashes < MaxCrashes => [count EXCEPT !.crashes = @ + 1] \in CountSet
         /\ count.changes < MaxChanges => [count EXCEPT !.changes = @ + 1] \in CountSet
         /\ count.calls < MaxCalls => [count EXCEPT !.calls = @ + 1] \in CountSet
<1>1. {MaxStarts, MaxEdits, MaxCrashes, MaxChanges, MaxCalls} \subseteq Nat
  BY BoundsAssumption
<1> QED
  BY <1>1 DEF CountSet

LEMMA InitLemma == Init => IInv
<1> SUFFICES ASSUME Init PROVE IInv
  OBVIOUS
<1>1. TypeOK
  <2>1. process \in [Process -> ProcessSet] /\ thread \in [Thread -> ThreadSet]
    BY EntryLemma DEF Init
  <2>2. cache \in CacheSet
    BY DEF Init, CacheSet, Configuration
  <2>3. count \in CountSet
    BY BoundsAssumption DEF Init, CountSet
  <2>4. world \in WorldSet
    BY DEF Init, WorldSet
  <2> QED
    BY <2>1, <2>2, <2>3, <2>4, TypeLemma DEF Init, Configuration
<1>2. \A p \in Process : ProcessOK(process[p])
  BY FreshLemma, EntryLemma DEF Init
<1>3. \A i \in Thread : thread[i].pc = "idle"
  BY EntryLemma DEF Init
<1>4. CacheOK /\ \A t \in Toolset : world[t] # "raises"
  BY DEF Init, CacheOK
<1> QED
  BY <1>1, <1>2, <1>3, <1>4 DEF IInv, ThreadOK, Locked
-----------------------------------------------------------------------------
LEMMA StartStep ==
  ASSUME IInv, NEW p \in Process, Start(p)
  PROVE  IInv'
<1>1. PICK refresh \in BOOLEAN :
        process' = [process EXCEPT ![p] =
          [Off EXCEPT !.pc = IF refresh \/ file = NoFile THEN "decide" ELSE "hash",
                      !.config = file, !.refresh = refresh]]
  BY DEF Start
<1>2. PICK n : n = [Off EXCEPT !.pc = IF refresh \/ file = NoFile THEN "decide" ELSE "hash",
                               !.config = file, !.refresh = refresh]
  OBVIOUS
<1>3. n \in ProcessSet /\ n.toolset = Off.toolset /\ n.pc \in {"decide", "hash"}
  BY <1>2, EntryLemma, TypeLemma DEF IInv, ProcessSet, Pc
<1>4. ProcessOK(n)
  BY <1>3, FreshLemma
<1>5. process' = [process EXCEPT ![p] = n] /\ process[p].pc # "ready"
  BY <1>1, <1>2 DEF Start
<1>6. disturbed' \in BOOLEAN /\ count' \in CountSet
  BY CountLemma, TypeLemma DEF Start, IInv
<1>7. UNCHANGED <<file, hashes, cache, world, thread>>
  BY DEF Start
<1>8. CacheOK' /\ cache' \in CacheSet /\ file' \in Configuration /\ hashes' \in Configuration \union {Torn}
  BY <1>7, TypeLemma DEF IInv, CacheOK
<1> QED
  BY <1>3, <1>4, <1>5, <1>6, <1>7, <1>8, ProcessStep

\* The files stay as they are, and the process becomes n.
LEMMA QuietStep ==
  ASSUME IInv, NEW p \in Process, process[p].pc # "ready", NEW n \in ProcessSet, ProcessOK(n),
         process' = [process EXCEPT ![p] = n],
         UNCHANGED <<file, hashes, cache, world, thread, disturbed, count>>
  PROVE  IInv'
<1>1. /\ CacheOK' /\ cache' \in CacheSet /\ file' \in Configuration
      /\ hashes' \in Configuration \union {Torn} /\ disturbed' \in BOOLEAN /\ count' \in CountSet
  BY TypeLemma DEF IInv, CacheOK
<1> QED
  BY <1>1, ProcessStep

LEMMA HashesStep ==
  ASSUME IInv, NEW p \in Process, CheckHashes(p) \/ SaveHashes(p)
  PROVE  IInv'
<1>0. process[p] \in ProcessSet /\ ProcessOK(process[p]) /\ process[p].pc \in {"hash", "save", "saving"}
  BY TypeLemma DEF IInv, CheckHashes, SaveHashes
<1>1. CASE CheckHashes(p)
  <2>1. PICK n : n = IF Changed THEN [process[p] EXCEPT !.pc = "save", !.hashed = file, !.refresh = TRUE]
                     ELSE [process[p] EXCEPT !.pc = "decide"]
    OBVIOUS
  <2>2. n \in ProcessSet /\ n.toolset = process[p].toolset /\ n.pc \in {"save", "decide"}
    BY <1>0, <2>1, TypeLemma DEF IInv, ProcessSet, Pc
  <2>3. process' = [process EXCEPT ![p] = n]
    BY <1>1, <2>1, TypeLemma DEF CheckHashes, At, IInv
  <2>4. ProcessOK(n)
    BY <1>0, <2>2, MoveLemma
  <2> QED
    BY <1>0, <1>1, <2>2, <2>3, <2>4, QuietStep DEF CheckHashes
<1>2. CASE SaveHashes(p)
  <2>1. PICK n : n = IF process[p].pc = "save" THEN [process[p] EXCEPT !.pc = "saving"]
                     ELSE [process[p] EXCEPT !.pc = "decide", !.hashed = NoFile]
    OBVIOUS
  <2>2. n \in ProcessSet /\ n.toolset = process[p].toolset /\ n.pc \in {"saving", "decide"}
    BY <1>0, <2>1 DEF ProcessSet, Pc, Configuration
  <2>3. process' = [process EXCEPT ![p] = n]
    BY <1>2, <2>1, TypeLemma DEF SaveHashes, At, IInv
  <2>4. ProcessOK(n)
    BY <1>0, <2>2, MoveLemma
  <2>5. hashes' \in Configuration \union {Torn} /\ UNCHANGED <<file, cache, world, thread, disturbed, count>>
    BY <1>0, <1>2 DEF SaveHashes, ProcessSet
  <2>6. /\ CacheOK' /\ cache' \in CacheSet /\ file' \in Configuration
        /\ disturbed' \in BOOLEAN /\ count' \in CountSet
    BY <2>5, TypeLemma DEF IInv, CacheOK
  <2> QED
    BY <1>0, <2>2, <2>3, <2>4, <2>5, <2>6, ProcessStep
<1> QED
  BY <1>1, <1>2

LEMMA DecideStep ==
  ASSUME IInv, NEW p \in Process, Decide(p)
  PROVE  IInv'
<1>0. /\ process[p] \in ProcessSet /\ ProcessOK(process[p]) /\ process[p].pc = "decide"
      /\ UNCHANGED <<file, hashes, cache, world, thread, disturbed, count>>
  BY TypeLemma DEF IInv, Decide
<1>1. CASE cache.state = "absent" \/ process[p].refresh
  <2>1. PICK n : n = [process[p] EXCEPT !.pc = "check", !.refresh = FALSE,
                        !.toolset = Listed(process[p].config, TRUE),
                        !.todo = {t \in Toolset : Known(process[p].config, t)
                                                  /\ Enables(process[p].config, t, TRUE)}]
    OBVIOUS
  <2>2. /\ n \in ProcessSet /\ n.toolset = Listed(process[p].config, TRUE) /\ n.pc = "check"
        /\ n.todo \subseteq {t \in Toolset : Enables(process[p].config, t, TRUE)}
    BY <1>0, <2>1, ListedLemma DEF ProcessSet, Pc
  <2>3. process' = [process EXCEPT ![p] = n]
    BY <1>1, <2>1, TypeLemma DEF Decide, IInv
  <2>4. ProcessOK(n)
    <3>1. \A t \in Toolset : /\ n.toolset[t].status = "disabled" /\ n.toolset[t].inits = 0
                             /\ t \in n.todo => n.toolset[t].enabled
      <4>1. PICK ts : ts = Listed(process[p].config, TRUE)
        OBVIOUS
      <4>2. \A t \in Toolset : ts[t].status = "disabled" /\ ts[t].inits = 0 /\ ts[t].enabled = Enables(process[p].config, t, TRUE)
        BY <4>1, ListedLemma
      <4>3. \A t \in n.todo : Enables(process[p].config, t, TRUE)
        BY <2>2
      <4> QED
        BY <2>2, <4>1, <4>2, <4>3
    <3> QED
      BY <2>2, <3>1 DEF ProcessOK, Refreshing, Counted
  <2> QED
    BY <1>0, <2>2, <2>3, <2>4, QuietStep
<1>2. CASE ~(cache.state = "absent" \/ process[p].refresh)
  <2>1. PICK n : n = [process[p] EXCEPT !.pc = "read", !.cached = TRUE]
    OBVIOUS
  <2>2. n \in ProcessSet /\ n.toolset = process[p].toolset /\ n.pc = "read"
    BY <1>0, <2>1 DEF ProcessSet, Pc
  <2>3. process' = [process EXCEPT ![p] = n]
    BY <1>2, <2>1, TypeLemma DEF Decide, IInv
  <2>4. ProcessOK(n)
    BY <1>0, <2>2, MoveLemma
  <2> QED
    BY <1>0, <2>2, <2>3, <2>4, QuietStep
<1> QED
  BY <1>1, <1>2

LEMMA CheckStep ==
  ASSUME IInv, NEW p \in Process, NEW t \in Toolset, Check(p, t)
  PROVE  IInv'
<1>0. /\ process[p] \in ProcessSet /\ ProcessOK(process[p]) /\ process[p].pc \in {"check", "recheck"}
      /\ t \in process[p].todo /\ process[p].toolset \in [Toolset -> Entry]
      /\ UNCHANGED <<file, hashes, cache, world, thread, disturbed, count>>
  BY TypeLemma, EntryLemma DEF IInv, Check
<1>1. PICK e : e = Checked(process[p].toolset[t], world[t])
  OBVIOUS
<1>2. PICK ts : ts = [process[p].toolset EXCEPT ![t] = e]
  OBVIOUS
<1>3. PICK n : n = [process[p] EXCEPT !.todo = @ \ {t}, !.toolset = ts]
  OBVIOUS
<1>4. e \in Entry /\ ts \in [Toolset -> Entry]
  BY <1>0, <1>1, <1>2, CheckedLemma
<1>5. /\ n \in ProcessSet /\ n.toolset = ts /\ n.pc = process[p].pc /\ n.cached = process[p].cached
      /\ n.todo = process[p].todo \ {t}
  BY <1>0, <1>3, <1>4 DEF ProcessSet
<1>6. process' = [process EXCEPT ![p] = n]
  BY <1>1, <1>2, <1>3, TypeLemma DEF Check, IInv
<1>7. ts[t] = e /\ \A u \in Toolset \ {t} : ts[u] = process[p].toolset[u]
  BY <1>0, <1>2
<1>8. e.inits = process[p].toolset[t].inits /\ e.enabled = process[p].toolset[t].enabled
  BY <1>0, <1>1, CheckedLemma
<1>9. Counted(n)
  BY <1>0, <1>5, <1>7, <1>8 DEF ProcessOK, Counted
<1>10. CASE process[p].pc = "check"
  <2>1. Refreshing(n)
    BY <1>0, <1>5, <1>7, <1>8, <1>10 DEF ProcessOK, Refreshing
  <2> QED
    BY <1>0, <1>5, <1>6, <1>9, <1>10, <2>1, QuietStep DEF ProcessOK
<1>11. CASE process[p].pc = "recheck"
  <2>1. e.status = "enabled" => Sure(e, n.cached)
    <3>1. world[t] = "raises" => t \notin Mcp
      BY ToolsetAssumption DEF IInv
    <3>2. n.cached => t \in Mcp
      BY <1>0, <1>5, <1>11 DEF ProcessOK, Rechecking
    <3> QED
      BY <1>0, <1>1, <3>1, <3>2, CheckedLemma DEF Sure
  <2>2. Rechecking(n)
    BY <1>0, <1>5, <1>7, <1>11, <2>1 DEF ProcessOK, Rechecking
  <2> QED
    BY <1>0, <1>5, <1>6, <1>9, <1>11, <2>2, QuietStep DEF ProcessOK
<1> QED
  BY <1>0, <1>10, <1>11

\* What a process writes to the file enables only what it had enabled.
LEMMA RowLemma ==
  ASSUME NEW e \in Entry, e.status = "enabled" => e.enabled
  PROVE  /\ RowOf(e) \in Row \union {NoFile}
         /\ RowOf(e) # NoFile /\ RowOf(e).status = "enabled" => RowOf(e).enabled
BY DEF RowOf, Row, Entry

LEMMA WriteStep ==
  ASSUME IInv, NEW p \in Process, Open(p) \/ Dump(p)
  PROVE  IInv'
<1>0. /\ process[p] \in ProcessSet /\ ProcessOK(process[p]) /\ process[p].pc \in {"check", "dump"}
      /\ process[p].toolset \in [Toolset -> Entry] /\ cache \in CacheSet
      /\ UNCHANGED <<file, hashes, world, thread, count>>
  BY TypeLemma, EntryLemma DEF IInv, Open, Dump
<1>1. file' \in Configuration /\ hashes' \in Configuration \union {Torn} /\ count' \in CountSet
  BY <1>0, TypeLemma DEF IInv
<1>2. CASE Open(p)
  <2>1. PICK n : n = [process[p] EXCEPT !.pc = "dump"]
    OBVIOUS
  <2>2. n \in ProcessSet /\ n.toolset = process[p].toolset /\ n.pc = "dump" /\ n.todo = process[p].todo
    BY <1>0, <2>1 DEF ProcessSet, Pc
  <2>3. process' = [process EXCEPT ![p] = n] /\ process[p].pc = "check"
    BY <1>2, <2>1, TypeLemma DEF Open, At, IInv
  <2>4. ProcessOK(n)
    BY <1>0, <2>2, <2>3 DEF ProcessOK, Refreshing, Counted
  <2>5. cache' \in CacheSet /\ cache'.row = cache.row
    BY <1>0, <1>2 DEF Open, CacheSet
  <2>6. CacheOK' /\ disturbed' \in BOOLEAN
    BY <1>2, <2>5, TypeLemma DEF IInv, CacheOK, Open
  <2> QED
    BY <1>0, <1>1, <2>2, <2>3, <2>4, <2>5, <2>6, ProcessStep
<1>3. CASE Dump(p)
  <2>1. PICK n : n = [process[p] EXCEPT !.pc = "read", !.toolset = Off.toolset]
    OBVIOUS
  <2>2. n \in ProcessSet /\ n.toolset = Off.toolset /\ n.pc = "read"
    BY <1>0, <2>1, EntryLemma DEF ProcessSet, Pc
  <2>3. process' = [process EXCEPT ![p] = n] /\ process[p].pc = "dump" /\ disturbed' \in BOOLEAN
    BY <1>3, <2>1, TypeLemma DEF Dump, IInv
  <2>4. ProcessOK(n)
    BY <2>2, FreshLemma
  <2>5. PICK row : row = [t \in Toolset |-> RowOf(process[p].toolset[t])]
    OBVIOUS
  <2>6. PICK state \in {"whole", "torn"} : cache' = [state |-> state, basis |-> process[p].config, row |-> row]
    BY <1>3, <2>5 DEF Dump
  <2>7. \A t \in Toolset : /\ row[t] \in Row \union {NoFile}
                           /\ row[t] # NoFile /\ row[t].status = "enabled" => row[t].enabled
    <3> SUFFICES ASSUME NEW t \in Toolset
                 PROVE /\ row[t] \in Row \union {NoFile}
                       /\ row[t] # NoFile /\ row[t].status = "enabled" => row[t].enabled
      OBVIOUS
    <3>1. process[p].toolset[t] \in Entry
      BY <1>0
    <3>2. process[p].toolset[t].status = "enabled" => process[p].toolset[t].enabled
      BY <1>0, <2>3 DEF ProcessOK, Refreshing
    <3>3. row[t] = RowOf(process[p].toolset[t])
      BY <2>5
    <3> QED
      BY <3>1, <3>2, <3>3, RowLemma
  <2>8. cache' \in CacheSet
    <3>1. row \in [Toolset -> Row \union {NoFile}]
      BY <2>5, <2>7
    <3>2. process[p].config \in Configuration
      BY <1>0 DEF ProcessSet
    <3> QED
      BY <2>6, <3>1, <3>2 DEF CacheSet
  <2>9. CacheOK'
    BY <2>6, <2>7 DEF CacheOK
  <2> QED
    BY <1>0, <1>1, <2>2, <2>3, <2>4, <2>8, <2>9, ProcessStep
<1> QED
  BY <1>2, <1>3

\* What a start makes of a toolset that it need not check again.
LEMMA CachedEntryLemma ==
  ASSUME NEW e \in Entry, ~e.lazy, e.initialized, NEW t, NEW found
  PROVE  /\ ConfigChecked(e, t, found) \in Entry
         /\ ConfigChecked(e, t, found).inits = e.inits
         /\ ConfigChecked(e, t, found).status = "enabled" =>
              \/ NeedsInitialization(ConfigChecked(e, t, found))
              \/ ConfigChecked(e, t, found).checked = "passed"
BY DEF ConfigChecked, NeedsInitialization, Entry, Status

LEMMA FromCacheLemma ==
  ASSUME NEW e \in Entry, NEW row \in Row \union {NoFile}, e.status = "disabled",
         row # NoFile /\ row.status = "enabled" => row.enabled
  PROVE  /\ FromCache(e, row) \in Entry
         /\ FromCache(e, row).inits = e.inits /\ FromCache(e, row).lazy = e.lazy
         /\ FromCache(e, row).initialized = e.initialized
         /\ FromCache(e, row).status = "enabled" => FromCache(e, row).enabled
BY DEF FromCache, Row, Entry, Status

LEMMA ReadStep ==
  ASSUME IInv, NEW p \in Process, Read(p)
  PROVE  IInv'
<1>0. /\ process[p] \in ProcessSet /\ process[p].pc = "read" /\ cache \in CacheSet /\ disturbed \in BOOLEAN
      /\ UNCHANGED <<file, hashes, cache, world, thread, disturbed, count>>
  BY TypeLemma DEF IInv, Read
<1>1. CASE cache.state # "whole"
  <2>1. PICK n : n = [Off EXCEPT !.pc = "failed", !.excused = disturbed]
    OBVIOUS
  <2>2. n \in ProcessSet /\ n.toolset = Off.toolset /\ n.pc = "failed"
    BY <1>0, <2>1, EntryLemma DEF ProcessSet, Pc
  <2>3. process' = [process EXCEPT ![p] = n]
    BY <1>1, <2>1 DEF Read
  <2>4. ProcessOK(n)
    BY <2>2, FreshLemma
  <2> QED
    BY <1>0, <2>2, <2>3, <2>4, QuietStep
<1>2. CASE cache.state = "whole"
  <2> DEFINE c == process[p].config
  <2>1. PICK ts : ts = [t \in Toolset |-> FromCache(Listed(c, FALSE)[t], cache.row[t])]
    OBVIOUS
  <2>2. PICK later : later = IF process[p].cached THEN Selected(ts) \ Mcp ELSE {}
    OBVIOUS
  <2>3. PICK us : us = [t \in Toolset |-> IF t \in later THEN ConfigChecked(ts[t], t, world[t]) ELSE ts[t]]
    OBVIOUS
  <2>4. PICK n : n = [process[p] EXCEPT !.pc = "recheck", !.toolset = us, !.todo = Selected(ts) \ later,
                                        !.basis = cache.basis, !.excused = disturbed]
    OBVIOUS
  <2>5. process' = [process EXCEPT ![p] = n]
    BY <1>2, <2>1, <2>2, <2>3, <2>4, TypeLemma DEF Read, IInv
  <2>6. \A t \in Toolset :
          /\ ts[t] \in Entry /\ ts[t].inits = 0 /\ ~ts[t].lazy /\ ts[t].initialized
          /\ ts[t].status = "enabled" => ts[t].enabled
    <3> SUFFICES ASSUME NEW t \in Toolset
                 PROVE  /\ ts[t] \in Entry /\ ts[t].inits = 0 /\ ~ts[t].lazy /\ ts[t].initialized
                        /\ ts[t].status = "enabled" => ts[t].enabled
      OBVIOUS
    <3>1. PICK e : e = Listed(c, FALSE)[t]
      OBVIOUS
    <3>2. e \in Entry /\ e.status = "disabled" /\ e.inits = 0 /\ e.initialized /\ ~e.lazy
      BY <3>1, ListedLemma
    <3>3. cache.row[t] \in Row \union {NoFile}
      BY <1>0 DEF CacheSet
    <3>4. cache.row[t] # NoFile /\ cache.row[t].status = "enabled" => cache.row[t].enabled
      BY DEF IInv, CacheOK
    <3>5. ts[t] = FromCache(e, cache.row[t])
      BY <2>1, <3>1
    <3> QED
      BY <3>2, <3>3, <3>4, <3>5, FromCacheLemma
  <2>7. \A t \in Toolset :
          /\ us[t] \in Entry /\ us[t].inits = 0
          /\ t \notin later => us[t] = ts[t]
          /\ t \in later /\ us[t].status = "enabled" => NeedsInitialization(us[t]) \/ us[t].checked = "passed"
    BY <2>3, <2>6, CachedEntryLemma
  <2>8. us \in [Toolset -> Entry]
    BY <2>3, <2>7
  <2>9. Selected(ts) \subseteq Toolset /\ later \subseteq Selected(ts)
    BY <2>2 DEF Selected
  <2>10. /\ n \in ProcessSet /\ n.toolset = us /\ n.pc = "recheck" /\ n.todo = Selected(ts) \ later
         /\ n.cached = process[p].cached
    BY <1>0, <2>4, <2>8, <2>9 DEF ProcessSet, Pc, CacheSet
  <2>11. Rechecking(n)
    <3>1. n.cached => n.todo \subseteq Mcp
      BY <2>2, <2>10
    <3>2. ASSUME NEW t \in Toolset \ n.todo, us[t].known, us[t].status = "enabled"
          PROVE  NeedsInitialization(us[t]) \/ Sure(us[t], n.cached)
      <4>1. CASE t \in later
        BY <2>7, <3>2, <4>1 DEF Sure
      <4>2. CASE t \notin later
        <5>1. t \notin Selected(ts)
          BY <2>10, <3>2, <4>2
        <5>2. us[t] = ts[t]
          BY <2>7, <4>2
        <5> QED
          BY <2>6, <3>2, <5>1, <5>2 DEF Selected
      <4> QED
        BY <4>1, <4>2
    <3> QED
      BY <2>10, <3>1, <3>2 DEF Rechecking
  <2>12. ProcessOK(n)
    BY <2>7, <2>10, <2>11 DEF ProcessOK, Counted
  <2> QED
    BY <1>0, <2>5, <2>10, <2>12, QuietStep
<1> QED
  BY <1>1, <1>2

LEMMA ReadyStep ==
  ASSUME IInv, NEW p \in Process, Ready(p)
  PROVE  IInv'
<1>0. /\ process[p] \in ProcessSet /\ ProcessOK(process[p]) /\ process[p].pc = "recheck"
      /\ process[p].todo = {} /\ process[p].toolset \in [Toolset -> Entry]
      /\ UNCHANGED <<file, hashes, cache, world, thread, disturbed, count>>
  BY TypeLemma, EntryLemma DEF IInv, Ready
<1>1. PICK ts : ts = WithTools(process[p].toolset)
  OBVIOUS
<1>2. PICK n : n = [process[p] EXCEPT !.pc = "ready", !.toolset = ts]
  OBVIOUS
<1>3. \A t \in Toolset :
        LET e == process[p].toolset[t] IN
        /\ ts[t] \in Entry /\ ts[t].lazy = e.lazy /\ ts[t].initialized = e.initialized
        /\ ts[t].checked = e.checked /\ ts[t].inits = e.inits /\ ts[t].status = e.status
        /\ ts[t].tools => e.known /\ e.status = "enabled"
  <2> SUFFICES ASSUME NEW t \in Toolset, NEW e \in Entry, e = process[p].toolset[t]
               PROVE  /\ ts[t] \in Entry /\ ts[t].lazy = e.lazy /\ ts[t].initialized = e.initialized
                      /\ ts[t].checked = e.checked /\ ts[t].inits = e.inits /\ ts[t].status = e.status
                      /\ ts[t].tools => e.known /\ e.status = "enabled"
    BY <1>0
  <2>1. PICK b \in BOOLEAN : b = (e.known /\ e.status = "enabled" /\ (t \in Loading => e.checked = "passed"))
    OBVIOUS
  <2>2. ts[t] = [e EXCEPT !.tools = e.known /\ e.status = "enabled" /\ (t \in Loading => e.checked = "passed")]
    BY <1>1 DEF WithTools
  <2>3. ts[t] = [e EXCEPT !.tools = b]
    BY <2>1, <2>2, Zenon
  <2> QED
    BY <2>1, <2>3 DEF Entry
<1>4. ts \in [Toolset -> Entry]
  BY <1>1, <1>3 DEF WithTools
<1>5. n \in ProcessSet /\ n.toolset = ts /\ n.pc = "ready" /\ n.cached = process[p].cached
  BY <1>0, <1>2, <1>4 DEF ProcessSet, Pc
<1>6. process' = [process EXCEPT ![p] = n]
  BY <1>1, <1>2, TypeLemma DEF Ready, IInv
<1>7. Callable(n)
  BY <1>0, <1>3, <1>5 DEF ProcessOK, Rechecking, Callable, NeedsInitialization, Sure
<1>8. Counted(n)
  BY <1>0, <1>3, <1>5 DEF ProcessOK, Counted
<1> QED
  BY <1>0, <1>5, <1>6, <1>7, <1>8, QuietStep DEF ProcessOK
-----------------------------------------------------------------------------
(* Threads *)

\* Threads and the rest of the invariant, when no process changes.
LEMMA TurnStep ==
  ASSUME IInv, NEW i \in Thread, NEW n \in ThreadSet, thread' = [thread EXCEPT ![i] = n],
         n.pc # "idle" =>
           /\ process[i[1]].pc = "ready" /\ n.of \in Toolset
           /\ n.pc \in {"wait", "init"} =>
                /\ process[i[1]].toolset[n.of].tools
                /\ process[i[1]].toolset[n.of].lazy \/ process[i[1]].toolset[n.of].initialized
           /\ n.pc = "init" => ~process[i[1]].toolset[n.of].initialized
           /\ n.pc = "run" => /\ ~NeedsInitialization(process[i[1]].toolset[n.of])
                              /\ Sure(process[i[1]].toolset[n.of], process[i[1]].cached),
         n.pc = "init" => \A j \in Thread \ {i} :
           j[1] = i[1] /\ thread[j].of = n.of => thread[j].pc # "init",
         UNCHANGED <<file, hashes, cache, world, process, disturbed>>, count' \in CountSet
  PROVE  IInv'
<1>1. thread'[i] = n /\ \A j \in Thread \ {i} : thread'[j] = thread[j]
  BY TypeLemma DEF IInv
<1>2. TypeOK'
  <2>1. thread' \in [Thread -> ThreadSet]
    BY TypeLemma DEF IInv
  <2> QED
    BY <2>1, TypeLemma DEF IInv, TypeOK, CacheSet, WorldSet, ProcessSet, ThreadSet, CountSet
<1>3. \A j \in Thread : ThreadOK(j)'
  <2>1. ThreadOK(i)'
    BY <1>1 DEF ThreadOK, Entered
  <2>2. ASSUME NEW j \in Thread \ {i} PROVE ThreadOK(j)'
    BY <1>1 DEF IInv, ThreadOK, Entered
  <2> QED
    BY <2>1, <2>2
<1>4. Locked'
  BY <1>1 DEF IInv, Locked
<1>5. CacheOK' /\ \A p \in Process : ProcessOK(process'[p])
  BY DEF IInv, CacheOK
<1> QED
  BY <1>2, <1>3, <1>4, <1>5 DEF IInv

LEMMA CallStep ==
  ASSUME IInv, NEW i \in Thread, NEW t \in Toolset, Call(i, t)
  PROVE  IInv'
<1>0. /\ process[i[1]] \in ProcessSet /\ ProcessOK(process[i[1]]) /\ process[i[1]].pc = "ready"
      /\ process[i[1]].toolset[t].tools /\ count' \in CountSet
  BY TypeLemma, CountLemma, ThreadLemma DEF IInv, Call
<1>1. PICK e : e = process[i[1]].toolset[t]
  OBVIOUS
<1>2. PICK n : n = [pc |-> IF NeedsInitialization(e) THEN "wait" ELSE Verdict(e), of |-> t]
  OBVIOUS
<1>3. n \in ThreadSet /\ n.of = t /\ n.pc \in {"wait", "run", "refused"}
  BY <1>2 DEF ThreadSet, Verdict
<1>4. NeedsInitialization(e) \/ e.status = "failed" \/ Sure(e, process[i[1]].cached)
  BY <1>0, <1>1 DEF ProcessOK, Callable
<1>5. thread' = [thread EXCEPT ![i] = n]
  BY <1>1, <1>2 DEF Call
<1>6. n.pc = "wait" => e.lazy
  BY <1>2 DEF NeedsInitialization, Verdict
<1>7. n.pc = "run" => ~NeedsInitialization(e) /\ e.status # "failed"
  BY <1>2 DEF Verdict
<1> QED
  BY <1>0, <1>1, <1>3, <1>4, <1>5, <1>6, <1>7, TurnStep DEF Call

LEMMA AcquireStep ==
  ASSUME IInv, NEW i \in Thread, Acquire(i)
  PROVE  IInv'
<1>0. /\ thread[i] \in ThreadSet /\ thread[i].pc = "wait" /\ thread[i].of \in Toolset
      /\ process[i[1]] \in ProcessSet /\ ProcessOK(process[i[1]]) /\ process[i[1]].pc = "ready"
      /\ Entered(i).tools /\ (Entered(i).lazy \/ Entered(i).initialized)
  BY TypeLemma, ThreadLemma DEF IInv, Acquire, ThreadOK
<1>1. PICK pc \in {"run", "refused", "init"} :
        pc = IF Entered(i).initialized THEN IF Entered(i).status = "enabled" THEN "run" ELSE "refused" ELSE "init"
  OBVIOUS
<1>2. PICK n : n = [thread[i] EXCEPT !.pc = pc]
  OBVIOUS
<1>3. n \in ThreadSet /\ n.of = thread[i].of /\ n.pc = pc
  BY <1>0, <1>2 DEF ThreadSet
<1>4. thread' = [thread EXCEPT ![i] = n]
  BY <1>1, <1>2, TypeLemma DEF Acquire, Turn, IInv
<1>5. Entered(i) = process[i[1]].toolset[n.of]
  BY <1>3 DEF Entered
<1>6. pc = "run" => ~NeedsInitialization(Entered(i)) /\ Sure(Entered(i), process[i[1]].cached)
  BY <1>0, <1>1, <1>5, <1>3 DEF ProcessOK, Callable, NeedsInitialization
<1>7. pc = "init" => ~Entered(i).initialized
  BY <1>1
<1>8. pc = "init" => \A j \in Thread \ {i} : j[1] = i[1] /\ thread[j].of = n.of => thread[j].pc # "init"
  BY <1>3 DEF Acquire, LockFree
<1>9. count' \in CountSet /\ UNCHANGED <<file, hashes, cache, world, process, disturbed>>
  BY TypeLemma DEF Acquire, IInv
<1> QED
  BY <1>0, <1>3, <1>4, <1>5, <1>6, <1>7, <1>8, <1>9, TurnStep

LEMMA ReturnStep ==
  ASSUME IInv, NEW i \in Thread, Return(i)
  PROVE  IInv'
<1>1. Idle \in ThreadSet /\ Idle.pc = "idle" /\ thread' = [thread EXCEPT ![i] = Idle]
  BY EntryLemma DEF Return
<1>2. count' \in CountSet /\ UNCHANGED <<file, hashes, cache, world, process, disturbed>>
  BY TypeLemma DEF Return, IInv
<1> QED
  BY <1>1, <1>2, TurnStep

LEMMA InitializeStep ==
  ASSUME IInv, NEW i \in Thread, Initialize(i)
  PROVE  IInv'
<1>0. /\ thread[i] \in ThreadSet /\ thread[i].pc = "init" /\ thread[i].of \in Toolset
      /\ i[1] \in Process /\ process[i[1]] \in ProcessSet /\ ProcessOK(process[i[1]])
      /\ process[i[1]].pc = "ready" /\ process[i[1]].toolset \in [Toolset -> Entry]
      /\ thread \in [Thread -> ThreadSet] /\ process \in [Process -> ProcessSet]
      /\ UNCHANGED <<file, hashes, cache, world, disturbed, count>>
  BY TypeLemma, ThreadLemma, EntryLemma DEF IInv, Initialize, ThreadOK
<1>1. PICK p \in Process, t \in Toolset : p = i[1] /\ t = thread[i].of
  BY <1>0
<1>2. PICK old \in Entry : old = process[p].toolset[t]
  BY <1>0, <1>1
<1>3. ~old.initialized /\ old.lazy /\ old.tools /\ Entered(i) = old
  BY <1>0, <1>1, <1>2 DEF IInv, ThreadOK, Entered
<1>4. old.inits = 0
  BY <1>0, <1>1, <1>2, <1>3 DEF ProcessOK, Counted
<1>5. PICK e : e = Checked(old, world[t])
  OBVIOUS
<1>6. /\ e \in Entry /\ e.lazy /\ ~e.initialized /\ e.tools /\ e.inits = 0
      /\ e.status \in {"enabled", "failed"}
      /\ e.status = "enabled" => e.checked \in {"passed", "raised"}
  BY <1>3, <1>4, <1>5, CheckedLemma
<1>7. PICK new : new = IF e.checked = "raised" THEN e
                       ELSE [e EXCEPT !.initialized = TRUE, !.lazy = FALSE, !.inits = @ + 1]
  OBVIOUS
<1>8. /\ new \in Entry
      /\ \/ new.inits = 0 /\ new.lazy /\ ~new.initialized /\ e.checked = "raised"
         \/ /\ new.inits = 1 /\ ~new.lazy /\ new.initialized /\ e.checked # "raised"
            /\ new.status = "failed" \/ new.checked = "passed"
      /\ new.status = e.status
  <2>1. CASE e.checked = "raised"
    BY <1>6, <1>7, <2>1
  <2>2. CASE e.checked # "raised"
    <3>1. new = [e EXCEPT !.initialized = TRUE, !.lazy = FALSE, !.inits = @ + 1]
      BY <1>7, <2>2
    <3>2. /\ new \in Entry /\ new.inits = 1 /\ ~new.lazy /\ new.initialized
          /\ new.status = e.status /\ new.checked = e.checked
      <4>1. new = [e EXCEPT !.initialized = TRUE, !.lazy = FALSE, !.inits = e.inits + 1]
        BY <3>1
      <4>2. e.inits + 1 = 1
        BY <1>6
      <4>3. new = [e EXCEPT !.initialized = TRUE, !.lazy = FALSE, !.inits = 1]
        BY <4>1, <4>2, Zenon
      <4> QED
        BY <1>6, <4>3 DEF Entry
    <3> QED
      BY <1>6, <2>2, <3>2
  <2> QED
    BY <2>1, <2>2
<1>9. PICK ts : ts = [process[p].toolset EXCEPT ![t] = new]
  OBVIOUS
<1>10. PICK n : n = [process[p] EXCEPT !.toolset = ts]
  OBVIOUS
<1>11. /\ ts \in [Toolset -> Entry] /\ ts[t] = new /\ \A u \in Toolset \ {t} : ts[u] = process[p].toolset[u]
       /\ n \in ProcessSet /\ n.toolset = ts /\ n.pc = "ready" /\ n.cached = process[p].cached
  <2>1. ts \in [Toolset -> Entry] /\ ts[t] = new /\ \A u \in Toolset \ {t} : ts[u] = process[p].toolset[u]
    BY <1>0, <1>1, <1>8, <1>9
  <2> QED
    BY <1>0, <1>1, <1>10, <2>1 DEF ProcessSet
<1>12. process' = [process EXCEPT ![p] = n]
  BY <1>0, <1>1, <1>2, <1>3, <1>5, <1>7, <1>9, <1>10 DEF Initialize
<1>13. PICK m : m = [thread[i] EXCEPT !.pc = IF e.checked = "raised" THEN "raised"
                                            ELSE IF e.status = "enabled" THEN "run" ELSE "refused"]
  OBVIOUS
<1>14. /\ m \in ThreadSet /\ m.of = t
       /\ m.pc = IF e.checked = "raised" THEN "raised" ELSE IF e.status = "enabled" THEN "run" ELSE "refused"
  BY <1>0, <1>1, <1>13 DEF ThreadSet
<1>15. thread' = [thread EXCEPT ![i] = m]
  BY <1>0, <1>1, <1>3, <1>5, <1>13 DEF Initialize, Turn
<1>16. /\ thread'[i] = m /\ \A j \in Thread \ {i} : thread'[j] = thread[j]
       /\ process'[p] = n /\ \A q \in Process \ {p} : process'[q] = process[q]
  BY <1>0, <1>12, <1>15
<1>17. TypeOK'
  <2>1. thread' \in [Thread -> ThreadSet] /\ process' \in [Process -> ProcessSet]
    BY <1>0, <1>11, <1>12, <1>14, <1>15
  <2> QED
    BY <1>0, <2>1, TypeLemma DEF IInv, TypeOK, CacheSet, WorldSet, ProcessSet, ThreadSet, CountSet
<1>18. ProcessOK(n)
  <2>1. Callable(n)
    BY <1>0, <1>1, <1>8, <1>11 DEF ProcessOK, Callable, NeedsInitialization, Sure
  <2>2. Counted(n)
    BY <1>0, <1>1, <1>8, <1>11 DEF ProcessOK, Counted
  <2> QED
    BY <1>11, <2>1, <2>2 DEF ProcessOK
<1>19. \A q \in Process : ProcessOK(process'[q])
  BY <1>16, <1>18 DEF IInv
<1>20. ThreadOK(i)'
  <2>1. process'[i[1]] = n /\ n.toolset[t] = new
    BY <1>1, <1>11, <1>16
  <2>2. m.pc = "run" => ~NeedsInitialization(new) /\ Sure(new, n.cached)
    BY <1>8, <1>14 DEF NeedsInitialization, Sure
  <2> QED
    BY <1>11, <1>14, <1>16, <2>1, <2>2 DEF ThreadOK, Entered
<1>21. ASSUME NEW j \in Thread \ {i} PROVE ThreadOK(j)'
  <2>1. CASE j[1] # p
    <3>1. thread'[j] = thread[j] /\ process'[j[1]] = process[j[1]]
      BY <1>16, <2>1, ThreadLemma
    <3>2. Entered(j)' = Entered(j)
      BY <3>1 DEF Entered
    <3>3. ThreadOK(j)
      BY DEF IInv
    <3> QED
      BY <3>1, <3>2, <3>3 DEF ThreadOK
  <2>2. CASE j[1] = p /\ thread[j].of # t
    <3>1. thread[j].pc # "idle" => Entered(j)' = Entered(j)
      <4>1. thread[j].pc # "idle" => thread[j].of \in Toolset \ {t}
        BY <2>2 DEF IInv, ThreadOK
      <4>2. thread'[j] = thread[j] /\ process'[j[1]].toolset = ts
        BY <1>11, <1>16, <2>2
      <4> QED
        BY <1>11, <2>2, <4>1, <4>2 DEF Entered
    <3>2. process'[j[1]].pc = process[j[1]].pc /\ process'[j[1]].cached = process[j[1]].cached
      BY <1>0, <1>1, <1>11, <1>16, <2>2
    <3> QED
      BY <1>16, <3>1, <3>2 DEF IInv, ThreadOK
  <2>3. CASE j[1] = p /\ thread[j].of = t
    <3>1. Entered(j) = old /\ Entered(j)' = new /\ process'[j[1]].pc = "ready"
      BY <1>1, <1>2, <1>11, <1>16, <2>3 DEF Entered
    <3>2. thread[j].pc # "run"
      BY <1>3, <3>1 DEF IInv, ThreadOK, NeedsInitialization
    <3>3. thread[j].pc # "init"
      BY <1>0, <1>1, <2>3 DEF IInv, Locked
    <3>4. new.tools
      BY <1>6, <1>7 DEF Entry
    <3> QED
      BY <1>8, <1>16, <2>3, <3>1, <3>2, <3>3, <3>4 DEF ThreadOK
  <2> QED
    BY <2>1, <2>2, <2>3
<1>22. Locked'
  BY <1>14, <1>16 DEF IInv, Locked
<1>23. CacheOK' /\ \A u \in Toolset : world'[u] = "raises" => u \in Command
  BY <1>0 DEF IInv, CacheOK
<1> QED
  BY <1>17, <1>19, <1>20, <1>21, <1>22, <1>23 DEF IInv
-----------------------------------------------------------------------------
LEMMA QuitStep ==
  ASSUME IInv, NEW p \in Process, Exit(p) \/ Crash(p)
  PROVE  IInv'
<1>0. /\ process' = [process EXCEPT ![p] = Off]
      /\ thread' = [i \in Thread |-> IF i[1] = p THEN Idle ELSE thread[i]]
      /\ UNCHANGED <<file, hashes, cache, world>> /\ disturbed' \in BOOLEAN /\ count' \in CountSet
  BY CountLemma, TypeLemma DEF IInv, Exit, Crash, Quit
<1>1. process \in [Process -> ProcessSet] /\ thread \in [Thread -> ThreadSet]
  BY TypeLemma DEF IInv
<1>2. TypeOK'
  <2>1. process' \in [Process -> ProcessSet] /\ thread' \in [Thread -> ThreadSet]
    BY <1>0, <1>1, EntryLemma
  <2> QED
    BY <1>0, <2>1, TypeLemma DEF IInv, TypeOK, CacheSet, WorldSet, ProcessSet, ThreadSet, CountSet
<1>3. \A q \in Process : ProcessOK(process'[q])
  BY <1>0, <1>1, EntryLemma, FreshLemma DEF IInv
<1>4. ASSUME NEW j \in Thread PROVE ThreadOK(j)'
  <2>1. CASE j[1] = p
    BY <1>0, <2>1, EntryLemma DEF ThreadOK
  <2>2. CASE j[1] # p
    <3>1. thread'[j] = thread[j] /\ process'[j[1]] = process[j[1]]
      BY <1>0, <1>1, <2>2, ThreadLemma
    <3> QED
      BY <3>1 DEF IInv, ThreadOK, Entered
  <2> QED
    BY <2>1, <2>2
<1>5. Locked'
  BY <1>0, EntryLemma DEF IInv, Locked
<1>6. CacheOK'
  BY <1>0 DEF IInv, CacheOK
<1> QED
  BY <1>0, <1>2, <1>3, <1>4, <1>5, <1>6 DEF IInv

\* The user, and what the prerequisites depend on.
LEMMA OutsideStep ==
  ASSUME IInv, Edit \/ \E t \in Toolset : Change(t)
  PROVE  IInv'
<1>0. UNCHANGED <<hashes, cache, process, thread>>
  BY DEF Edit, Change
<1>1. /\ file' \in Configuration /\ disturbed' \in BOOLEAN /\ count' \in CountSet
  BY CountLemma, TypeLemma DEF IInv, Edit, Change
<1>2. world' \in WorldSet /\ \A u \in Toolset : world'[u] = "raises" => u \in Command
  <2>1. CASE Edit
    BY <2>1, TypeLemma DEF Edit, IInv
  <2>2. ASSUME NEW t \in Toolset, Change(t)
        PROVE world' \in WorldSet /\ \A u \in Toolset : world'[u] = "raises" => u \in Command
    <3>1. PICK found \in {"works", "unset"} \union (IF t \in Deferred THEN {"fails"} ELSE {})
                    \union (IF t \in Command THEN {"raises"} ELSE {}) : world' = [world EXCEPT ![t] = found]
      BY <2>2 DEF Change
    <3>2. found \in {"works", "fails", "raises", "unset"} /\ (found = "raises" => t \in Command)
      OBVIOUS
    <3>3. world \in WorldSet
      BY TypeLemma DEF IInv
    <3> QED
      BY <3>1, <3>2, <3>3 DEF IInv, WorldSet
  <2> QED
    BY <2>1, <2>2
<1>3. TypeOK'
  BY <1>0, <1>1, <1>2, TypeLemma DEF IInv, TypeOK, CacheSet, WorldSet, ProcessSet, ThreadSet, CountSet
<1>4. \A i \in Thread : ThreadOK(i)'
  BY <1>0 DEF IInv, ThreadOK, Entered
<1>5. Locked' /\ CacheOK'
  BY <1>0 DEF IInv, Locked, CacheOK
<1> QED
  BY <1>0, <1>2, <1>3, <1>4, <1>5 DEF IInv

LEMMA Inductive == IInv /\ [Next]_vars => IInv'
<1> SUFFICES ASSUME IInv, [Next]_vars PROVE IInv'
  OBVIOUS
<1>1. ASSUME NEW p \in Process, Start(p) PROVE IInv'
  BY <1>1, StartStep
<1>2. ASSUME NEW p \in Process, Step(p) PROVE IInv'
  BY <1>2, HashesStep, DecideStep, CheckStep, WriteStep, ReadStep, ReadyStep DEF Step
<1>3. ASSUME NEW p \in Process, Exit(p) \/ Crash(p) PROVE IInv'
  BY <1>3, QuitStep
<1>4. ASSUME NEW i \in Thread, Proceed(i) PROVE IInv'
  BY <1>4, AcquireStep, InitializeStep, ReturnStep DEF Proceed
<1>5. ASSUME NEW i \in Thread, NEW t \in Toolset, Call(i, t) PROVE IInv'
  BY <1>5, CallStep
<1>6. CASE Edit \/ \E t \in Toolset : Change(t)
  BY <1>6, OutsideStep
<1>7. CASE UNCHANGED vars
  <2>1. UNCHANGED <<file, hashes, cache, world, process, thread, disturbed, count>>
    BY <1>7 DEF vars
  <2>2. TypeOK'
    BY <2>1 DEF IInv, TypeOK
  <2> QED
    BY <2>1, <2>2 DEF IInv, CacheOK, ThreadOK, Entered, Locked
<1> QED
  BY <1>1, <1>2, <1>3, <1>4, <1>5, <1>6, <1>7 DEF Next

LEMMA Invariant == Spec => []IInv
BY InitLemma, Inductive, PTL DEF Spec
-----------------------------------------------------------------------------
\* Every variable keeps its type, however starts, calls, kills and edits overlap.
THEOREM TypeCorrect == Spec => []TypeOK
<1>1. IInv => TypeOK
  BY DEF IInv
<1> QED
  BY <1>1, Invariant, PTL

\* No tool runs before a check of its toolset in the same process let it, whatever the
\* status file says, whoever wrote it, and whatever became of it since.
THEOREM RunsChecked == Spec => []RunsOnlyChecked
<1>1. IInv => RunsOnlyChecked
  BY DEF IInv, ThreadOK, RunsOnlyChecked, Sure
<1> QED
  BY <1>1, Invariant, PTL

\* Any number of threads that use a toolset initialise it once between them: a thread
\* that waited for the lock finds what the one before it left.
THEOREM InitializesOnce == Spec => []InitializedOnce
<1>1. IInv => InitializedOnce
  BY DEF IInv, ProcessOK, Counted, InitializedOnce
<1> QED
  BY <1>1, Invariant, PTL
-----------------------------------------------------------------------------
(* The statuses that a start takes from the file are its own *)

\* Nothing was stored yet, or the statuses are whole and their hashes with them.
Consistent == cache.state = "absent" \/ (cache.state = "whole" /\ hashes = cache.basis)

Resting(r) == r.pc \in {"off", "ready", "failed"}

\* A start that nothing has disturbed, wherever it is: what it has loaded is what is there
\* until the hashes are compared; after that either it refreshes or the cache is its own.
Own(r) ==
  /\ r.pc = "hash" => (file # NoFile /\ r.config = file /\ Consistent)
  /\ r.pc \in {"save", "saving"} => r.refresh
  /\ r.pc = "decide" => r.refresh \/ (Consistent /\ hashes = r.config)
  /\ r.pc = "read" => (cache.state = "whole" /\ hashes = cache.basis /\ cache.basis = r.config)
  /\ r.pc = "recheck" => (cache.state = "whole" /\ hashes = cache.basis)

Undisturbed ==
  /\ \A p, q \in Process : ~Resting(process[p]) /\ ~Resting(process[q]) => p = q
  /\ (\A p \in Process : Resting(process[p])) => Consistent
  /\ \A p \in Process : Own(process[p])

\* TrustsOwnStatuses of one process.
Trusts(r) ==
  \/ r.excused
  \/ /\ r.pc # "failed"
     /\ (r.pc \in {"recheck", "ready"} /\ r.cached) => r.basis = r.config

TrustInv ==
  /\ ~disturbed => Undisturbed
  /\ \A p \in Process : Trusts(process[p])

LEMMA RestingLemma ==
  ASSUME NEW p \in Process
  PROVE  Starting(p) <=> ~Resting(process[p])
BY DEF Starting, Resting

\* A step of process p, with nobody else starting if nothing has disturbed the files.
LEMMA TrustStep ==
  ASSUME IInv, TrustInv, NEW p \in Process, NEW n, process' = [process EXCEPT ![p] = n], Trusts(n),
         ~disturbed' => /\ \A q \in Process \ {p} : Resting(process[q])
                        /\ Own(n)'
                        /\ Resting(n) => Consistent'
  PROVE  TrustInv'
<1>1. process \in [Process -> ProcessSet]
  BY TypeLemma DEF IInv
<1>2. process'[p] = n /\ \A q \in Process \ {p} : process'[q] = process[q]
  BY <1>1
<1>3. \A q \in Process : Trusts(process'[q])
  BY <1>2 DEF TrustInv
<1>4. ASSUME ~disturbed' PROVE Undisturbed'
  <2>1. \A q \in Process \ {p} : Resting(process'[q])
    BY <1>2, <1>4
  <2>2. \A q, s \in Process : ~Resting(process'[q]) /\ ~Resting(process'[s]) => q = s
    BY <2>1
  <2>3. (\A q \in Process : Resting(process'[q])) => Consistent'
    BY <1>2, <1>4
  <2>4. ASSUME NEW q \in Process PROVE Own(process[q])'
    <3>1. CASE q = p
      <4>1. Own(n)' /\ process'[q] = n
        BY <1>2, <1>4, <3>1
      <4> QED
        BY <4>1 DEF Own
    <3>2. CASE q # p
      <4>1. Resting(process'[q])
        BY <2>1, <3>2
      <4> QED
        BY <4>1 DEF Own, Resting
    <3> QED
      BY <3>1, <3>2
  <2> QED
    BY <2>2, <2>3, <2>4 DEF Undisturbed, Resting
<1> QED
  BY <1>3, <1>4 DEF TrustInv, Trusts

\* A step of a start that leaves the record of disturbances alone.
LEMMA StartingTrustStep ==
  ASSUME IInv, TrustInv, NEW p \in Process, ~Resting(process[p]), NEW n,
         process' = [process EXCEPT ![p] = n], UNCHANGED disturbed, Trusts(n),
         ~disturbed /\ Own(process[p]) => Own(n)' /\ (Resting(n) => Consistent')
  PROVE  TrustInv'
<1>1. ~disturbed => Own(process[p]) /\ \A q \in Process \ {p} : Resting(process[q])
  BY DEF TrustInv, Undisturbed
<1>2. ~disturbed' => /\ \A q \in Process \ {p} : Resting(process[q])
                     /\ Own(n)'
                     /\ Resting(n) => Consistent'
  BY <1>1
<1> QED
  BY <1>2, TrustStep

\* A step of process p that touches its toolsets only.
LEMMA TrustUntouched ==
  ASSUME IInv, TrustInv, NEW p \in Process, NEW n, process' = [process EXCEPT ![p] = n],
         UNCHANGED <<file, hashes, cache, disturbed>>,
         n.pc = process[p].pc, n.config = process[p].config, n.refresh = process[p].refresh,
         n.cached = process[p].cached, n.basis = process[p].basis, n.excused = process[p].excused
  PROVE  TrustInv'
<1>1. process \in [Process -> ProcessSet]
  BY TypeLemma DEF IInv
<1>2. process'[p] = n /\ \A q \in Process \ {p} : process'[q] = process[q]
  BY <1>1
<1>3. \A q \in Process : Resting(process'[q]) <=> Resting(process[q])
  BY <1>2 DEF Resting
<1>4. \A q \in Process : Trusts(process'[q])
  <2> SUFFICES ASSUME NEW q \in Process PROVE Trusts(process'[q])
    OBVIOUS
  <2>1. Trusts(process[q])
    BY DEF TrustInv
  <2> QED
    BY <1>2, <2>1 DEF Trusts
<1>5. Consistent' <=> Consistent
  BY DEF Consistent
<1>6. ASSUME NEW q \in Process, Own(process[q]) PROVE Own(process[q])'
  BY <1>2, <1>5, <1>6 DEF Own
<1>7. ASSUME Undisturbed PROVE Undisturbed'
  <2>1. \A q, s \in Process : ~Resting(process'[q]) /\ ~Resting(process'[s]) => q = s
    BY <1>3, <1>7 DEF Undisturbed
  <2>2. (\A q \in Process : Resting(process'[q])) => Consistent'
    BY <1>3, <1>5, <1>7 DEF Undisturbed
  <2>3. \A q \in Process : Own(process[q])'
    BY <1>6, <1>7 DEF Undisturbed
  <2> QED
    BY <2>1, <2>2, <2>3 DEF Undisturbed, Resting
<1> QED
  BY <1>4, <1>7 DEF TrustInv, Trusts

LEMMA TrustInit == Init => TrustInv
<1> SUFFICES ASSUME Init PROVE TrustInv
  OBVIOUS
<1>1. \A p \in Process : process[p].pc = "off"
  BY EntryLemma DEF Init
<1>2. Consistent
  BY DEF Init, Consistent
<1> QED
  BY <1>1, <1>2 DEF TrustInv, Undisturbed, Own, Resting, Trusts

LEMMA TrustStart ==
  ASSUME IInv, TrustInv, NEW p \in Process, Start(p)
  PROVE  TrustInv'
<1>1. PICK refresh \in BOOLEAN :
        process' = [process EXCEPT ![p] =
          [Off EXCEPT !.pc = IF refresh \/ file = NoFile THEN "decide" ELSE "hash",
                      !.config = file, !.refresh = refresh]]
  BY DEF Start
<1>2. PICK n : n = [Off EXCEPT !.pc = IF refresh \/ file = NoFile THEN "decide" ELSE "hash",
                               !.config = file, !.refresh = refresh]
  OBVIOUS
<1>3. /\ n.pc = (IF refresh \/ file = NoFile THEN "decide" ELSE "hash")
      /\ n.config = file /\ n.refresh = refresh
  BY <1>2 DEF Off
<1>4. process' = [process EXCEPT ![p] = n] /\ Trusts(n) /\ ~Resting(n)
  BY <1>1, <1>2, <1>3 DEF Trusts, Resting
<1>5. UNCHANGED <<file, hashes, cache>> /\ Resting(process[p])
  BY DEF Start, Resting
<1>6. ASSUME ~disturbed'
      PROVE  Own(n)' /\ \A q \in Process \ {p} : Resting(process[q])
  <2>1. ~disturbed /\ ~Unwatched(p)
    BY <1>6 DEF Start
  <2>2. \A q \in Process \ {p} : Resting(process[q])
    BY <2>1, RestingLemma DEF Unwatched
  <2>3. Consistent
    BY <1>5, <2>1, <2>2 DEF TrustInv, Undisturbed
  <2>4. file = NoFile => hashes = NoFile
    BY <2>1 DEF Unwatched
  <2>5. Own(n)
    BY <1>3, <2>3, <2>4 DEF Own
  <2> QED
    BY <1>5, <2>2, <2>5 DEF Own, Consistent
<1> QED
  BY <1>4, <1>6, TrustStep

LEMMA TrustHashes ==
  ASSUME IInv, TrustInv, NEW p \in Process, CheckHashes(p) \/ SaveHashes(p)
  PROVE  TrustInv'
<1>0. /\ process[p] \in ProcessSet /\ process[p].pc \in {"hash", "save", "saving"}
      /\ process \in [Process -> ProcessSet] /\ ~Resting(process[p])
      /\ UNCHANGED <<file, cache, disturbed>>
  BY TypeLemma DEF IInv, CheckHashes, SaveHashes, Resting
<1>1. CASE CheckHashes(p)
  <2>1. PICK n : n = IF Changed THEN [process[p] EXCEPT !.pc = "save", !.hashed = file, !.refresh = TRUE]
                     ELSE [process[p] EXCEPT !.pc = "decide"]
    OBVIOUS
  <2>2. /\ Changed => (n.pc = "save" /\ n.refresh)
        /\ ~Changed => (n.pc = "decide" /\ n.config = process[p].config)
    BY <1>0, <2>1 DEF ProcessSet
  <2>3. process' = [process EXCEPT ![p] = n] /\ process[p].pc = "hash" /\ UNCHANGED hashes
    BY <1>0, <1>1, <2>1 DEF CheckHashes, At
  <2>4. Trusts(n) /\ ~Resting(n)
    BY <2>2 DEF Trusts, Resting
  <2>5. ASSUME Own(process[p]) PROVE Own(n)'
    <3>1. ~Changed => hashes = file
      BY <2>3, <2>5 DEF Changed, Own
    <3>2. Own(n)
      BY <2>2, <2>3, <2>5, <3>1 DEF Own
    <3> QED
      BY <1>0, <2>3, <3>2 DEF Own, Consistent
  <2> QED
    BY <1>0, <2>3, <2>4, <2>5, StartingTrustStep
<1>2. CASE SaveHashes(p)
  <2>1. PICK n : n = IF process[p].pc = "save" THEN [process[p] EXCEPT !.pc = "saving"]
                     ELSE [process[p] EXCEPT !.pc = "decide", !.hashed = NoFile]
    OBVIOUS
  <2>2. n.pc \in {"saving", "decide"} /\ n.refresh = process[p].refresh
    BY <1>0, <2>1 DEF ProcessSet
  <2>3. process' = [process EXCEPT ![p] = n] /\ process[p].pc \in {"save", "saving"}
    BY <1>0, <1>2, <2>1 DEF SaveHashes, At
  <2>4. Trusts(n) /\ ~Resting(n)
    BY <2>2 DEF Trusts, Resting
  <2>5. ASSUME Own(process[p]) PROVE Own(n)'
    <3>1. n.refresh
      BY <2>2, <2>3, <2>5 DEF Own
    <3> QED
      BY <2>2, <3>1 DEF Own
  <2> QED
    BY <1>0, <2>3, <2>4, <2>5, StartingTrustStep
<1> QED
  BY <1>1, <1>2

LEMMA TrustDecide ==
  ASSUME IInv, TrustInv, NEW p \in Process, Decide(p)
  PROVE  TrustInv'
<1>0. /\ process[p] \in ProcessSet /\ process[p].pc = "decide" /\ ~Resting(process[p])
      /\ process \in [Process -> ProcessSet]
      /\ UNCHANGED <<file, hashes, cache, disturbed>>
  BY TypeLemma DEF IInv, Decide, Resting
<1>1. CASE cache.state = "absent" \/ process[p].refresh
  <2>1. PICK n : n = [process[p] EXCEPT !.pc = "check", !.refresh = FALSE,
                        !.toolset = Listed(process[p].config, TRUE),
                        !.todo = {t \in Toolset : Known(process[p].config, t)
                                                  /\ Enables(process[p].config, t, TRUE)}]
    OBVIOUS
  <2>2. n.pc = "check"
    BY <1>0, <2>1 DEF ProcessSet
  <2>3. process' = [process EXCEPT ![p] = n]
    BY <1>0, <1>1, <2>1 DEF Decide
  <2>4. Trusts(n) /\ ~Resting(n) /\ Own(n)'
    BY <2>2 DEF Trusts, Resting, Own
  <2> QED
    BY <1>0, <2>3, <2>4, StartingTrustStep
<1>2. CASE ~(cache.state = "absent" \/ process[p].refresh)
  <2>1. PICK n : n = [process[p] EXCEPT !.pc = "read", !.cached = TRUE]
    OBVIOUS
  <2>2. n.pc = "read" /\ n.config = process[p].config
    BY <1>0, <2>1 DEF ProcessSet
  <2>3. process' = [process EXCEPT ![p] = n]
    BY <1>0, <1>2, <2>1 DEF Decide
  <2>4. Trusts(n) /\ ~Resting(n)
    BY <2>2 DEF Trusts, Resting
  <2>5. ASSUME Own(process[p]) PROVE Own(n)'
    <3>1. Own(n)
      BY <1>0, <1>2, <2>2, <2>5 DEF Own, Consistent
    <3> QED
      BY <1>0, <2>2, <3>1 DEF Own
  <2> QED
    BY <1>0, <2>3, <2>4, <2>5, StartingTrustStep
<1> QED
  BY <1>1, <1>2

LEMMA TrustCheck ==
  ASSUME IInv, TrustInv, NEW p \in Process, NEW t \in Toolset, Check(p, t)
  PROVE  TrustInv'
<1>0. process[p] \in ProcessSet /\ process \in [Process -> ProcessSet] /\ UNCHANGED <<file, hashes, cache, disturbed>>
  BY TypeLemma DEF IInv, Check
<1>1. PICK ts : ts = [process[p].toolset EXCEPT ![t] = Checked(process[p].toolset[t], world[t])]
  OBVIOUS
<1>2. PICK n : n = [process[p] EXCEPT !.todo = @ \ {t}, !.toolset = ts]
  OBVIOUS
<1>3. process' = [process EXCEPT ![p] = n]
  BY <1>0, <1>1, <1>2 DEF Check
<1>4. /\ n.pc = process[p].pc /\ n.config = process[p].config /\ n.refresh = process[p].refresh
      /\ n.cached = process[p].cached /\ n.basis = process[p].basis /\ n.excused = process[p].excused
  BY <1>0, <1>2 DEF ProcessSet
<1> QED
  BY <1>0, <1>3, <1>4, TrustUntouched

LEMMA TrustWrite ==
  ASSUME IInv, TrustInv, NEW p \in Process, Open(p) \/ Dump(p)
  PROVE  TrustInv'
<1>0. /\ process[p] \in ProcessSet /\ process[p].pc \in {"check", "dump"} /\ ~Resting(process[p])
      /\ process \in [Process -> ProcessSet]
      /\ UNCHANGED <<file, hashes>>
  BY TypeLemma DEF IInv, Open, Dump, Resting
<1>1. CASE Open(p)
  <2>1. PICK n : n = [process[p] EXCEPT !.pc = "dump"]
    OBVIOUS
  <2>2. n.pc = "dump"
    BY <1>0, <2>1 DEF ProcessSet
  <2>3. process' = [process EXCEPT ![p] = n] /\ UNCHANGED disturbed
    BY <1>0, <1>1, <2>1 DEF Open, At
  <2>4. Trusts(n) /\ ~Resting(n) /\ Own(n)'
    BY <2>2 DEF Trusts, Resting, Own
  <2> QED
    BY <1>0, <2>3, <2>4, StartingTrustStep
<1>2. CASE Dump(p)
  <2>1. PICK n : n = [process[p] EXCEPT !.pc = "read", !.toolset = Off.toolset]
    OBVIOUS
  <2>2. n.pc = "read" /\ n.config = process[p].config
    BY <1>0, <2>1 DEF ProcessSet
  <2>3. process' = [process EXCEPT ![p] = n] /\ disturbed' = ~(Quiet(p) /\ cache'.state = "whole")
    BY <1>0, <1>2, <2>1 DEF Dump
  <2>4. cache'.basis = process[p].config
    BY <1>2 DEF Dump
  <2>5. Trusts(n) /\ ~Resting(n)
    BY <2>2 DEF Trusts, Resting
  <2>6. ASSUME ~disturbed'
        PROVE  Own(n)' /\ \A q \in Process \ {p} : Resting(process[q])
    <3>1. Quiet(p) /\ cache'.state = "whole"
      BY <2>3, <2>6
    <3>2. hashes = process[p].config /\ \A q \in Process \ {p} : Resting(process[q])
      BY <3>1, RestingLemma DEF Quiet
    <3> QED
      BY <1>0, <2>2, <2>4, <3>1, <3>2 DEF Own
  <2> QED
    BY <2>3, <2>5, <2>6, TrustStep
<1> QED
  BY <1>1, <1>2

LEMMA TrustRead ==
  ASSUME IInv, TrustInv, NEW p \in Process, Read(p)
  PROVE  TrustInv'
<1>0. /\ process[p] \in ProcessSet /\ process[p].pc = "read" /\ ~Resting(process[p])
      /\ process \in [Process -> ProcessSet] /\ disturbed \in BOOLEAN
      /\ UNCHANGED <<file, hashes, cache, disturbed>>
  BY TypeLemma DEF IInv, Read, Resting
<1>1. ~disturbed => (cache.state = "whole" /\ hashes = cache.basis /\ cache.basis = process[p].config)
  BY <1>0 DEF TrustInv, Undisturbed, Own
<1>2. CASE cache.state # "whole"
  <2>1. PICK n : n = [Off EXCEPT !.pc = "failed", !.excused = disturbed]
    OBVIOUS
  <2>2. n.pc = "failed" /\ n.excused = disturbed
    BY <2>1 DEF Off
  <2>3. process' = [process EXCEPT ![p] = n]
    BY <1>2, <2>1 DEF Read
  <2>4. disturbed
    BY <1>1, <1>2
  <2>5. Trusts(n)
    BY <2>2, <2>4 DEF Trusts
  <2> QED
    BY <1>0, <2>3, <2>4, <2>5, StartingTrustStep
<1>3. CASE cache.state = "whole"
  <2>1. PICK ts : ts = [t \in Toolset |-> FromCache(Listed(process[p].config, FALSE)[t], cache.row[t])]
    OBVIOUS
  <2>2. PICK later : later = IF process[p].cached THEN Selected(ts) \ Mcp ELSE {}
    OBVIOUS
  <2>3. PICK us : us = [t \in Toolset |-> IF t \in later THEN ConfigChecked(ts[t], t, world[t]) ELSE ts[t]]
    OBVIOUS
  <2>4. PICK n : n = [process[p] EXCEPT !.pc = "recheck", !.toolset = us, !.todo = Selected(ts) \ later,
                                        !.basis = cache.basis, !.excused = disturbed]
    OBVIOUS
  <2>5. process' = [process EXCEPT ![p] = n]
    BY <1>0, <1>3, <2>1, <2>2, <2>3, <2>4 DEF Read
  <2>6. /\ n.pc = "recheck" /\ n.basis = cache.basis /\ n.excused = disturbed
        /\ n.config = process[p].config
    BY <1>0, <2>4 DEF ProcessSet
  <2>7. Trusts(n) /\ ~Resting(n)
    BY <1>1, <2>6 DEF Trusts, Resting
  <2>8. ~disturbed => Own(n)'
    BY <1>0, <1>1, <2>6 DEF Own
  <2> QED
    BY <1>0, <2>5, <2>7, <2>8, StartingTrustStep
<1> QED
  BY <1>2, <1>3

LEMMA TrustReady ==
  ASSUME IInv, TrustInv, NEW p \in Process, Ready(p)
  PROVE  TrustInv'
<1>0. /\ process[p] \in ProcessSet /\ process[p].pc = "recheck" /\ ~Resting(process[p])
      /\ process \in [Process -> ProcessSet]
      /\ UNCHANGED <<file, hashes, cache, disturbed>>
  BY TypeLemma DEF IInv, Ready, Resting
<1>1. PICK n : n = [process[p] EXCEPT !.pc = "ready", !.toolset = WithTools(process[p].toolset)]
  OBVIOUS
<1>2. process' = [process EXCEPT ![p] = n]
  BY <1>0, <1>1 DEF Ready
<1>3. /\ n.pc = "ready" /\ n.config = process[p].config /\ n.cached = process[p].cached
      /\ n.basis = process[p].basis /\ n.excused = process[p].excused
  BY <1>0, <1>1 DEF ProcessSet
<1>4. Trusts(process[p])
  BY DEF TrustInv
<1>5. Trusts(n)
  BY <1>0, <1>3, <1>4 DEF Trusts
<1>6. ASSUME Own(process[p]) PROVE Own(n)' /\ Consistent'
  BY <1>0, <1>3, <1>6 DEF Own, Consistent
<1> QED
  BY <1>0, <1>2, <1>5, <1>6, StartingTrustStep

LEMMA TrustQuit ==
  ASSUME IInv, TrustInv, NEW p \in Process, Exit(p) \/ Crash(p)
  PROVE  TrustInv'
<1>0. process' = [process EXCEPT ![p] = Off] /\ UNCHANGED <<file, hashes, cache>>
  BY DEF Exit, Crash, Quit
<1>1. process \in [Process -> ProcessSet] /\ Off.pc = "off"
  BY TypeLemma, EntryLemma DEF IInv
<1>2. Trusts(Off) /\ Resting(Off) /\ Own(Off)'
  BY <1>1 DEF Trusts, Resting, Own
<1>3. CASE Crash(p)
  <2>1. disturbed'
    BY <1>3 DEF Crash
  <2> QED
    BY <1>0, <1>2, <2>1, TrustStep
<1>4. CASE Exit(p)
  <2>1. Resting(process[p]) /\ UNCHANGED disturbed
    BY <1>4 DEF Exit, Resting
  <2>2. process'[p] = Off /\ \A q \in Process \ {p} : process'[q] = process[q]
    BY <1>0, <1>1
  <2>3. \A q \in Process : Resting(process'[q]) <=> Resting(process[q])
    BY <1>2, <2>1, <2>2
  <2>4. \A q \in Process : Trusts(process'[q])
    BY <1>2, <2>2 DEF TrustInv
  <2>5. ASSUME Undisturbed PROVE Undisturbed'
    <3>1. \A q, s \in Process : ~Resting(process'[q]) /\ ~Resting(process'[s]) => q = s
      BY <2>3, <2>5 DEF Undisturbed
    <3>2. (\A q \in Process : Resting(process'[q])) => Consistent'
      BY <1>0, <2>3, <2>5 DEF Undisturbed, Consistent
    <3>3. ASSUME NEW q \in Process PROVE Own(process[q])'
      <4>1. CASE q = p
        <5>1. process'[q].pc = "off"
          BY <1>1, <2>2, <4>1
        <5> QED
          BY <5>1 DEF Own
      <4>2. CASE q # p
        <5>1. process'[q] = process[q] /\ Own(process[q])
          BY <2>2, <2>5, <4>2 DEF Undisturbed
        <5> QED
          BY <1>0, <5>1 DEF Own, Consistent
      <4> QED
        BY <4>1, <4>2
    <3> QED
      BY <3>1, <3>2, <3>3 DEF Undisturbed, Resting
  <2> QED
    BY <2>1, <2>4, <2>5 DEF TrustInv, Trusts
<1> QED
  BY <1>3, <1>4

LEMMA TrustInitialize ==
  ASSUME IInv, TrustInv, NEW i \in Thread, Initialize(i)
  PROVE  TrustInv'
<1>0. /\ i[1] \in Process /\ process[i[1]] \in ProcessSet /\ process \in [Process -> ProcessSet]
      /\ UNCHANGED <<file, hashes, cache, disturbed>>
  BY TypeLemma, ThreadLemma DEF IInv, Initialize
<1>1. PICK p \in Process : p = i[1]
  BY <1>0
<1>2. PICK e : process' = [process EXCEPT ![i[1]].toolset[thread[i].of] = e]
  BY DEF Initialize
<1>3. PICK n : n = [process[p] EXCEPT !.toolset = [process[p].toolset EXCEPT ![thread[i].of] = e]]
  OBVIOUS
<1>4. process' = [process EXCEPT ![p] = n]
  BY <1>0, <1>1, <1>2, <1>3
<1>5. /\ n.pc = process[p].pc /\ n.config = process[p].config /\ n.refresh = process[p].refresh
      /\ n.cached = process[p].cached /\ n.basis = process[p].basis /\ n.excused = process[p].excused
  BY <1>0, <1>1, <1>3 DEF ProcessSet
<1> QED
  BY <1>0, <1>4, <1>5, TrustUntouched

\* A step that leaves the processes alone.
LEMMA TrustAside ==
  ASSUME IInv, TrustInv, UNCHANGED <<hashes, cache, process>>,
         UNCHANGED <<file, disturbed>> \/ Edit
  PROVE  TrustInv'
<1>1. \A p \in Process : Trusts(process'[p])
  BY DEF TrustInv
<1>2. ASSUME ~disturbed', Undisturbed PROVE Undisturbed'
  <2>1. Consistent' <=> Consistent
    BY DEF Consistent
  <2>2. ASSUME NEW p \in Process PROVE Own(process[p])'
    <3>1. CASE UNCHANGED file
      BY <1>2, <2>1, <3>1 DEF Undisturbed, Own
    <3>2. CASE Edit
      <4>1. Resting(process[p])
        BY <1>2, <3>2, RestingLemma DEF Edit
      <4> QED
        BY <4>1 DEF Own, Resting
    <3> QED
      BY <3>1, <3>2
  <2> QED
    BY <1>2, <2>1, <2>2 DEF Undisturbed, Resting
<1>3. disturbed => disturbed'
  BY DEF Edit
<1> QED
  BY <1>1, <1>2, <1>3 DEF TrustInv, Trusts

LEMMA TrustInductive == IInv /\ TrustInv /\ [Next]_vars => TrustInv'
<1> SUFFICES ASSUME IInv, TrustInv, [Next]_vars PROVE TrustInv'
  OBVIOUS
<1>1. ASSUME NEW p \in Process, Start(p) PROVE TrustInv'
  BY <1>1, TrustStart
<1>2. ASSUME NEW p \in Process, Step(p) PROVE TrustInv'
  BY <1>2, TrustHashes, TrustDecide, TrustCheck, TrustWrite, TrustRead, TrustReady DEF Step
<1>3. ASSUME NEW p \in Process, Exit(p) \/ Crash(p) PROVE TrustInv'
  BY <1>3, TrustQuit
<1>4. ASSUME NEW i \in Thread, Proceed(i) PROVE TrustInv'
  <2>1. CASE Initialize(i)
    BY <2>1, TrustInitialize
  <2>2. CASE Acquire(i) \/ Return(i)
    BY <2>2, TrustAside DEF Acquire, Return
  <2> QED
    BY <1>4, <2>1, <2>2 DEF Proceed
<1>5. ASSUME NEW i \in Thread, NEW t \in Toolset, Call(i, t) PROVE TrustInv'
  BY <1>5, TrustAside DEF Call
<1>6. CASE Edit
  BY <1>6, TrustAside DEF Edit
<1>7. CASE \E t \in Toolset : Change(t)
  BY <1>7, TrustAside DEF Change
<1>8. CASE UNCHANGED vars
  BY <1>8, TrustAside DEF vars
<1> QED
  BY <1>1, <1>2, <1>3, <1>4, <1>5, <1>6, <1>7, <1>8 DEF Next

\* Unless something since the last quiet refresh may have set the hashes and the statuses
\* at odds, a start that goes by the statuses in the file goes by those of its own
\* configuration, and no start finds a file that cannot be read.
THEOREM StatusesAreOwn == Spec => []TrustsOwnStatuses
<1>1. TrustInv => TrustsOwnStatuses
  BY DEF TrustInv, Trusts, TrustsOwnStatuses
<1> QED
  BY <1>1, Invariant, TrustInit, TrustInductive, PTL DEF Spec
=============================================================================
