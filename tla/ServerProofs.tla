---------------------------- MODULE ServerProofs ----------------------------
(***************************************************************************)
(* Proofs about the control server: what one step does to the runtimes of  *)
(* the control plane and to the client registry, then the counters of the  *)
(* runtimes and the slots of the registry, which are a matter of counting. *)
(***************************************************************************)
EXTENDS MCServer, TLAPS

USE DEF vars, handlerVars, castVars, boundVars, RuntimeSame, SpawnSame, CastSame

-----------------------------------------------------------------------------
(* The control plane *)

\* Every count that is owed is there, so it can be given back: the counters of a
\* runtime stay natural numbers as long as this holds (see OwedCounted).
Covered ==
  \A r \in Runtimes :
    /\ \A f \in Owed(r) : rt[r].count - 1 \in Nat
    /\ \A D \in SUBSET Owed(r) : rt[r].count - Cardinality(D) \in Nat

\* Where the callers of rt.Stop go on.
LEMMA StopGoesOn ==
  ASSUME NEW a, pc[a] \in Stopping
  PROVE  /\ Stopped(a) \in {"idle", "resetClear", "close"}
         /\ StopFailed(a) \in {"idle", "close"}
BY DEF Stopping, Stopped, StopFailed

\* What a step does to the runtimes: it touches one, and sets the fields the
\* counting argument and ReplacedIsStopped are about.
Effect(r, fs, un, n, l) ==
  /\ rt' \in [Runtimes -> RuntimeState]
  /\ \A q \in Runtimes \ {r} : rt'[q] = rt[q]
  /\ rt'[r].fibers = fs /\ rt'[r].unlinked = un /\ rt'[r].count = n /\ rt'[r].life = l

SameFibers(r, l) == Effect(r, rt[r].fibers, rt[r].unlinked, rt[r].count, l)

\* The effect of an assignment to a runtime.
LEMMA EffectOf ==
  ASSUME rt \in [Runtimes -> RuntimeState], NEW r \in Runtimes, NEW x \in RuntimeState,
         rt' = [rt EXCEPT ![r] = x]
  PROVE  Effect(r, x.fibers, x.unlinked, x.count, x.life)
BY DEF Effect

\* The effects of rt.Stop and of the commands that do not spawn.
LEMMA StopEffects ==
  ASSUME TypeOK, Captures
  PROVE  /\ \A c \in Clients : InitStarts(c) =>
              \E r \in Runtimes : /\ rt[r].life = "unmade" /\ SameFibers(r, "running")
                                  /\ held' = [held EXCEPT ![c] = r]
         /\ \A a \in Actors : StopCancels(a) =>
              held[a] \in Runtimes /\ SameFibers(held[a], "stopping")
         /\ \A a \in Actors : StopReturns(a) =>
              held[a] \in Runtimes /\ SameFibers(held[a], "stopped")
         /\ \A c \in Clients : ResetClears(c) =>
              /\ held[c] \in Runtimes
              /\ Effect(held[c], {}, rt[held[c]].unlinked, rt[held[c]].count, "reset")
<1>0. rt \in [Runtimes -> RuntimeState]
  BY DEF TypeOK
<1>1. ASSUME NEW r \in Runtimes,
             NEW l \in {"running", "stopping", "stopped"}, rt' = [rt EXCEPT ![r].life = l]
      PROVE  SameFibers(r, l)
  BY <1>0, <1>1 DEF RuntimeState, Effect, SameFibers
<1>2. ASSUME NEW c \in Clients, InitStarts(c)
      PROVE  \E r \in Runtimes : /\ rt[r].life = "unmade" /\ SameFibers(r, "running")
                                 /\ held' = [held EXCEPT ![c] = r]
  <2>1. PICK r \in Runtimes : /\ rt[r].life = "unmade" /\ rt' = [rt EXCEPT ![r].life = "running"]
                              /\ held' = [held EXCEPT ![c] = r]
    BY <1>2, Zenon DEF InitStarts
  <2> QED  BY <1>1, <2>1, Zenon
<1>3. ASSUME NEW a \in Actors, StopCancels(a)
      PROVE  held[a] \in Runtimes /\ SameFibers(held[a], "stopping")
  <2>1. held[a] \in Runtimes /\ rt' = [rt EXCEPT ![held[a]].life = "stopping"]
    BY <1>3 DEF StopCancels, Captures, Captured
  <2> QED  BY <1>1, <2>1, Zenon
<1>4. ASSUME NEW a \in Actors, StopReturns(a)
      PROVE  held[a] \in Runtimes /\ SameFibers(held[a], "stopped")
  <2>1. held[a] \in Runtimes /\ rt' = [rt EXCEPT ![held[a]].life = "stopped"]
    BY <1>4 DEF StopReturns, Captures, Captured
  <2> QED  BY <1>1, <2>1, Zenon
<1>5. ASSUME NEW c \in Clients, ResetClears(c)
      PROVE  /\ held[c] \in Runtimes
             /\ Effect(held[c], {}, rt[held[c]].unlinked, rt[held[c]].count, "reset")
  <2>1. held[c] \in Runtimes
    BY <1>5 DEF ResetClears, Answer, Goto, Captures, Captured, Actors
  <2> DEFINE x == [rt[held[c]] EXCEPT !.life = "reset", !.fibers = {}, !.admitted = {},
                                      !.queue = {}, !.created = 0, !.completed = 0]
  <2>2. rt' = [rt EXCEPT ![held[c]] = x]
    BY <1>5 DEF ResetClears
  <2>3. rt[held[c]] \in RuntimeState
    BY <1>0, <2>1
  <2>4. /\ x \in RuntimeState /\ x.fibers = {} /\ x.unlinked = rt[held[c]].unlinked
        /\ x.count = rt[held[c]].count /\ x.life = "reset"
    BY <2>3, Zenon DEF RuntimeState
  <2> HIDE DEF x
  <2> QED  BY <1>0, <2>1, <2>2, <2>4, EffectOf, Zenon
<1> QED  BY <1>2, <1>3, <1>4, <1>5, SMTT(30)

\* The effect of taking a fiber out of rt.fibers: its count is given back if it
\* was there.
LEMMA WithdrawEffect ==
  ASSUME TypeOK, Captures, Covered, NEW r \in Runtimes, NEW f \in Fibers, Withdraw(r, f)
  PROVE  Effect(r, rt[r].fibers \ {f}, rt[r].unlinked,
                IF f \in rt[r].fibers THEN rt[r].count - 1 ELSE rt[r].count, rt[r].life)
<1>0. rt \in [Runtimes -> RuntimeState] /\ rt[r] \in RuntimeState
  BY DEF TypeOK
<1> DEFINE n == IF f \in rt[r].fibers THEN rt[r].count - 1 ELSE rt[r].count
           x == [rt[r] EXCEPT !.fibers = @ \ {f}, !.admitted = @ \ {f}, !.queue = @ \ {f},
                              !.count = n]
<1>1. n \in Nat
  <2>1. f \in rt[r].fibers => f \in Owed(r)
    BY DEF Owed, Known
  <2>2. rt[r].count \in Nat
    BY <1>0 DEF RuntimeState
  <2> QED  BY <2>1, <2>2 DEF Covered
<1>2. rt' = [rt EXCEPT ![r] = x]
  BY DEF Withdraw
<1> HIDE DEF n
<1>3. /\ x \in RuntimeState /\ x.fibers = rt[r].fibers \ {f} /\ x.unlinked = rt[r].unlinked
      /\ x.count = n /\ x.life = rt[r].life
  BY <1>0, <1>1, Zenon DEF RuntimeState
<1> HIDE DEF x
<1>4. Effect(r, rt[r].fibers \ {f}, rt[r].unlinked, n, rt[r].life)
  BY <1>0, <1>2, <1>3, EffectOf, Zenon
<1> QED  BY <1>4 DEF n

\* The effects of the steps of rt.Spawn.
LEMMA SpawnEffects ==
  ASSUME TypeOK, Captures, Covered, NEW c \in Clients
  PROVE  /\ pc[c] \in InSpawn => held[c] \in Runtimes /\ mine[c] \in Fibers
         /\ SpawnCounts(c) =>
              \/ Answer(c, "admit") /\ UNCHANGED rt
              \/ /\ \E to \in {"full", "enter"} : Goto(c, "admit", to)
                 /\ UNCHANGED <<held, mine>>
                 /\ Effect(held[c], rt[held[c]].fibers, rt[held[c]].unlinked,
                           rt[held[c]].count + 1, rt[held[c]].life)
         /\ SpawnEnters(c) =>
              \/ /\ Answer(c, "full")
                 /\ Effect(held[c], rt[held[c]].fibers, rt[held[c]].unlinked,
                           rt[held[c]].count - 1, rt[held[c]].life)
              \/ /\ Goto(c, "enter", "schedule") /\ UNCHANGED <<held, mine>>
                 /\ Effect(held[c], rt[held[c]].fibers \cup {mine[c]}, rt[held[c]].unlinked,
                           rt[held[c]].count, rt[held[c]].life)
         /\ SpawnSchedules(c) =>
              \/ Answer(c, "schedule") /\ Withdraw(held[c], mine[c])
              \/ /\ Goto(c, "schedule", "check") /\ UNCHANGED <<held, mine>>
                 /\ SameFibers(held[c], rt[held[c]].life)
         /\ SpawnCommits(c) =>
              \/ /\ pc[c] \in {"commit", "rollback"}
                 /\ Answer(c, pc[c]) /\ Withdraw(held[c], mine[c])
              \/ /\ Goto(c, "commit", "record") /\ UNCHANGED <<held, mine>>
                 /\ SameFibers(held[c], rt[held[c]].life)
         /\ SpawnRecords(c) => SameFibers(held[c], rt[held[c]].life)
<1>0. rt \in [Runtimes -> RuntimeState]
  BY DEF TypeOK
<1>1. pc[c] \in InSpawn => held[c] \in Runtimes /\ mine[c] \in Fibers
  BY DEF Captures, Captured, Actors
<1>2. ASSUME SpawnCounts(c), IsRunning(held[c])
      PROVE  /\ \E to \in {"full", "enter"} : Goto(c, "admit", to)
             /\ UNCHANGED <<held, mine>>
             /\ Effect(held[c], rt[held[c]].fibers, rt[held[c]].unlinked,
                       rt[held[c]].count + 1, rt[held[c]].life)
  <2>1. held[c] \in Runtimes /\ rt' = [rt EXCEPT ![held[c]].count = @ + 1]
    BY <1>1, <1>2 DEF SpawnCounts, InSpawn
  <2>2. Effect(held[c], rt[held[c]].fibers, rt[held[c]].unlinked, rt[held[c]].count + 1,
               rt[held[c]].life)
    BY <1>0, <2>1 DEF RuntimeState, Effect
  <2> QED  BY <1>2, <2>2 DEF SpawnCounts
<1>3. SpawnCounts(c) /\ ~IsRunning(held[c]) => Answer(c, "admit") /\ UNCHANGED rt
  BY DEF SpawnCounts
<1>4. ASSUME Answer(c, "full"), rt' = [rt EXCEPT ![held[c]].count = @ - 1]
      PROVE  Effect(held[c], rt[held[c]].fibers, rt[held[c]].unlinked,
                    rt[held[c]].count - 1, rt[held[c]].life)
  <2>1. held[c] \in Runtimes /\ mine[c] \in Owed(held[c])
    BY <1>1, <1>4 DEF Answer, Goto, InSpawn, Owed, Actors
  <2>2. rt[held[c]].count - 1 \in Nat
    BY <2>1 DEF Covered
  <2> QED  BY <1>0, <1>4, <2>1, <2>2 DEF RuntimeState, Effect
<1>5. ASSUME Goto(c, "enter", "schedule"),
             rt' = [rt EXCEPT ![held[c]].fibers = @ \cup {mine[c]}]
      PROVE  Effect(held[c], rt[held[c]].fibers \cup {mine[c]}, rt[held[c]].unlinked,
                    rt[held[c]].count, rt[held[c]].life)
  <2>1. held[c] \in Runtimes /\ mine[c] \in Fibers
    BY <1>1, <1>5 DEF Goto, InSpawn
  <2> QED  BY <1>0, <1>5, <2>1, SMTT(30) DEF RuntimeState, Effect
<1>6. ASSUME pc[c] \in InSpawn, \/ rt' = [rt EXCEPT ![held[c]].queue = @ \cup {mine[c]}]
                                \/ rt' = [rt EXCEPT ![held[c]].admitted = @ \cup {mine[c]}]
                                \/ rt' = [rt EXCEPT ![held[c]].created = @ + 1]
      PROVE  SameFibers(held[c], rt[held[c]].life)
  <2>1. held[c] \in Runtimes /\ mine[c] \in Fibers
    BY <1>1, <1>6
  <2>2. CASE rt' = [rt EXCEPT ![held[c]].queue = @ \cup {mine[c]}]
    BY <1>0, <2>1, <2>2, SMTT(30) DEF RuntimeState, Effect, SameFibers
  <2>3. CASE rt' = [rt EXCEPT ![held[c]].admitted = @ \cup {mine[c]}]
    BY <1>0, <2>1, <2>3 DEF RuntimeState, Effect, SameFibers
  <2>4. CASE rt' = [rt EXCEPT ![held[c]].created = @ + 1]
    BY <1>0, <2>1, <2>4 DEF RuntimeState, Effect, SameFibers
  <2> QED  BY <1>6, <2>2, <2>3, <2>4
<1>7. SpawnEnters(c) =>
        \/ Answer(c, "full") /\ rt' = [rt EXCEPT ![held[c]].count = @ - 1]
        \/ /\ Goto(c, "enter", "schedule") /\ UNCHANGED <<held, mine>>
           /\ rt' = [rt EXCEPT ![held[c]].fibers = @ \cup {mine[c]}]
  BY DEF SpawnEnters
<1>8. SpawnSchedules(c) =>
        \/ Answer(c, "schedule") /\ Withdraw(held[c], mine[c])
        \/ /\ Goto(c, "schedule", "check") /\ UNCHANGED <<held, mine>>
           /\ rt' = [rt EXCEPT ![held[c]].queue = @ \cup {mine[c]}]
  BY DEF SpawnSchedules
<1>9. SpawnCommits(c) =>
        \/ /\ pc[c] \in {"commit", "rollback"}
           /\ Answer(c, pc[c]) /\ Withdraw(held[c], mine[c])
        \/ /\ Goto(c, "commit", "record") /\ UNCHANGED <<held, mine>>
           /\ rt' = [rt EXCEPT ![held[c]].admitted = @ \cup {mine[c]}]
  BY DEF SpawnCommits
<1>10. SpawnRecords(c) => pc[c] = "record" /\ rt' = [rt EXCEPT ![held[c]].created = @ + 1]
  BY DEF SpawnRecords, Answer, Goto
<1>11. Goto(c, "schedule", "check") \/ Goto(c, "commit", "record") \/ pc[c] = "record"
         => pc[c] \in InSpawn
  BY DEF Goto, InSpawn
<1> HIDE DEF Effect, SameFibers
<1> QED  BY <1>1, <1>2, <1>3, <1>4, <1>5, <1>6, <1>7, <1>8, <1>9, <1>10, <1>11, SMTT(30)

\* The effects of the steps of a runtime.
LEMMA FiberEffects ==
  ASSUME TypeOK, Captures, Covered, NEW r \in Runtimes
  PROVE  /\ StopReaps(r) => \E pending \in SUBSET (rt[r].fibers \cap Fibers) :
              Effect(r, rt[r].fibers \ pending, rt[r].unlinked,
                     rt[r].count - Cardinality(pending), "draining")
         /\ StopReaps(r) => rt[r].life = "stopping"
         /\ Dispatch(r) \/ Completes(r) => SameFibers(r, rt[r].life)
         /\ Unlinks(r) => \E f \in Fibers :
              Effect(r, rt[r].fibers \ {f}, rt[r].unlinked \cup (rt[r].fibers \cap {f}),
                     rt[r].count, rt[r].life)
         /\ Releases(r) => \E f \in rt[r].unlinked :
              Effect(r, rt[r].fibers, rt[r].unlinked \ {f}, rt[r].count - 1, rt[r].life)
<1>0. rt \in [Runtimes -> RuntimeState] /\ rt[r] \in RuntimeState
  BY DEF TypeOK
<1>1. ASSUME StopReaps(r)
      PROVE  \E pending \in SUBSET (rt[r].fibers \cap Fibers) :
               Effect(r, rt[r].fibers \ pending, rt[r].unlinked,
                      rt[r].count - Cardinality(pending), "draining")
  <2> DEFINE pending == (rt[r].fibers \cap rt[r].admitted)
                          \ (rt[r].running \cup rt[r].recorded)
             n == rt[r].count - Cardinality(pending)
             x == [rt[r] EXCEPT !.life = "draining", !.queue = {}, !.fibers = @ \ pending,
                                !.admitted = @ \ pending, !.count = n]
  <2>1. pending \subseteq rt[r].fibers \cap Fibers
    BY <1>0 DEF RuntimeState
  <2>2. pending \subseteq Owed(r)
    BY <2>1 DEF Owed, Known
  <2>3. n \in Nat
    BY <2>2 DEF Covered
  <2>4. rt' = [rt EXCEPT ![r] = x]
    BY <1>1 DEF StopReaps
  <2> HIDE DEF n, pending
  <2>5. /\ x \in RuntimeState /\ x.fibers = rt[r].fibers \ pending
        /\ x.unlinked = rt[r].unlinked /\ x.count = n /\ x.life = "draining"
    BY <1>0, <2>3, Zenon DEF RuntimeState
  <2> HIDE DEF x
  <2>6. Effect(r, rt[r].fibers \ pending, rt[r].unlinked, n, "draining")
    BY <1>0, <2>4, <2>5, EffectOf, Zenon
  <2> QED  BY <2>1, <2>6, Zenon DEF n
<1>2. ASSUME Dispatch(r) PROVE SameFibers(r, rt[r].life)
  <2>1. PICK f \in rt[r].queue :
          rt' = [rt EXCEPT ![r] = [rt[r] EXCEPT !.queue = @ \ {f}, !.running = @ \cup {f}]]
    BY <1>2, Zenon DEF Dispatch
  <2> DEFINE x == [rt[r] EXCEPT !.queue = @ \ {f}, !.running = @ \cup {f}]
  <2>2. /\ x \in RuntimeState /\ x.fibers = rt[r].fibers
        /\ x.unlinked = rt[r].unlinked /\ x.count = rt[r].count /\ x.life = rt[r].life
    BY <1>0, <2>1, Zenon DEF RuntimeState
  <2>3. rt' = [rt EXCEPT ![r] = x]
    BY <2>1
  <2> HIDE DEF x
  <2> QED  BY <1>0, <2>2, <2>3, EffectOf, Zenon DEF SameFibers
<1>3. ASSUME Completes(r) PROVE SameFibers(r, rt[r].life)
  <2>1. PICK f \in rt[r].running :
          rt' = [rt EXCEPT ![r] = [rt[r] EXCEPT !.running = @ \ {f}, !.recorded = @ \cup {f},
                                                !.completed = @ + 1]]
    BY <1>3, Zenon DEF Completes
  <2> DEFINE s == rt[r].recorded \cup {f}
             n == rt[r].completed + 1
             x == [rt[r] EXCEPT !.running = @ \ {f}, !.recorded = s, !.completed = n]
  <2>2. s \subseteq Fibers /\ n \in Nat
    BY <1>0 DEF RuntimeState
  <2>3. rt' = [rt EXCEPT ![r] = x]
    BY <2>1
  <2> HIDE DEF s, n
  <2>4. /\ x \in RuntimeState /\ x.fibers = rt[r].fibers
        /\ x.unlinked = rt[r].unlinked /\ x.count = rt[r].count /\ x.life = rt[r].life
    BY <1>0, <2>2, Zenon DEF RuntimeState
  <2> HIDE DEF x
  <2> QED  BY <1>0, <2>3, <2>4, EffectOf, Zenon DEF SameFibers
<1>4. ASSUME Unlinks(r)
      PROVE  \E f \in Fibers :
               Effect(r, rt[r].fibers \ {f}, rt[r].unlinked \cup (rt[r].fibers \cap {f}),
                      rt[r].count, rt[r].life)
  <2>1. PICK f \in rt[r].recorded :
          rt' = [rt EXCEPT ![r] = [rt[r] EXCEPT !.recorded = @ \ {f}, !.fibers = @ \ {f},
                                                !.admitted = @ \ {f},
                                                !.unlinked = @ \cup (rt[r].fibers \cap {f})]]
    BY <1>4, Zenon DEF Unlinks
  <2>2. f \in Fibers
    BY <1>0, <2>1 DEF RuntimeState
  <2> DEFINE u == rt[r].unlinked \cup (rt[r].fibers \cap {f})
             x == [rt[r] EXCEPT !.recorded = @ \ {f}, !.fibers = @ \ {f},
                                !.admitted = @ \ {f}, !.unlinked = u]
  <2>3. u \subseteq Fibers
    BY <1>0, <2>2 DEF RuntimeState
  <2>4. rt' = [rt EXCEPT ![r] = x]
    BY <2>1
  <2> HIDE DEF u
  <2>5. /\ x \in RuntimeState /\ x.fibers = rt[r].fibers \ {f}
        /\ x.unlinked = u /\ x.count = rt[r].count /\ x.life = rt[r].life
    BY <1>0, <2>3, Zenon DEF RuntimeState
  <2> HIDE DEF x
  <2>6. Effect(r, rt[r].fibers \ {f}, u, rt[r].count, rt[r].life)
    BY <1>0, <2>4, <2>5, EffectOf, Zenon
  <2> QED  BY <2>2, <2>6, Zenon DEF u
<1>5. ASSUME Releases(r)
      PROVE  \E f \in rt[r].unlinked :
               Effect(r, rt[r].fibers, rt[r].unlinked \ {f}, rt[r].count - 1, rt[r].life)
  <2>1. PICK f \in rt[r].unlinked :
          rt' = [rt EXCEPT ![r] = [rt[r] EXCEPT !.unlinked = @ \ {f}, !.count = @ - 1]]
    BY <1>5, Zenon DEF Releases
  <2>2. f \in Owed(r)
    BY <1>0, <2>1 DEF RuntimeState, Owed, Known
  <2> DEFINE x == [rt[r] EXCEPT !.unlinked = @ \ {f}, !.count = @ - 1]
  <2>3. rt[r].count - 1 \in Nat
    BY <2>2 DEF Covered
  <2>4. /\ x \in RuntimeState /\ x.fibers = rt[r].fibers
        /\ x.unlinked = rt[r].unlinked \ {f} /\ x.count = rt[r].count - 1
        /\ x.life = rt[r].life
    BY <1>0, <2>3, Zenon DEF RuntimeState
  <2>5. rt' = [rt EXCEPT ![r] = x]
    BY <2>1
  <2> HIDE DEF x
  <2> QED  BY <1>0, <2>4, <2>5, EffectOf, Zenon
<1>6. StopReaps(r) => rt[r].life = "stopping"
  BY DEF StopReaps
<1> QED  BY <1>1, <1>2, <1>3, <1>4, <1>5, <1>6, SMTT(30)

\* Every step keeps the types, the counters included.
LEMMA TypeStep ==
  ASSUME TypeOK, Captures, Covered, [Next]_vars
  PROVE  TypeOK'
<1> USE DEF Actors, Captured, InSpawn, Stopping
<1>1. ASSUME NEW c \in Clients, \/ Receive(c) \/ Refused(c) \/ InitSwaps(c) \/ StopCaptures(c)
                                \/ SpawnCaptures(c) \/ SpawnChecks(c)
      PROVE  TypeOK'
  <2>1. CASE Receive(c) \/ Refused(c) \/ InitSwaps(c) \/ StopCaptures(c)
    BY <2>1, SMTT(30) DEF TypeOK, Receive, Refused, InitSwaps, StopCaptures, Capture, Answer, Goto, Captures
  <2>2. CASE SpawnCaptures(c) \/ SpawnChecks(c)
    BY <2>2, SMTT(30) DEF TypeOK, SpawnCaptures, SpawnChecks, Capture, Goto
  <2> QED  BY <1>1, <2>1, <2>2
<1>2. ASSUME NEW c \in Clients, InitStarts(c) PROVE TypeOK'
  <2>1. PICK r \in Runtimes : SameFibers(r, "running") /\ held' = [held EXCEPT ![c] = r]
    BY <1>2, StopEffects, Zenon
  <2>2. rt' \in [Runtimes -> RuntimeState]
    BY <2>1 DEF SameFibers, Effect
  <2> QED  BY <1>2, <2>1, <2>2 DEF TypeOK, InitStarts, Goto
<1>3. ASSUME NEW c \in Clients, ResetClears(c) PROVE TypeOK'
  <2>1. rt' \in [Runtimes -> RuntimeState]
    BY <1>3, StopEffects DEF Effect
  <2> QED  BY <1>3, <2>1 DEF TypeOK, ResetClears, Answer, Goto
<1>4. ASSUME NEW a \in Actors, Stop(a) PROVE TypeOK'
  <2>1. CASE StopReturnsNil(a)
    BY <2>1, StopGoesOn DEF TypeOK, StopReturnsNil, Leave
  <2>2. CASE StopCancels(a)
    <3>1. rt' \in [Runtimes -> RuntimeState]
      BY <2>2, StopEffects DEF SameFibers, Effect
    <3> QED  BY <2>2, <3>1 DEF TypeOK, StopCancels
  <2>3. CASE StopReturns(a)
    <3>1. rt' \in [Runtimes -> RuntimeState]
      BY <2>3, StopEffects DEF SameFibers, Effect
    <3> QED  BY <2>3, <3>1, StopGoesOn DEF TypeOK, StopReturns, Leave
  <2> QED  BY <1>4, <2>1, <2>2, <2>3 DEF Stop
<1>5. ASSUME NEW c \in Clients, \/ SpawnCounts(c) \/ SpawnEnters(c) \/ SpawnSchedules(c)
                                \/ SpawnCommits(c) \/ SpawnRecords(c)
      PROVE  TypeOK'
  <2>1. rt' \in [Runtimes -> RuntimeState]
    <3>1. rt \in [Runtimes -> RuntimeState]
      BY DEF TypeOK
    <3>2. SpawnRecords(c) => pc[c] \in InSpawn
      BY DEF SpawnRecords, Answer, Goto
    <3>3. ASSUME pc[c] \in InSpawn, Withdraw(held[c], mine[c])
          PROVE  rt' \in [Runtimes -> RuntimeState]
      BY <3>3, SpawnEffects, WithdrawEffect, Zenon DEF Effect
    <3>4. CASE SpawnCounts(c) \/ SpawnEnters(c)
      BY <3>1, <3>4, SpawnEffects, Zenon DEF Effect
    <3>5. CASE SpawnSchedules(c) \/ SpawnCommits(c)
      BY <3>3, <3>5, SpawnEffects, Zenon DEF SameFibers, Effect, SpawnSchedules, SpawnCommits
    <3>6. CASE SpawnRecords(c)
      BY <3>2, <3>6, SpawnEffects, Zenon DEF SameFibers, Effect
    <3> QED  BY <1>5, <3>4, <3>5, <3>6
  <2>2. CASE SpawnCounts(c) \/ SpawnEnters(c)
    BY <2>1, <2>2 DEF TypeOK, SpawnCounts, SpawnEnters, Answer, Goto
  <2>3. CASE SpawnSchedules(c) \/ SpawnRecords(c)
    BY <2>1, <2>3 DEF TypeOK, SpawnSchedules, SpawnRecords, Answer, Goto
  <2>4. CASE SpawnCommits(c)
    BY <2>1, <2>4 DEF TypeOK, SpawnCommits, Answer, Goto
  <2> QED  BY <1>5, <2>2, <2>3, <2>4
<1>6. ASSUME NEW r \in Runtimes, StopReaps(r) \/ Dispatch(r) \/ Completes(r) \/ Complete(r)
      PROVE  TypeOK'
  <2>1. rt' \in [Runtimes -> RuntimeState]
    BY <1>6, FiberEffects, SMTT(30) DEF Complete, SameFibers, Effect
  <2>2. RuntimeSame
    BY <1>6, Zenon DEF StopReaps, Dispatch, Completes, Complete, Unlinks, Releases
  <2> QED  BY <2>1, <2>2 DEF TypeOK
<1>7. CASE Cast \/ CastExits
  BY <1>7, SMTT(30) DEF TypeOK, Cast, CastExits, CastCaptures, CastSnapshots, CastResends, CastDecides,
     CastBuilds, CastStep
<1>8. CASE \/ ShutdownBegins \/ HttpDrained \/ ShutdownCaptures \/ closeClients
           \/ ShutdownReturns
  BY <1>8 DEF TypeOK, ShutdownBegins, HttpDrained, ShutdownCaptures, closeClients,
     ShutdownReturns, Goto
<1>9. CASE UNCHANGED vars
  BY <1>9 DEF TypeOK
<1> QED
  BY <1>1, <1>2, <1>3, <1>4, <1>5, <1>6, <1>7, <1>8, <1>9
  DEF Next, Handler, Complete, ShutdownGoesOn

\* Every step leaves the goroutines with the runtime and the fiber they work on.
LEMMA CapturesStep ==
  ASSUME TypeOK, Captures, [Next]_vars
  PROVE  Captures'
<1> USE DEF Captures, Actors, Captured, InSpawn, Stopping
<1>0. PICK P : /\ pc \in [Actors -> P] /\ held \in [Actors -> Runtimes \cup {NoRuntime}]
               /\ mine \in [Actors -> Fibers \cup {NoFiber}]
               /\ runtime \in Runtimes \cup {NoRuntime} /\ spawned \subseteq Fibers
  BY Zenon DEF TypeOK
<1>1. ASSUME NEW c \in Clients, Receive(c) \/ Refused(c) \/ InitSwaps(c) \/ StopCaptures(c)
      PROVE  Captures'
  <2>1. CASE Receive(c) \/ Refused(c)
    BY <1>0, <2>1, ControlAssumption, SMTT(30) DEF Receive, Refused, Answer, Goto
  <2>2. CASE InitSwaps(c) \/ StopCaptures(c)
    BY <1>0, <2>2, ControlAssumption DEF InitSwaps, StopCaptures, Capture, Goto
  <2> QED  BY <1>1, <2>1, <2>2, Zenon
<1>2. ASSUME NEW c \in Clients, SpawnCaptures(c) PROVE Captures'
  <2>1. PICK f \in Fibers \ spawned : /\ spawned' = spawned \cup {f}
                                      /\ mine' = [mine EXCEPT ![c] = f]
    BY <1>0, <1>2, Zenon DEF SpawnCaptures
  <2> QED  BY <1>0, <1>2, <2>1, ControlAssumption DEF SpawnCaptures, Capture, Goto
<1>3. ASSUME NEW c \in Clients, InitStarts(c) PROVE Captures'
  <2>1. PICK r \in Runtimes : held' = [held EXCEPT ![c] = r]
    BY <1>3, Zenon DEF InitStarts
  <2> QED  BY <1>0, <1>3, <2>1 DEF InitStarts, Goto
<1>4. ASSUME NEW c \in Clients, ResetClears(c) \/ SpawnRecords(c) \/ SpawnChecks(c)
      PROVE  Captures'
  BY <1>0, <1>4, ControlAssumption DEF ResetClears, SpawnRecords, SpawnChecks, Answer, Goto
<1>5. ASSUME NEW a \in Actors, Stop(a) PROVE Captures'
  <2>1. CASE StopCancels(a)
    BY <2>1 DEF StopCancels
  <2>2. CASE \E to \in {"idle", "resetClear", "close"} :
               Leave(a, to) /\ pc[a] \in Stopping /\ UNCHANGED boundVars
    BY <1>0, <2>2 DEF Leave
  <2> QED  BY <1>5, <2>1, <2>2, StopGoesOn DEF Stop, StopReturnsNil, StopReturns
<1>6. ASSUME NEW c \in Clients, SpawnCounts(c) \/ SpawnEnters(c) PROVE Captures'
  BY <1>0, <1>6, ControlAssumption DEF SpawnCounts, SpawnEnters, Answer, Goto
<1>7. ASSUME NEW c \in Clients, SpawnSchedules(c) \/ SpawnCommits(c) PROVE Captures'
  BY <1>0, <1>7, ControlAssumption DEF SpawnSchedules, SpawnCommits, Answer, Goto
<1>8. ASSUME NEW r \in Runtimes, StopReaps(r) \/ Dispatch(r) \/ Completes(r) \/ Complete(r)
      PROVE  Captures'
  BY <1>8, Zenon DEF StopReaps, Dispatch, Completes, Complete, Unlinks, Releases
<1>9. CASE Cast \/ CastExits
  BY <1>9, Zenon DEF Cast, CastExits, CastCaptures, CastSnapshots, CastResends, CastDecides, CastBuilds
<1>10. CASE \/ ShutdownBegins \/ HttpDrained \/ ShutdownCaptures \/ closeClients
            \/ ShutdownReturns
  BY <1>0, <1>10, SMTT(30) DEF ShutdownBegins, HttpDrained, ShutdownCaptures, closeClients,
     ShutdownReturns, Goto
<1>11. CASE UNCHANGED vars
  BY <1>11, Zenon
<1> QED
  BY <1>1, <1>2, <1>3, <1>4, <1>5, <1>6, <1>7, <1>8, <1>9, <1>10, <1>11, Zenon
  DEF Next, Handler, ShutdownGoesOn

\* Every step keeps a running runtime reachable: it is s.runtime, or a handler is
\* about to put it in place or to stop it.
LEMMA ReplacedStep ==
  ASSUME TypeOK, Captures, Covered, ReplacedIsStopped, [Next]_vars
  PROVE  ReplacedIsStopped'
<1>0. PICK P : /\ pc \in [Actors -> P] /\ held \in [Actors -> Runtimes \cup {NoRuntime}]
               /\ Clients \subseteq Actors /\ Shutdowner \in Actors
  BY Zenon DEF TypeOK, Actors
<1> DEFINE Sees(c) == pc[c] \in {"swap", "stopOld"}
<1>1. ASSUME runtime' = runtime, \A r \in Runtimes : IsRunning(r)' => IsRunning(r),
             \A c \in Clients, r \in Runtimes : Sees(c) /\ held[c] = r /\ IsRunning(r)' =>
               Sees(c)' /\ held'[c] = r
      PROVE  ReplacedIsStopped'
  <2>1. ASSUME NEW r \in Runtimes, IsRunning(r)'
        PROVE  r = runtime \/ \E c \in Clients : held'[c] = r /\ Sees(c)'
    <3>1. r = runtime \/ \E c \in Clients : held[c] = r /\ Sees(c)
      BY <1>1, <2>1, Zenon DEF ReplacedIsStopped
    <3> QED  BY <1>1, <2>1, <3>1, Zenon
  <2> QED  BY <1>1, <2>1, Zenon DEF ReplacedIsStopped
<1>2. ASSUME NEW r \in Runtimes, NEW fs, NEW un, NEW n, Effect(r, fs, un, n, rt[r].life)
      PROVE  \A q \in Runtimes : IsRunning(q)' <=> IsRunning(q)
  BY <1>2 DEF Effect, IsRunning
<1>3. ASSUME NEW c \in Clients, InitStarts(c) PROVE ReplacedIsStopped'
  <2>1. PICK r \in Runtimes : rt[r].life = "unmade" /\ SameFibers(r, "running")
                              /\ held' = [held EXCEPT ![c] = r]
    BY <1>3, StopEffects, Zenon
  <2>2. pc[c] = "init" /\ pc' = [pc EXCEPT ![c] = "swap"] /\ runtime' = runtime
    BY <1>3 DEF InitStarts, Goto
  <2>3. \A q \in Runtimes \ {r} : IsRunning(q)' => IsRunning(q)
    BY <2>1 DEF SameFibers, Effect, IsRunning
  <2>4. pc'[c] = "swap" /\ held'[c] = r
    BY <1>0, <2>1, <2>2, SMTT(30)
  <2>5. \A d \in Clients \ {c} : pc'[d] = pc[d] /\ held'[d] = held[d]
    BY <1>0, <2>1, <2>2
  <2> QED  BY <2>2, <2>3, <2>4, <2>5 DEF ReplacedIsStopped
<1>4. ASSUME NEW c \in Clients, InitSwaps(c) PROVE ReplacedIsStopped'
  <2>1. /\ pc[c] = "swap" /\ runtime' = held[c] /\ UNCHANGED rt
        /\ pc'[c] = IF runtime = NoRuntime THEN "idle" ELSE "stopOld"
        /\ held'[c] = runtime
        /\ \A d \in Clients \ {c} : pc'[d] = pc[d] /\ held'[d] = held[d]
    BY <1>0, <1>4 DEF InitSwaps, Capture, Goto
  <2>2. \A r \in Runtimes : IsRunning(r)' <=> IsRunning(r)
    BY <2>1, Zenon DEF IsRunning
  <2>3. ASSUME NEW r \in Runtimes, IsRunning(r)'
        PROVE  r = runtime' \/ \E d \in Clients : held'[d] = r /\ pc'[d] \in {"swap", "stopOld"}
    <3>1. CASE r = runtime
      <4>1. runtime # NoRuntime
        BY <3>1, ControlAssumption
      <4> QED  BY <2>1, <3>1, <4>1, Zenon
    <3>2. CASE \E d \in Clients : held[d] = r /\ pc[d] \in {"swap", "stopOld"}
      BY <2>1, <3>2
    <3> QED  BY <2>2, <2>3, <3>1, <3>2, Zenon DEF ReplacedIsStopped
  <2> QED  BY <2>3, SMTT(30) DEF ReplacedIsStopped
<1>5. ASSUME NEW a \in Actors, Stop(a) PROVE ReplacedIsStopped'
  <2>0. runtime' = runtime /\ (StopCancels(a) => UNCHANGED <<pc, held>>)
        /\ \A c \in Clients \ {a} : pc'[c] = pc[c] /\ held'[c] = held[c]
    BY <1>0, <1>5 DEF Stop, StopReturnsNil, StopCancels, StopReturns, Leave, handlerVars
  <2>1. CASE StopReturnsNil(a)
    <3>1. UNCHANGED rt /\ ~IsRunning(held[a])
      BY <2>1, Zenon DEF StopReturnsNil
    <3> QED  BY <1>1, <2>0, <3>1, SMTT(30) DEF IsRunning
  <2>2. CASE StopCancels(a)
    <3>1. \A r \in Runtimes : IsRunning(r)' => IsRunning(r)
      <4>1. held[a] \in Runtimes /\ SameFibers(held[a], "stopping") /\ IsRunning(held[a])
        BY <2>2, StopEffects, Zenon DEF StopCancels
      <4> QED  BY <4>1 DEF SameFibers, Effect, IsRunning
    <3> QED  BY <1>1, <2>0, <2>2, <3>1, SMTT(30)
  <2>3. CASE StopReturns(a)
    <3>1. held[a] \in Runtimes /\ SameFibers(held[a], "stopped")
      BY <2>3, StopEffects, Zenon
    <3>2. \A r \in Runtimes : IsRunning(r)' => IsRunning(r) /\ r # held[a]
      BY <3>1 DEF SameFibers, Effect, IsRunning
    <3> QED  BY <1>1, <2>0, <3>1, <3>2, SMTT(30)
  <2> QED  BY <1>5, <2>1, <2>2, <2>3 DEF Stop
<1>6. ASSUME NEW c \in Clients, ResetClears(c) PROVE ReplacedIsStopped'
  <2>1. held[c] \in Runtimes /\ runtime' = runtime /\ pc[c] = "resetClear"
        /\ \A d \in Clients \ {c} : pc'[d] = pc[d] /\ held'[d] = held[d]
    BY <1>0, <1>6, StopEffects, Zenon DEF ResetClears, Answer, Goto
  <2>2. \A r \in Runtimes : IsRunning(r)' => IsRunning(r)
    BY <1>6, <2>1, StopEffects, Zenon DEF Effect, IsRunning
  <2> QED  BY <1>1, <2>1, <2>2, SMTT(30)
<1>7. ASSUME NEW c \in Clients, pc[c] \in InSpawn, \A r \in Runtimes : IsRunning(r)' => IsRunning(r),
             Answer(c, pc[c]) \/ (UNCHANGED held /\ \E to \in InSpawn : Goto(c, pc[c], to)),
             runtime' = runtime
      PROVE  ReplacedIsStopped'
  <2>1. ~Sees(c) /\ \A d \in Clients \ {c} : pc'[d] = pc[d] /\ held'[d] = held[d]
    BY <1>0, <1>7 DEF Answer, Goto, InSpawn
  <2> QED  BY <1>1, <1>7, <2>1, Zenon
<1>8. ASSUME NEW c \in Clients, SpawnCounts(c) \/ SpawnEnters(c) \/ SpawnRecords(c)
      PROVE  ReplacedIsStopped'
  <2>1. runtime' = runtime
    BY <1>8 DEF SpawnCounts, SpawnEnters, SpawnRecords, SpawnSame
  <2>2. pc[c] \in InSpawn /\ held[c] \in Runtimes
    BY <1>8, SpawnEffects, Zenon DEF SpawnCounts, SpawnEnters, SpawnRecords, Answer, Goto, InSpawn
  <2>3. Answer(c, pc[c]) \/ (UNCHANGED held /\ \E to \in InSpawn : Goto(c, pc[c], to))
    BY <1>8 DEF SpawnCounts, SpawnEnters, SpawnRecords, Answer, Goto, InSpawn
  <2>4. CASE UNCHANGED rt
    BY <1>7, <2>1, <2>2, <2>3, <2>4, SMTT(30) DEF IsRunning
  <2>5. CASE rt' # rt
    <3>1. \E fs, un, n : Effect(held[c], fs, un, n, rt[held[c]].life)
      BY <1>8, <2>5, SpawnEffects, Zenon DEF SameFibers
    <3> QED  BY <1>2, <1>7, <2>1, <2>2, <2>3, <3>1, Zenon
  <2> QED  BY <2>4, <2>5
<1>9. ASSUME NEW c \in Clients, SpawnSchedules(c) \/ SpawnCommits(c) PROVE ReplacedIsStopped'
  <2>1. runtime' = runtime /\ pc[c] \in {"schedule", "commit", "rollback"}
    BY <1>9 DEF SpawnSchedules, SpawnCommits, SpawnSame
  <2>2. held[c] \in Runtimes /\ mine[c] \in Fibers
    BY <2>1, SpawnEffects, Zenon DEF InSpawn
  <2>3. Answer(c, pc[c]) \/ (UNCHANGED held /\ \E to \in InSpawn : Goto(c, pc[c], to))
    BY <1>9 DEF SpawnSchedules, SpawnCommits, InSpawn, Answer, Goto
  <2>4. \E fs, un, n : Effect(held[c], fs, un, n, rt[held[c]].life)
    BY <1>9, <2>2, SpawnEffects, WithdrawEffect, Zenon DEF SameFibers
  <2> QED  BY <1>2, <1>7, <2>1, <2>2, <2>3, <2>4, Zenon DEF InSpawn
<1>10. ASSUME NEW c \in Clients, \/ Receive(c) \/ Refused(c) \/ StopCaptures(c)
                                 \/ SpawnCaptures(c) \/ SpawnChecks(c)
       PROVE  ReplacedIsStopped'
  <2>1. /\ ~Sees(c) /\ UNCHANGED <<rt, runtime>>
        /\ \A d \in Clients \ {c} : pc'[d] = pc[d] /\ held'[d] = held[d]
    BY <1>0, <1>10, Zenon DEF Receive, Refused, StopCaptures, SpawnCaptures, SpawnChecks, SpawnSame,
                       Capture, Answer, Goto
  <2> QED  BY <1>1, <2>1, Zenon DEF IsRunning
<1>11. ASSUME NEW r \in Runtimes, StopReaps(r) \/ Dispatch(r) \/ Completes(r) \/ Complete(r)
       PROVE  ReplacedIsStopped'
  <2>1. UNCHANGED <<runtime, pc, held>>
    BY <1>11, Zenon DEF StopReaps, Dispatch, Completes, Complete, Unlinks, Releases, RuntimeSame,
                 handlerVars
  <2>2. \E fs, un, n, l : /\ Effect(r, fs, un, n, l)
                          /\ l = rt[r].life \/ (l = "draining" /\ rt[r].life = "stopping")
    BY <1>11, FiberEffects, Zenon DEF SameFibers, Complete
  <2>3. \A q \in Runtimes : IsRunning(q)' => IsRunning(q)
    BY <2>2 DEF Effect, IsRunning
  <2> QED  BY <1>1, <2>1, <2>3, Zenon
<1>12. CASE Cast \/ CastExits \/ ShutdownBegins \/ HttpDrained \/ ShutdownCaptures
            \/ closeClients \/ ShutdownReturns \/ UNCHANGED vars
  <2>1. UNCHANGED <<rt, runtime>> /\ \A c \in Clients : pc'[c] = pc[c] /\ held'[c] = held[c]
    BY <1>0, <1>12, ControlAssumption, Zenon
    DEF Cast, CastCaptures, CastSnapshots, CastResends, CastDecides, CastBuilds, CastExits,
        CastSame, ShutdownBegins, HttpDrained, ShutdownCaptures, closeClients, ShutdownReturns,
        Goto, handlerVars, vars
  <2> QED  BY <1>1, <2>1, SMTT(30) DEF IsRunning
<1> QED
  BY <1>0, <1>3, <1>4, <1>5, <1>6, <1>8, <1>9, <1>10, <1>11, <1>12, SMTT(30)
  DEF Next, Handler, ShutdownGoesOn

-----------------------------------------------------------------------------
(* The client registry *)

USE DEF Registry!vars, Registry!clientVars, Registry!ServerSame, Registry!ClientsSame

\* The part of the type invariant that does not depend on the slots.
LEMMA RegistryTypeStep ==
  ASSUME Registry!TypeOK, [Registry!Next]_(Registry!vars)
  PROVE  /\ clients' \subseteq Conns /\ closing' \subseteq Conns
         /\ limit' = limit /\ clientCount' <= limit /\ clientCount' \in Int
         /\ (clientCount' >= 0 => Registry!TypeOK')
<1> USE DEF Registry!TypeOK
<1>0. SendBuffer \in Nat \ {0}
  BY ServerAssumption
<1>1. ASSUME NEW c \in Conns, Registry!Accept(c) \/ Registry!Reply(c) \/ Registry!ReadEnds(c)
      PROVE  Registry!TypeOK' /\ UNCHANGED <<limit, clientCount>>
  <2>1. CASE Registry!Accept(c) \/ Registry!ReadEnds(c)
    BY <2>1, Zenon DEF Registry!Accept, Registry!ReadEnds, Registry!Goto
  <2>2. CASE Registry!Reply(c)
    BY <1>0, <2>2 DEF Registry!Reply, Registry!Enqueued
  <2> QED  BY <1>1, <2>1, <2>2
<1>2. ASSUME NEW c \in Conns, Registry!Handler(c)
      PROVE  /\ clients' \subseteq Conns /\ closing' \subseteq Conns
             /\ limit' = limit /\ clientCount' <= limit /\ clientCount' \in Int
             /\ (clientCount' >= 0 => Registry!TypeOK')
  <2>1. CASE Registry!reserveClient(c) \/ Registry!Hijack(c) \/ Registry!UpgradeFails(c)
    BY <2>1 DEF Registry!reserveClient, Registry!Hijack, Registry!UpgradeFails, Registry!Goto
  <2>2. CASE Registry!Register(c) \/ Registry!StartPump(c)
    BY <2>2 DEF Registry!Register, Registry!StartPump, Registry!Goto
  <2>3. CASE Registry!unregister(c)
    BY <2>3 DEF Registry!unregister, Registry!Goto
  <2>4. CASE Registry!unregisterJoins(c)
    BY <2>4 DEF Registry!unregisterJoins, Registry!Goto
  <2> QED  BY <1>2, <2>1, <2>2, <2>3, <2>4 DEF Registry!Handler
<1>3. ASSUME NEW c \in Conns, Registry!PumpWrites(c) \/ Registry!PumpStops(c)
      PROVE  Registry!TypeOK' /\ UNCHANGED <<limit, clientCount>>
  BY <1>0, <1>3 DEF Registry!PumpWrites, Registry!PumpStops, Registry!PumpGoto
<1>4. ASSUME Registry!Broadcast
      PROVE  Registry!TypeOK' /\ UNCHANGED <<limit, clientCount>>
  BY <1>0, <1>4 DEF Registry!Broadcast, Registry!BroadcastBegins, Registry!BroadcastEnds,
     Registry!BroadcastExits, Registry!enqueue, Registry!Enqueued
<1>5. ASSUME Registry!ShutdownBegins \/ Registry!Shutdown
      PROVE  /\ clients' \subseteq Conns /\ closing' \subseteq Conns
             /\ limit' = limit /\ clientCount' <= limit /\ clientCount' \in Int
             /\ (clientCount' >= 0 => Registry!TypeOK')
  <2>1. CASE Registry!HttpCloses \/ Registry!HttpDrained \/ Registry!ShutdownReturns
    BY <2>1 DEF Registry!HttpCloses, Registry!HttpDrained, Registry!ShutdownReturns,
       Registry!Phase
  <2>5. CASE Registry!ShutdownBegins
    BY <2>5 DEF Registry!ShutdownBegins, Registry!Phase
  <2>2. CASE Registry!closeClients
    BY <2>2 DEF Registry!closeClients, Registry!Phase
  <2>3. ASSUME NEW c \in Conns, Registry!closeClient(c)
        PROVE  /\ clients' \subseteq Conns /\ closing' \subseteq Conns
               /\ limit' = limit /\ clientCount' <= limit /\ clientCount' \in Int
               /\ (clientCount' >= 0 => Registry!TypeOK')
    BY <2>3 DEF Registry!closeClient
  <2>4. ASSUME NEW c \in Conns, Registry!closeClientJoins(c)
        PROVE  Registry!TypeOK' /\ UNCHANGED <<limit, clientCount>>
    BY <2>4 DEF Registry!closeClientJoins
  <2> QED  BY <1>5, <2>1, <2>2, <2>3, <2>4, <2>5 DEF Registry!Shutdown
<1>6. CASE UNCHANGED Registry!vars
  BY <1>6
<1> QED  BY <1>1, <1>2, <1>3, <1>4, <1>5, <1>6 DEF Registry!Next

\* Every step of the registry keeps its phases and leaves nothing behind.
LEMMA RegistryPhasesStep ==
  ASSUME Registry!TypeOK, Registry!RegistryPhases, Registry!HandlerLeavesNothing,
         [Registry!Next]_(Registry!vars)
  PROVE  Registry!RegistryPhases' /\ Registry!HandlerLeavesNothing'
<1> USE DEF Registry!TypeOK, Registry!RegistryPhases, Registry!HandlerLeavesNothing
<1>1. ASSUME NEW c \in Conns, Registry!Accept(c) \/ Registry!Reply(c) \/ Registry!ReadEnds(c)
      PROVE  Registry!RegistryPhases' /\ Registry!HandlerLeavesNothing'
  BY <1>1 DEF Registry!Accept, Registry!Reply, Registry!ReadEnds, Registry!Goto
<1>2. ASSUME NEW c \in Conns, Registry!Handler(c)
      PROVE  Registry!RegistryPhases' /\ Registry!HandlerLeavesNothing'
  <2>1. CASE Registry!reserveClient(c) \/ Registry!Hijack(c) \/ Registry!UpgradeFails(c)
    BY <2>1 DEF Registry!reserveClient, Registry!Hijack, Registry!UpgradeFails, Registry!Goto
  <2>2. CASE Registry!Register(c) \/ Registry!StartPump(c)
    BY <2>2 DEF Registry!Register, Registry!StartPump, Registry!Goto
  <2>3. CASE Registry!unregister(c) \/ Registry!unregisterJoins(c)
    BY <2>3 DEF Registry!unregister, Registry!unregisterJoins, Registry!Goto
  <2> QED  BY <1>2, <2>1, <2>2, <2>3 DEF Registry!Handler
<1>3. ASSUME NEW c \in Conns, Registry!PumpWrites(c) \/ Registry!PumpStops(c)
      PROVE  Registry!RegistryPhases' /\ Registry!HandlerLeavesNothing'
  BY <1>3 DEF Registry!PumpWrites, Registry!PumpStops, Registry!PumpGoto
<1>4. ASSUME Registry!Broadcast
      PROVE  Registry!RegistryPhases' /\ Registry!HandlerLeavesNothing'
  BY <1>4 DEF Registry!Broadcast, Registry!BroadcastBegins, Registry!BroadcastEnds,
     Registry!BroadcastExits, Registry!enqueue
<1>5. ASSUME Registry!ShutdownBegins \/ Registry!Shutdown
      PROVE  Registry!RegistryPhases' /\ Registry!HandlerLeavesNothing'
  <2>1. CASE Registry!ShutdownBegins \/ Registry!HttpCloses \/ Registry!HttpDrained
             \/ Registry!ShutdownReturns \/ Registry!closeClients
    BY <2>1 DEF Registry!ShutdownBegins, Registry!HttpCloses, Registry!HttpDrained,
       Registry!ShutdownReturns, Registry!closeClients, Registry!Phase
  <2>2. CASE \E c \in Conns : Registry!closeClient(c) \/ Registry!closeClientJoins(c)
    BY <2>2 DEF Registry!closeClient, Registry!closeClientJoins
  <2> QED  BY <1>5, <2>1, <2>2 DEF Registry!Shutdown
<1>6. CASE UNCHANGED Registry!vars
  BY <1>6
<1> QED  BY <1>1, <1>2, <1>3, <1>4, <1>5, <1>6, Zenon DEF Registry!Next

-----------------------------------------------------------------------------
(* The counters of the runtimes *)

INSTANCE FiniteSetTheorems

\* The counts owed are finitely many.
LEMMA OwedFinite ==
  ASSUME NEW r \in Runtimes
  PROVE  /\ Owed(r) \subseteq Fibers /\ IsFiniteSet(Owed(r)) /\ Cardinality(Owed(r)) \in Nat
         /\ Owed(r)' \subseteq Fibers /\ IsFiniteSet(Owed(r)')
         /\ Cardinality(Owed(r)') \in Nat
<1>1. Owed(r) \subseteq Fibers /\ Owed(r)' \subseteq Fibers
  BY DEF Owed
<1> QED  BY <1>1, ControlAssumption, FS_Subset, FS_CardinalityType

\* How many counts there may be after some were taken or given back.
LEMMA Counting ==
  ASSUME NEW O, IsFiniteSet(O), NEW P, NEW n \in Nat, Cardinality(O) <= n
  PROVE  /\ P \subseteq O => Cardinality(P) <= n
         /\ \A f : P \subseteq O \cup {f} => Cardinality(P) <= n + 1
         /\ \A f \in O : n > 0 /\ (P \subseteq O \ {f} => Cardinality(P) <= n - 1)
         /\ \A D : D \subseteq O => /\ Cardinality(D) <= n /\ Cardinality(D) \in Nat
                                    /\ P = O \ D => Cardinality(P) <= n - Cardinality(D)
<1>0. Cardinality(O) \in Nat
  BY FS_CardinalityType
<1>1. P \subseteq O => Cardinality(P) <= n
  BY <1>0, FS_Subset, FS_CardinalityType
<1>2. ASSUME NEW f, P \subseteq O \cup {f} PROVE Cardinality(P) <= n + 1
  <2>1. IsFiniteSet(O \cup {f}) /\ Cardinality(O \cup {f}) <= Cardinality(O) + 1
    <3>1. CASE f \in O
      <4>1. O \cup {f} = O
        BY <3>1
      <4> QED  BY <1>0, <4>1
    <3>2. CASE f \notin O
      BY <1>0, <3>2, FS_AddElement
    <3> QED  BY <3>1, <3>2
  <2>2. Cardinality(P) <= Cardinality(O \cup {f}) /\ Cardinality(P) \in Nat
    BY <1>2, <2>1, FS_Subset, FS_CardinalityType
  <2> QED  BY <1>0, <2>1, <2>2, FS_CardinalityType
<1>3. ASSUME NEW f \in O PROVE n > 0 /\ (P \subseteq O \ {f} => Cardinality(P) <= n - 1)
  <2>1. IsFiniteSet(O \ {f}) /\ Cardinality(O \ {f}) = Cardinality(O) - 1
    BY FS_RemoveElement
  <2>2. Cardinality(O \ {f}) \in Nat
    BY <2>1, FS_CardinalityType
  <2>3. P \subseteq O \ {f} => Cardinality(P) <= Cardinality(O \ {f}) /\ Cardinality(P) \in Nat
    BY <2>1, FS_Subset, FS_CardinalityType
  <2> QED  BY <1>0, <2>1, <2>2, <2>3
<1>4. ASSUME NEW D, D \subseteq O
      PROVE  /\ Cardinality(D) <= n /\ Cardinality(D) \in Nat
             /\ P = O \ D => Cardinality(P) <= n - Cardinality(D)
  <2>1. IsFiniteSet(D) /\ Cardinality(D) <= Cardinality(O) /\ Cardinality(D) \in Nat
    BY <1>4, FS_Subset, FS_CardinalityType
  <2>2. O \cap D = D
    BY <1>4
  <2>3. Cardinality(O \ D) = Cardinality(O) - Cardinality(O \cap D)
    BY FS_Difference
  <2> QED  BY <1>0, <2>1, <2>2, <2>3
<1> QED  BY <1>1, <1>2, <1>3, <1>4

\* A count that is owed has been taken.
LEMMA OwedCounted ==
  ASSUME TypeOK, CountsOwed
  PROVE  Covered
<1> SUFFICES ASSUME NEW r \in Runtimes
    PROVE  /\ \A f \in Owed(r) : rt[r].count - 1 \in Nat
           /\ \A D \in SUBSET Owed(r) : rt[r].count - Cardinality(D) \in Nat
  BY Zenon DEF Covered
<1>1. rt[r].count \in Nat /\ Cardinality(Owed(r)) <= rt[r].count
  BY DEF TypeOK, RuntimeState, CountsOwed
<1>2. IsFiniteSet(Owed(r))
  BY OwedFinite
<1> QED  BY <1>1, <1>2, Counting, SMTT(30)

\* If a step touches one runtime only, starts no Spawn but with a new fiber, and
\* has no handler count a fiber elsewhere, the counts are settled there.
LEMMA CountsElsewhere ==
  ASSUME TypeOK, CountsOwed, NEW r \in Runtimes,
         \A q \in Runtimes \ {r} : rt'[q] = rt[q],
         spawned \subseteq spawned',
         \A a \in Actors : pc'[a] \in {"admit", "full", "enter"} =>
           \/ pc[a] \in {"admit", "full", "enter"} /\ mine'[a] = mine[a]
           \/ mine'[a] \notin spawned,
         \A a \in Actors : pc'[a] \in {"full", "enter"} /\ held'[a] # r =>
           /\ pc[a] \in {"full", "enter"}
           /\ held'[a] = held[a] /\ mine'[a] = mine[a],
         Known(r)' \subseteq spawned', rt'[r].fibers \cap rt'[r].unlinked = {},
         \A a \in Actors : pc'[a] \in {"admit", "full", "enter"} => mine'[a] \notin Known(r)',
         Cardinality(Owed(r)') <= rt'[r].count
  PROVE  CountsOwed'
<1>1. ASSUME NEW q \in Runtimes \ {r}
      PROVE  /\ Known(q)' \subseteq spawned' /\ rt'[q].fibers \cap rt'[q].unlinked = {}
             /\ \A a \in Actors :
                  pc'[a] \in {"admit", "full", "enter"} => mine'[a] \notin Known(q)'
             /\ Cardinality(Owed(q)') <= rt'[q].count
  <2>0. rt'[q] = rt[q]
    OBVIOUS
  <2>1. Known(q)' = Known(q)
    BY <2>0, SMTT(30) DEF Known
  <2>2. /\ Known(q) \subseteq spawned /\ rt[q].fibers \cap rt[q].unlinked = {}
        /\ \A a \in Actors : pc[a] \in {"admit", "full", "enter"} => mine[a] \notin Known(q)
        /\ Cardinality(Owed(q)) <= rt[q].count
    BY Zenon DEF CountsOwed
  <2>3. Owed(q)' \subseteq Owed(q)
    BY <2>1, Zenon DEF Owed
  <2>4. rt[q].count \in Nat
    BY Zenon DEF TypeOK, RuntimeState
  <2>5. Cardinality(Owed(q)') <= rt[q].count
    BY <2>2, <2>3, <2>4, OwedFinite, Counting, Zenon
  <2> QED  BY <2>0, <2>1, <2>2, <2>5, Zenon
<1> QED  BY <1>1, Zenon DEF CountsOwed

\* Every step that takes or gives back no count, and changes no rt.fibers, keeps
\* the counts owed.
LEMMA CountsQuiet ==
  ASSUME TypeOK, CountsOwed,
         \A q \in Runtimes : /\ rt'[q].fibers = rt[q].fibers
                             /\ rt'[q].unlinked = rt[q].unlinked /\ rt'[q].count = rt[q].count,
         spawned \subseteq spawned',
         \A a \in Actors :
           /\ pc'[a] \in {"admit", "full", "enter"} =>
                \/ pc[a] \in {"admit", "full", "enter"} /\ mine'[a] = mine[a]
                \/ mine'[a] \notin spawned
           /\ pc'[a] \in {"full", "enter"} =>
                /\ pc[a] \in {"full", "enter"}
                /\ held'[a] = held[a] /\ mine'[a] = mine[a]
  PROVE  CountsOwed'
<1>1. ASSUME NEW q \in Runtimes
      PROVE  /\ Known(q)' \subseteq spawned' /\ rt'[q].fibers \cap rt'[q].unlinked = {}
             /\ \A a \in Actors :
                  pc'[a] \in {"admit", "full", "enter"} => mine'[a] \notin Known(q)'
             /\ Cardinality(Owed(q)') <= rt'[q].count
  <2>1. Known(q)' = Known(q)
    BY Zenon DEF Known
  <2>2. /\ Known(q) \subseteq spawned /\ rt[q].fibers \cap rt[q].unlinked = {}
        /\ \A a \in Actors : pc[a] \in {"admit", "full", "enter"} => mine[a] \notin Known(q)
        /\ Cardinality(Owed(q)) <= rt[q].count
    BY Zenon DEF CountsOwed
  <2>3. Owed(q)' \subseteq Owed(q)
    BY <2>1, Zenon DEF Owed
  <2>4. rt[q].count \in Nat
    BY Zenon DEF TypeOK, RuntimeState
  <2>5. Cardinality(Owed(q)') <= rt[q].count
    BY <2>2, <2>3, <2>4, OwedFinite, Counting, Zenon
  <2> QED  BY <2>1, <2>2, <2>5, Zenon
<1> QED  BY <1>1, Zenon DEF CountsOwed

\* Every step keeps the counts owed: complete, the reap, Spawn's rollback and its
\* refusal at the cap each give back a count that is there.
LEMMA CountsStep ==
  ASSUME TypeOK, Captures, CountsOwed, [Next]_vars
  PROVE  CountsOwed'
<1>a. Covered
  BY OwedCounted
<1> USE <1>a
<1>0. PICK P : /\ pc \in [Actors -> P] /\ held \in [Actors -> Runtimes \cup {NoRuntime}]
               /\ mine \in [Actors -> Fibers \cup {NoFiber}] /\ spawned \subseteq Fibers
               /\ Clients \subseteq Actors /\ Shutdowner \in Actors
  BY Zenon DEF TypeOK, Actors
<1>1. \A r \in Runtimes :
        /\ Known(r) \subseteq spawned /\ rt[r].fibers \cap rt[r].unlinked = {}
        /\ \A a \in Actors : pc[a] \in {"admit", "full", "enter"} => mine[a] \notin Known(r)
        /\ Cardinality(Owed(r)) <= rt[r].count /\ rt[r].count \in Nat
        /\ IsFiniteSet(Owed(r)) /\ Known(r) \subseteq Fibers
  BY OwedFinite, Zenon DEF CountsOwed, TypeOK, RuntimeState, Known
<1>2. ASSUME NEW r \in Runtimes, NEW l, SameFibers(r, l)
      PROVE  \A q \in Runtimes : /\ rt'[q].fibers = rt[q].fibers
                                 /\ rt'[q].unlinked = rt[q].unlinked
                                 /\ rt'[q].count = rt[q].count
  BY <1>2 DEF SameFibers, Effect
<1>3. ASSUME NEW c \in Clients, Receive(c) \/ Refused(c) \/ InitSwaps(c) \/ StopCaptures(c)
      PROVE  CountsOwed'
  BY <1>0, <1>3, CountsQuiet, Zenon
  DEF Receive, Refused, InitSwaps, StopCaptures, Capture, Answer, Goto
<1>4. ASSUME NEW c \in Clients, SpawnCaptures(c) PROVE CountsOwed'
  <2>1. PICK f \in Fibers \ spawned : /\ spawned' = spawned \cup {f}
                                      /\ mine' = [mine EXCEPT ![c] = f]
    BY <1>0, <1>4, Zenon DEF SpawnCaptures
  <2> QED  BY <1>0, <1>4, <2>1, CountsQuiet, Zenon DEF SpawnCaptures, Capture, Goto
<1>5. ASSUME NEW c \in Clients, SpawnChecks(c) PROVE CountsOwed'
  BY <1>0, <1>5, CountsQuiet, Zenon DEF SpawnChecks, Goto
<1>6. ASSUME NEW c \in Clients, InitStarts(c) PROVE CountsOwed'
  <2>1. PICK r \in Runtimes : SameFibers(r, "running") /\ held' = [held EXCEPT ![c] = r]
    BY <1>6, StopEffects, Zenon
  <2> QED  BY <1>0, <1>2, <1>6, <2>1, CountsQuiet, Zenon DEF InitStarts, Goto
<1>7. ASSUME NEW a \in Actors, Stop(a) PROVE CountsOwed'
  <2>1. CASE StopReturnsNil(a)
    BY <1>0, <2>1, StopGoesOn, CountsQuiet, Zenon DEF StopReturnsNil, Leave
  <2>2. CASE StopCancels(a)
    BY <1>0, <1>2, <2>2, StopEffects, CountsQuiet DEF StopCancels
  <2>3. CASE StopReturns(a)
    BY <1>0, <1>2, <2>3, StopGoesOn, StopEffects, CountsQuiet, Zenon DEF StopReturns, Leave
  <2> QED  BY <1>7, <2>1, <2>2, <2>3 DEF Stop
<1>8. ASSUME NEW c \in Clients, SpawnRecords(c) PROVE CountsOwed'
  <2>1. held[c] \in Runtimes
    BY <1>8, SpawnEffects, Zenon DEF SpawnRecords, Answer, Goto, InSpawn
  <2> QED  BY <1>0, <1>2, <1>8, <2>1, SpawnEffects, CountsQuiet, Zenon DEF SpawnRecords, Answer, Goto
<1>9. ASSUME NEW r \in Runtimes, Dispatch(r) \/ Completes(r) PROVE CountsOwed'
  BY <1>2, <1>9, FiberEffects, CountsQuiet, Zenon DEF Dispatch, Completes
<1>10. CASE Cast \/ CastExits
  BY <1>10, CountsQuiet, Zenon DEF Cast, CastExits, CastCaptures, CastSnapshots, CastResends,
     CastDecides, CastBuilds
<1>11. CASE \/ ShutdownBegins \/ HttpDrained \/ ShutdownCaptures \/ closeClients
            \/ ShutdownReturns
  BY <1>0, <1>11, CountsQuiet, Zenon DEF ShutdownBegins, HttpDrained, ShutdownCaptures, closeClients,
     ShutdownReturns, Goto
<1>12. CASE UNCHANGED vars
  BY <1>12, CountsQuiet, Zenon
<1>13. ASSUME NEW c \in Clients, pc[c] \in InSpawn, Answer(c, pc[c]), UNCHANGED spawned,
              Withdraw(held[c], mine[c]), pc[c] \notin {"admit", "full", "enter"}
       PROVE  CountsOwed'
  <2>1. PICK r \in Runtimes, f \in Fibers : r = held[c] /\ f = mine[c]
    BY <1>13, SpawnEffects, Zenon
  <2>2. Effect(r, rt[r].fibers \ {f}, rt[r].unlinked,
               IF f \in rt[r].fibers THEN rt[r].count - 1 ELSE rt[r].count, rt[r].life)
    BY <1>13, <2>1, WithdrawEffect, Zenon
  <2>3. /\ \A a \in Actors \ {c} : pc'[a] = pc[a] /\ held'[a] = held[a] /\ mine'[a] = mine[a]
        /\ pc'[c] = "idle"
    BY <1>0, <1>13, Zenon DEF Answer, Goto
  <2>4. \A a \in Actors \ {c} : mine[a] # f
    BY <1>0, <2>1 DEF Captures
  <2>5. CASE f \in rt[r].fibers
    <3>1. f \in Owed(r)
      BY <2>5, Zenon DEF Owed, Known
    <3>2. Known(r)' = Known(r) \ {f}
      BY <1>1, <2>2, <2>5, Zenon DEF Effect, Known
    <3>3. Owed(r)' \subseteq Owed(r) \ {f}
      BY <2>3, <2>4, <3>2, Zenon DEF Owed
    <3>4. Cardinality(Owed(r)') <= rt[r].count - 1
      BY <1>1, <3>1, <3>3, Counting, Zenon
    <3>5. /\ \A q \in Runtimes \ {r} : rt'[q] = rt[q]
          /\ rt'[r].fibers \cap rt'[r].unlinked = {} /\ rt'[r].count = rt[r].count - 1
      BY <1>1, <2>2, <2>5, Zenon DEF Effect
    <3> QED  BY <1>1, <1>13, <2>3, <3>2, <3>4, <3>5, CountsElsewhere, Zenon
  <2>6. CASE f \notin rt[r].fibers
    <3>1. Known(r)' = Known(r)
      BY <2>2, <2>6, Zenon DEF Effect, Known
    <3>2. Owed(r)' \subseteq Owed(r)
      BY <2>3, <3>1, Zenon DEF Owed
    <3>3. Cardinality(Owed(r)') <= rt[r].count
      BY <1>1, <3>2, Counting, Zenon
    <3>4. /\ \A q \in Runtimes \ {r} : rt'[q] = rt[q]
          /\ rt'[r].fibers \cap rt'[r].unlinked = {} /\ rt'[r].count = rt[r].count
      BY <1>1, <2>2, <2>6, Zenon DEF Effect
    <3> QED  BY <1>1, <1>13, <2>3, <3>1, <3>3, <3>4, CountsElsewhere, Zenon
  <2> QED  BY <2>5, <2>6, Zenon
<1>14. ASSUME NEW c \in Clients, SpawnCounts(c) PROVE CountsOwed'
  <2>1. CASE Answer(c, "admit") /\ UNCHANGED rt
    BY <1>0, <1>14, <2>1, CountsQuiet DEF SpawnCounts, Answer, Goto
  <2>2. CASE /\ \E to \in {"full", "enter"} : Goto(c, "admit", to)
             /\ UNCHANGED <<held, mine>>
             /\ Effect(held[c], rt[held[c]].fibers, rt[held[c]].unlinked,
                       rt[held[c]].count + 1, rt[held[c]].life)
    <3>1. PICK r \in Runtimes : r = held[c]
      BY <1>14, SpawnEffects, Zenon DEF SpawnCounts, InSpawn
    <3>2. Known(r)' = Known(r)
      BY <2>2, <3>1, Zenon DEF Effect, Known
    <3>3. /\ pc[c] = "admit" /\ \A a \in Actors \ {c} : pc'[a] = pc[a]
          /\ UNCHANGED <<held, mine, spawned>>
      BY <1>0, <1>14, <2>2 DEF Goto, SpawnCounts
    <3>4. Owed(r)' \subseteq Owed(r) \cup {mine[c]}
      BY <3>2, <3>3, Zenon DEF Owed
    <3>5. Cardinality(Owed(r)') <= rt[r].count + 1
      BY <1>1, <3>4, Counting, Zenon
    <3>6. /\ \A q \in Runtimes \ {r} : rt'[q] = rt[q]
          /\ rt'[r].fibers \cap rt'[r].unlinked = {} /\ rt'[r].count = rt[r].count + 1
      BY <1>1, <2>2, <3>1, Zenon DEF Effect
    <3>7. /\ \A a \in Actors : pc'[a] \in {"admit", "full", "enter"} =>
               pc[a] \in {"admit", "full", "enter"} /\ mine'[a] = mine[a]
          /\ \A a \in Actors : pc'[a] \in {"full", "enter"} /\ held'[a] # r =>
               pc[a] \in {"full", "enter"} /\ held'[a] = held[a] /\ mine'[a] = mine[a]
      BY <3>1, <3>3, Zenon
    <3>8. /\ Known(r)' \subseteq spawned' /\ spawned \subseteq spawned'
          /\ \A a \in Actors : pc'[a] \in {"admit", "full", "enter"} => mine'[a] \notin Known(r)'
          /\ Cardinality(Owed(r)') <= rt'[r].count
      BY <1>1, <3>2, <3>3, <3>5, <3>6, <3>7, Zenon
    <3> QED  BY <1>1, <3>6, <3>7, <3>8, CountsElsewhere, Zenon
  <2> QED  BY <1>14, <2>1, <2>2, SpawnEffects, Zenon
<1>15. ASSUME NEW c \in Clients, SpawnEnters(c) PROVE CountsOwed'
  <2>1. UNCHANGED spawned
    BY <1>15 DEF SpawnEnters
  <2>2. pc[c] \in {"full", "enter"}
    BY <1>15 DEF SpawnEnters, Answer, Goto
  <2>3. PICK r \in Runtimes, f \in Fibers : r = held[c] /\ f = mine[c]
    BY <2>2, SpawnEffects, Zenon DEF InSpawn
  <2>4. f \in Owed(r) /\ f \notin Known(r) /\ f \in spawned
    BY <1>0, <1>1, <2>2, <2>3, Zenon DEF Owed, Captures
  <2>5. \A a \in Actors \ {c} : mine[a] # f
    BY <1>0, <2>3 DEF Captures
  <2>6. CASE /\ Answer(c, "full")
             /\ Effect(held[c], rt[held[c]].fibers, rt[held[c]].unlinked,
                       rt[held[c]].count - 1, rt[held[c]].life)
    <3>1. Known(r)' = Known(r)
      BY <2>3, <2>6, Zenon DEF Effect, Known
    <3>2. /\ pc'[c] = "idle" /\ \A a \in Actors \ {c} :
               pc'[a] = pc[a] /\ held'[a] = held[a] /\ mine'[a] = mine[a]
      BY <1>0, <2>6, Zenon DEF Answer, Goto
    <3>3. Owed(r)' \subseteq Owed(r) \ {f}
      BY <2>4, <2>5, <3>1, <3>2, Zenon DEF Owed
    <3>4. Cardinality(Owed(r)') <= rt[r].count - 1
      BY <1>1, <2>4, <3>3, Counting, Zenon
    <3> QED  BY <1>1, <2>1, <2>3, <2>6, <3>1, <3>2, <3>4, CountsElsewhere, Zenon DEF Effect
  <2>7. CASE /\ Goto(c, "enter", "schedule") /\ UNCHANGED <<held, mine>>
             /\ Effect(held[c], rt[held[c]].fibers \cup {mine[c]}, rt[held[c]].unlinked,
                       rt[held[c]].count, rt[held[c]].life)
    <3>1. Known(r)' = Known(r) \cup {f}
      BY <2>3, <2>7, Zenon DEF Effect, Known
    <3>2. /\ pc'[c] = "schedule" /\ \A a \in Actors \ {c} :
               pc'[a] = pc[a] /\ held'[a] = held[a] /\ mine'[a] = mine[a]
      BY <1>0, <2>7, Zenon DEF Goto
    <3>3. Owed(r)' \subseteq Owed(r)
      BY <2>4, <3>1, <3>2, Zenon DEF Owed
    <3>4. Cardinality(Owed(r)') <= rt[r].count
      BY <1>1, <3>3, Counting, Zenon
    <3>5. rt'[r].fibers \cap rt'[r].unlinked = {}
      <4>1. rt'[r].fibers = rt[r].fibers \cup {f} /\ rt'[r].unlinked = rt[r].unlinked
        BY <2>3, <2>7, Zenon DEF Effect
      <4>2. f \notin rt[r].unlinked
        BY <2>4, Zenon DEF Known
      <4> QED  BY <1>1, <4>1, <4>2, Zenon
    <3>6. (\A q \in Runtimes \ {r} : rt'[q] = rt[q]) /\ rt'[r].count = rt[r].count
      BY <2>3, <2>7, Zenon DEF Effect
    <3>7. \A a \in Actors : pc'[a] \in {"admit", "full", "enter"} => mine'[a] \notin Known(r)'
      BY <1>1, <2>5, <3>1, <3>2, Zenon
    <3>8. Known(r)' \subseteq spawned'
      BY <1>1, <2>1, <2>4, <3>1, Zenon
    <3> QED  BY <2>1, <2>2, <2>3, <3>2, <3>4, <3>5, <3>6, <3>7, <3>8, CountsElsewhere, Zenon
  <2> QED  BY <1>15, <2>6, <2>7, SpawnEffects, Zenon
<1>16. ASSUME NEW c \in Clients, SpawnSchedules(c) \/ SpawnCommits(c) PROVE CountsOwed'
  <2>1. UNCHANGED spawned /\ pc[c] \in {"schedule", "commit", "rollback"}
    BY <1>16 DEF SpawnSchedules, SpawnCommits
  <2>2. CASE Answer(c, pc[c]) /\ Withdraw(held[c], mine[c])
    BY <1>13, <2>1, <2>2, Zenon DEF InSpawn
  <2>3. CASE /\ Goto(c, "schedule", "check") \/ Goto(c, "commit", "record")
             /\ UNCHANGED <<held, mine>> /\ SameFibers(held[c], rt[held[c]].life)
    <3>1. held[c] \in Runtimes
      BY <2>1, SpawnEffects, Zenon DEF InSpawn
    <3> QED  BY <1>0, <1>2, <2>1, <2>3, <3>1, CountsQuiet, Zenon DEF Goto
  <2>4. SpawnSchedules(c) => pc[c] = "schedule"
    BY DEF SpawnSchedules
  <2> QED  BY <1>16, <2>2, <2>3, <2>4, SpawnEffects, Zenon
<1>17. ASSUME NEW c \in Clients, ResetClears(c) PROVE CountsOwed'
  <2>1. PICK r \in Runtimes : Effect(r, {}, rt[r].unlinked, rt[r].count, "reset")
    BY <1>17, StopEffects, Zenon
  <2>2. /\ pc'[c] = "idle" /\ UNCHANGED spawned /\ \A a \in Actors \ {c} :
             pc'[a] = pc[a] /\ held'[a] = held[a] /\ mine'[a] = mine[a]
    BY <1>0, <1>17 DEF ResetClears, Answer, Goto
  <2>3. Known(r)' \subseteq Known(r)
    BY <2>1, Zenon DEF Effect, Known
  <2>4. Owed(r)' \subseteq Owed(r)
    BY <2>2, <2>3, Zenon DEF Owed
  <2>5. Cardinality(Owed(r)') <= rt[r].count
    BY <1>1, <2>4, Counting, Zenon
  <2> QED  BY <1>1, <2>1, <2>2, <2>3, <2>5, CountsElsewhere, Zenon DEF Effect
<1>18. ASSUME NEW r \in Runtimes, StopReaps(r) \/ Complete(r) PROVE CountsOwed'
  <2>1. UNCHANGED <<pc, held, mine, spawned>>
    BY <1>18, Zenon DEF StopReaps, Complete, Unlinks, Releases
  <2>2. CASE StopReaps(r)
    <3>1. PICK pending \in SUBSET (rt[r].fibers \cap Fibers) :
            Effect(r, rt[r].fibers \ pending, rt[r].unlinked,
                   rt[r].count - Cardinality(pending), "draining")
      BY <2>2, FiberEffects, Zenon
    <3>2. Known(r)' = Known(r) \ pending /\ pending \subseteq Known(r)
      BY <1>1, <3>1, Zenon DEF Effect, Known
    <3>3. Owed(r)' = Owed(r) \ pending /\ pending \subseteq Owed(r)
      BY <1>1, <2>1, <3>2, Zenon DEF Owed
    <3>4. Cardinality(Owed(r)') <= rt[r].count - Cardinality(pending)
      BY <1>1, <3>3, Counting, Zenon
    <3>5. /\ \A q \in Runtimes \ {r} : rt'[q] = rt[q]
          /\ rt'[r].fibers \cap rt'[r].unlinked = {}
          /\ rt'[r].count = rt[r].count - Cardinality(pending)
      BY <1>1, <3>1, Zenon DEF Effect
    <3> QED  BY <1>1, <2>1, <3>2, <3>4, <3>5, CountsElsewhere, Zenon
  <2>3. CASE Unlinks(r)
    <3>1. PICK f \in Fibers :
            Effect(r, rt[r].fibers \ {f}, rt[r].unlinked \cup (rt[r].fibers \cap {f}),
                   rt[r].count, rt[r].life)
      BY <2>3, FiberEffects, Zenon
    <3>2. Known(r)' = Known(r)
      BY <3>1, Zenon DEF Effect, Known
    <3>3. Owed(r)' = Owed(r)
      BY <2>1, <3>2, Zenon DEF Owed
    <3>4. /\ \A q \in Runtimes \ {r} : rt'[q] = rt[q]
          /\ rt'[r].fibers \cap rt'[r].unlinked = {} /\ rt'[r].count = rt[r].count
      BY <1>1, <3>1, Zenon DEF Effect
    <3> QED  BY <1>1, <2>1, <3>2, <3>3, <3>4, CountsElsewhere, Zenon
  <2>4. CASE Releases(r)
    <3>1. PICK f \in rt[r].unlinked :
            Effect(r, rt[r].fibers, rt[r].unlinked \ {f}, rt[r].count - 1, rt[r].life)
      BY <2>4, FiberEffects, Zenon
    <3>2. Known(r)' = Known(r) \ {f} /\ f \in Known(r)
      BY <1>1, <3>1, Zenon DEF Effect, Known
    <3>3. Owed(r)' = Owed(r) \ {f} /\ f \in Owed(r)
      <4>1. f \in Fibers /\ \A a \in Actors : pc[a] \in {"full", "enter"} => mine[a] # f
        BY <1>1, <3>2, Zenon
      <4> QED  BY <2>1, <3>2, <4>1, Zenon DEF Owed
    <3>4. Cardinality(Owed(r)') <= rt[r].count - 1
      BY <1>1, <3>3, Counting, Zenon
    <3>5. /\ \A q \in Runtimes \ {r} : rt'[q] = rt[q]
          /\ rt'[r].fibers \cap rt'[r].unlinked = {} /\ rt'[r].count = rt[r].count - 1
      BY <1>1, <3>1, Zenon DEF Effect
    <3> QED  BY <1>1, <2>1, <3>2, <3>4, <3>5, CountsElsewhere, Zenon
  <2> QED  BY <1>18, <2>2, <2>3, <2>4 DEF Complete
<1> QED
  BY <1>0, <1>3, <1>4, <1>5, <1>6, <1>7, <1>8, <1>9, <1>10, <1>11, <1>12, <1>14, <1>15, <1>16,
     <1>17, <1>18, Zenon
  DEF Next, Handler, ShutdownGoesOn

\* The inductive invariant of the control plane.
ControlInv == TypeOK /\ Captures /\ CountsOwed /\ ReplacedIsStopped

\* NewServer owes no count and runs no runtime.
LEMMA ControlInit ==
  Init => ControlInv
<1> SUFFICES ASSUME Init PROVE ControlInv
  OBVIOUS
<1>1. \A r \in Runtimes : Made(r, "new") \in RuntimeState /\ Made(r, "unmade") \in RuntimeState
  BY Zenon DEF Made, RuntimeState
<1>2. rt \in [Runtimes -> RuntimeState]
  BY <1>1 DEF Init
<1>3. TypeOK
  BY <1>2, ControlAssumption, Zenon DEF Init, TypeOK
<1>4. Captures
  BY ControlAssumption, Zenon DEF Init, Captures, Captured, InSpawn, Stopping
<1>5. \A r \in Runtimes : /\ rt[r].fibers = {r} /\ rt[r].unlinked = {} /\ rt[r].count = 0
                          /\ rt[r].life \in {"new", "unmade"}
  BY Zenon DEF Init, Made
<1>6. \A r \in Runtimes : Known(r) = {}
  BY <1>5, ControlAssumption, SMTT(30) DEF Known
<1>7. \A r \in Runtimes : Owed(r) = {}
  BY <1>6, SMTT(30) DEF Owed, Init
<1>8. CountsOwed
  <2>1. Cardinality({}) = 0
    BY FS_EmptySet, Zenon
  <2>2. \A r \in Runtimes : Cardinality(Owed(r)) <= rt[r].count
    BY <1>5, <1>7, <2>1
  <2>3. \A r \in Runtimes : /\ Known(r) \subseteq spawned
                            /\ rt[r].fibers \cap rt[r].unlinked = {}
                            /\ \A a \in Actors : mine[a] \notin Known(r)
    BY <1>5, <1>6, Zenon
  <2> QED  BY <2>2, <2>3, Zenon DEF CountsOwed
<1>9. ReplacedIsStopped
  BY <1>5, Zenon DEF ReplacedIsStopped, IsRunning
<1> QED  BY <1>3, <1>4, <1>8, <1>9 DEF ControlInv

\* Every step of the control plane keeps it.
LEMMA ControlStep ==
  ControlInv /\ [Next]_vars => ControlInv'
BY OwedCounted, TypeStep, CapturesStep, CountsStep, ReplacedStep, Zenon DEF ControlInv

\* However the commands of any number of clients race with each other, with the
\* broadcaster and with Shutdown: activeFiberCount and the other counters of a
\* runtime never go below zero, because every count that is given back was taken,
\* and a runtime that runs is s.runtime or about to be put in place or stopped.
THEOREM ControlInvariance == Spec => []ControlInv
BY ControlInit, ControlStep, PTL DEF Spec

\* handleInit leaves no runtime running that nobody can stop.
THEOREM NoRuntimeIsLost == Spec => []ReplacedIsStopped
<1>1. ControlInv => ReplacedIsStopped
  BY DEF ControlInv
<1> QED  BY <1>1, ControlInvariance, PTL

-----------------------------------------------------------------------------
(* The slots of the registry *)

\* The connections whose handler holds a slot itself.
Upgrading == {c \in Conns : handler[c] \in {"reserved", "hijacked"}}

\* The sets SlotsOwned counts are finite, before and after a step.
LEMMA RegistryFinite ==
  ASSUME clients \subseteq Conns, closing \subseteq Conns,
         clients' \subseteq Conns, closing' \subseteq Conns
  PROVE  /\ IsFiniteSet(clients) /\ IsFiniteSet(closing) /\ IsFiniteSet(Upgrading)
         /\ Cardinality(clients) \in Nat /\ Cardinality(closing) \in Nat
         /\ Cardinality(Upgrading) \in Nat
         /\ IsFiniteSet(clients') /\ IsFiniteSet(closing') /\ IsFiniteSet(Upgrading')
         /\ Cardinality(clients') \in Nat /\ Cardinality(closing') \in Nat
         /\ Cardinality(Upgrading') \in Nat
<1>1. Upgrading \subseteq Conns /\ Upgrading' \subseteq Conns
  BY Zenon DEF Upgrading
<1> QED  BY <1>1, ServerAssumption, FS_Subset, FS_CardinalityType, Zenon

\* What SlotsOwned says, and that its right-hand side stays a sum of naturals.
LEMMA SlotsAbout ==
  /\ Registry!SlotsOwned <=>
       clientCount = Cardinality(clients) + Cardinality(Upgrading) + Cardinality(closing)
  /\ Registry!SlotsOwned' <=>
       clientCount' = Cardinality(clients') + Cardinality(Upgrading') + Cardinality(closing')
BY Zenon DEF Registry!SlotsOwned, Upgrading, Cardinality, Registry!Cardinality

\* Every step of the registry keeps the slots exact: exactly one of the upgrade
\* error, unregister and closeClients releases a slot.
LEMMA SlotsStep ==
  ASSUME Registry!TypeOK, Registry!RegistryPhases, Registry!SlotsOwned,
         [Registry!Next]_(Registry!vars)
  PROVE  Registry!SlotsOwned'
<1>1. /\ IsFiniteSet(clients) /\ IsFiniteSet(closing) /\ IsFiniteSet(Upgrading)
      /\ Cardinality(clients) \in Nat /\ Cardinality(closing) \in Nat
      /\ Cardinality(Upgrading) \in Nat
      /\ IsFiniteSet(clients') /\ IsFiniteSet(closing') /\ IsFiniteSet(Upgrading')
      /\ Cardinality(clients') \in Nat /\ Cardinality(closing') \in Nat
      /\ Cardinality(Upgrading') \in Nat
  BY RegistryTypeStep, RegistryFinite, Zenon DEF Registry!TypeOK
<1>2. clientCount \in Nat /\ clientCount = Cardinality(clients) + Cardinality(Upgrading) + Cardinality(closing)
  BY SlotsAbout DEF Registry!TypeOK
<1> DEFINE Goal ==
      clientCount' = Cardinality(clients') + Cardinality(Upgrading') + Cardinality(closing')
<1>3. ASSUME UNCHANGED <<clientCount, clients, closing>>, Upgrading' = Upgrading PROVE Goal
  BY <1>2, <1>3
<1>0. handler' = handler => Upgrading' = Upgrading
  BY DEF Upgrading
<1>4. ASSUME NEW c \in Conns, Registry!Handler(c) PROVE Goal
  <2>1. CASE Registry!reserveClient(c) /\ clientCount >= limit
    <3>1. Upgrading' = Upgrading
      BY <2>1, Zenon DEF Registry!reserveClient, Registry!Goto, Upgrading, Registry!TypeOK,
         Registry!RegistryPhases
    <3> QED  BY <1>3, <2>1, <3>1, Zenon DEF Registry!reserveClient
  <2>2. CASE Registry!reserveClient(c) /\ ~(clientCount >= limit)
    <3>1. c \notin Upgrading /\ Upgrading' = Upgrading \cup {c}
      BY <2>2 DEF Registry!reserveClient, Registry!Goto, Upgrading, Registry!TypeOK,
         Registry!RegistryPhases
    <3>2. Cardinality(Upgrading') = Cardinality(Upgrading) + 1
      BY <1>1, <3>1, FS_AddElement, Zenon
    <3>3. clientCount' = clientCount + 1 /\ UNCHANGED <<clients, closing>>
      BY <2>2 DEF Registry!reserveClient
    <3> QED  BY <1>1, <1>2, <3>2, <3>3
  <2>3. CASE Registry!Hijack(c)
    <3>1. Upgrading' = Upgrading
      BY <2>3, Zenon DEF Registry!Hijack, Registry!Goto, Upgrading, Registry!TypeOK,
         Registry!RegistryPhases
    <3> QED  BY <1>3, <2>3, <3>1 DEF Registry!Hijack
  <2>4. CASE Registry!UpgradeFails(c)
    <3>1. c \in Upgrading /\ Upgrading' = Upgrading \ {c}
      BY <2>4, Zenon DEF Registry!UpgradeFails, Registry!Goto, Upgrading, Registry!TypeOK,
         Registry!RegistryPhases
    <3>2. Cardinality(Upgrading') = Cardinality(Upgrading) - 1
      BY <1>1, <3>1, FS_RemoveElement, Zenon
    <3>3. clientCount' = clientCount - 1 /\ UNCHANGED <<clients, closing>>
      BY <2>4 DEF Registry!UpgradeFails
    <3> QED  BY <1>1, <1>2, <3>2, <3>3
  <2>5. CASE Registry!Register(c)
    <3>1. /\ c \in Upgrading /\ Upgrading' = Upgrading \ {c}
          /\ c \notin clients /\ clients' = clients \cup {c}
      BY <2>5, Zenon DEF Registry!Register, Registry!Goto, Upgrading, Registry!TypeOK,
         Registry!RegistryPhases
    <3>2. /\ Cardinality(Upgrading') = Cardinality(Upgrading) - 1
          /\ Cardinality(clients') = Cardinality(clients) + 1
      BY <1>1, <3>1, FS_RemoveElement, FS_AddElement, Zenon
    <3>3. UNCHANGED <<clientCount, closing>>
      BY <2>5 DEF Registry!Register
    <3> QED  BY <1>1, <1>2, <3>2, <3>3
  <2>6. CASE Registry!StartPump(c) \/ Registry!unregisterJoins(c)
    <3>1. Upgrading' = Upgrading
      BY <2>6, Zenon DEF Registry!StartPump, Registry!unregisterJoins, Registry!Goto, Upgrading, Registry!TypeOK,
         Registry!RegistryPhases
    <3> QED  BY <1>3, <2>6, <3>1, Zenon DEF Registry!StartPump, Registry!unregisterJoins
  <2>7. CASE Registry!unregister(c)
    <3>1. UNCHANGED <<Upgrading, closing>> /\ clients' = clients \ {c}
      BY <2>7, Zenon DEF Registry!unregister, Registry!Goto, Upgrading, Registry!TypeOK,
         Registry!RegistryPhases
    <3>2. CASE c \in clients
      <4>1. Cardinality(clients') = Cardinality(clients) - 1 /\ clientCount' = clientCount - 1
        BY <1>1, <2>7, <3>1, <3>2, FS_RemoveElement, Zenon DEF Registry!unregister
      <4> QED  BY <1>1, <1>2, <3>1, <4>1
    <3>3. CASE c \notin clients
      BY <1>3, <2>7, <3>1, <3>3, Zenon DEF Registry!unregister
    <3> QED  BY <3>2, <3>3, Zenon
  <2> QED  BY <1>4, <2>1, <2>2, <2>3, <2>4, <2>5, <2>6, <2>7, Zenon DEF Registry!Handler
<1>5. ASSUME NEW c \in Conns, \/ Registry!Accept(c) \/ Registry!Reply(c) \/ Registry!ReadEnds(c)
                              \/ Registry!PumpWrites(c) \/ Registry!PumpStops(c)
      PROVE  Goal
  <2>1. Upgrading' = Upgrading
    BY <1>5, Zenon DEF Registry!Accept, Registry!Reply, Registry!ReadEnds, Registry!Goto,
       Registry!PumpWrites, Registry!PumpStops, Registry!PumpGoto, Upgrading, Registry!TypeOK
  <2> QED  BY <1>3, <1>5, <2>1, Zenon DEF Registry!Accept, Registry!Reply, Registry!ReadEnds,
       Registry!PumpWrites, Registry!PumpStops, Registry!PumpGoto
<1>6. ASSUME Registry!Broadcast PROVE Goal
  BY <1>0, <1>3, <1>6, Zenon DEF Registry!Broadcast, Registry!BroadcastBegins, Registry!BroadcastEnds,
     Registry!BroadcastExits, Registry!enqueue
<1>7. ASSUME Registry!ShutdownBegins \/ Registry!Shutdown PROVE Goal
  <2>1. CASE \/ Registry!ShutdownBegins \/ Registry!HttpCloses \/ Registry!HttpDrained
             \/ Registry!ShutdownReturns \/ \E c \in Conns : Registry!closeClientJoins(c)
    BY <1>0, <1>3, <2>1, Zenon DEF Registry!ShutdownBegins, Registry!HttpCloses, Registry!HttpDrained,
       Registry!ShutdownReturns, Registry!closeClientJoins
  <2>2. CASE Registry!closeClients
    <3>1. /\ closing = {} /\ closing' = clients /\ clients' = {}
          /\ UNCHANGED <<Upgrading, clientCount>>
      BY <1>0, <2>2, Zenon DEF Registry!closeClients, Registry!Phase, Registry!RegistryPhases
    <3>2. Cardinality(closing) = 0 /\ Cardinality(clients') = 0
      BY <3>1, FS_EmptySet
    <3>3. Cardinality(closing') = Cardinality(clients)
      BY <3>1
    <3>4. Cardinality(Upgrading') = Cardinality(Upgrading) /\ clientCount' = clientCount
      BY <3>1
    <3> QED  BY <1>1, <1>2, <3>2, <3>3, <3>4
  <2>3. ASSUME NEW c \in Conns, Registry!closeClient(c) PROVE Goal
    <3>1. c \in closing /\ closing' = closing \ {c} /\ clientCount' = clientCount - 1
      BY <2>3, Zenon DEF Registry!closeClient
    <3>2. Cardinality(closing') = Cardinality(closing) - 1
      BY <1>1, <3>1, FS_RemoveElement, Zenon
    <3>3. UNCHANGED <<Upgrading, clients>>
      BY <1>0, <2>3, Zenon DEF Registry!closeClient
    <3> QED  BY <1>1, <1>2, <3>1, <3>2, <3>3
  <2> QED  BY <1>7, <2>1, <2>2, <2>3, Zenon DEF Registry!Shutdown
<1>8. ASSUME UNCHANGED Registry!vars PROVE Goal
  BY <1>0, <1>3, <1>8
<1>9. Goal
  BY <1>4, <1>5, <1>6, <1>7, <1>8, Zenon DEF Registry!Next
<1> QED  BY <1>9, SlotsAbout

\* The inductive invariant of the registry: its slots cannot be counted without
\* its phases, and clientCount is a natural number because it counts slots.
RegistryInv ==
  /\ Registry!TypeOK /\ Registry!RegistryPhases
  /\ Registry!SlotsOwned /\ Registry!HandlerLeavesNothing

\* Every step of the registry keeps it, whatever handler, pump, broadcast or
\* Shutdown takes it.
LEMMA RegistryInvStep ==
  ASSUME RegistryInv, [Registry!Next]_(Registry!vars)
  PROVE  RegistryInv'
<1> USE DEF RegistryInv
<1>1. Registry!RegistryPhases' /\ Registry!HandlerLeavesNothing' /\ Registry!SlotsOwned'
  BY RegistryPhasesStep, SlotsStep, Zenon
<1>2. /\ Cardinality(clients') \in Nat /\ Cardinality(closing') \in Nat
      /\ Cardinality(Upgrading') \in Nat
  BY RegistryTypeStep, RegistryFinite, Zenon DEF Registry!TypeOK
<1>3. clientCount' >= 0
  BY <1>1, <1>2, SlotsAbout
<1> QED  BY <1>1, <1>3, RegistryTypeStep, Zenon

\* NewServer has no connection.
LEMMA RegistryInit ==
  Registry!Init => RegistryInv
<1> SUFFICES ASSUME Registry!Init PROVE RegistryInv
  OBVIOUS
<1>1. Upgrading = {} /\ clients = {} /\ closing = {} /\ clientCount = 0
  BY DEF Upgrading, Registry!Init
<1>2. Registry!TypeOK
  <2>1. stop \in [Conns -> BOOLEAN] /\ open \in [Conns -> BOOLEAN] /\ closed \in BOOLEAN
    BY Zenon DEF Registry!Init
  <2>2. /\ sendCh \in [Conns -> 0..SendBuffer] /\ limit \in 1..MaxClients
        /\ clientCount \in 0..limit
    BY ServerAssumption DEF Registry!Init
  <2> QED  BY <2>1, <2>2, Zenon DEF Registry!Init, Registry!TypeOK
<1>3. Registry!SlotsOwned
  BY <1>1, FS_EmptySet, SlotsAbout
<1> QED  BY <1>1, <1>2, <1>3, Zenon
         DEF RegistryInv, Registry!Init, Registry!RegistryPhases, Registry!HandlerLeavesNothing

-----------------------------------------------------------------------------
(* The server *)

\* The two views of the server together.
ServerInv == ControlInv /\ RegistryInv

\* A step of one view leaves the other as it is.
LEMMA ServerStep ==
  ServerInv /\ [MCNext]_allVars => ServerInv'
<1> SUFFICES ASSUME ServerInv, [MCNext]_allVars PROVE ServerInv'
  OBVIOUS
<1>1. [Next]_vars
  BY Zenon DEF MCNext, allVars
<1>2. [Registry!Next]_(Registry!vars)
  BY Zenon DEF MCNext, allVars, registryVars
<1> QED  BY <1>1, <1>2, ControlStep, RegistryInvStep, Zenon DEF ServerInv

\* The server keeps both, for any number of connections, clients and runtimes.
THEOREM ServerInvariance == MCSpec => []ServerInv
<1>1. MCInit => ServerInv
  BY ControlInit, RegistryInit DEF MCInit, ServerInv
<1> QED  BY <1>1, ServerStep, PTL DEF MCSpec

\* reserveClient never counts more or fewer connections than there are, and a
\* handler that has returned leaves nothing behind.
THEOREM SlotsAreKept == MCSpec => []SlotsKept
<1>1. ServerInv => SlotsKept
  BY DEF ServerInv, RegistryInv, SlotsKept
<1> QED  BY <1>1, ServerInvariance, PTL

\* The types of both views, and with them that clientCount and the counters of
\* the runtimes are never negative and clientCount keeps to its limit.
THEOREM ServerTypes == MCSpec => []ServerTypeOK
<1>1. ServerInv => ServerTypeOK
  BY DEF ServerInv, ControlInv, RegistryInv, ServerTypeOK
<1> QED  BY <1>1, ServerInvariance, PTL
=============================================================================
