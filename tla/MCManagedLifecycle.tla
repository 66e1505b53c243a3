------------------------- MODULE MCManagedLifecycle -------------------------
(* Instances of ManagedLifecycle for TLC.                                  *)
EXTENDS ManagedLifecycle, TLC

CONSTANTS p1, p2, c1, c2, c3, v1, v2

\* One context of one repository.
PinsC1 == [c \in {c1} |-> {{1}}]

\* c1 spans both repositories, c2 is in the second only and c3 in the first.
PinsWorkspace == (c1 :> {{1, 2}} @@ c2 :> {{2}} @@ c3 :> {{1}})

\* A context that has a record, or that a command is about.
InUse(c) == cstate[c] # "ABSENT" \/ \E p \in Procs : id[p] = c

PinnedAt(c) ==
  {members[c][r] : r \in Repos} \cup {mine[p][r] : p \in {q \in Procs : id[q] = c}, r \in Repos}

\* Bound: two contexts at a time, at different commits.  c1 and c2 share a
\* repository; c2 and c3 do not, and are there for what the commands on one do
\* to the build of the other while no program fails, which ends with the first
\* build that gives up.
TwoAtATime ==
  /\ ~(InUse(c1) /\ InUse(c3))
  /\ v2 \notin PinnedAt(c1) \cup PinnedAt(c3)
  /\ InUse(c1) \/ InUse(c3) => v1 \notin PinnedAt(c2)
  /\ InUse(c3) =>
       /\ faults = 0 /\ server = "down"
       /\ \A p \in Procs : id[p] = c2 => op[p] = "create"
  /\ faults = 0 => \A c \in Ctxs : cstate[c] # "FAILED"

\* The user may create c1 over either repository.
PinsEither == (c1 :> {{1}, {2}})

\* Processes are interchangeable.
Sym == Permutations({p1, p2})
=============================================================================
