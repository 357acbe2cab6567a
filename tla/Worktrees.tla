------------------------------ MODULE Worktrees ------------------------------
(***************************************************************************)
(* WorktreePool: git worktrees 1, 2, ... that parallel workers take from a *)
(* buffered channel and give back.  A worktree that git cannot clean is    *)
(* removed and added again; whatever comes of it, the path goes back into  *)
(* the channel.  Any git command and the setup command may fail.           *)
(***************************************************************************)
EXTENDS Integers, Sequences, FiniteSets

CONSTANTS PoolSize,  \* size: worktrees, and capacity of the channel
          PoolWorker \* goroutines that take worktrees

ASSUME WorktreesAssumption == PoolSize \in Nat \ {0}

Worktree == 1 .. PoolSize

VARIABLES
  poolUp,     \* what Init and Shutdown have come to
  poolFree,   \* the channel of available worktrees, oldest first
  poolAll,    \* allPaths
  poolTree,   \* per worktree: what is on disk
  poolSetUp,  \* worktrees in which the setup command has run
  poolPc,     \* what each worker does
  poolPath,   \* per worker: its worktree, or 0
  poolFaulty  \* history: worktrees whose last recycling was reported to have failed,
              \*   and those that Shutdown removed

poolVars == <<poolUp, poolFree, poolAll, poolTree, poolSetUp, poolPc, poolPath, poolFaulty>>
poolDisk == <<poolTree, poolSetUp, poolFaulty>>
poolCalls == <<poolPc, poolPath>>

PoolUp == {"init", "failed", "up", "draining", "down"}
Tree   == {"absent", "clean", "used", "broken"}
PoolPc == {"idle", "wait", "waitUnchecked", "check", "recycle", "retake", "work"}

PoolInit ==
  /\ poolUp = "init"
  /\ poolFree = << >>
  /\ poolAll = {}
  /\ poolTree = [p \in Worktree |-> "absent"]
  /\ poolSetUp = {}
  /\ poolPc = [w \in PoolWorker |-> "idle"]
  /\ poolPath = [w \in PoolWorker |-> 0]
  /\ poolFaulty = {}

\* git worktree remove and add of path p, then the setup command, as far as they get.
Adds(p, ok) ==
  \/ /\ ~ok
     /\ UNCHANGED <<poolTree, poolSetUp>>
  \/ /\ ~ok
     /\ \E tree \in {"absent", "clean"} : poolTree' = [poolTree EXCEPT ![p] = tree]
     /\ poolSetUp' = poolSetUp \ {p}
  \/ /\ ok
     /\ poolTree' = [poolTree EXCEPT ![p] = "clean"]
     /\ poolSetUp' = poolSetUp \cup {p}

\* Init: one worktree after the other, up to the first error.
CreateWorktree ==
  /\ poolUp = "init"
  /\ LET p == Cardinality(poolAll) + 1 IN
       \E ok \in BOOLEAN :
         /\ Adds(p, ok)
         /\ poolAll' = IF ok THEN poolAll \cup {p} ELSE poolAll
         /\ poolFree' = IF ok THEN Append(poolFree, p) ELSE poolFree
         /\ poolUp' = CASE ~ok -> "failed"
                        [] ok /\ p = PoolSize -> "up"
                        [] OTHER -> "init"
  /\ UNCHANGED <<poolCalls, poolFaulty>>

PoolGoes(w, to, p) ==
  /\ poolPc' = [poolPc EXCEPT ![w] = to]
  /\ poolPath' = [poolPath EXCEPT ![w] = p]

\* AcquireContext, and Acquire, which checks nothing.
AcquireWorktree(w) ==
  /\ poolUp \in {"up", "draining", "down"}
  /\ poolPc[w] = "idle"
  /\ \E to \in {"wait", "waitUnchecked"} : PoolGoes(w, to, 0)
  /\ UNCHANGED <<poolUp, poolFree, poolAll, poolDisk>>

\* <-wp.workers
ReceivePath(w) ==
  /\ poolPc[w] \in {"wait", "waitUnchecked", "retake"}
  /\ poolFree # << >>
  /\ PoolGoes(w, IF poolPc[w] = "wait" THEN "check" ELSE "work", Head(poolFree))
  /\ poolFree' = Tail(poolFree)
  /\ UNCHANGED <<poolUp, poolAll, poolDisk>>

\* <-ctx.Done(), which Acquire does not watch.
AcquireCancelled(w) ==
  /\ poolPc[w] \in {"wait", "retake"}
  /\ PoolGoes(w, "idle", 0)
  /\ UNCHANGED <<poolUp, poolFree, poolAll, poolDisk>>

\* git status: fails where there is no sound worktree, and may fail anywhere.
CheckHealth(w) ==
  /\ poolPc[w] = "check"
  /\ \/ /\ poolTree[poolPath[w]] \in {"clean", "used"}
        /\ PoolGoes(w, "work", poolPath[w])
     \/ PoolGoes(w, "recycle", poolPath[w])
  /\ UNCHANGED <<poolUp, poolFree, poolAll, poolDisk>>

\* Mutant of ForceRecycle: the path goes back only after a successful recycling.
RecycleKeepsFailed(p) ==
  \E ok \in BOOLEAN :
    /\ Adds(p, ok)
    /\ poolFree' = IF ok THEN Append(poolFree, p) ELSE poolFree
    /\ poolFaulty' = IF ok THEN poolFaulty \ {p} ELSE poolFaulty \cup {p}

\* forceRecycle: remove, add, set up, and in any case give back.
ForceRecycle(p) ==
  \E ok \in BOOLEAN :
    /\ Adds(p, ok)
    /\ poolFree' = Append(poolFree, p)
    /\ poolFaulty' = IF ok THEN poolFaulty \ {p} ELSE poolFaulty \cup {p}

\* The unhealthy worktree is recycled; the worker then takes whichever worktree
\* is the oldest, unchecked, or returns the error.
RecycleUnhealthy(w) ==
  /\ poolPc[w] = "recycle"
  /\ ForceRecycle(poolPath[w])
  /\ PoolGoes(w, IF poolPath[w] \in poolFaulty' THEN "idle" ELSE "retake", 0)
  /\ UNCHANGED <<poolUp, poolAll>>

\* An expedition leaves its traces in the worktree, or breaks it.
Work(w) ==
  /\ poolPc[w] = "work"
  /\ poolTree[poolPath[w]] # "absent"
  /\ \E tree \in {"used", "broken"} : poolTree' = [poolTree EXCEPT ![poolPath[w]] = tree]
  /\ UNCHANGED <<poolUp, poolFree, poolAll, poolSetUp, poolFaulty, poolCalls>>

\* checkout, reset and clean all succeed.
Reset(p) ==
  /\ poolTree[p] \in {"clean", "used"}
  /\ poolTree' = [poolTree EXCEPT ![p] = "clean"]
  /\ poolFree' = Append(poolFree, p)
  /\ UNCHANGED <<poolSetUp, poolFaulty>>

\* Release.
ReleaseWorktree(w) ==
  /\ poolPc[w] = "work"
  /\ Reset(poolPath[w]) \/ ForceRecycle(poolPath[w])
  /\ PoolGoes(w, "idle", 0)
  /\ UNCHANGED <<poolUp, poolAll>>

\* Shutdown empties the channel ...
Drain ==
  /\ poolUp = "up"
  /\ poolUp' = "draining"
  /\ poolFree' = << >>
  /\ UNCHANGED <<poolAll, poolDisk, poolCalls>>

\* ... and removes every worktree, in use or not, as far as git can; the loop
\* goes through allPaths in order, and the errors are returned at the end.
RemoveWorktrees ==
  /\ poolUp = "draining"
  /\ \E removed \in SUBSET poolAll :
       /\ poolTree' = [p \in Worktree |-> IF p \in removed THEN "absent" ELSE poolTree[p]]
       /\ poolSetUp' = poolSetUp \ removed
       /\ poolFaulty' = poolFaulty \cup removed
  /\ poolUp' = "down"
  /\ UNCHANGED <<poolFree, poolAll, poolCalls>>

PoolStep(w) ==
  \/ AcquireWorktree(w)
  \/ ReceivePath(w)
  \/ AcquireCancelled(w)
  \/ CheckHealth(w)
  \/ RecycleUnhealthy(w)
  \/ Work(w)
  \/ ReleaseWorktree(w)

PoolNext ==
  \/ CreateWorktree
  \/ Drain
  \/ RemoveWorktrees
  \/ \E w \in PoolWorker : PoolStep(w)

PoolSpec == PoolInit /\ [][PoolNext]_poolVars

-----------------------------------------------------------------------------
\* Every variable has its type.
PoolTypeOK ==
  /\ poolUp \in PoolUp
  /\ poolFree \in Seq(Worktree)
  /\ poolAll \subseteq Worktree
  /\ poolTree \in [Worktree -> Tree]
  /\ poolSetUp \subseteq Worktree
  /\ poolPc \in [PoolWorker -> PoolPc]
  /\ poolPath \in [PoolWorker -> Worktree \cup {0}]
  /\ poolFaulty \subseteq Worktree

Holders(p) == {w \in PoolWorker : poolPath[w] = p}
Places(p)  == {i \in 1 .. Len(poolFree) : poolFree[i] = p}

\* No worktree has two users, or is in the channel twice or while it is in use;
\* before Shutdown none that Init created is lost.  So no send on the channel blocks.
SlotsConserved ==
  /\ \A p \in Worktree : Cardinality(Holders(p)) + Cardinality(Places(p)) <= 1
  /\ poolUp \in {"init", "up"} =>
       \A p \in poolAll : Cardinality(Holders(p)) + Cardinality(Places(p)) = 1
  /\ Len(poolFree) <= PoolSize

\* A worktree in the channel is clean and set up, unless the pool has reported
\* that it could not recycle it, or Shutdown has removed it.
FreeIsFresh ==
  \A p \in Worktree \ poolFaulty :
    Places(p) # {} => poolTree[p] = "clean" /\ p \in poolSetUp

\* Whatever git commands fail, workers share the pool without losing or sharing
\* a worktree, and what they leave in one reaches nobody unreported.
PoolSound == SlotsConserved /\ FreeIsFresh

=============================================================================
