------------------------------- MODULE MCLive -------------------------------
(* What must happen across processes and jobs in the end: the instance guard, *)
(* the factor loop and the reconciler on small instances.  They share no      *)
(* variable here, so `part` picks one at the start; FactorFold and Reconcile  *)
(* are checked under the fairness of their own code.                          *)
EXTENDS InstanceGuard, Integers

CONSTANTS l1, l2, NoListing, f1, a1

VARIABLE part

VARIABLES exists, factor, status, early, recent, ident, bound, applied, updated, syncs, foldPc,
          batch, base, overlapped, folds, ledger

VARIABLES stock, route, uuOk, real, row, why, age, changes, reconPc, elapsed, items, snap, plan,
          run, tainted, settled

F == INSTANCE FactorFold WITH Orders <- {1, 2}, Listings <- {l1, l2},
       Identities <- {{l1}, {l1, l2}}, Folders <- {f1}, Batch <- 1, FMin <- 0, FMax <- 0,
       MaxSync <- 2, pc <- foldPc
R == INSTANCE Reconcile WITH Assets <- {a1}, Grace <- 1, MaxChanges <- 2, pc <- reconPc

foldVars  == <<exists, factor, status, early, recent, ident, bound, applied, updated, syncs, foldPc,
               batch, base, overlapped, folds, ledger>>
reconVars == <<stock, route, uuOk, real, row, why, age, changes, reconPc, elapsed, items, snap,
               plan, run, tainted, settled>>

LiveInit ==
  /\ part \in {"guard", "fold", "recon"}
  /\ Init /\ F!Init /\ R!Init
  /\ part = "recon" \/ route = "both"

LiveNext ==
  /\ UNCHANGED part
  /\ \/ part = "guard" /\ Next /\ UNCHANGED <<foldVars, reconVars>>
     \/ part = "fold" /\ F!Next /\ UNCHANGED <<vars, reconVars>>
     \/ part = "recon" /\ R!Next /\ UNCHANGED <<vars, foldVars>>

\* Nothing that the guard's fairness speaks of is enabled before a process has
\* booted, so it asks nothing of the other parts.
LiveSpec == LiveInit /\ [][LiveNext]_<<part, vars, foldVars, reconVars>> /\ Fairness

\* RunFactorEvents: a finished order with a unique listing is folded in the end,
\* with a batch smaller than the backlog, unless it leaves the 100-day window.
FoldableIsFolded == F!Fairness => F!FoldableIsFolded

\* The reconciler takes a listing off a channel it is not routed to.
MisplacedIsDelisted == R!Fairness => R!MisplacedIsDelisted
=============================================================================
