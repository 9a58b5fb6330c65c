---------------------------- MODULE MCPublications ----------------------------
(***************************************************************************)
(* Three components that never run at the same time here, checked in one   *)
(* run: the scope locks, the publication of a release directory and that   *)
(* of a bundle of files.  part says which one a behaviour is about; the    *)
(* variables of the two others keep the values of Init, "none" here for    *)
(* those of the publications.  The two publications share the names of     *)
(* their variables where both keep the same thing.                         *)
(***************************************************************************)
EXTENDS ScopeLocks, TLC

CONSTANTS r1, r2, b1, b2, t1, t2, Old, Alien

MCRelease == {r1, r2}
MCName == r1 :> 1 @@ r2 :> 1
MCBundles == {b1, b2}
MCTargets == {t1, t2}
MCLinks == {t2}

VARIABLES part, row, rec, holder, step, work, mem, misjudged,
          dir, away, told, meddled,
          target, priv, cur, touched, refused

common == <<row, rec, holder, step, work, mem, misjudged>>
release == <<dir, away, told, meddled>>
bundle == <<target, priv, cur, touched, refused>>

Sync == INSTANCE SyncPublication WITH
  Inv <- MCRelease, Name <- MCName, Members <- 2, Cancelled <- {r2}, Interferes <- TRUE,
  pc <- step

Bundle == INSTANCE BundlePublication WITH
  Inv <- MCBundles, Targets <- MCTargets, Links <- MCLinks, Interferes <- TRUE,
  JournalFails <- TRUE, pc <- step

(* What the two publications assume of their constants.                   *)
ASSUME PublicationsAssumption == Sync!SyncAssumption /\ Bundle!BundleAssumption

NoRelease == dir = "none" /\ away = "none" /\ told = "none" /\ meddled = "none"
NoBundle == /\ target = "none" /\ priv = "none" /\ cur = "none"
            /\ touched = "none" /\ refused = "none"
NoJournal == /\ row = "none" /\ rec = "none" /\ holder = "none" /\ step = "none"
             /\ work = "none" /\ mem = "none" /\ misjudged = "none"

MCInit ==
  /\ Init
  /\ \/ part = "locks" /\ NoJournal /\ NoRelease /\ NoBundle
     \/ part = "release" /\ Sync!Init /\ NoBundle
     \/ part = "bundle" /\ Bundle!Init /\ NoRelease

MCNext ==
  \/ part = "locks" /\ Next /\ UNCHANGED <<part, common, release, bundle>>
  \/ part = "release" /\ Sync!Next /\ UNCHANGED <<part, vars, bundle>>
  \/ part = "bundle" /\ Bundle!Next /\ UNCHANGED <<part, vars, release>>

MCSpec ==
  /\ MCInit /\ [][MCNext]_<<part, vars, common, release, bundle>>
  /\ Fairness

-------------------------------------------------------------------------------
(* A result recorded for a bundle is true of the whole set, and nothing    *)
(* private is left beside it (core/bundle_mutation.py finish).             *)
SetsAreWhole ==
  [][part = "bundle" => Bundle!RecordsWholeSets]_<<bundle, row>>

(* A generation under its release name is whole at every moment, the       *)
(* journal tells the truth about it, and what sync update or rebase tells  *)
(* its user stays true (gedcom/sync_publication.py, sync_operations.py).   *)
(* The next invocation finishes whatever was interrupted but where the code*)
(* fails closed for a known reason, and no recovery loses a file that      *)
(* another program put under a name of the set (core/directory_mutation.py,*)
(* core/bundle_mutation.py reconcile, core/publication.py).                *)
PublicationsHold ==
  /\ part = "release" =>
       Sync!TypeOK /\ Sync!GenerationsAreWhole /\ Sync!ReportsHold /\ Sync!RecoveryIsPossible
  /\ part = "bundle" => Bundle!TypeOK /\ Bundle!RecoveryResolves /\ Bundle!ForeignFilesSurvive
===============================================================================
