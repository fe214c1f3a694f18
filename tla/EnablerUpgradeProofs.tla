------------------------ MODULE EnablerUpgradeProofs ------------------------
(***************************************************************************)
(* What upgrades and rollbacks keep for any images, release tags, versions *)
(* of Bitcoin Core and numbers of requests.                                *)
(***************************************************************************)
EXTENDS EnablerUpgrade, TLAPS

(* Pulled images are there before a pin or an anchor names them, and an    *)
(* upgrade under way found no digest.                                      *)
Upgrading == job.at \in {"pull", "anchor", "flip"}

PullsFirst ==
    /\ Upgrading => job.action = "upgrade" /\ \A k \in Keys : pin[k] # Digest
    /\ job.at \in {"restore", "consume"} => job.action = "rollback"
    /\ job.at = "pull" /\ ~job.failed =>
          \A k \in Targets \ job.left : <<k, job.tag>> \in local
    /\ job.at \in {"anchor", "flip"} => \A k \in job.left : <<k, job.tag>> \in local

PinsInv == TypeOK /\ PullsFirst /\ PinsRunnable

(* Whose the core is: the user's exactly when it is UserCore, which no     *)
(* mirror, anchor or bump ever is.                                         *)
CoreApart ==
    /\ byUser <=> core = UserCore
    /\ managed # UserCore /\ coreAnchor # UserCore /\ job.bump # UserCore
    /\ byUser /\ job.action = "upgrade" => job.bump = None
    /\ job.at = "corePin" => job.bump # None
    /\ job.at = "begin" => job.bump = None
    /\ job.at = "idle" => job.action = "none"

CoreInv == TypeOK /\ PullsFirst /\ CoreApart

(* Without a crash: the mirror lags the core between their two writes only.*)
Calm == MaxCrashes = 0
NeverDown == job.at # "down" /\ job.first /\ crashes = 0
MirrorInv ==
    /\ NeverDown
    /\ IF job.at = "coreManaged" THEN core = job.bump ELSE byUser \/ CoreManaged

(* When compose works as well: containers run the pins whenever no pin is  *)
(* on the move, and past the last pin all are at the tag.                  *)
Settled == job.at \in {"idle", "begin", "pull", "answer"}
Moved == job.at \in {"corePin", "coreManaged", "composeOthers", "composeWeb"}

AllAtTag ==
    job.action = "upgrade" =>
        /\ job.at \in {"anchor", "flip"} => \A k \in Keys \ job.left : pin[k] = job.tag
        /\ Moved \/ (job.at = "answer" /\ job.ok) => \A k \in Keys : pin[k] = job.tag

RunningPins ==
    /\ Settled => \A k \in Active : running[k] = pin[k]
    /\ job.at = "composeWeb" => \A k \in Active \ {Web} : running[k] = pin[k]

RunningInv == TypeOK /\ PullsFirst /\ NeverDown /\ AllAtTag /\ RunningPins

(* When nobody edits the image pins either: they move together, and the    *)
(* anchors are all there, and those of the last upgrade, or none is.       *)
Together(f) == \A j, k \in Keys : f[j] = f[k]
Unanchored == \A k \in Keys : anchor[k] = None
Anchored == \A k \in Keys : anchor[k] = before[k]

AnchorsInv ==
    /\ Together(before)
    /\ Settled \/ (Moved /\ job.action = "upgrade") =>
          Together(pin) /\ (Unanchored \/ Anchored)
    /\ job.at \in {"anchor", "flip"} =>
          IF job.left = {} THEN Unanchored \/ Anchored
          ELSE /\ \A k \in job.left : pin[k] = before[k]
               /\ \A k \in Keys \ job.left : anchor[k] = before[k]
    /\ job.at = "flip" =>
          job.left # {} /\ \A k \in job.left : Comes(k) => anchor[k] = before[k]
    /\ job.at \in {"restore", "consume"} =>
          \A k \in Keys \ job.left : pin[k] = before[k] /\ anchor[k] = None
    /\ job.at = "restore" => \A k \in job.left : anchor[k] = before[k]
    /\ job.at = "consume" =>
          \A k \in job.left : IF Comes(k) THEN pin[k] = before[k]
                              ELSE anchor[k] = before[k]
    /\ Moved /\ job.action # "upgrade" => pin = before /\ Unanchored
    /\ RollbackRestores

RollbackInv == TypeOK /\ PullsFirst /\ NeverDown /\ AllAtTag /\ AnchorsInv

LEMMA TypeStep ==
    ASSUME UpgradeConstants, TypeOK, PullsFirst, [Next]_vars
    PROVE  TypeOK'
<1> USE DEF UpgradeConstants, TypeOK, Job, PullsFirst, Upgrading, Targets, Comes, Bumps,
            NoJob, coreVars, bounds
<1>1. ASSUME NEW t \in Tags \cup {None}, NEW c \in Cores \cup {None},
             NEW a \in {"upgrade", "rollback"}, a = "upgrade" => t \in Tags,
             Accept(a, t, c)
      PROVE  TypeOK'
  <2>1. job' = [at |-> "begin", action |-> a, tag |-> t, declared |-> c,
               left |-> {}, failed |-> FALSE, bump |-> None, ok |-> TRUE, first |-> TRUE]
    BY <1>1 DEF Accept
  <2>2. job' \in Job
    BY <2>1
  <2> QED
    BY <1>1, <2>1, <2>2 DEF Accept
<1>2. ASSUME UpgradeAborts PROVE TypeOK'
  BY <1>2 DEF UpgradeAborts, Answer
<1>3. ASSUME UpgradeIdle PROVE TypeOK'
  BY <1>3 DEF UpgradeIdle, Answer
<1>4. ASSUME NEW bump \in Cores \cup {None}, UpgradeStarts(bump) PROVE TypeOK'
  <2>1. job' \in Job
    BY <1>4 DEF UpgradeStarts
  <2> QED
    BY <1>4, <2>1 DEF UpgradeStarts
<1>5. ASSUME NEW k \in Keys, NEW ok \in BOOLEAN, Pull(k, ok) PROVE TypeOK'
  <2>1. job' \in Job
    BY <1>5 DEF Pull
  <2>2. local' \subseteq Keys \X (Tags \cup {Latest, Digest})
    BY <1>5 DEF Pull
  <2> QED
    BY <1>5, <2>1, <2>2 DEF Pull
<1>6. ASSUME PullFailed PROVE TypeOK'
  BY <1>6 DEF PullFailed, Answer
<1>7. ASSUME Pulled PROVE TypeOK'
  <2>1. job' \in Job
    BY <1>7 DEF Pulled
  <2>2. before' \in [Keys -> Tags \cup {Latest}]
    BY <1>7 DEF Pulled
  <2> QED
    BY <1>7, <2>1, <2>2 DEF Pulled
<1>8. ASSUME NEW k \in Keys, SaveAnchor(k) PROVE TypeOK'
  BY <1>8 DEF SaveAnchor
<1>9. ASSUME NEW k \in Keys, FlipPin(k) PROVE TypeOK'
  BY <1>9 DEF FlipPin
<1>10. ASSUME DropCoreAnchor PROVE TypeOK'
  BY <1>10 DEF DropCoreAnchor
<1>11. ASSUME SaveCoreAnchor PROVE TypeOK'
  BY <1>11 DEF SaveCoreAnchor
<1>12. ASSUME PinCore PROVE TypeOK'
  BY <1>12 DEF PinCore
<1>13. ASSUME ManageCore PROVE TypeOK'
  BY <1>13 DEF ManageCore
<1>14. ASSUME RollbackFails PROVE TypeOK'
  BY <1>14 DEF RollbackFails, Answer
<1>15. ASSUME RollbackStarts PROVE TypeOK'
  BY <1>15 DEF RollbackStarts
<1>16. ASSUME NEW k \in Keys, RestorePin(k) PROVE TypeOK'
  BY <1>16 DEF RestorePin
<1>17. ASSUME NEW k \in Keys, ConsumeAnchor(k) PROVE TypeOK'
  BY <1>17 DEF ConsumeAnchor
<1>18. ASSUME ConsumeCoreAnchor PROVE TypeOK'
  BY <1>18 DEF ConsumeCoreAnchor
<1>19. ASSUME NEW ok \in BOOLEAN, ComposeOthers(ok) PROVE TypeOK'
  BY <1>19 DEF ComposeOthers
<1>20. ASSUME NEW ok \in BOOLEAN, ComposeWeb(ok) PROVE TypeOK'
  <2>1. job' \in Job
    BY <1>20 DEF ComposeWeb, Answer
  <2>2. running' \in [Active -> Tags \cup {Latest, Digest}]
    BY <1>20 DEF ComposeWeb
  <2> QED
    BY <1>20, <2>1, <2>2 DEF ComposeWeb, Answer
<1>21. ASSUME Done PROVE TypeOK'
  BY <1>21 DEF Done
<1>22. ASSUME Crash PROVE TypeOK'
  BY <1>22 DEF Crash
<1>23. ASSUME Retry PROVE TypeOK'
  BY <1>23 DEF Retry
<1>24. ASSUME NEW k \in Keys, NEW t \in HostTags, HostPins(k, t) PROVE TypeOK'
  BY <1>24 DEF HostPins
<1>25. ASSUME HostPinsCore PROVE TypeOK'
  BY <1>25 DEF HostPinsCore
<1>26. CASE UNCHANGED vars
  BY <1>26 DEF vars, coreVars, bounds
<1> HIDE DEF UpgradeConstants, TypeOK, Job, PullsFirst, Upgrading, Targets, Comes, Bumps,
             NoJob, coreVars, bounds
<1> QED
  BY <1>1, <1>2, <1>3, <1>4, <1>5, <1>6, <1>7, <1>8, <1>9, <1>10, <1>11, <1>12,
       <1>13, <1>14, <1>15, <1>16, <1>17, <1>18, <1>19, <1>20, <1>21, <1>22,
       <1>23, <1>24, <1>25, <1>26 DEF Next

LEMMA PullsStep ==
    ASSUME UpgradeConstants, TypeOK, PullsFirst, [Next]_vars
    PROVE  PullsFirst'
<1> USE DEF UpgradeConstants, TypeOK, Job, PullsFirst, Upgrading, Targets, Comes, Bumps,
            NoJob, coreVars, bounds
<1>1. ASSUME NEW t \in Tags \cup {None}, NEW c \in Cores \cup {None},
             NEW a \in {"upgrade", "rollback"}, a = "upgrade" => t \in Tags,
             Accept(a, t, c)
      PROVE  PullsFirst'
  BY <1>1 DEF Accept
<1>2. ASSUME UpgradeAborts PROVE PullsFirst'
  BY <1>2 DEF UpgradeAborts, Answer
<1>3. ASSUME UpgradeIdle PROVE PullsFirst'
  BY <1>3 DEF UpgradeIdle, Answer
<1>4. ASSUME NEW bump \in Cores \cup {None}, UpgradeStarts(bump)
      PROVE  PullsFirst'
  BY <1>4 DEF UpgradeStarts
<1>5. ASSUME NEW k \in Keys, NEW ok \in BOOLEAN, Pull(k, ok) PROVE PullsFirst'
  BY <1>5 DEF Pull
<1>6. ASSUME PullFailed PROVE PullsFirst'
  BY <1>6 DEF PullFailed, Answer
<1>7. ASSUME Pulled PROVE PullsFirst'
  BY <1>7 DEF Pulled
<1>8. ASSUME NEW k \in Keys, SaveAnchor(k) PROVE PullsFirst'
  BY <1>8 DEF SaveAnchor
<1>9. ASSUME NEW k \in Keys, FlipPin(k) PROVE PullsFirst'
  BY <1>9 DEF FlipPin
<1>10. ASSUME DropCoreAnchor PROVE PullsFirst'
  BY <1>10 DEF DropCoreAnchor
<1>11. ASSUME SaveCoreAnchor PROVE PullsFirst'
  BY <1>11 DEF SaveCoreAnchor
<1>12. ASSUME PinCore PROVE PullsFirst'
  BY <1>12 DEF PinCore
<1>13. ASSUME ManageCore PROVE PullsFirst'
  BY <1>13 DEF ManageCore
<1>14. ASSUME RollbackFails PROVE PullsFirst'
  BY <1>14 DEF RollbackFails, Answer
<1>15. ASSUME RollbackStarts PROVE PullsFirst'
  BY <1>15 DEF RollbackStarts
<1>16. ASSUME NEW k \in Keys, RestorePin(k) PROVE PullsFirst'
  BY <1>16 DEF RestorePin
<1>17. ASSUME NEW k \in Keys, ConsumeAnchor(k) PROVE PullsFirst'
  BY <1>17 DEF ConsumeAnchor
<1>18. ASSUME ConsumeCoreAnchor PROVE PullsFirst'
  BY <1>18 DEF ConsumeCoreAnchor
<1>19. ASSUME NEW ok \in BOOLEAN, ComposeOthers(ok) PROVE PullsFirst'
  BY <1>19 DEF ComposeOthers
<1>20. ASSUME NEW ok \in BOOLEAN, ComposeWeb(ok) PROVE PullsFirst'
  BY <1>20 DEF ComposeWeb, Answer
<1>21. ASSUME Done PROVE PullsFirst'
  BY <1>21 DEF Done
<1>22. ASSUME Crash PROVE PullsFirst'
  BY <1>22 DEF Crash
<1>23. ASSUME Retry PROVE PullsFirst'
  BY <1>23 DEF Retry
<1>24. ASSUME NEW k \in Keys, NEW t \in HostTags, HostPins(k, t)
      PROVE  PullsFirst'
  BY <1>24 DEF HostPins
<1>25. ASSUME HostPinsCore PROVE PullsFirst'
  BY <1>25 DEF HostPinsCore
<1>26. CASE UNCHANGED vars
  BY <1>26 DEF vars, coreVars, bounds
<1> HIDE DEF UpgradeConstants, TypeOK, Job, PullsFirst, Upgrading, Targets, Comes, Bumps,
             NoJob, coreVars, bounds
<1> QED
  BY <1>1, <1>2, <1>3, <1>4, <1>5, <1>6, <1>7, <1>8, <1>9, <1>10, <1>11, <1>12,
       <1>13, <1>14, <1>15, <1>16, <1>17, <1>18, <1>19, <1>20, <1>21, <1>22,
       <1>23, <1>24, <1>25, <1>26 DEF Next

LEMMA RunnableStep ==
    ASSUME UpgradeConstants, TypeOK, PullsFirst, PinsRunnable, [Next]_vars
    PROVE  PinsRunnable'
<1> USE DEF UpgradeConstants, TypeOK, Job, PullsFirst, PinsRunnable, Targets, Comes, Bumps,
            NoJob, coreVars, bounds
<1>1. ASSUME NEW t \in Tags \cup {None}, NEW c \in Cores \cup {None},
             NEW a \in {"upgrade", "rollback"}, a = "upgrade" => t \in Tags,
             Accept(a, t, c)
      PROVE  PinsRunnable'
  BY <1>1 DEF Accept
<1>2. ASSUME UpgradeAborts PROVE PinsRunnable'
  BY <1>2 DEF UpgradeAborts, Answer
<1>3. ASSUME UpgradeIdle PROVE PinsRunnable'
  BY <1>3 DEF UpgradeIdle, Answer
<1>4. ASSUME NEW bump \in Cores \cup {None}, UpgradeStarts(bump)
      PROVE  PinsRunnable'
  BY <1>4 DEF UpgradeStarts
<1>5. ASSUME NEW k \in Keys, NEW ok \in BOOLEAN, Pull(k, ok)
      PROVE  PinsRunnable'
  BY <1>5 DEF Pull
<1>6. ASSUME PullFailed PROVE PinsRunnable'
  BY <1>6 DEF PullFailed, Answer
<1>7. ASSUME Pulled PROVE PinsRunnable'
  BY <1>7 DEF Pulled
<1>8. ASSUME NEW k \in Keys, SaveAnchor(k) PROVE PinsRunnable'
  BY <1>8 DEF SaveAnchor
<1>9. ASSUME NEW k \in Keys, FlipPin(k) PROVE PinsRunnable'
  BY <1>9 DEF FlipPin
<1>10. ASSUME DropCoreAnchor PROVE PinsRunnable'
  BY <1>10 DEF DropCoreAnchor
<1>11. ASSUME SaveCoreAnchor PROVE PinsRunnable'
  BY <1>11 DEF SaveCoreAnchor
<1>12. ASSUME PinCore PROVE PinsRunnable'
  BY <1>12 DEF PinCore
<1>13. ASSUME ManageCore PROVE PinsRunnable'
  BY <1>13 DEF ManageCore
<1>14. ASSUME RollbackFails PROVE PinsRunnable'
  BY <1>14 DEF RollbackFails, Answer
<1>15. ASSUME RollbackStarts PROVE PinsRunnable'
  BY <1>15 DEF RollbackStarts
<1>16. ASSUME NEW k \in Keys, RestorePin(k) PROVE PinsRunnable'
  BY <1>16 DEF RestorePin
<1>17. ASSUME NEW k \in Keys, ConsumeAnchor(k) PROVE PinsRunnable'
  BY <1>17 DEF ConsumeAnchor
<1>18. ASSUME ConsumeCoreAnchor PROVE PinsRunnable'
  BY <1>18 DEF ConsumeCoreAnchor
<1>19. ASSUME NEW ok \in BOOLEAN, ComposeOthers(ok) PROVE PinsRunnable'
  BY <1>19 DEF ComposeOthers
<1>20. ASSUME NEW ok \in BOOLEAN, ComposeWeb(ok) PROVE PinsRunnable'
  BY <1>20 DEF ComposeWeb, Answer
<1>21. ASSUME Done PROVE PinsRunnable'
  BY <1>21 DEF Done
<1>22. ASSUME Crash PROVE PinsRunnable'
  BY <1>22 DEF Crash
<1>23. ASSUME Retry PROVE PinsRunnable'
  BY <1>23 DEF Retry
<1>24. ASSUME NEW k \in Keys, NEW t \in HostTags, HostPins(k, t)
      PROVE  PinsRunnable'
  BY <1>24 DEF HostPins
<1>25. ASSUME HostPinsCore PROVE PinsRunnable'
  BY <1>25 DEF HostPinsCore
<1>26. CASE UNCHANGED vars
  BY <1>26 DEF vars, coreVars, bounds
<1> HIDE DEF UpgradeConstants, TypeOK, Job, PullsFirst, PinsRunnable, Targets, Comes,
             Bumps, NoJob, coreVars, bounds
<1> QED
  BY <1>1, <1>2, <1>3, <1>4, <1>5, <1>6, <1>7, <1>8, <1>9, <1>10, <1>11, <1>12,
       <1>13, <1>14, <1>15, <1>16, <1>17, <1>18, <1>19, <1>20, <1>21, <1>22,
       <1>23, <1>24, <1>25, <1>26 DEF Next

LEMMA CoreStep ==
    ASSUME UpgradeConstants, CoreInv, [Next]_vars
    PROVE  CoreApart'
<1> USE DEF UpgradeConstants, TypeOK, Job, CoreInv, PullsFirst, Upgrading, CoreApart,
            CoreManaged, Comes, Bumps, NoJob, coreVars, bounds
<1>1. ASSUME NEW t \in Tags \cup {None}, NEW c \in Cores \cup {None},
             NEW a \in {"upgrade", "rollback"}, a = "upgrade" => t \in Tags,
             Accept(a, t, c)
      PROVE  CoreApart'
  BY <1>1 DEF Accept
<1>2. ASSUME UpgradeAborts PROVE CoreApart'
  BY <1>2 DEF UpgradeAborts, Answer
<1>3. ASSUME UpgradeIdle PROVE CoreApart'
  BY <1>3 DEF UpgradeIdle, Answer
<1>4. ASSUME NEW bump \in Cores \cup {None}, UpgradeStarts(bump)
      PROVE  CoreApart'
  BY <1>4 DEF UpgradeStarts
<1>5. ASSUME NEW k \in Keys, NEW ok \in BOOLEAN, Pull(k, ok) PROVE CoreApart'
  BY <1>5 DEF Pull
<1>6. ASSUME PullFailed PROVE CoreApart'
  BY <1>6 DEF PullFailed, Answer
<1>7. ASSUME Pulled PROVE CoreApart'
  BY <1>7 DEF Pulled
<1>8. ASSUME NEW k \in Keys, SaveAnchor(k) PROVE CoreApart'
  BY <1>8 DEF SaveAnchor
<1>9. ASSUME NEW k \in Keys, FlipPin(k) PROVE CoreApart'
  BY <1>9 DEF FlipPin
<1>10. ASSUME DropCoreAnchor PROVE CoreApart'
  BY <1>10 DEF DropCoreAnchor
<1>11. ASSUME SaveCoreAnchor PROVE CoreApart'
  BY <1>11 DEF SaveCoreAnchor
<1>12. ASSUME PinCore PROVE CoreApart'
  BY <1>12 DEF PinCore
<1>13. ASSUME ManageCore PROVE CoreApart'
  BY <1>13 DEF ManageCore
<1>14. ASSUME RollbackFails PROVE CoreApart'
  BY <1>14 DEF RollbackFails, Answer
<1>15. ASSUME RollbackStarts PROVE CoreApart'
  BY <1>15 DEF RollbackStarts
<1>16. ASSUME NEW k \in Keys, RestorePin(k) PROVE CoreApart'
  BY <1>16 DEF RestorePin
<1>17. ASSUME NEW k \in Keys, ConsumeAnchor(k) PROVE CoreApart'
  BY <1>17 DEF ConsumeAnchor
<1>18. ASSUME ConsumeCoreAnchor PROVE CoreApart'
  BY <1>18 DEF ConsumeCoreAnchor
<1>19. ASSUME NEW ok \in BOOLEAN, ComposeOthers(ok) PROVE CoreApart'
  BY <1>19 DEF ComposeOthers
<1>20. ASSUME NEW ok \in BOOLEAN, ComposeWeb(ok) PROVE CoreApart'
  BY <1>20 DEF ComposeWeb, Answer
<1>21. ASSUME Done PROVE CoreApart'
  BY <1>21 DEF Done
<1>22. ASSUME Crash PROVE CoreApart'
  BY <1>22 DEF Crash
<1>23. ASSUME Retry PROVE CoreApart'
  BY <1>23 DEF Retry
<1>24. ASSUME NEW k \in Keys, NEW t \in HostTags, HostPins(k, t)
      PROVE  CoreApart'
  BY <1>24 DEF HostPins
<1>25. ASSUME HostPinsCore PROVE CoreApart'
  BY <1>25 DEF HostPinsCore
<1>26. CASE UNCHANGED vars
  BY <1>26 DEF vars, coreVars, bounds
<1> HIDE DEF UpgradeConstants, TypeOK, Job, CoreInv, PullsFirst, Upgrading, CoreApart,
             CoreManaged, Comes, Bumps, NoJob, coreVars, bounds
<1> QED
  BY <1>1, <1>2, <1>3, <1>4, <1>5, <1>6, <1>7, <1>8, <1>9, <1>10, <1>11, <1>12,
       <1>13, <1>14, <1>15, <1>16, <1>17, <1>18, <1>19, <1>20, <1>21, <1>22,
       <1>23, <1>24, <1>25, <1>26 DEF Next

LEMMA MirrorStep ==
    ASSUME UpgradeConstants, Calm, TypeOK, MirrorInv, [Next]_vars
    PROVE  MirrorInv'
<1> USE DEF UpgradeConstants, Calm, TypeOK, Job, NeverDown, MirrorInv, CoreApart,
            CoreManaged, Comes, Bumps, NoJob, coreVars, bounds
<1>1. ASSUME NEW t \in Tags \cup {None}, NEW c \in Cores \cup {None},
             NEW a \in {"upgrade", "rollback"}, a = "upgrade" => t \in Tags,
             Accept(a, t, c)
      PROVE  MirrorInv'
  BY <1>1 DEF Accept
<1>2. ASSUME UpgradeAborts PROVE MirrorInv'
  BY <1>2 DEF UpgradeAborts, Answer
<1>3. ASSUME UpgradeIdle PROVE MirrorInv'
  BY <1>3 DEF UpgradeIdle, Answer
<1>4. ASSUME NEW bump \in Cores \cup {None}, UpgradeStarts(bump)
      PROVE  MirrorInv'
  BY <1>4 DEF UpgradeStarts
<1>5. ASSUME NEW k \in Keys, NEW ok \in BOOLEAN, Pull(k, ok) PROVE MirrorInv'
  BY <1>5 DEF Pull
<1>6. ASSUME PullFailed PROVE MirrorInv'
  BY <1>6 DEF PullFailed, Answer
<1>7. ASSUME Pulled PROVE MirrorInv'
  BY <1>7 DEF Pulled
<1>8. ASSUME NEW k \in Keys, SaveAnchor(k) PROVE MirrorInv'
  BY <1>8 DEF SaveAnchor
<1>9. ASSUME NEW k \in Keys, FlipPin(k) PROVE MirrorInv'
  BY <1>9 DEF FlipPin
<1>10. ASSUME DropCoreAnchor PROVE MirrorInv'
  BY <1>10 DEF DropCoreAnchor
<1>11. ASSUME SaveCoreAnchor PROVE MirrorInv'
  BY <1>11 DEF SaveCoreAnchor
<1>12. ASSUME PinCore PROVE MirrorInv'
  BY <1>12 DEF PinCore
<1>13. ASSUME ManageCore PROVE MirrorInv'
  BY <1>13 DEF ManageCore
<1>14. ASSUME RollbackFails PROVE MirrorInv'
  BY <1>14 DEF RollbackFails, Answer
<1>15. ASSUME RollbackStarts PROVE MirrorInv'
  BY <1>15 DEF RollbackStarts
<1>16. ASSUME NEW k \in Keys, RestorePin(k) PROVE MirrorInv'
  BY <1>16 DEF RestorePin
<1>17. ASSUME NEW k \in Keys, ConsumeAnchor(k) PROVE MirrorInv'
  BY <1>17 DEF ConsumeAnchor
<1>18. ASSUME ConsumeCoreAnchor PROVE MirrorInv'
  BY <1>18 DEF ConsumeCoreAnchor
<1>19. ASSUME NEW ok \in BOOLEAN, ComposeOthers(ok) PROVE MirrorInv'
  BY <1>19 DEF ComposeOthers
<1>20. ASSUME NEW ok \in BOOLEAN, ComposeWeb(ok) PROVE MirrorInv'
  BY <1>20 DEF ComposeWeb, Answer
<1>21. ASSUME Done PROVE MirrorInv'
  BY <1>21 DEF Done
<1>22. ASSUME Crash PROVE MirrorInv'
  BY <1>22 DEF Crash
<1>23. ASSUME Retry PROVE MirrorInv'
  BY <1>23 DEF Retry
<1>24. ASSUME NEW k \in Keys, NEW t \in HostTags, HostPins(k, t)
      PROVE  MirrorInv'
  BY <1>24 DEF HostPins
<1>25. ASSUME HostPinsCore PROVE MirrorInv'
  BY <1>25 DEF HostPinsCore
<1>26. CASE UNCHANGED vars
  BY <1>26 DEF vars, coreVars, bounds
<1> HIDE DEF UpgradeConstants, Calm, TypeOK, Job, NeverDown, MirrorInv, CoreApart,
             CoreManaged, Comes, Bumps, NoJob, coreVars, bounds
<1> QED
  BY <1>1, <1>2, <1>3, <1>4, <1>5, <1>6, <1>7, <1>8, <1>9, <1>10, <1>11, <1>12,
       <1>13, <1>14, <1>15, <1>16, <1>17, <1>18, <1>19, <1>20, <1>21, <1>22,
       <1>23, <1>24, <1>25, <1>26 DEF Next

LEMMA RunningStep ==
    ASSUME UpgradeConstants, Calm, ~ComposeFails, RunningInv, [Next]_vars
    PROVE  (NeverDown /\ AllAtTag /\ RunningPins)'
<1> USE DEF UpgradeConstants, Calm, TypeOK, Job, RunningInv, PullsFirst, Upgrading,
            NeverDown, AllAtTag, RunningPins, Settled, Moved, Targets, Comes,
            Bumps, NoJob, coreVars, bounds
<1>1. ASSUME NEW t \in Tags \cup {None}, NEW c \in Cores \cup {None},
             NEW a \in {"upgrade", "rollback"}, a = "upgrade" => t \in Tags,
             Accept(a, t, c)
      PROVE  (NeverDown /\ AllAtTag /\ RunningPins)'
  BY <1>1 DEF Accept
<1>2. ASSUME UpgradeAborts PROVE (NeverDown /\ AllAtTag /\ RunningPins)'
  BY <1>2 DEF UpgradeAborts, Answer
<1>3. ASSUME UpgradeIdle PROVE (NeverDown /\ AllAtTag /\ RunningPins)'
  BY <1>3 DEF UpgradeIdle, Answer
<1>4. ASSUME NEW bump \in Cores \cup {None}, UpgradeStarts(bump)
      PROVE  (NeverDown /\ AllAtTag /\ RunningPins)'
  BY <1>4 DEF UpgradeStarts
<1>5. ASSUME NEW k \in Keys, NEW ok \in BOOLEAN, Pull(k, ok)
      PROVE  (NeverDown /\ AllAtTag /\ RunningPins)'
  BY <1>5 DEF Pull
<1>6. ASSUME PullFailed PROVE (NeverDown /\ AllAtTag /\ RunningPins)'
  BY <1>6 DEF PullFailed, Answer
<1>7. ASSUME Pulled PROVE (NeverDown /\ AllAtTag /\ RunningPins)'
  BY <1>7 DEF Pulled
<1>8. ASSUME NEW k \in Keys, SaveAnchor(k)
      PROVE  (NeverDown /\ AllAtTag /\ RunningPins)'
  BY <1>8 DEF SaveAnchor
<1>9. ASSUME NEW k \in Keys, FlipPin(k)
      PROVE  (NeverDown /\ AllAtTag /\ RunningPins)'
  BY <1>9 DEF FlipPin
<1>10. ASSUME DropCoreAnchor PROVE (NeverDown /\ AllAtTag /\ RunningPins)'
  BY <1>10 DEF DropCoreAnchor
<1>11. ASSUME SaveCoreAnchor PROVE (NeverDown /\ AllAtTag /\ RunningPins)'
  BY <1>11 DEF SaveCoreAnchor
<1>12. ASSUME PinCore PROVE (NeverDown /\ AllAtTag /\ RunningPins)'
  BY <1>12 DEF PinCore
<1>13. ASSUME ManageCore PROVE (NeverDown /\ AllAtTag /\ RunningPins)'
  BY <1>13 DEF ManageCore
<1>14. ASSUME RollbackFails PROVE (NeverDown /\ AllAtTag /\ RunningPins)'
  BY <1>14 DEF RollbackFails, Answer
<1>15. ASSUME RollbackStarts PROVE (NeverDown /\ AllAtTag /\ RunningPins)'
  BY <1>15 DEF RollbackStarts
<1>16. ASSUME NEW k \in Keys, RestorePin(k)
      PROVE  (NeverDown /\ AllAtTag /\ RunningPins)'
  BY <1>16 DEF RestorePin
<1>17. ASSUME NEW k \in Keys, ConsumeAnchor(k)
      PROVE  (NeverDown /\ AllAtTag /\ RunningPins)'
  BY <1>17 DEF ConsumeAnchor
<1>18. ASSUME ConsumeCoreAnchor PROVE (NeverDown /\ AllAtTag /\ RunningPins)'
  BY <1>18 DEF ConsumeCoreAnchor
<1>19. ASSUME NEW ok \in BOOLEAN, ComposeOthers(ok)
      PROVE  (NeverDown /\ AllAtTag /\ RunningPins)'
  BY <1>19 DEF ComposeOthers
<1>20. ASSUME NEW ok \in BOOLEAN, ComposeWeb(ok)
      PROVE  (NeverDown /\ AllAtTag /\ RunningPins)'
  BY <1>20 DEF ComposeWeb, Answer
<1>21. ASSUME Done PROVE (NeverDown /\ AllAtTag /\ RunningPins)'
  BY <1>21 DEF Done
<1>22. ASSUME Crash PROVE (NeverDown /\ AllAtTag /\ RunningPins)'
  BY <1>22 DEF Crash
<1>23. ASSUME Retry PROVE (NeverDown /\ AllAtTag /\ RunningPins)'
  BY <1>23 DEF Retry
<1>24. ASSUME NEW k \in Keys, NEW t \in HostTags, HostPins(k, t)
      PROVE  (NeverDown /\ AllAtTag /\ RunningPins)'
  BY <1>24 DEF HostPins
<1>25. ASSUME HostPinsCore PROVE (NeverDown /\ AllAtTag /\ RunningPins)'
  BY <1>25 DEF HostPinsCore
<1>26. CASE UNCHANGED vars
  BY <1>26 DEF vars, coreVars, bounds
<1> HIDE DEF UpgradeConstants, Calm, TypeOK, Job, RunningInv, PullsFirst, Upgrading,
             NeverDown, AllAtTag, RunningPins, Settled, Moved, Targets, Comes,
             Bumps, NoJob, coreVars, bounds
<1> QED
  BY <1>1, <1>2, <1>3, <1>4, <1>5, <1>6, <1>7, <1>8, <1>9, <1>10, <1>11, <1>12,
       <1>13, <1>14, <1>15, <1>16, <1>17, <1>18, <1>19, <1>20, <1>21, <1>22,
       <1>23, <1>24, <1>25, <1>26 DEF Next

(* The order of the keys leaves one to come next.                          *)
LEMMA ComesOnce ==
    ASSUME UpgradeConstants, TypeOK, NEW j \in Keys, NEW k \in Keys, Comes(j), Comes(k)
    PROVE  j = k
<1>1. \A x \in Keys : Place(x) \in DOMAIN Order /\ Order[Place(x)] = x
  BY DEF Keys, ToSet, Place
<1> QED
  BY <1>1 DEF UpgradeConstants, TypeOK, Job, Comes

LEMMA AnchorsStep ==
    ASSUME UpgradeConstants, Calm, HostTags = {}, RollbackInv, [Next]_vars
    PROVE  (NeverDown /\ AllAtTag /\ AnchorsInv)'
<1> USE DEF UpgradeConstants, Calm, TypeOK, Job, RollbackInv, PullsFirst, Upgrading,
            NeverDown, AllAtTag, AnchorsInv, Together, Unanchored, Anchored,
            RollbackRestores, Settled, Moved, Targets, Comes, Bumps, NoJob,
            coreVars, bounds
<1>1. ASSUME NEW t \in Tags \cup {None}, NEW c \in Cores \cup {None},
             NEW a \in {"upgrade", "rollback"}, a = "upgrade" => t \in Tags,
             Accept(a, t, c)
      PROVE  (NeverDown /\ AllAtTag /\ AnchorsInv)'
  BY <1>1 DEF Accept
<1>2. ASSUME UpgradeAborts PROVE (NeverDown /\ AllAtTag /\ AnchorsInv)'
  BY <1>2 DEF UpgradeAborts, Answer
<1>3. ASSUME UpgradeIdle PROVE (NeverDown /\ AllAtTag /\ AnchorsInv)'
  BY <1>3 DEF UpgradeIdle, Answer
<1>4. ASSUME NEW bump \in Cores \cup {None}, UpgradeStarts(bump)
      PROVE  (NeverDown /\ AllAtTag /\ AnchorsInv)'
  BY <1>4 DEF UpgradeStarts
<1>5. ASSUME NEW k \in Keys, NEW ok \in BOOLEAN, Pull(k, ok)
      PROVE  (NeverDown /\ AllAtTag /\ AnchorsInv)'
  BY <1>5 DEF Pull
<1>6. ASSUME PullFailed PROVE (NeverDown /\ AllAtTag /\ AnchorsInv)'
  BY <1>6 DEF PullFailed, Answer
<1>7. ASSUME Pulled PROVE (NeverDown /\ AllAtTag /\ AnchorsInv)'
  <2>1. Targets = {} \/ Targets = Keys
    BY <1>7 DEF Pulled
  <2>2. CASE Targets = {}
    BY <1>7, <2>2 DEF Pulled
  <2>3. CASE Targets = Keys /\ Keys # {}
    BY <1>7, <2>3 DEF Pulled
  <2> QED
    BY <2>1, <2>2, <2>3
<1>8. ASSUME NEW k \in Keys, SaveAnchor(k)
      PROVE  (NeverDown /\ AllAtTag /\ AnchorsInv)'
  <2>1. \A j \in job.left : Comes(j) => j = k
    BY <1>8, ComesOnce DEF SaveAnchor
  <2> QED
    BY <1>8, <2>1 DEF SaveAnchor
<1>9. ASSUME NEW k \in Keys, FlipPin(k)
      PROVE  (NeverDown /\ AllAtTag /\ AnchorsInv)'
  BY <1>9 DEF FlipPin
<1>10. ASSUME DropCoreAnchor PROVE (NeverDown /\ AllAtTag /\ AnchorsInv)'
  BY <1>10 DEF DropCoreAnchor
<1>11. ASSUME SaveCoreAnchor PROVE (NeverDown /\ AllAtTag /\ AnchorsInv)'
  BY <1>11 DEF SaveCoreAnchor
<1>12. ASSUME PinCore PROVE (NeverDown /\ AllAtTag /\ AnchorsInv)'
  BY <1>12 DEF PinCore
<1>13. ASSUME ManageCore PROVE (NeverDown /\ AllAtTag /\ AnchorsInv)'
  BY <1>13 DEF ManageCore
<1>14. ASSUME RollbackFails PROVE (NeverDown /\ AllAtTag /\ AnchorsInv)'
  BY <1>14 DEF RollbackFails, Answer
<1>15. ASSUME RollbackStarts PROVE (NeverDown /\ AllAtTag /\ AnchorsInv)'
  BY <1>15 DEF RollbackStarts
<1>16. ASSUME NEW k \in Keys, RestorePin(k)
      PROVE  (NeverDown /\ AllAtTag /\ AnchorsInv)'
  <2>1. \A j \in job.left : Comes(j) => j = k
    BY <1>16, ComesOnce DEF RestorePin
  <2> QED
    BY <1>16, <2>1 DEF RestorePin
<1>17. ASSUME NEW k \in Keys, ConsumeAnchor(k)
      PROVE  (NeverDown /\ AllAtTag /\ AnchorsInv)'
  <2>1. \A j \in job.left : Comes(j) => j = k
    BY <1>17, ComesOnce DEF ConsumeAnchor
  <2> QED
    BY <1>17, <2>1 DEF ConsumeAnchor
<1>18. ASSUME ConsumeCoreAnchor PROVE (NeverDown /\ AllAtTag /\ AnchorsInv)'
  BY <1>18 DEF ConsumeCoreAnchor
<1>19. ASSUME NEW ok \in BOOLEAN, ComposeOthers(ok)
      PROVE  (NeverDown /\ AllAtTag /\ AnchorsInv)'
  BY <1>19 DEF ComposeOthers
<1>20. ASSUME NEW ok \in BOOLEAN, ComposeWeb(ok)
      PROVE  (NeverDown /\ AllAtTag /\ AnchorsInv)'
  <2>1. CASE job.action = "upgrade"
    BY <1>20, <2>1 DEF ComposeWeb, Answer
  <2>2. CASE job.action # "upgrade"
    BY <1>20, <2>2 DEF ComposeWeb, Answer
  <2> QED
    BY <1>20, <2>1, <2>2 DEF ComposeWeb
<1>21. ASSUME Done PROVE (NeverDown /\ AllAtTag /\ AnchorsInv)'
  BY <1>21 DEF Done
<1>22. ASSUME Crash PROVE (NeverDown /\ AllAtTag /\ AnchorsInv)'
  BY <1>22 DEF Crash
<1>23. ASSUME Retry PROVE (NeverDown /\ AllAtTag /\ AnchorsInv)'
  BY <1>23 DEF Retry
<1>24. ASSUME NEW k \in Keys, NEW t \in HostTags, HostPins(k, t)
      PROVE  (NeverDown /\ AllAtTag /\ AnchorsInv)'
  BY <1>24 DEF HostPins
<1>25. ASSUME HostPinsCore PROVE (NeverDown /\ AllAtTag /\ AnchorsInv)'
  BY <1>25 DEF HostPinsCore
<1>26. CASE UNCHANGED vars
  BY <1>26 DEF vars, coreVars, bounds
<1> HIDE DEF UpgradeConstants, Calm, TypeOK, Job, RollbackInv, PullsFirst, Upgrading,
             NeverDown, AllAtTag, AnchorsInv, Together, Unanchored, Anchored,
             RollbackRestores, Settled, Moved, Targets, Comes, Bumps, NoJob,
             coreVars, bounds
<1> QED
  BY <1>1, <1>2, <1>3, <1>4, <1>5, <1>6, <1>7, <1>8, <1>9, <1>10, <1>11, <1>12,
       <1>13, <1>14, <1>15, <1>16, <1>17, <1>18, <1>19, <1>20, <1>21, <1>22,
       <1>23, <1>24, <1>25, <1>26 DEF Next

-----------------------------------------------------------------------------
LEMMA InitHolds ==
    ASSUME UpgradeConstants, Init
    PROVE  /\ TypeOK /\ PullsFirst /\ PinsRunnable /\ CoreApart
           /\ NeverDown /\ MirrorInv /\ AllAtTag /\ RunningPins /\ AnchorsInv
<1> USE DEF UpgradeConstants, Init, NoJob
<1>1. TypeOK
  BY DEF TypeOK, Job
<1>2. PullsFirst /\ PinsRunnable
  BY DEF PullsFirst, Upgrading, PinsRunnable
<1>3. CoreApart /\ NeverDown /\ MirrorInv
  BY DEF CoreApart, NeverDown, MirrorInv, CoreManaged
<1>4. AllAtTag /\ RunningPins
  BY DEF AllAtTag, RunningPins, Moved
<1>5. AnchorsInv
  BY DEF AnchorsInv, Together, Unanchored, Anchored, Moved, RollbackRestores
<1> QED
  BY <1>1, <1>2, <1>3, <1>4, <1>5

(* Every key of .env that the sidecar writes keeps its shape: no pin is    *)
(* ever empty, and no anchor a digest (enabler.sh, apply_upgrade).         *)
THEOREM TypeCorrect == ASSUME UpgradeConstants PROVE Spec => []TypeOK
<1>1. Init => TypeOK /\ PullsFirst
  BY InitHolds
<1>2. TypeOK /\ PullsFirst /\ [Next]_vars => (TypeOK /\ PullsFirst)'
  BY TypeStep, PullsStep
<1> QED
  BY <1>1, <1>2, PTL DEF Spec

(* Every pin and every anchor names an image that was pulled, at every     *)
(* write, through failed pulls and compose commands, crashes and host      *)
(* edits: an upgrade pulls all before it writes anything (enabler.sh,      *)
(* apply_upgrade).                                                         *)
THEOREM PinsAlwaysRunnable == ASSUME UpgradeConstants PROVE Spec => []PinsRunnable
<1>1. Init => PinsInv
  BY InitHolds DEF PinsInv
<1>2. PinsInv /\ [Next]_vars => PinsInv'
  BY TypeStep, PullsStep, RunnableStep DEF PinsInv
<1>3. PinsInv => PinsRunnable
  BY DEF PinsInv
<1> QED
  BY <1>1, <1>2, <1>3, PTL DEF Spec

(* No upgrade overwrites a core that the user pinned, whatever upgrades,   *)
(* rollbacks, edits and crashes went before (enabler.sh, apply_upgrade,    *)
(* "respected and never overwritten").                                     *)
THEOREM UserCoreStays == ASSUME UpgradeConstants PROVE Spec => [][UserCoreRespected]_vars
<1>1. Init => CoreInv
  BY InitHolds DEF CoreInv
<1>2. CoreInv /\ [Next]_vars => CoreInv'
  BY TypeStep, PullsStep, CoreStep DEF CoreInv
<1>3. CoreInv /\ [Next]_vars => [UserCoreRespected]_vars
  <2> SUFFICES ASSUME CoreInv, Next, byUser, job.action = "upgrade"
               PROVE  core' = core
    BY DEF UserCoreRespected
  <2>1. ~PinCore
    BY DEF CoreInv, CoreApart, PinCore
  <2>2. ~HostPinsCore
    BY DEF CoreInv, CoreApart, HostPinsCore
  <2>3. UNCHANGED coreVars => core' = core
    BY DEF coreVars
  <2> QED
    BY <2>1, <2>2, <2>3 DEF Next, Accept, UpgradeAborts, UpgradeIdle,
         UpgradeStarts,
       Pull, PullFailed, Pulled, SaveAnchor, FlipPin, DropCoreAnchor, SaveCoreAnchor,
       ManageCore, RollbackFails, RollbackStarts, RestorePin, ConsumeAnchor,
       ConsumeCoreAnchor, ComposeOthers, ComposeWeb, Done, Crash, Retry, HostPins
<1> QED
  BY <1>1, <1>2, <1>3, PTL DEF Spec

(* Without a crash a core pin that the user did not write is known as      *)
(* managed between requests, so that the next release can move it          *)
(* (enabler.sh, apply_upgrade).                                            *)
THEOREM CoreStaysManaged == ASSUME UpgradeConstants, Calm PROVE Spec => []CoreRecognised
<1>1. Init => TypeOK /\ PullsFirst /\ MirrorInv
  BY InitHolds
<1>2. TypeOK /\ PullsFirst /\ MirrorInv /\ [Next]_vars => (TypeOK /\ PullsFirst /\ MirrorInv)'
  BY TypeStep, PullsStep, MirrorStep
<1>3. MirrorInv => CoreRecognised
  BY DEF MirrorInv, CoreRecognised
<1> QED
  BY <1>1, <1>2, <1>3, PTL DEF Spec

(* Without a crash and a failing compose command an upgrade that answers   *)
(* ok left every service on the release, also when it found nothing to do  *)
(* (enabler.sh, "already running tag").                                    *)
THEOREM OkIsRunning ==
    ASSUME UpgradeConstants, Calm, ~ComposeFails
    PROVE  Spec => []OkMeansRunning
<1>1. Init => RunningInv
  BY InitHolds DEF RunningInv
<1>2. RunningInv /\ [Next]_vars => RunningInv'
  BY TypeStep, PullsStep, RunningStep DEF RunningInv
<1>3. RunningInv => OkMeansRunning
  BY DEF RunningInv, AllAtTag, RunningPins, Settled, OkMeansRunning, UpgradeConstants
<1> QED
  BY <1>1, <1>2, <1>3, PTL DEF Spec

(* Without a crash and a host edit of the image pins, a rollback that      *)
(* answers ok put every pin back where it was before the last upgrade that *)
(* moved one, whatever failed since (features/rollback.ts).                *)
THEOREM RollbackIsExact ==
    ASSUME UpgradeConstants, Calm, HostTags = {}
    PROVE  Spec => []RollbackRestores
<1>1. Init => RollbackInv
  BY InitHolds DEF RollbackInv
<1>2. RollbackInv /\ [Next]_vars => RollbackInv'
  BY TypeStep, PullsStep, AnchorsStep DEF RollbackInv
<1>3. RollbackInv => RollbackRestores
  BY DEF RollbackInv, AnchorsInv
<1> QED
  BY <1>1, <1>2, <1>3, PTL DEF Spec
=============================================================================
