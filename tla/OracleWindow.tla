------------------------------ MODULE OracleWindow ------------------------------
(***************************************************************************)
(* contracts/verification_oracle: the windows in which oracles report on a *)
(* project, by committing to a reading and revealing it, or by the direct  *)
(* submit_reading.                                                         *)
(*                                                                         *)
(* A reading is named by its oracle and nonce; its sensor values are left  *)
(* out, so that a reveal whose values do not hash to the commitment, like  *)
(* any other call that panics, is no step.  What finalization computes     *)
(* from the values and mints is left out too.                              *)
(***************************************************************************)
EXTENDS OracleStaking, Sequences

CONSTANTS
  Project,      \* project ids
  WindowAdmins, \* addresses that may become pause guardian
  MaxNonce      \* last nonce (a bound of the model)

ASSUME WindowAssumption ==
  /\ IsFiniteSet(Project)
  /\ MaxNonce \in Nat

VARIABLES
  oraclePaused,    \* DataKey::Paused
  pauseGuardian,   \* DataKey::PauseGuardian, as a set of at most one address
  window,          \* DataKey::WindowState
  nonce,           \* DataKey::OracleNonce
  commitment,      \* the nonce in DataKey::Commitment, 0 when there is none
  revealed,        \* the oracles with an OracleRevealed marker, by project
  submitted,       \* the oracles with an OracleSubmitted marker, by project
  openProjects,    \* DataKey::OpenProjects
  results,         \* the readings behind ResultAt(p, 0), ResultAt(p, 1), ...
  finalizedCount,  \* DataKey::OracleFinalizedCount (OracleSubmitCount is the same)
  missedReveals,   \* DataKey::OracleMissedReveals
  accepted         \* DataKey::TotalSubmissions

pauseVars == <<oraclePaused, pauseGuardian>>
markers == <<commitment, revealed, submitted>>
outcomes == <<results, finalizedCount>>
windowVars == <<pauseVars, window, nonce, markers, openProjects, outcomes,
                missedReveals, accepted>>
oracleVars == <<stakingVars, windowVars>>

Reading(o, n) == [oracle |-> o, nonce |-> n]

Window(phase, opened, revealLedger, readings, done) ==
  [phase |-> phase, openedAt |-> opened, revealOpened |-> revealLedger,
   submissions |-> readings, finalized |-> done]
NoWindow == Window("None", 0, 0, <<>>, FALSE)

Contributions(readings, o) == Cardinality({i \in DOMAIN readings : readings[i].oracle = o})
OraclesOf(readings) == {readings[i].oracle : i \in DOMAIN readings}
\* Mutant: one reading more than the quorum is waited for.
EnoughAndOne(readings) == Len(readings) > config.minOracles

Enough(readings) == Len(readings) >= config.minOracles

(***************************************************************************)
(* Pausing.                                                                *)
(***************************************************************************)
SetOraclePaused(caller, value) ==
  /\ caller \in {oracleAdmin} \cup pauseGuardian
  /\ oraclePaused' = value
  /\ UNCHANGED <<stakingVars, pauseGuardian, window, nonce, markers, openProjects,
                 outcomes, missedReveals, accepted>>

SetOracleGuardian(caller, guardian) ==
  /\ caller = oracleAdmin
  /\ pauseGuardian' = {guardian}
  /\ UNCHANGED <<stakingVars, oraclePaused, window, nonce, markers, openProjects,
                 outcomes, missedReveals, accepted>>

(***************************************************************************)
(* What finalizing a window leaves behind, by either path.                 *)
(***************************************************************************)
CanOpen(p) == p \in openProjects \/ Cardinality(openProjects) < config.maxOpen

\* Mutant: the project stays in the index of open windows.
RecordStillOpen(p, readings) ==
  /\ results' = [results EXCEPT ![p] = Append(@, readings)]
  /\ finalizedCount' = [o \in Oracle |-> finalizedCount[o] + Contributions(readings, o)]
  /\ UNCHANGED openProjects

RecordResult(p, readings) ==
  /\ results' = [results EXCEPT ![p] = Append(@, readings)]
  /\ finalizedCount' = [o \in Oracle |-> finalizedCount[o] + Contributions(readings, o)]
  /\ openProjects' = openProjects \ {p}

MayReport(o) == o \in active /\ HasStake(o)

(***************************************************************************)
(* The direct path.  It looks at neither the pause nor the phase, and when *)
(* it finalizes a window it leaves the phase and every marker as they are. *)
(***************************************************************************)
SubmitReading(o, p) ==
  LET current == IF window[p] = NoWindow THEN Window("Reveal", clock, 0, <<>>, FALSE)
                                         ELSE window[p]
      readings == Append(current.submissions, Reading(o, nonce[p][o] + 1))
  IN  /\ nonce[p][o] < MaxNonce
      /\ MayReport(o)
      /\ o \notin submitted[p]
      /\ ~current.finalized
      /\ CanOpen(p)
      /\ nonce' = [nonce EXCEPT ![p][o] = @ + 1]
      /\ accepted' = accepted + 1
      /\ submitted' = [submitted EXCEPT ![p] = @ \cup {o}]
      /\ window' = [window EXCEPT ![p] = [current EXCEPT !.submissions = readings,
                                                         !.finalized = Enough(readings)]]
      /\ \/ /\ ~Enough(readings)
            /\ openProjects' = openProjects \cup {p}
            /\ UNCHANGED outcomes
         \/ /\ Enough(readings)
            /\ RecordResult(p, readings)
      /\ UNCHANGED <<stakingVars, pauseVars, commitment, revealed, missedReveals>>

(***************************************************************************)
(* Commit and reveal.                                                      *)
(***************************************************************************)
OpenWindow(caller, p) ==
  /\ caller = oracleAdmin
  /\ window[p] = NoWindow \/ window[p].finalized
  /\ CanOpen(p)
  /\ window' = [window EXCEPT ![p] = Window("Commit", clock, 0, <<>>, FALSE)]
  /\ openProjects' = openProjects \cup {p}
  /\ UNCHANGED <<stakingVars, pauseVars, nonce, markers, outcomes, missedReveals, accepted>>

CommitReading(o, p) ==
  /\ nonce[p][o] < MaxNonce
  /\ ~oraclePaused
  /\ MayReport(o)
  /\ ~window[p].finalized
  /\ window[p].phase = "Commit"
  /\ commitment[p][o] = 0
  /\ nonce' = [nonce EXCEPT ![p][o] = @ + 1]
  /\ commitment' = [commitment EXCEPT ![p][o] = nonce[p][o] + 1]
  /\ UNCHANGED <<stakingVars, pauseVars, window, revealed, submitted, openProjects,
                 outcomes, missedReveals, accepted>>

\* Anyone may call it, whether or not the contract is paused.
BeginRevealPhase(p) ==
  /\ ~window[p].finalized
  /\ window[p].phase = "Commit"
  /\ clock >= window[p].openedAt + config.commitSecs
  /\ \E o \in active : commitment[p][o] # 0
  /\ window' = [window EXCEPT ![p] = [@ EXCEPT !.phase = "Reveal",
                                               !.revealOpened = clock]]
  /\ UNCHANGED <<stakingVars, pauseVars, nonce, markers, openProjects, outcomes,
                 missedReveals, accepted>>

\* finalize_reveals: of the markers it clears the oracles' commitments and
\* reveals, not OracleSubmitted, and only those of oracles still active.
FinalizeReveals(p, readings, commitments) ==
  /\ window' = [window EXCEPT ![p] = [@ EXCEPT !.submissions = readings,
                                               !.phase = "Finalized",
                                               !.finalized = TRUE]]
  /\ RecordResult(p, readings)
  /\ commitment' = [commitment EXCEPT ![p] =
                      [o \in Oracle |-> IF o \in active THEN 0 ELSE commitments[o]]]
  /\ revealed' = [revealed EXCEPT ![p] = @ \ active]

\* Mutant: the oracle need not have committed.
RevealUncommitted(o, p) ==
  LET readings == Append(window[p].submissions, Reading(o, commitment[p][o]))
  IN  /\ ~oraclePaused
      /\ MayReport(o)
      /\ ~window[p].finalized
      /\ window[p].phase = "Reveal"
      /\ clock >= window[p].revealOpened + config.minReveal
      /\ clock <= window[p].revealOpened + config.maxReveal
      /\ o \notin revealed[p]
      /\ accepted' = accepted + 1
      /\ \/ /\ ~Enough(readings)
            /\ window' = [window EXCEPT ![p].submissions = readings]
            /\ revealed' = [revealed EXCEPT ![p] = @ \cup {o}]
            /\ UNCHANGED <<commitment, openProjects, outcomes>>
         \/ /\ Enough(readings)
            /\ FinalizeReveals(p, readings, commitment[p])
      /\ UNCHANGED <<stakingVars, pauseVars, nonce, submitted, missedReveals>>

\* Mutant: the OracleRevealed marker is not looked at.
RevealAgain(o, p) ==
  LET readings == Append(window[p].submissions, Reading(o, commitment[p][o]))
  IN  /\ ~oraclePaused
      /\ MayReport(o)
      /\ ~window[p].finalized
      /\ window[p].phase = "Reveal"
      /\ clock >= window[p].revealOpened + config.minReveal
      /\ clock <= window[p].revealOpened + config.maxReveal
      /\ commitment[p][o] # 0
      /\ accepted' = accepted + 1
      /\ \/ /\ ~Enough(readings)
            /\ window' = [window EXCEPT ![p].submissions = readings]
            /\ revealed' = [revealed EXCEPT ![p] = @ \cup {o}]
            /\ UNCHANGED <<commitment, openProjects, outcomes>>
         \/ /\ Enough(readings)
            /\ FinalizeReveals(p, readings, commitment[p])
      /\ UNCHANGED <<stakingVars, pauseVars, nonce, submitted, missedReveals>>

RevealReading(o, p) ==
  LET readings == Append(window[p].submissions, Reading(o, commitment[p][o]))
  IN  /\ ~oraclePaused
      /\ MayReport(o)
      /\ ~window[p].finalized
      /\ window[p].phase = "Reveal"
      /\ clock >= window[p].revealOpened + config.minReveal
      /\ clock <= window[p].revealOpened + config.maxReveal
      /\ commitment[p][o] # 0
      /\ o \notin revealed[p]
      /\ accepted' = accepted + 1
      /\ \/ /\ ~Enough(readings)
            /\ window' = [window EXCEPT ![p].submissions = readings]
            /\ revealed' = [revealed EXCEPT ![p] = @ \cup {o}]
            /\ UNCHANGED <<commitment, openProjects, outcomes>>
         \/ /\ Enough(readings)
            /\ FinalizeReveals(p, readings, commitment[p])
      /\ UNCHANGED <<stakingVars, pauseVars, nonce, submitted, missedReveals>>

\* The committed oracles that did not reveal lose part of their stake and the
\* commitment, whether or not the window then has enough readings.
Missing(p) == {o \in active : commitment[p][o] # 0 /\ o \notin revealed[p]}

\* Mutant: the reduced stake is not saved.
PenalizeKeepingStake(p) ==
  LET cut == [o \in Oracle |-> IF o \in Missing(p) THEN SlashAmount(stake[o]) ELSE 0]
      token == config.stakingToken
  IN  /\ missedReveals' = [o \in Oracle |-> IF o \in Missing(p) THEN missedReveals[o] + 1
                                                                ELSE missedReveals[o]]
      /\ slashed' = slashed \cup {o \in Oracle : cut[o] > 0}
      /\ vault[token] >= SumFunction(cut)
      /\ vault' = [vault EXCEPT ![token] = @ - SumFunction(cut)]
      /\ UNCHANGED <<stake, oracleAdmin, active, config, unstakeAt, wallet, clock>>

Penalize(p) ==
  LET cut == [o \in Oracle |-> IF o \in Missing(p) THEN SlashAmount(stake[o]) ELSE 0]
      token == config.stakingToken
  IN  /\ missedReveals' = [o \in Oracle |-> IF o \in Missing(p) THEN missedReveals[o] + 1
                                                                ELSE missedReveals[o]]
      /\ stake' = [o \in Oracle |-> stake[o] - cut[o]]
      /\ slashed' = slashed \cup {o \in Oracle : cut[o] > 0}
      /\ vault[token] >= SumFunction(cut)
      /\ vault' = [vault EXCEPT ![token] = @ - SumFunction(cut)]
      /\ UNCHANGED <<oracleAdmin, active, config, unstakeAt, wallet, clock>>

FinalizeWindow(p) ==
  LET kept == [o \in Oracle |-> IF o \in Missing(p) THEN 0 ELSE commitment[p][o]]
  IN  /\ ~oraclePaused
      /\ ~window[p].finalized
      /\ window[p].phase = "Reveal"
      /\ clock > window[p].revealOpened + config.maxReveal
      /\ Penalize(p)
      /\ \/ /\ ~Enough(window[p].submissions)
            /\ commitment' = [commitment EXCEPT ![p] = kept]
            /\ UNCHANGED <<window, revealed, openProjects, outcomes>>
         \/ /\ Enough(window[p].submissions)
            /\ FinalizeReveals(p, window[p].submissions, kept)
      /\ UNCHANGED <<pauseVars, nonce, submitted, accepted>>

\* Mutant: the markers are cleared and the readings are not.
ResetKeepingReadings(caller, p) ==
  LET freed == active \cup OraclesOf(window[p].submissions)
  IN  /\ caller = oracleAdmin
      /\ window[p] # NoWindow
      /\ window' = [window EXCEPT ![p] = Window("Commit", clock, 0, @.submissions, FALSE)]
      /\ commitment' = [commitment EXCEPT ![p] =
                          [o \in Oracle |-> IF o \in freed THEN 0 ELSE @[o]]]
      /\ revealed' = [revealed EXCEPT ![p] = @ \ freed]
      /\ submitted' = [submitted EXCEPT ![p] = @ \ freed]
      /\ UNCHANGED <<stakingVars, pauseVars, nonce, openProjects, outcomes,
                     missedReveals, accepted>>

\* Any window can be reset, a finalized one too, and openProjects stays as it is.
ResetWindow(caller, p) ==
  LET freed == active \cup OraclesOf(window[p].submissions)
  IN  /\ caller = oracleAdmin
      /\ window[p] # NoWindow
      /\ window' = [window EXCEPT ![p] = Window("Commit", clock, 0, <<>>, FALSE)]
      /\ commitment' = [commitment EXCEPT ![p] =
                          [o \in Oracle |-> IF o \in freed THEN 0 ELSE @[o]]]
      /\ revealed' = [revealed EXCEPT ![p] = @ \ freed]
      /\ submitted' = [submitted EXCEPT ![p] = @ \ freed]
      /\ UNCHANGED <<stakingVars, pauseVars, nonce, openProjects, outcomes,
                     missedReveals, accepted>>

\* oracle_has_open_submissions: a direct submission does not count as one.
HasOpenSubmissions(o) ==
  \E p \in openProjects : commitment[p][o] # 0 \/ o \in revealed[p]

--------------------------------------------------------------------------------
OracleInit ==
  /\ StakingInit
  /\ oraclePaused = FALSE
  /\ pauseGuardian = {}
  /\ window = [p \in Project |-> NoWindow]
  /\ nonce = [p \in Project |-> [o \in Oracle |-> 0]]
  /\ commitment = [p \in Project |-> [o \in Oracle |-> 0]]
  /\ revealed = [p \in Project |-> {}]
  /\ submitted = [p \in Project |-> {}]
  /\ openProjects = {}
  /\ results = [p \in Project |-> <<>>]
  /\ finalizedCount = [o \in Oracle |-> 0]
  /\ missedReveals = [o \in Oracle |-> 0]
  /\ accepted = 0

OracleNext ==
  \/ /\ UNCHANGED windowVars
     /\ \/ StakingCalls
        \/ \E caller \in OracleAdmins, o \in Oracle :
             RemoveOracle(caller, o, HasOpenSubmissions(o))
  \/ \E caller \in OracleAdmins \cup WindowAdmins :
       \/ \E value \in BOOLEAN : SetOraclePaused(caller, value)
       \/ \E guardian \in WindowAdmins : SetOracleGuardian(caller, guardian)
       \/ \E p \in Project : OpenWindow(caller, p) \/ ResetWindow(caller, p)
  \/ \E o \in Oracle, p \in Project : \/ SubmitReading(o, p)
                                      \/ CommitReading(o, p)
                                      \/ RevealReading(o, p)
  \/ \E p \in Project : BeginRevealPhase(p) \/ FinalizeWindow(p)

OracleSpec == OracleInit /\ [][OracleNext]_oracleVars

--------------------------------------------------------------------------------
Readings == [oracle : Oracle, nonce : Nat \ {0}]
Windows == [phase : {"None", "Commit", "Reveal", "Finalized"}, openedAt : Nat,
            revealOpened : Nat, submissions : Seq(Readings), finalized : BOOLEAN]

WindowTypeOK ==
  /\ StakingTypeOK
  /\ oraclePaused \in BOOLEAN
  /\ pauseGuardian \in SUBSET WindowAdmins
  /\ window \in [Project -> Windows]
  /\ nonce \in [Project -> [Oracle -> Nat]]
  /\ commitment \in [Project -> [Oracle -> Nat]]
  /\ revealed \in [Project -> SUBSET Oracle]
  /\ submitted \in [Project -> SUBSET Oracle]
  /\ openProjects \subseteq Project
  /\ results \in [Project -> Seq(Seq(Readings))]
  /\ finalizedCount \in [Oracle -> Nat]
  /\ missedReveals \in [Oracle -> Nat]
  /\ accepted \in Nat

\* The sum over the projects of what a function gives for each.
OverProjects(f(_)) == SumFunction([p \in Project |-> f(p)])

Counting(p, o) == IF window[p].finalized THEN 0 ELSE Contributions(window[p].submissions, o)
Awaited(p, o) == IF commitment[p][o] # 0 /\ o \notin revealed[p] THEN 1 ELSE 0

\* Every nonce an oracle ever used is spent at most once: on a reading in a
\* result, on a reading in a window not yet finalized, on a commitment still to
\* be revealed or on a missed reveal.  So no reading is replayed into a second
\* window, and no oracle is penalized for a reading that counted, whatever the
\* order of direct submissions, reveals, resets and finalizations.
NoncesSpentOnce ==
  \A o \in Oracle :
    LET Used(p) == nonce[p][o]
        Pending(p) == Counting(p, o) + Awaited(p, o)
    IN  finalizedCount[o] + missedReveals[o] + OverProjects(Pending) <= OverProjects(Used)

\* Whatever configurations the admin goes through, median_i64 never gets more
\* readings than its buffer holds, which would block finalization for good.
MedianBufferFits == \A p \in Project : Len(window[p].submissions) <= HardLimit

\* The index of open windows names no project without one, so that windows
\* already finalized do not use up max_open_windows.
IndexedProjectsAreOpen ==
  \A p \in openProjects : window[p] # NoWindow /\ ~window[p].finalized

\* Direct submissions and reveals fill the same window, each behind a marker of its
\* own, and four calls clear markers of oracles that may or may not be members at
\* the time.  A window that waits still has the marker of each reading in it, so
\* that an oracle takes no path to it twice: not after leaving and coming back, not
\* after a reset, not with a commitment left over from the window before.
OneReadingPerPath ==
  \A p \in Project, o \in Oracle :
    Counting(p, o) <= (IF o \in revealed[p] THEN 1 ELSE 0)
                    + (IF o \in submitted[p] THEN 1 ELSE 0)

\* doc/SPEC.md:147 has OracleFinalizedCount incremented "once for each oracle whose
\* reveal contributed to the result".  It counts readings, direct ones too, and a
\* result may hold two of one oracle.
CountedOncePerResult ==
  \A o \in Oracle :
    LET With(p) == Cardinality({k \in DOMAIN results[p] : o \in OraclesOf(results[p][k])})
    IN  finalizedCount[o] = OverProjects(With)

\* SPEC section 5, invariant 6: "An oracle cannot submit twice to the same open
\* window for the same project".  A direct submission and a reveal do.
OneReadingPerOracle ==
  \A p \in Project, o \in Oracle : Contributions(window[p].submissions, o) <= 1
================================================================================
