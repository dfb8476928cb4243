---------------------------- MODULE SessionProofs ----------------------------
(***************************************************************************)
(* Proofs about module Session, for every number of keys pressed, with or  *)
(* without the dashboard and with or without a limit.                      *)
(***************************************************************************)
EXTENDS Session, TLAPS

-----------------------------------------------------------------------------
(* Type correctness.                                                       *)

LEMMA InitTyped ==
  ASSUME Init
  PROVE  TypeOK
<1>1. /\ main \in {"dashboard", "join"} /\ tui \in {"init", "closed"} /\ campaign = "boot"
      /\ (main = "dashboard" <=> tui # "closed")
  BY DEF Init
<1>2. dash \in Uis /\ harness \in Modes /\ quit \in BOOLEAN /\ stop \in BOOLEAN
      /\ raw \in BOOLEAN /\ ~raw
  BY Zenon DEF Init
<1>3. typed \in Seq(Keys) /\ presses \in 0..MaxKeys /\ asked \subseteq Keys
  BY SessionAssumption DEF Init
<1> QED BY <1>1, <1>2, <1>3 DEF TypeOK, Running, Unfinished

(* The campaign's task moves on its own; only the wrapper sets the flag    *)
(* that closes the dashboard.                                              *)
LEMMA CampaignTyped ==
  ASSUME TypeOK,
         \/ CampaignBoots \/ CampaignSteps \/ IterationEnds
         \/ CampaignReachesLimit \/ CampaignErrs \/ CampaignPanics
  PROVE  TypeOK'
<1>1. UNCHANGED <<dash, harness, main, tui, stop, raw, typed, presses, asked>>
  BY DEF CampaignSteps, CampaignBoots, CampaignStops, IterationBegins, IterationEnds,
         WrapperEnds, CampaignReachesLimit, CampaignErrs, CampaignPanics
<1>2. campaign' \in {"top", "body", "ended", "finished", "aborted"}
  BY DEF CampaignSteps, CampaignBoots, CampaignStops, IterationBegins, IterationEnds,
         WrapperEnds, CampaignReachesLimit, CampaignErrs, CampaignPanics
<1>3. quit' = quit \/ quit' = dash
  BY DEF CampaignSteps, CampaignBoots, CampaignStops, IterationBegins, IterationEnds,
         WrapperEnds, CampaignReachesLimit, CampaignErrs, CampaignPanics
<1>4. quit' \in BOOLEAN
  BY <1>3, SessionAssumption DEF TypeOK
<1> QED BY <1>1, <1>2, <1>4 DEF TypeOK, Running, Unfinished

(* The dashboard's loop keeps the terminal raw from its start to its end.  *)
LEMMA TuiTyped ==
  ASSUME TypeOK, TuiSteps \/ TuiFails
  PROVE  TypeOK'
<1>1. Running /\ main = "dashboard" /\ UNCHANGED <<dash, harness, campaign, stop, presses, asked>>
  BY DEF TuiSteps, TuiOpens, TuiChecks, TuiPolls, TuiDraws, TuiCloses, TuiFails, TypeOK
<1>2. typed' \in Seq(Keys)
  BY DEF TuiSteps, TuiOpens, TuiChecks, TuiPolls, TuiDraws, TuiCloses, TuiFails, TypeOK
<1>3. quit' \in BOOLEAN
  <2>1. quit' = quit \/ quit' = TRUE
    BY DEF TuiSteps, TuiOpens, TuiChecks, TuiPolls, TuiDraws, TuiCloses, TuiFails
  <2> QED BY <2>1, Zenon DEF TypeOK
<1>4. CASE TuiOpens
  <2>1. raw' \in BOOLEAN /\ raw' /\ tui' = "check" /\ main' = main
    BY <1>4, Zenon DEF TuiOpens
  <2> QED BY <1>1, <1>2, <1>3, <2>1 DEF TypeOK, Running
<1>5. CASE TuiChecks \/ TuiPolls \/ TuiDraws
  <2>1. /\ raw' = raw /\ main' = main /\ tui \notin {"init", "closed"}
        /\ tui' \in {"check", "poll", "draw", "restore"}
    BY <1>5 DEF TuiChecks, TuiPolls, TuiDraws
  <2> QED BY <1>1, <1>2, <1>3, <2>1 DEF TypeOK, Running
<1>6. CASE TuiCloses
  <2>1. raw' \in BOOLEAN /\ ~raw' /\ tui' = "closed" /\ main' = "join"
    BY <1>6, Zenon DEF TuiCloses
  <2> QED BY <1>1, <1>2, <1>3, <2>1 DEF TypeOK, Running
<1>7. CASE TuiFails
  <2>1. raw' = raw /\ tui' = tui /\ main' = "failed"
    BY <1>7 DEF TuiFails
  <2> QED BY <1>1, <1>2, <1>3, <2>1 DEF TypeOK, Running
<1> QED BY <1>4, <1>5, <1>6, <1>7 DEF TuiSteps

(* A key goes to the terminal or, as a signal, to the process. *)
LEMMA UserTyped ==
  ASSUME TypeOK, User
  PROVE  TypeOK'
<1>1. PICK key \in Keys : PressKey(key)
  BY DEF User
<1>2. UNCHANGED <<dash, harness, tui, campaign, quit, raw>> /\ Running
  BY <1>1 DEF PressKey
<1>3. presses' \in 0..MaxKeys /\ asked' \subseteq Keys
  BY <1>1, SessionAssumption DEF PressKey, TypeOK
<1>4. typed' \in Seq(Keys)
  BY <1>1 DEF PressKey, TypeOK
<1>5. stop' \in BOOLEAN
  <2>1. stop' = stop \/ stop' = TRUE
    BY <1>1 DEF PressKey
  <2> QED BY <2>1, Zenon DEF TypeOK
<1>6. main' = main \/ main' = "killed"
  BY <1>1 DEF PressKey
<1> QED BY <1>2, <1>3, <1>4, <1>5, <1>6 DEF TypeOK, Running

(* The variables keep their types; main is in run_tui exactly until it     *)
(* closes, and the terminal is raw exactly while it runs.                  *)
LEMMA StepTyped ==
  ASSUME TypeOK, [Next]_vars
  PROVE  TypeOK'
<1>1. CASE MainJoins
  <2>1. main' \in {"exited", "failed"}
        /\ UNCHANGED <<dash, harness, tui, campaign, quit, stop, raw, typed, presses, asked>>
    BY <1>1 DEF MainJoins
  <2> QED BY <2>1 DEF TypeOK, Running
<1>2. CASE UNCHANGED vars
  BY <1>2 DEF vars, TypeOK, Running
<1> QED
  BY <1>1, <1>2, CampaignTyped, TuiTyped, UserTyped DEF Next, Over

THEOREM SessionTypeOK == Spec => []TypeOK
<1> QED BY InitTyped, StepTyped, PTL DEF Spec

-----------------------------------------------------------------------------
(* The end of the program.                                                 *)

(* Only MainJoins ends the program normally, and after that nothing moves. *)
LEMMA ExitStep ==
  ASSUME TypeOK, ExitIsClean, [Next]_vars
  PROVE  ExitIsClean'
<1>1. CASE MainJoins
  <2>1. tui = "closed" /\ ~raw
    BY <1>1 DEF MainJoins, TypeOK, Running
  <2> QED BY <1>1, <2>1 DEF MainJoins, ExitIsClean
<1>2. CASE UNCHANGED vars
  BY <1>2 DEF vars, ExitIsClean
<1>3. CASE ~MainJoins /\ ~UNCHANGED vars
  <2>1. main' # "exited"
    BY <1>3 DEF Next, CampaignSteps, CampaignBoots, CampaignStops, IterationBegins,
                IterationEnds, WrapperEnds, CampaignReachesLimit, CampaignErrs, CampaignPanics, TuiSteps, TuiOpens,
                TuiChecks, TuiPolls, TuiDraws, TuiCloses, TuiFails, User, PressKey, Over,
                Running
  <2> QED BY <2>1 DEF ExitIsClean
<1> QED BY <1>1, <1>2, <1>3

(* A program that exits normally waited for the last iteration of the      *)
(* campaign and gave the terminal back, whichever of the two ended first.  *)
THEOREM ExitsAreClean == Spec => []ExitIsClean
<1>1. Init => ExitIsClean
  BY DEF Init, ExitIsClean
<1> QED BY <1>1, ExitStep, SessionTypeOK, PTL DEF Spec

(* Nothing but a failure of the dashboard itself ends the program and      *)
(* leaves the terminal raw: Ctrl-C is a key there, not a signal that kills,*)
(* and main joins the campaign only after the terminal was restored.       *)
TerminalIsGivenBack == ~Running /\ raw => main = "failed"

(* Whatever ends the program, the terminal is lost only to such a failure. *)
THEOREM TerminalIsOnlyLostByFailure == Spec => []TerminalIsGivenBack
<1>1. Init => TerminalIsGivenBack
  BY DEF Init, TerminalIsGivenBack
<1>2. TypeOK /\ TerminalIsGivenBack /\ [Next]_vars => TerminalIsGivenBack'
  <2> SUFFICES ASSUME TypeOK, TerminalIsGivenBack, [Next]_vars
               PROVE  TerminalIsGivenBack'
    OBVIOUS
  <2>1. CASE MainJoins
    <3>1. tui = "closed" /\ ~raw /\ raw' = raw
      BY <2>1 DEF MainJoins, TypeOK, Running
    <3> QED BY <3>1 DEF TerminalIsGivenBack
  <2>2. CASE User
    <3>1. PICK key \in Keys : PressKey(key)
      BY <2>2 DEF User
    <3>2. raw' = raw /\ Running /\ (main' = main \/ ~raw)
      BY <3>1 DEF PressKey
    <3> QED BY <3>2 DEF TerminalIsGivenBack, Running
  <2>3. CASE TuiFails
    BY <2>3 DEF TuiFails, TerminalIsGivenBack
  <2>4. CASE \/ CampaignBoots \/ CampaignSteps \/ IterationEnds
             \/ CampaignReachesLimit \/ CampaignErrs \/ CampaignPanics \/ TuiSteps
    <3>1. Running /\ (main' = main \/ main' = "join")
      BY <2>4 DEF CampaignSteps, CampaignBoots, CampaignStops, IterationBegins,
                  IterationEnds, WrapperEnds, CampaignReachesLimit, CampaignErrs, CampaignPanics, TuiSteps, TuiOpens,
                  TuiChecks, TuiPolls, TuiDraws, TuiCloses
    <3> QED BY <3>1 DEF TerminalIsGivenBack, Running
  <2>5. CASE UNCHANGED vars
    BY <2>5 DEF vars, TerminalIsGivenBack, Running
  <2> QED BY <2>1, <2>2, <2>3, <2>4, <2>5 DEF Next, Over
<1> QED BY <1>1, <1>2, SessionTypeOK, PTL DEF Spec
=============================================================================
