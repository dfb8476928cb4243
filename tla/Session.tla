------------------------------ MODULE Session -------------------------------
(***************************************************************************)
(* `phaedra fuzz', with or without --tui: the main task, the dashboard's   *)
(* loop (tui::run_tui), the campaign running as a task beside it, and the  *)
(* user at the keyboard.  `phaedra compat' wires the same tasks.           *)
(*                                                                         *)
(* Two flags carry the word "shutdown".  One is shared by the dashboard    *)
(* and the wrapper around the campaign; the other belongs to run_campaign  *)
(* and is set by its own ctrl-c task.  While the dashboard runs, the       *)
(* terminal is in raw mode, where Ctrl-C is a key like any other and       *)
(* raises no signal.                                                       *)
(***************************************************************************)
EXTENDS Naturals, Sequences

CONSTANTS
  Uis,       \* of {TRUE, FALSE}: whether --tui may be given
  Modes,     \* the harnesses --harness may name: "stdin", "file", "socket"
  Limited,   \* BOOLEAN: --max-execs was given
  MaxKeys    \* bound of the model: keys the user presses

ASSUME SessionAssumption ==
  /\ Uis \subseteq BOOLEAN /\ Modes \subseteq {"stdin", "file", "socket"}
  /\ Limited \in BOOLEAN /\ MaxKeys \in Nat

VARIABLES
  dash,      \* --tui was given
  harness,   \* the harness the campaign was given
  main,      \* "dashboard", "join": awaiting a task; "exited", "failed", "killed"
  tui,       \* "init", the three stages of its loop, "restore" or "closed"
  campaign,  \* "boot", "top" or "body" of the loop, "ended", "finished", "aborted"
  quit,      \* the flag run_tui and the wrapper share
  stop,      \* the flag of run_campaign
  raw,       \* the terminal is in raw mode
  typed,     \* keys the terminal holds for the dashboard
  presses,   \* how many keys were pressed so far
  asked      \* what the user has asked for, ever

vars == <<dash, harness, main, tui, campaign, quit, stop, raw, typed, presses, asked>>

Keys == {"q", "ctrl-c", "other"}

Running == main \in {"dashboard", "join"}

(* stages of run_campaign in which an error or a panic can end it *)
Unfinished == {"boot", "top", "body"}

-----------------------------------------------------------------------------
Init ==
  /\ dash \in Uis /\ harness \in Modes
  /\ main = IF dash THEN "dashboard" ELSE "join"
  /\ tui = IF dash THEN "init" ELSE "closed"
  /\ campaign = "boot"
  /\ quit = FALSE /\ stop = FALSE /\ raw = FALSE
  /\ typed = <<>> /\ presses = 0 /\ asked = {}

(* run_campaign opens its stores, seeds the corpus, and installs its       *)
(* ctrl-c handler as it reaches the loop.                                  *)
CampaignBoots ==
  /\ Running /\ campaign = "boot"
  /\ campaign' = "top"
  /\ UNCHANGED <<dash, harness, main, tui, quit, stop, raw, typed, presses, asked>>

(* The top of the loop finds the flag set. *)
CampaignStops ==
  /\ Running /\ campaign = "top" /\ stop
  /\ campaign' = "ended"
  /\ UNCHANGED <<dash, harness, main, tui, quit, stop, raw, typed, presses, asked>>

(* The top of the loop finds the limit reached. *)
CampaignReachesLimit ==
  /\ Running /\ campaign = "top" /\ ~stop /\ Limited
  /\ campaign' = "ended"
  /\ UNCHANGED <<dash, harness, main, tui, quit, stop, raw, typed, presses, asked>>

(* Neither: an iteration begins, most of which is awaiting the harness.    *)
(* The flag is not looked at again before it is over.                      *)
IterationBegins ==
  /\ Running /\ campaign = "top" /\ ~stop
  /\ campaign' = "body"
  /\ UNCHANGED <<dash, harness, main, tui, quit, stop, raw, typed, presses, asked>>

(* harness.execute has returned, and its result has been dealt with. *)
IterationEnds ==
  /\ Running /\ campaign = "body"
  /\ campaign' = "top"
  /\ UNCHANGED <<dash, harness, main, tui, quit, stop, raw, typed, presses, asked>>

(* run_campaign returns an error, which the wrapper logs; without the      *)
(* dashboard there is no wrapper, and main returns the error.              *)
CampaignErrs ==
  /\ Running /\ campaign \in Unfinished
  /\ campaign' = IF dash THEN "ended" ELSE "aborted"
  /\ UNCHANGED <<dash, harness, main, tui, quit, stop, raw, typed, presses, asked>>

(* It panics: its task ends without setting the shared flag. *)
CampaignPanics ==
  /\ Running /\ campaign \in Unfinished
  /\ campaign' = "aborted"
  /\ UNCHANGED <<dash, harness, main, tui, quit, stop, raw, typed, presses, asked>>

(* Mutant: the wrapper tells nobody. *)
WrapperEnds_Silently ==
  /\ Running /\ campaign = "ended"
  /\ campaign' = "finished"
  /\ UNCHANGED <<dash, harness, main, tui, quit, stop, raw, typed, presses, asked>>

(* After run_campaign the wrapper, if any, tells the dashboard to close. *)
WrapperEnds ==
  /\ Running /\ campaign = "ended"
  /\ quit' = dash
  /\ campaign' = "finished"
  /\ UNCHANGED <<dash, harness, main, tui, stop, raw, typed, presses, asked>>

-----------------------------------------------------------------------------
(* run_tui                                                                 *)

TuiOpens ==
  /\ Running /\ tui = "init"
  /\ raw' = TRUE
  /\ tui' = "check"
  /\ UNCHANGED <<dash, harness, main, campaign, quit, stop, typed, presses, asked>>

TuiChecks ==
  /\ Running /\ tui = "check"
  /\ tui' = IF quit THEN "restore" ELSE "poll"
  /\ UNCHANGED <<dash, harness, main, campaign, quit, stop, raw, typed, presses, asked>>

(* Mutant: q leaves run_tui past restore_terminal. *)
TuiPolls_ReturnsAtOnce ==
  /\ Running /\ tui = "poll"
  /\ \/ typed = <<>> /\ tui' = "draw" /\ UNCHANGED <<dash, harness, quit, typed>>
     \/ /\ typed # <<>>
        /\ typed' = Tail(typed)
        /\ quit' = (quit \/ Head(typed) = "q")
        /\ tui' = IF Head(typed) = "q" THEN "closed" ELSE "draw"
  /\ UNCHANGED <<dash, harness, main, campaign, stop, raw, presses, asked>>

(* event::poll ends after 100 ms with or without a key *)
TuiPolls ==
  /\ Running /\ tui = "poll"
  /\ \/ /\ typed = <<>>
        /\ tui' = "draw"
        /\ UNCHANGED <<dash, harness, quit, typed>>
     \/ /\ typed # <<>>
        /\ typed' = Tail(typed)
        /\ IF Head(typed) = "q"
             THEN quit' = TRUE /\ tui' = "restore"
             ELSE tui' = "draw" /\ UNCHANGED quit
  /\ UNCHANGED <<dash, harness, main, campaign, stop, raw, presses, asked>>

TuiDraws ==
  /\ Running /\ tui = "draw"
  /\ tui' = "check"
  /\ UNCHANGED <<dash, harness, main, campaign, quit, stop, raw, typed, presses, asked>>

(* A terminal error is propagated past restore_terminal and out of main,   *)
(* which takes the campaign's task with it.                                *)
TuiFails ==
  /\ Running /\ tui \in {"init", "poll", "draw", "restore"}
  /\ main' = "failed"
  /\ UNCHANGED <<dash, harness, tui, campaign, quit, stop, raw, typed, presses, asked>>

TuiCloses ==
  /\ Running /\ tui = "restore"
  /\ raw' = FALSE
  /\ tui' = "closed" /\ main' = "join"
  /\ UNCHANGED <<dash, harness, campaign, quit, stop, typed, presses, asked>>

(* Mutant: main does not await the campaign. *)
MainJoins_AtOnce ==
  /\ main = "join"
  /\ main' = IF campaign = "aborted" THEN "failed" ELSE "exited"
  /\ UNCHANGED <<dash, harness, tui, campaign, quit, stop, raw, typed, presses, asked>>

(* Mutant: a panic of the campaign is not an end to wait for. *)
MainJoins_IfFinished ==
  /\ main = "join" /\ campaign = "finished"
  /\ main' = "exited"
  /\ UNCHANGED <<dash, harness, tui, campaign, quit, stop, raw, typed, presses, asked>>

(* campaign_handle.await, or the end of run_campaign itself *)
MainJoins ==
  /\ main = "join" /\ campaign \in {"finished", "aborted"}
  /\ main' = IF campaign = "finished" THEN "exited" ELSE "failed"
  /\ UNCHANGED <<dash, harness, tui, campaign, quit, stop, raw, typed, presses, asked>>

-----------------------------------------------------------------------------
(* The user.  In raw mode every key goes to the dashboard; otherwise       *)
(* Ctrl-C is a signal, for the handler of run_campaign once there is one.  *)

PressKey(key) ==
  /\ Running /\ presses < MaxKeys
  /\ presses' = presses + 1
  /\ asked' = asked \union {key}
  /\ UNCHANGED <<dash, harness, tui, campaign, quit, raw>>
  /\ \/ /\ raw \/ key # "ctrl-c"
        /\ typed' = Append(typed, key)
        /\ UNCHANGED <<dash, harness, main, stop>>
     \/ /\ ~raw /\ key = "ctrl-c" /\ campaign # "boot"
        /\ stop' = TRUE
        /\ UNCHANGED <<dash, harness, main, typed>>
     \/ /\ ~raw /\ key = "ctrl-c" /\ campaign = "boot"
        /\ main' = "killed"
        /\ UNCHANGED <<dash, harness, stop, typed>>

User == \E key \in Keys : PressKey(key)

Over == ~Running /\ UNCHANGED vars

CampaignSteps == CampaignStops \/ IterationBegins \/ WrapperEnds
TuiSteps      == TuiOpens \/ TuiChecks \/ TuiPolls \/ TuiDraws \/ TuiCloses

Next ==
  \/ CampaignBoots \/ CampaignSteps \/ IterationEnds
  \/ CampaignReachesLimit \/ CampaignErrs \/ CampaignPanics
  \/ TuiSteps \/ TuiFails \/ MainJoins
  \/ User \/ Over

(* The three tasks are scheduled; nothing is assumed of the user, of       *)
(* errors, of the start (which may await a language model), nor that a     *)
(* limited campaign lives to reach its limit.  An iteration ends because   *)
(* its call of the harness does: FileHarness and SocketHarness await only  *)
(* what is under a timeout.  StdinHarness awaits write_all outside it, for *)
(* ever if the target neither reads nor ends (run stdin_blocked), so with  *)
(* "stdin" nothing is assumed of it.  A Ctrl-C at the terminal reaches the *)
(* target as well and may free such a call; the target may also ignore it. *)
Spec ==
  /\ Init /\ [][Next]_vars
  /\ WF_vars(CampaignSteps) /\ WF_vars(TuiSteps) /\ WF_vars(MainJoins)
  /\ WF_vars(harness # "stdin" /\ IterationEnds)

-----------------------------------------------------------------------------
(* Correctness.                                                            *)

(* Types, and how the dashboard stands to main and the terminal: main is   *)
(* in run_tui until it closes, and the terminal is raw from its start to   *)
(* its end, whatever key ended it.                                         *)
TypeOK ==
  /\ main \in {"dashboard", "join", "exited", "failed", "killed"}
  /\ tui \in {"init", "check", "poll", "draw", "restore", "closed"}
  /\ campaign \in Unfinished \union {"ended", "finished", "aborted"}
  /\ dash \in Uis /\ harness \in Modes
  /\ quit \in BOOLEAN /\ stop \in BOOLEAN /\ raw \in BOOLEAN
  /\ Running => (main = "dashboard" <=> tui # "closed")
  /\ raw <=> tui \notin {"init", "closed"}
  /\ typed \in Seq(Keys) /\ presses \in 0..MaxKeys /\ asked \subseteq Keys

(* A program that exits normally has let the campaign finish its last      *)
(* iteration and has given the terminal back.                              *)
ExitIsClean == main = "exited" => campaign = "finished" /\ ~raw /\ tui = "closed"

(* A campaign that ends takes the dashboard down and the program with it,  *)
(* whatever keys lie unread.                                               *)
CampaignEndsProgram == campaign \in {"ended", "finished"} ~> ~Running

(* No call of StdinHarness lasts for ever. *)
StdinReturns == []<>(harness = "stdin" => campaign # "body")

(* A Ctrl-C that reaches the campaign as a signal ends the program, for    *)
(* good: the flag once set is never missed, whatever the dashboard does.   *)
(* Without the dashboard every Ctrl-C is such a signal.  There are two     *)
(* exceptions.  If a call of StdinHarness blocks outside its timeout the   *)
(* top of the loop is never reached, and the handler has replaced the      *)
(* kill that Ctrl-C was before; over the other harnesses the property is   *)
(* unconditional.  And nothing closes the dashboard of a campaign that     *)
(* panics, except q.                                                       *)
CtrlCEndsProgram ==
  StdinReturns =>
    (stop \/ (~dash /\ "ctrl-c" \in asked)
       ~> ~Running \/ (campaign = "aborted" /\ main = "dashboard"))
=============================================================================
