---------------------------- MODULE SetupWizard ----------------------------
(***************************************************************************)
(* The state of the server's setup wizard and of what it sets in the main  *)
(* process (renderer/server/state/setupMachine.ts, screens/setup/, and the *)
(* settings behind main/server/controller.ts). ServerWindow has its        *)
(* actions.                                                                *)
(***************************************************************************)
EXTENDS Naturals, Sequences

CONSTANTS
  Urls,         \* texts of the wizard's field for the qBittorrent URL
  DefaultUrl    \* what the field holds at first

\* An address is neither of the two verdicts a probe may have.
ASSUME WizardAssumption == DefaultUrl \in Urls /\ Urls \cap {"none", "bad"} = {}

VARIABLES
  folder,   \* the saved working folder: "none", "good" or "bad" (not writable)
  hash,     \* whether a Viking user hash is saved
  answers,  \* answers under way, by kind of call
  wiz       \* the wizard, while it is shown

Off == [step |-> 0, folder |-> "unread", folderBusy |-> FALSE,
        radmin |-> "unread", radminBusy |-> FALSE, url |-> DefaultUrl,
        probe |-> "none", qbitBusy |-> FALSE, edited |-> FALSE,
        mode |-> "unread", vikingBusy |-> FALSE, picked |-> FALSE]

\* Each step of the wizard is done by what the window believes.
Done(w, s) ==
  CASE s = 1 -> w.folder = "good"
    [] s = 2 -> w.radmin = "named"
    [] s = 3 -> w.probe \in Urls
    [] s = 4 -> w.mode \in {"anonymous", "user_hash"}

StepDone(w, s) == IF s = 5 THEN \A t \in 1..4 : Done(w, t) ELSE Done(w, s)

\* A step the wizard shows as done is done in the main process: the folder it
\* calls good is the saved one, the account or anonymous choice it shows is the
\* one uploads will use, and the qBittorrent address tested is the one in the
\* field. Excepted are an answer still under way, a choice clicked and not
\* saved (setupMachine.ts:194) and an address edited during its test (:190).
StepsHold ==
  wiz.step # 0 =>
    /\ wiz.folder = "good" /\ answers["folder"] = <<>> => folder = "good"
    /\ answers["hash"] = <<>> /\ ~wiz.picked =>
         /\ wiz.mode = "user_hash" => hash
         /\ wiz.mode = "anonymous" => ~hash
    /\ wiz.probe \in Urls /\ ~wiz.edited => wiz.probe = wiz.url
=============================================================================
