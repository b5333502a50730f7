--------------------------- MODULE TransientStatus ---------------------------
(***************************************************************************)
(* The status line of PodsUIModel (SetTransientStatus and currentStatus of *)
(* pkg/model/pods_ui_model.go): the last message with its deadline.  The   *)
(* output of a kubectl command that failed goes there with all its lines.  *)
(*                                                                         *)
(* The UI, the metrics poller and the watches (through the watchLogBridge) *)
(* set it; only the UI reads it, and takes away what is over in a second   *)
(* section of its lock.  ClearTransientStatus runs only for a blank        *)
(* message, which no caller has.                                           *)
(***************************************************************************)
EXTENDS Naturals

CONSTANT MessageLines \* how many lines messages may have

ASSUME MessagesHaveLines == MessageLines \subseteq Nat \ {0}

VARIABLES
  status,      \* statusLine with statusUntil: "none", "valid" or "over"
  statusLines, \* the lines of statusLine
  reading      \* currentStatus: "no", or found a message over, now "same" or "changed"

statusVars == <<status, statusLines, reading>>

StatusInit == status = "none" /\ statusLines = 0 /\ reading = "no"

(* Also watchLogBridge.Write: the new message replaces whatever is there. *)
SetTransientStatus(lines) ==
  /\ status' = "valid"
  /\ statusLines' = lines
  /\ reading' = IF reading = "no" THEN "no" ELSE "changed"

(* time.Now() passes statusUntil. *)
StatusExpires ==
  /\ status = "valid"
  /\ status' = "over"
  /\ UNCHANGED <<statusLines, reading>>

(* currentStatus reads a message, or none, or one that is over. *)
CurrentStatus == status = "valid"

ReadStatus ==
  /\ reading = "no"
  /\ reading' = IF status = "over" THEN "same" ELSE "no"
  /\ UNCHANGED <<status, statusLines>>

(* Mutant: what is there now goes, whatever it is. *)
ClearAnyStatus ==
  /\ reading # "no"
  /\ status' = "none" /\ statusLines' = 0
  /\ reading' = "no"

(* currentStatus: what was found over goes, unless there is a newer one. *)
ClearExpired ==
  /\ reading # "no"
  /\ status' = IF reading = "same" THEN "none" ELSE status
  /\ statusLines' = IF reading = "same" THEN 0 ELSE statusLines
  /\ reading' = "no"

(* A message stays until its time is over or another one replaces it: no   *)
(* reader that found its predecessor expired takes it away.                *)
StatusNotCutShort == [][status = "valid" => status' # "none"]_statusVars
=============================================================================
