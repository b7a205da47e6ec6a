--------------------------------- MODULE Tab ---------------------------------
(***************************************************************************)
(* What the tab of a client promises the user, with no threads, sockets or *)
(* memory in it: a measurement is started, rows come in while the client   *)
(* can be heard, STOP is the last command the client gets and the last     *)
(* row is recorded before it.  A tab that lost its client does not get it  *)
(* back.  Commands are SETTINGS and STOP; the pings and timestamps that    *)
(* keep a connection alive are none.                                       *)
(*                                                                         *)
(* The promises about rows are off once the user pressed Start again       *)
(* before a row was recorded, or Remove (intact); those about commands     *)
(* hold all the same.                                                      *)
(***************************************************************************)
EXTENDS Naturals, Sequences

VARIABLES
  open,      \* the client can be heard, and may be sent commands
  started,   \* a measurement was started
  rows,      \* recorded rows
  sent,      \* commands sent to the client, in order: "SETTINGS", "STOP"
  intact

tab == <<open, started, rows, sent, intact>>

Init ==
  /\ open = TRUE
  /\ started = FALSE
  /\ rows = 0
  /\ sent = << >>
  /\ intact = TRUE

\* The settings go, once per Start, to a client that can be heard.
SettingsSent == \/ UNCHANGED sent
                \/ open /\ sent' = Append(sent, "SETTINGS")

\* Start of a tab without rows, for the first time or again.
Start ==
  /\ rows = 0
  /\ SettingsSent
  /\ started' = TRUE
  /\ intact' = (intact /\ ~started)
  /\ UNCHANGED <<open, rows>>

\* Start of a tab with rows keeps them, and only sends the settings.
Resend ==
  /\ rows > 0
  /\ SettingsSent
  /\ UNCHANGED <<open, started, rows, intact>>

Record ==
  /\ started
  /\ intact => open
  /\ rows' = rows + 1
  /\ UNCHANGED <<open, started, sent, intact>>

\* The rows of an earlier Start are lost to a later one.
Clear ==
  /\ ~intact
  /\ rows' = 0
  /\ UNCHANGED <<open, started, sent, intact>>

Stop ==
  /\ open
  /\ open' = FALSE
  /\ sent' = Append(sent, "STOP")
  /\ UNCHANGED <<started, rows, intact>>

\* The link is lost, or a thread ends that still read what had arrived.
Lose ==
  /\ open
  /\ open' = FALSE
  /\ UNCHANGED <<started, rows, sent, intact>>

Remove ==
  /\ intact' = FALSE
  /\ UNCHANGED <<open, started, rows, sent>>

Next == Start \/ Resend \/ Record \/ Clear \/ Stop \/ Lose \/ Remove

Spec == Init /\ [][Next]_tab
=============================================================================
