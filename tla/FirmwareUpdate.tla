--------------------------- MODULE FirmwareUpdate ---------------------------
(***************************************************************************)
(* What a firmware update promises, with no flash, pages or power cuts:    *)
(* an update is armed while an image is whole, the image may be broken and *)
(* rebuilt any number of times while the update is armed, and the update   *)
(* is disarmed only on top of the complete new image.                      *)
(*                                                                         *)
(* The one thing that can void the promise is the loss of the downloaded   *)
(* image while the update is armed; nothing is promised after that.        *)
(***************************************************************************)

VARIABLES
  image,   \* the image the device would run: "old", "new" or "none" (not whole)
  armed,   \* an update is pending
  lost     \* the downloaded image was destroyed under an armed update

vars == <<image, armed, lost>>

Init == image = "old" /\ armed = FALSE /\ lost = FALSE

Arm == ~armed /\ image # "none" /\ armed' = TRUE /\ image' = image

Break == armed /\ image' = "none" /\ armed' = armed

Install == armed /\ image = "none" /\ image' = "new" /\ armed' = armed

Commit == armed /\ image = "new" /\ armed' = FALSE /\ image' = image

(* The installed image is the one the next update starts from. *)
Rebase == ~armed /\ image = "new" /\ image' = "old" /\ armed' = armed

Promised == ~lost /\ ~lost' /\ (Arm \/ Break \/ Install \/ Commit \/ Rebase)

Lose == armed /\ lost' /\ UNCHANGED <<image, armed>>

Anything == lost /\ lost'

Next == Promised \/ Lose \/ Anything

Spec == Init /\ [][Next]_vars
=============================================================================
