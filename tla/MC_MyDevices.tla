----------------------------- MODULE MC_MyDevices -----------------------------
(* Model values for checking MyDevices with TLC.                           *)
EXTENDS MyDevices, TLC

CONSTANTS b1, b2, b3, d1

(* Frames of one or two records of distinct sensors.                      *)
MCFrames == {<<a>> : a \in {b1, b2, b3}}
                \cup {<<a, b>> \in {b1, b2, b3} \X {b1, b2, b3} : a # b}

=============================================================================
