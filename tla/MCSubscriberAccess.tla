------------------------- MODULE MCSubscriberAccess -------------------------
(* Instances of SubscriberAccess for TLC. *)
EXTENDS SubscriberAccess

\* The forms of an instance.
BothForms == {"plain", "commissioning"}
CommissioningOnly == {"commissioning"}
=============================================================================
