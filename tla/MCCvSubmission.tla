--------------------------- MODULE MCCvSubmission ---------------------------
(***************************************************************************)
(* One check and two deliveries of one merge event.                        *)
(***************************************************************************)
EXTENDS CvSubmission

CONSTANTS webhook, retry

MCDelivery == {webhook, retry}
===============================================================================
