-------------------------- MODULE MCSmsFulfillment --------------------------
(* A verification, or a rental and its extension, with one handler beside the *)
(* two workers.                                                              *)
EXTENDS SmsFulfillment

CONSTANTS sms, rental, extension, h1

OneVerification == {sms}
OneRental == {rental}
OneExtension == {extension}
OneHandler == {h1}

\* A verification and a rental share nothing but the workers' time: one of the
\* two is placed.
OneProduct == status[sms] = "none" \/ status[rental] = "none"
=============================================================================
