------------------------- MODULE CheckoutGateClaims -------------------------
(***************************************************************************)
(* What the documentation says of a checkout's token and CheckoutGate      *)
(* shows the code not to ask for.                                          *)
(***************************************************************************)
EXTENDS CheckoutGate

\* docs/how-it-works.md: checkouts "require an admission token issued only when
\* you're actually admitted".  Every token that has opened a checkout is one
\* that Status issued.
CheckoutNeedsAdmission ==
    \A t \in Tokens : uses[t] # 0 => token[t].kind = "admission"

=============================================================================
